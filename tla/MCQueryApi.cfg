\* Three messages written by three workers that may start over at any time, read
\* by a client that walks a list, or by two requests for statistics.
CONSTANTS
  MessageIds = {"l1", "l2", "a1"}
  Senders = {"alice", "bob"}
  Chains = {1, 2}
  MaxTime = 2
  MaxNonce = 2
  Workers <- LogWorkers
  Events <- Logs
  Faults = {"event"}
  MaxClock = 1
  Rank <- IdRank
  ReceiverOf <- Receivers
  Filters <- WalkFilters
  Limits = {1, 5}
  MaxLimit = 2
  Requests <- StatsRequests
  Asks <- AskedStats
  Workloads <- SomeRequests
  TTL = 1
  MaxQuery = 1
  MaxNow = 2
SPECIFICATION ApiSpec
INVARIANTS ApiTypeOK NoRepeats WalkComplete TraceTellsOutcome ServedFresh AnswersOwnFilter ExecutedAreSampled RoutesConcluded
