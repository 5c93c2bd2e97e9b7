\* Two chains: one with more endpoints than attempts, read by one goroutine, and
\* one that two goroutines read.  The Manager stops when it is closed.
CONSTANTS
  Chains <- TwoChains
  URLs <- TwoURLLists
  Endpoints <- FiveEndpoints
  Reliable = {"e3"}
  Callers = {"c1", "c2", "c3"}
  Main = "main"
  ChainOf <- OneOnEth
  MaxRetries = 2
SPECIFICATION FairSpec
INVARIANTS TypeOK NoEndpointLost ConnectionsKept LoneCallerTriesAll
PROPERTIES LoneCallerAnswered
CHECK_DEADLOCK FALSE
