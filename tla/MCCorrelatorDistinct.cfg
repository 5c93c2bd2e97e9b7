\* Six workers, three messages, keys that tell messages apart.  Any worker may
\* start over at any time; any block's time may not be to be had.
CONSTANTS
  MessageIds = {"g1", "g2", "c1"}
  Senders = {"app", "user"}
  Chains = {1, 2, 3}
  MaxTime = 3
  MaxNonce = 2
  Workers <- DistinctWorkers
  Events <- Distinct
  Faults = {"timestamp"}
SPECIFICATION Spec
INVARIANTS TypeOK EventsReflected LatencyConsistent DeliveredOnlyOwn
PROPERTIES ImplementsLifecycle DeliveryRecorded
