\* Two goroutines that share a Client of two endpoints.
CONSTANTS
  Chains <- OneChain
  URLs <- SharedURLs
  Endpoints <- ArbEndpoints
  Reliable = {}
  Callers = {"c2", "c3"}
  Main = "main"
  ChainOf <- TwoOnArb
  MaxRetries = 3
SPECIFICATION Spec
INVARIANT NextAttemptElsewhere
CHECK_DEADLOCK FALSE
