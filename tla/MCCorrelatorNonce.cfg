\* LayerZero's nonce counts per path, not per sender.
CONSTANTS
  MessageIds = {"g1", "g2"}
  Senders = {"app"}
  Chains = {1, 3}
  MaxTime = 2
  MaxNonce = 1
  Workers <- SameNonceWorkers
  Events <- SameNonce
  Faults = {}
SPECIFICATION Spec
INVARIANT DeliveredOnlyOwn
