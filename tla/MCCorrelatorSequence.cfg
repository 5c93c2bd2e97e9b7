\* Wormhole's sequence is looked for in the nonce column, which holds 0.
CONSTANTS
  MessageIds = {"v1"}
  Senders = {"app"}
  Chains = {1, 2}
  MaxTime = 2
  MaxNonce = 1
  Workers <- Sequence1Workers
  Events <- Sequence1
  Faults = {}
SPECIFICATION Spec
PROPERTY DeliveryRecorded
