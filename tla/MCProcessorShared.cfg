\* A second protocol, without a contract on the chain, rewinds and deletes the
\* records the first one needs.
CONSTANTS
  MaxHeight = 4
  MaxReorgs = 1
  MaxReorgDepth = 2
  Protocols = {lz, wh}
  Addressed = {lz}
  BatchSize = 1
  MaxBlockRange = 1
  ConfirmationDepth = 1
  PruneDepth = 5
  MaxLag = 0
  RacyReorgs = FALSE
  Faults = {}
SPECIFICATION Spec
INVARIANT ReorgDetectable
