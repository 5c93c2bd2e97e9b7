\* The context is cancelled during a batch.
CONSTANTS
  MaxHeight = 3
  MaxReorgs = 0
  MaxReorgDepth = 1
  Protocols = {lz}
  Addressed = {lz}
  BatchSize = 2
  MaxBlockRange = 1
  ConfirmationDepth = 1
  PruneDepth = 5
  MaxLag = 0
  RacyReorgs = TRUE
  Faults = {"cancel"}
SPECIFICATION Spec
PROPERTY BatchCompletedOnShutdown
