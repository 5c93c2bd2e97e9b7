\* A rewind leaves the messages of the orphaned blocks.
CONSTANTS
  MaxHeight = 4
  MaxReorgs = 1
  MaxReorgDepth = 2
  Protocols = {lz}
  Addressed = {lz}
  BatchSize = 1
  MaxBlockRange = 1
  ConfirmationDepth = 1
  PruneDepth = 5
  MaxLag = 0
  RacyReorgs = FALSE
  Faults = {}
SPECIFICATION Spec
PROPERTY OrphansInvalidated
