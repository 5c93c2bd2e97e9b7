\* A batch of three blocks leaves the one in the middle unrecorded.
CONSTANTS
  MaxHeight = 5
  MaxReorgs = 1
  MaxReorgDepth = 3
  Protocols = {lz}
  Addressed = {lz}
  BatchSize = 3
  MaxBlockRange = 3
  ConfirmationDepth = 1
  PruneDepth = 5
  MaxLag = 0
  RacyReorgs = FALSE
  Faults = {}
SPECIFICATION Spec
PROPERTY RewindsToCommonAncestor
