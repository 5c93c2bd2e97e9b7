\* Nothing fails, and no signal comes.
CONSTANTS
  MaxHeight = 3
  MaxReorgs = 1
  MaxReorgDepth = 1
  Protocols = {lz}
  Addressed = {lz}
  BatchSize = 2
  MaxBlockRange = 1
  ConfirmationDepth = 1
  PruneDepth = 1
  MaxLag = 1
  RacyReorgs = TRUE
  Faults = {}
  Reindexing = TRUE
SPECIFICATION BackfillSpec
INVARIANT ExitTellsOutcome
