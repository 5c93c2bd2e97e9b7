\* One protocol, indexed and backfilled at once; every fault but a lost event;
\* a block with one confirmation is final.
CONSTANTS
  MaxHeight = 3
  MaxReorgs = 1
  MaxReorgDepth = 1
  Protocols = {lz}
  Addressed = {lz}
  BatchSize = 2
  MaxBlockRange = 1
  ConfirmationDepth = 1
  PruneDepth = 1
  MaxLag = 1
  RacyReorgs = TRUE
  Faults <- AllButLostEvents
  Reindexing = TRUE
SPECIFICATION BackfillFairSpec
INVARIANTS BackfillTypeOK HeightsCovered ConfirmedPrefixIndexed RangeCovered
PROPERTIES NearRangeOnly BackfillEnds
