\* Two protocols of one chain, one of them without a contract on it; a block with
\* one confirmation is final.  Every fault but a lost event.
CONSTANTS
  MaxHeight = 5
  MaxReorgs = 1
  MaxReorgDepth = 1
  Protocols = {lz, wh}
  Addressed = {lz}
  BatchSize = 3
  MaxBlockRange = 1
  ConfirmationDepth = 1
  PruneDepth = 1
  MaxLag = 1
  RacyReorgs = TRUE
  Faults <- AllButLostEvents
SPECIFICATION Spec
INVARIANTS TypeOK HeightsCovered ConfirmedPrefixIndexed OnlyConfirmedIndexed
PROPERTY NeverRewinds
