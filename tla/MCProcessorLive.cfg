\* Two protocols rewinding under one another, one of them without a contract on
\* the chain; reorganisations deeper than the confirmation depth at any time;
\* RPC calls and writes that fail over and over.
CONSTANTS
  MaxHeight = 3
  MaxReorgs = 1
  MaxReorgDepth = 2
  Protocols = {lz, wh}
  Addressed = {lz}
  BatchSize = 2
  MaxBlockRange = 1
  ConfirmationDepth = 1
  PruneDepth = 1
  MaxLag = 0
  RacyReorgs = TRUE
  Faults = {"rpc", "write"}
SPECIFICATION FairSpec
INVARIANTS HeightsCovered OnlyConfirmedIndexed
PROPERTY CatchesUp
