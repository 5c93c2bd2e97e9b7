\* One protocol, batches of at most two blocks: every block's hash is recorded.
\* Deep reorganisations, but never during a batch.
CONSTANTS
  MaxHeight = 6
  MaxReorgs = 2
  MaxReorgDepth = 4
  Protocols = {lz}
  Addressed = {lz}
  BatchSize = 2
  MaxBlockRange = 1
  ConfirmationDepth = 1
  PruneDepth = 2
  MaxLag = 0
  RacyReorgs = FALSE
  Faults <- HashesComplete
SPECIFICATION Spec
INVARIANT ReorgDetectable
