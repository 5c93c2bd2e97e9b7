---------------------------- MODULE MCProcessor -----------------------------
(***************************************************************************)
(* Values of Processor's constants for TLC.                                *)
(***************************************************************************)
EXTENDS Processor

\* Every fault but the loss of an event, which HeightsCovered excludes.
AllButLostEvents == FaultKinds \ {"event"}

\* Faults that leave block_hashes complete: a hash that could not be fetched or
\* stored is not missed (processor.go:195), and ReorgDetectable is lost.
HashesComplete == {"read", "cancel", "crash"}
=============================================================================
