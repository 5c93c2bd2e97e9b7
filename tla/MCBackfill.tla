----------------------------- MODULE MCBackfill -----------------------------
(***************************************************************************)
(* Values of Backfill's constants for TLC.                                 *)
(***************************************************************************)
EXTENDS Backfill

\* Every fault but the loss of an event, which HeightsCovered excludes.
AllButLostEvents == FaultKinds \ {"event"}
=============================================================================
