---------------------------- MODULE MCHistorical ----------------------------
(***************************************************************************)
(* Messages for Archiver and Historical.                                   *)
(***************************************************************************)
EXTENDS Historical

\* Two messages of one month, both of the first pair.
TwoMessages == {"a", "b"}
FirstPair   == [a |-> 1, b |-> 1]
FirstMonth  == [a |-> 1, b |-> 1]
=============================================================================
