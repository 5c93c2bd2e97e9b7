---------------------------- MODULE SourceChain ----------------------------
(***************************************************************************)
(* The blockchain a processor reads, as its RPC endpoints present it.      *)
(* None of this is code of the repository: it is modelled from what        *)
(* internal/chain/client.go asks of an endpoint (BlockNumber,              *)
(* HeaderByNumber, FilterLogs).                                            *)
(*                                                                         *)
(* A block is identified by its height and its branch.  A reorganisation   *)
(* gives every block it replaces a branch number never used before, so     *)
(* within one height two blocks have the same hash exactly when they have  *)
(* the same branch number, and the parent hash of the block at height h is *)
(* the branch number at height h - 1.                                      *)
(***************************************************************************)
EXTENDS Integers

CONSTANTS
  MaxHeight,      \* bound: the chain stops growing at this height
  MaxReorgs,      \* bound: number of reorganisations in a behaviour
  MaxReorgDepth   \* a reorganisation replaces at most this many blocks

ASSUME ChainAssumption ==
  /\ MaxHeight \in Nat
  /\ MaxReorgs \in Nat
  /\ MaxReorgDepth \in Nat

VARIABLES
  head,   \* height of the newest block
  branch  \* branch[h]: which block is canonical at height h

chainVars == <<head, branch>>

Heights  == 0..MaxHeight
Branches == 0..MaxReorgs

ChainTypeOK ==
  /\ head \in Heights
  /\ branch \in [Heights -> Branches]

ChainInit ==
  /\ head = 0
  /\ branch = [h \in Heights |-> 0]

\* A block is appended to the current branch.
Grow ==
  /\ head < MaxHeight
  /\ head' = head + 1
  /\ branch' = [branch EXCEPT ![head + 1] = branch[head]]

\* The newest d blocks are replaced by as many blocks of a new branch.  A node
\* only leaves its branch for one that is at least as long.
Reorg ==
  \E d \in 1..MaxReorgDepth :
    /\ d <= head
    /\ branch[head] < MaxReorgs
    /\ branch' = [h \in Heights |-> IF head - d < h /\ h <= head
                                    THEN branch[head] + 1
                                    ELSE branch[h]]
    /\ UNCHANGED head
=============================================================================
