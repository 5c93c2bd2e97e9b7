-------------------------- MODULE ProcessorProofs --------------------------
(***************************************************************************)
(* Theorems about Processor, for every number of protocols and blocks,     *)
(* every batch size, chunk size and confirmation depth.                    *)
(***************************************************************************)
EXTENDS Processor, TLAPS

(***************************************************************************)
(* The inductive invariants                                                *)
(***************************************************************************)

InBatch   == {"fetch", "process", "save", "prune", "commit"}
InWalk    == {"walkStored", "walkHeader"}

\* Where the local variables of a processor stand at each of its calls.
Shape(p) ==
  /\ pc[p] \in InBatch => p \in Addressed
  /\ pc[p] \in InBatch \cup {"check", "header", "skip"} => cursor[p] < to[p]
  /\ pc[p] = "skip" => p \notin Addressed
  /\ pc[p] \in {"fetch", "process", "save"} => cursor[p] < at[p] /\ at[p] <= to[p]
  /\ pc[p] = "save" => logs[p] = {}
  /\ pc[p] \in InWalk => 0 < at[p]
  /\ pc[p] \in InWalk \cup {"rewind"} => at[p] <= cursor[p]

\* No cursor, batch or log goes beyond the confirmed head.
Bounded(p) ==
  /\ cursors[p] <= Confirmed(head)
  /\ cursor[p] <= Confirmed(head)
  /\ to[p] <= Confirmed(head)
  /\ \A log \in indexed[p] \cup logs[p] : log[1] <= Confirmed(head)

ShapeInv == TypeOK /\ \A p \in Protocols : Shape(p) /\ Bounded(p)

\* A log of height h is indexed; or it is at least in hand.
Indexed(p, h) == \E b \in Branches : <<h, b>> \in indexed[p]
InHand(p, h)  == \E b \in Branches : <<h, b>> \in indexed[p] \cup logs[p]

\* Where the logs of the current batch are.  Once the context is cancelled logs
\* are dropped, but then the cursor cannot be written either.
Coverage(p) ==
  /\ \A h \in 1..cursors[p] : Indexed(p, h)
  /\ \A h \in 1..cursor[p] : Indexed(p, h)
  /\ pc[p] = "fetch" => \A h \in cursor[p] + 1 .. at[p] - 1 : InHand(p, h)
  /\ pc[p] = "process" /\ ~cancelled =>
       \A h \in cursor[p] + 1 .. to[p] : InHand(p, h)
  /\ pc[p] \in {"save", "prune", "commit"} /\ ~cancelled =>
       \A h \in cursor[p] + 1 .. to[p] : Indexed(p, h)

CoverageInv == \A p \in Addressed : Coverage(p)

\* If confirmed blocks are final, everything recorded is canonical, and no
\* processor sees a reorganisation.
Canonical(p) ==
  /\ \A log \in indexed[p] \cup logs[p] : log[2] = branch[log[1]]
  /\ pc[p] = "header" => seen[p] = branch[cursor[p]]
  /\ pc[p] = "save" => seen[p] = branch[at[p]]
  /\ pc[p] \notin InWalk \cup {"rewind", "delete"}
  /\ pc[p] \notin {"load", "stopped"} => cursor[p] = cursors[p]

RecordsCanonical ==
  \A h \in Heights : hashes[h] # NoHash => /\ h <= Confirmed(head)
                                           /\ hashes[h] = branch[h]

FinalityInv == RecordsCanonical /\ \A p \in Protocols : Canonical(p)

(***************************************************************************)
(* Heights and the confirmed head                                          *)
(***************************************************************************)

\* Heights are the naturals up to MaxHeight.
LEMMA HeightFacts ==
  /\ MaxHeight \in Nat /\ 0 \in Heights
  /\ \A h \in Heights : h \in Nat /\ h <= MaxHeight
  /\ \A n \in Nat : n <= MaxHeight => n \in Heights
BY ChainAssumption DEF Heights

\* LatestConfirmedBlock never exceeds the head and never turns negative.
LEMMA ConfirmedFacts == \A n \in Nat : Confirmed(n) \in Nat /\ Confirmed(n) <= n
BY ProcessorAssumption DEF Confirmed

\* A higher head confirms no fewer blocks.
LEMMA ConfirmedMonotonic ==
  \A m, n \in Nat : m <= n => Confirmed(m) <= Confirmed(n)
BY ProcessorAssumption DEF Confirmed

\* The head is a natural number.
LEMMA HeadIsNat == ASSUME TypeOK PROVE head \in Nat /\ Confirmed(head) \in Nat
<1>1. head \in Nat
  BY HeightFacts DEF TypeOK, ChainTypeOK
<1>2. QED
  BY <1>1, ConfirmedFacts

\* A batch is not empty, not over its size, and confirmed, however far the
\* endpoint trails the head.
LEMMA PolledBatch ==
  ASSUME TypeOK, NEW p \in Protocols, PollHead(p)
  PROVE  /\ to' = [to EXCEPT ![p] = to'[p]] /\ to'[p] \in Heights
         /\ cursor[p] < to'[p] /\ to'[p] <= cursor[p] + BatchSize
         /\ to'[p] <= Confirmed(head)
<1>1. head \in Nat /\ head <= MaxHeight /\ cursor[p] \in Nat
  BY HeightFacts DEF TypeOK, ChainTypeOK
<1>2. \A lag \in 0..Minimum(MaxLag, head) :
        /\ Confirmed(head - lag) \in Nat /\ Confirmed(head - lag) <= MaxHeight
        /\ Confirmed(head - lag) <= Confirmed(head)
  <2>1. \A lag \in 0..Minimum(MaxLag, head) : head - lag \in Nat /\ head - lag <= head
    BY <1>1, ProcessorAssumption DEF Minimum
  <2>2. \A n \in Nat : n <= head =>
          /\ Confirmed(n) \in Nat /\ Confirmed(n) <= MaxHeight
          /\ Confirmed(n) <= Confirmed(head)
    BY <1>1, ConfirmedFacts, ConfirmedMonotonic, HeightFacts
  <2>3. QED
    BY <2>1, <2>2
<1>3. PICK n \in Nat :
        /\ n <= MaxHeight /\ n <= Confirmed(head) /\ cursor[p] < n
        /\ to' = [to EXCEPT ![p] = Minimum(cursor[p] + BatchSize, n)]
  BY <1>2 DEF PollHead
<1> DEFINE m == Minimum(cursor[p] + BatchSize, n)
<1>4. to' = [to EXCEPT ![p] = m] /\ to'[p] = m
  BY <1>3 DEF TypeOK
<1>5. Confirmed(head) \in Nat
  BY HeadIsNat
<1>6. /\ m \in Nat /\ m <= MaxHeight /\ cursor[p] < m
      /\ m <= cursor[p] + BatchSize /\ m <= Confirmed(head)
  BY <1>1, <1>3, <1>5, HeightFacts, ProcessorAssumption DEF Minimum
<1> HIDE DEF m
<1>7. QED
  BY <1>3, <1>4, <1>6, HeightFacts

(***************************************************************************)
(* A step of a processor                                                   *)
(***************************************************************************)

\* What a step of processor p leaves alone: the chain, the context, and all
\* that belongs to the other processors (block_hashes belongs to none).
OnlyOwnState(p) ==
  /\ head' = head /\ branch' = branch /\ cancelled' = cancelled
  /\ \A q \in Protocols \ {p} :
       /\ cursors'[q] = cursors[q] /\ indexed'[q] = indexed[q]
       /\ pc'[q] = pc[q] /\ cursor'[q] = cursor[q]
       /\ to'[q] = to[q] /\ at'[q] = at[q]
       /\ seen'[q] = seen[q] /\ logs'[q] = logs[q]

\* Processors touch their own rows and variables only.
LEMMA ProcessFrame ==
  ASSUME TypeOK, NEW p \in Protocols, ProcessChain(p)
  PROVE  OnlyOwnState(p)
<1>1. CASE LoadCursor(p)
    BY <1>1 DEF LoadCursor, TypeOK, OnlyOwnState, Goto, Leave, chainVars,
       dbVars, batchVars
<1>2. CASE LoadFails(p)
    BY <1>2 DEF LoadFails, TypeOK, OnlyOwnState, Goto, Leave, chainVars,
       dbVars, batchVars
<1>3. CASE PollHead(p)
    BY <1>3 DEF PollHead, TypeOK, OnlyOwnState, Goto, Leave, chainVars,
       dbVars, batchVars
<1>4. CASE ShutDown(p)
    BY <1>4 DEF ShutDown, TypeOK, OnlyOwnState, Goto, Leave, chainVars,
       dbVars, batchVars
<1>5. CASE ReadStoredHash(p)
    BY <1>5 DEF ReadStoredHash, NoReorg, TypeOK, OnlyOwnState, Goto, Leave,
       chainVars, dbVars, batchVars
<1>6. CASE CompareParent(p)
    BY <1>6 DEF CompareParent, NoReorg, TypeOK, OnlyOwnState, Goto, Leave,
       chainVars, dbVars, batchVars
<1>7. CASE WalkStored(p)
    BY <1>7 DEF WalkStored, TypeOK, OnlyOwnState, Goto, Leave, chainVars,
       dbVars, batchVars
<1>8. CASE WalkHeader(p)
    BY <1>8 DEF WalkHeader, TypeOK, OnlyOwnState, Goto, Leave, chainVars,
       dbVars, batchVars
<1>9. CASE EndWalk(p)
    BY <1>9 DEF EndWalk, TypeOK, OnlyOwnState, Goto, Leave, chainVars, dbVars,
       batchVars
<1>10. CASE RewindCursor(p)
    BY <1>10 DEF RewindCursor, TypeOK, OnlyOwnState, Goto, Leave, chainVars,
       dbVars, batchVars
<1>11. CASE RewindFails(p)
    BY <1>11 DEF RewindFails, TypeOK, OnlyOwnState, Goto, Leave, chainVars,
       dbVars, batchVars
<1>12. CASE DeleteHashes(p)
    BY <1>12 DEF DeleteHashes, TypeOK, OnlyOwnState, Goto, Leave, chainVars,
       dbVars, batchVars
<1>13. CASE FetchChunk(p)
    BY <1>13 DEF FetchChunk, TypeOK, OnlyOwnState, Goto, Leave, chainVars,
       dbVars, batchVars
<1>14. CASE ProcessLog(p)
    BY <1>14 DEF ProcessLog, TypeOK, OnlyOwnState, Goto, Leave, chainVars,
       dbVars, batchVars
<1>15. CASE LoseLog(p)
    BY <1>15 DEF LoseLog, TypeOK, OnlyOwnState, Goto, Leave, chainVars,
       dbVars, batchVars
<1>16. CASE FetchBoundaryHeader(p)
    BY <1>16 DEF FetchBoundaryHeader, TypeOK, OnlyOwnState, Goto, Leave,
       chainVars, dbVars, batchVars
<1>17. CASE SaveHash(p)
    BY <1>17 DEF SaveHash, TypeOK, OnlyOwnState, Goto, Leave, chainVars,
       dbVars, batchVars
<1>18. CASE HashNotStored(p)
    BY <1>18 DEF HashNotStored, TypeOK, OnlyOwnState, Goto, Leave, chainVars,
       dbVars, batchVars
<1>19. CASE Prune(p)
    BY <1>19 DEF Prune, TypeOK, OnlyOwnState, Goto, Leave, chainVars, dbVars,
       batchVars
<1>20. CASE Commit(p)
    BY <1>20 DEF Commit, TypeOK, OnlyOwnState, Goto, Leave, chainVars, dbVars,
       batchVars
<1>21. CASE CommitFails(p)
    BY <1>21 DEF CommitFails, TypeOK, OnlyOwnState, Goto, Leave, chainVars,
       dbVars, batchVars
<1>22. CASE RetryBatch(p)
    BY <1>22 DEF RetryBatch, TypeOK, OnlyOwnState, Goto, Leave, chainVars,
       dbVars, batchVars
<1>23. QED
  BY <1>1, <1>2, <1>3, <1>4, <1>5, <1>6, <1>7, <1>8, <1>9, <1>10, <1>11,
     <1>12, <1>13, <1>14, <1>15, <1>16, <1>17, <1>18, <1>19, <1>20, <1>21,
     <1>22 DEF ProcessChain, CheckReorg, Batch

\* Every step of a processor is well typed.
LEMMA TypeProcess ==
  ASSUME TypeOK, NEW p \in Protocols, Shape(p), ProcessChain(p)
  PROVE  TypeOK'
<1>1. CASE LoadCursor(p)
    BY <1>1, HeightFacts DEF LoadCursor, TypeOK, ChainTypeOK, Labels, Goto,
       Leave, chainVars, dbVars, batchVars
<1>2. CASE LoadFails(p)
    BY <1>2, HeightFacts DEF LoadFails, TypeOK, ChainTypeOK, Labels, Goto,
       Leave, chainVars, dbVars, batchVars
<1>3. CASE PollHead(p)
  BY <1>3, PolledBatch
     DEF PollHead, Goto, chainVars, dbVars, TypeOK, ChainTypeOK, Labels
<1>4. CASE ShutDown(p)
    BY <1>4, HeightFacts DEF ShutDown, TypeOK, ChainTypeOK, Labels, Goto,
       Leave, chainVars, dbVars, batchVars
<1>5. CASE ReadStoredHash(p)
  <2>0. cursor[p] < to[p]
    BY <1>5 DEF ReadStoredHash, Shape
  <2>1. cursor[p] + 1 \in Heights
    BY <2>0, HeightFacts DEF TypeOK
  <2>2. QED
    BY <1>5, <2>1, HeightFacts
       DEF ReadStoredHash, NoReorg, Goto, chainVars, dbVars, TypeOK, ChainTypeOK,
       Labels
<1>6. CASE CompareParent(p)
  <2>0. cursor[p] < to[p]
    BY <1>6 DEF CompareParent, Shape
  <2>1. cursor[p] + 1 \in Heights
    BY <2>0, HeightFacts DEF TypeOK
  <2>2. QED
    BY <1>6, <2>1, HeightFacts
       DEF CompareParent, NoReorg, Goto, chainVars, dbVars, TypeOK, ChainTypeOK,
       Labels
<1>7. CASE WalkStored(p)
    BY <1>7, HeightFacts DEF WalkStored, TypeOK, ChainTypeOK, Labels, Goto,
       Leave, chainVars, dbVars, batchVars
<1>8. CASE WalkHeader(p)
  <2>1. 0 < at[p]
    BY <1>8 DEF WalkHeader, Shape, InWalk
  <2>2. QED
    BY <1>8, <2>1, HeightFacts
       DEF WalkHeader, Goto, chainVars, dbVars, TypeOK, ChainTypeOK, Labels
<1>9. CASE EndWalk(p)
    BY <1>9, HeightFacts DEF EndWalk, TypeOK, ChainTypeOK, Labels, Goto,
       Leave, chainVars, dbVars, batchVars
<1>10. CASE RewindCursor(p)
    BY <1>10, HeightFacts DEF RewindCursor, TypeOK, ChainTypeOK, Labels, Goto,
       Leave, chainVars, dbVars, batchVars
<1>11. CASE RewindFails(p)
    BY <1>11, HeightFacts DEF RewindFails, TypeOK, ChainTypeOK, Labels, Goto,
       Leave, chainVars, dbVars, batchVars
<1>12. CASE DeleteHashes(p)
    BY <1>12, HeightFacts DEF DeleteHashes, TypeOK, ChainTypeOK, Labels, Goto,
       Leave, chainVars, dbVars, batchVars
<1>13. CASE FetchChunk(p)
  <2>1. cursor[p] < to[p] /\ at[p] <= to[p]
    BY <1>13 DEF FetchChunk, Shape, InBatch
  <2>2. QED
    BY <1>13, <2>1, HeightFacts, ProcessorAssumption
       DEF FetchChunk, Minimum, Logs, Goto, chainVars, dbVars, TypeOK,
       ChainTypeOK, Labels
<1>14. CASE ProcessLog(p)
    BY <1>14, HeightFacts DEF ProcessLog, TypeOK, ChainTypeOK, Labels, Goto,
       Leave, chainVars, dbVars, batchVars
<1>15. CASE LoseLog(p)
    BY <1>15, HeightFacts DEF LoseLog, TypeOK, ChainTypeOK, Labels, Goto,
       Leave, chainVars, dbVars, batchVars
<1>16. CASE FetchBoundaryHeader(p)
    BY <1>16, HeightFacts DEF FetchBoundaryHeader, TypeOK, ChainTypeOK,
       Labels, Goto, Leave, chainVars, dbVars, batchVars
<1>17. CASE SaveHash(p)
    BY <1>17, HeightFacts DEF SaveHash, TypeOK, ChainTypeOK, Labels, Goto,
       Leave, chainVars, dbVars, batchVars
<1>18. CASE HashNotStored(p)
    BY <1>18, HeightFacts DEF HashNotStored, TypeOK, ChainTypeOK, Labels,
       Goto, Leave, chainVars, dbVars, batchVars
<1>19. CASE Prune(p)
    BY <1>19, HeightFacts DEF Prune, TypeOK, ChainTypeOK, Labels, Goto, Leave,
       chainVars, dbVars, batchVars
<1>20. CASE Commit(p)
    BY <1>20, HeightFacts DEF Commit, TypeOK, ChainTypeOK, Labels, Goto,
       Leave, chainVars, dbVars, batchVars
<1>21. CASE CommitFails(p)
    BY <1>21, HeightFacts DEF CommitFails, TypeOK, ChainTypeOK, Labels, Goto,
       Leave, chainVars, dbVars, batchVars
<1>22. CASE RetryBatch(p)
    BY <1>22, HeightFacts DEF RetryBatch, TypeOK, ChainTypeOK, Labels, Goto,
       Leave, chainVars, dbVars, batchVars
<1>23. QED
  BY <1>1, <1>2, <1>3, <1>4, <1>5, <1>6, <1>7, <1>8, <1>9, <1>10, <1>11,
     <1>12, <1>13, <1>14, <1>15, <1>16, <1>17, <1>18, <1>19, <1>20, <1>21,
     <1>22 DEF ProcessChain, CheckReorg, Batch

\* A step of a processor keeps its local variables in shape.
LEMMA ShapeProcess ==
  ASSUME TypeOK, TypeOK', NEW p \in Protocols, Shape(p), ProcessChain(p)
  PROVE  Shape(p)'
<1>1. CASE LoadCursor(p)
    BY <1>1, HeightFacts DEF LoadCursor, TypeOK, Shape, InBatch, InWalk, Goto,
       Leave, chainVars, dbVars, batchVars
<1>2. CASE LoadFails(p)
    BY <1>2, HeightFacts DEF LoadFails, TypeOK, Shape, InBatch, InWalk, Goto,
       Leave, chainVars, dbVars, batchVars
<1>3. CASE PollHead(p)
  BY <1>3, PolledBatch DEF PollHead, Goto, TypeOK, Shape, InBatch, InWalk
<1>4. CASE ShutDown(p)
    BY <1>4, HeightFacts DEF ShutDown, TypeOK, Shape, InBatch, InWalk, Goto,
       Leave, chainVars, dbVars, batchVars
<1>5. CASE ReadStoredHash(p)
    BY <1>5, HeightFacts DEF ReadStoredHash, NoReorg, TypeOK, Shape, InBatch,
       InWalk, Goto, Leave, chainVars, dbVars, batchVars
<1>6. CASE CompareParent(p)
    BY <1>6, HeightFacts DEF CompareParent, NoReorg, TypeOK, Shape, InBatch,
       InWalk, Goto, Leave, chainVars, dbVars, batchVars
<1>7. CASE WalkStored(p)
    BY <1>7, HeightFacts DEF WalkStored, TypeOK, Shape, InBatch, InWalk, Goto,
       Leave, chainVars, dbVars, batchVars
<1>8. CASE WalkHeader(p)
    BY <1>8, HeightFacts DEF WalkHeader, TypeOK, Shape, InBatch, InWalk, Goto,
       Leave, chainVars, dbVars, batchVars
<1>9. CASE EndWalk(p)
    BY <1>9, HeightFacts DEF EndWalk, TypeOK, Shape, InBatch, InWalk, Goto,
       Leave, chainVars, dbVars, batchVars
<1>10. CASE RewindCursor(p)
    BY <1>10, HeightFacts DEF RewindCursor, TypeOK, Shape, InBatch, InWalk,
       Goto, Leave, chainVars, dbVars, batchVars
<1>11. CASE RewindFails(p)
    BY <1>11, HeightFacts DEF RewindFails, TypeOK, Shape, InBatch, InWalk,
       Goto, Leave, chainVars, dbVars, batchVars
<1>12. CASE DeleteHashes(p)
    BY <1>12, HeightFacts DEF DeleteHashes, TypeOK, Shape, InBatch, InWalk,
       Goto, Leave, chainVars, dbVars, batchVars
<1>13. CASE FetchChunk(p)
  <2>1. p \in Addressed /\ cursor[p] < at[p] /\ at[p] <= to[p]
    BY <1>13 DEF FetchChunk, Shape, InBatch
  <2>2. cursor'[p] = cursor[p] /\ to'[p] = to[p] /\ pc'[p] \in {"fetch", "process"}
    BY <1>13 DEF FetchChunk, Goto, TypeOK
  <2>3. cursor[p] < at'[p] /\ at'[p] <= to[p]
    BY <1>13, <2>1, HeightFacts, ProcessorAssumption DEF FetchChunk, Minimum, TypeOK
  <2>4. QED
    BY <2>1, <2>2, <2>3, HeightFacts DEF Shape, InBatch, InWalk, TypeOK
<1>14. CASE ProcessLog(p)
    BY <1>14, HeightFacts DEF ProcessLog, TypeOK, Shape, InBatch, InWalk,
       Goto, Leave, chainVars, dbVars, batchVars
<1>15. CASE LoseLog(p)
    BY <1>15, HeightFacts DEF LoseLog, TypeOK, Shape, InBatch, InWalk, Goto,
       Leave, chainVars, dbVars, batchVars
<1>16. CASE FetchBoundaryHeader(p)
    BY <1>16, HeightFacts DEF FetchBoundaryHeader, TypeOK, Shape, InBatch,
       InWalk, Goto, Leave, chainVars, dbVars, batchVars
<1>17. CASE SaveHash(p)
    BY <1>17, HeightFacts DEF SaveHash, TypeOK, Shape, InBatch, InWalk, Goto,
       Leave, chainVars, dbVars, batchVars
<1>18. CASE HashNotStored(p)
    BY <1>18, HeightFacts DEF HashNotStored, TypeOK, Shape, InBatch, InWalk,
       Goto, Leave, chainVars, dbVars, batchVars
<1>19. CASE Prune(p)
    BY <1>19, HeightFacts DEF Prune, TypeOK, Shape, InBatch, InWalk, Goto,
       Leave, chainVars, dbVars, batchVars
<1>20. CASE Commit(p)
    BY <1>20, HeightFacts DEF Commit, TypeOK, Shape, InBatch, InWalk, Goto,
       Leave, chainVars, dbVars, batchVars
<1>21. CASE CommitFails(p)
    BY <1>21, HeightFacts DEF CommitFails, TypeOK, Shape, InBatch, InWalk,
       Goto, Leave, chainVars, dbVars, batchVars
<1>22. CASE RetryBatch(p)
    BY <1>22, HeightFacts DEF RetryBatch, TypeOK, Shape, InBatch, InWalk,
       Goto, Leave, chainVars, dbVars, batchVars
<1>23. QED
  BY <1>1, <1>2, <1>3, <1>4, <1>5, <1>6, <1>7, <1>8, <1>9, <1>10, <1>11,
     <1>12, <1>13, <1>14, <1>15, <1>16, <1>17, <1>18, <1>19, <1>20, <1>21,
     <1>22 DEF ProcessChain, CheckReorg, Batch

\* A chunk adds logs of its blocks as they are canonical now.
LEMMA ChunkLogs ==
  ASSUME TypeOK, NEW p \in Protocols, Shape(p), FetchChunk(p),
         NEW log \in logs'[p], log \notin logs[p]
  PROVE  /\ log[1] \in Heights /\ cursor[p] < log[1] /\ log[1] <= to[p]
         /\ log[2] = branch[log[1]]
<1> DEFINE chunkEnd == Minimum(at[p] + MaxBlockRange - 1, to[p])
           S(lag) == {x \in Heights : /\ at[p] <= x
                                      /\ x <= chunkEnd
                                      /\ x <= head - lag}
<1>1. /\ chunkEnd \in Int /\ chunkEnd <= to[p] /\ cursor[p] < at[p]
      /\ to[p] \in Nat /\ at[p] \in Nat /\ cursor[p] \in Nat
  BY HeightFacts, ProcessorAssumption DEF FetchChunk, Minimum, TypeOK, Shape
<1>2. PICK lag \in 0..Minimum(MaxLag, head) :
        logs'[p] = logs[p] \cup {<<h, branch[h]>> : h \in S(lag)}
  BY DEF FetchChunk, TypeOK
<1> HIDE DEF chunkEnd
<1>3. \A h \in S(lag) : h \in Heights /\ cursor[p] < h /\ h <= to[p]
  BY <1>1, HeightFacts
<1> HIDE DEF S
<1>4. PICK h \in S(lag) : log = <<h, branch[h]>>
  BY <1>2
<1>5. log[1] = h /\ log[2] = branch[h]
  BY <1>4
<1>6. QED
  BY <1>3, <1>5

\* If every endpoint has the confirmed blocks, a chunk lacks none of its own.
LEMMA ChunkComplete ==
  ASSUME MaxLag <= ConfirmationDepth, TypeOK, NEW p \in Protocols, Shape(p),
         to[p] <= Confirmed(head), FetchChunk(p),
         NEW h \in at[p] .. Minimum(at[p] + MaxBlockRange - 1, to[p])
  PROVE  h \in Heights /\ <<h, branch[h]>> \in logs'[p]
<1> DEFINE chunkEnd == Minimum(at[p] + MaxBlockRange - 1, to[p])
           S(lag) == {x \in Heights : /\ at[p] <= x
                                      /\ x <= chunkEnd
                                      /\ x <= head - lag}
<1>1. PICK lag \in 0..Minimum(MaxLag, head) :
        logs'[p] = logs[p] \cup {<<x, branch[x]>> : x \in S(lag)}
  BY DEF FetchChunk, TypeOK
<1>2. /\ chunkEnd \in Int /\ chunkEnd <= to[p]
      /\ to[p] \in Nat /\ to[p] <= MaxHeight
      /\ cursor[p] \in Nat /\ at[p] \in Nat /\ cursor[p] < to[p]
  BY HeightFacts, ProcessorAssumption
     DEF FetchChunk, Minimum, TypeOK, Shape, InBatch
<1>3. head \in Nat /\ lag \in Nat /\ lag <= ConfirmationDepth
  BY HeadIsNat, ProcessorAssumption DEF Minimum
<1>4. to[p] <= head - ConfirmationDepth
  BY <1>2, <1>3, ProcessorAssumption DEF Confirmed
<1>5. h \in Heights /\ at[p] <= h /\ h <= chunkEnd /\ h <= head - lag
  BY <1>2, <1>3, <1>4, HeightFacts, ProcessorAssumption
<1> HIDE DEF chunkEnd
<1>6. QED
  BY <1>1, <1>5

\* A step of a processor has no logs but those it had and those of a chunk.
LEMMA LogsProcess ==
  ASSUME TypeOK, NEW p \in Protocols, Shape(p), ProcessChain(p),
         NEW log \in indexed'[p] \cup logs'[p], log \notin indexed[p] \cup logs[p]
  PROVE  /\ log[1] \in Heights /\ cursor[p] < log[1] /\ log[1] <= to[p]
         /\ log[2] = branch[log[1]]
<1>1. CASE LoadCursor(p)
    BY <1>1 DEF LoadCursor, TypeOK, Goto, Leave, dbVars, batchVars
<1>2. CASE LoadFails(p)
    BY <1>2 DEF LoadFails, TypeOK, Goto, Leave, dbVars, batchVars
<1>3. CASE PollHead(p)
    BY <1>3 DEF PollHead, TypeOK, Goto, Leave, dbVars, batchVars
<1>4. CASE ShutDown(p)
    BY <1>4 DEF ShutDown, TypeOK, Goto, Leave, dbVars, batchVars
<1>5. CASE ReadStoredHash(p)
    BY <1>5 DEF ReadStoredHash, NoReorg, TypeOK, Goto, Leave, dbVars,
       batchVars
<1>6. CASE CompareParent(p)
    BY <1>6 DEF CompareParent, NoReorg, TypeOK, Goto, Leave, dbVars, batchVars
<1>7. CASE WalkStored(p)
    BY <1>7 DEF WalkStored, TypeOK, Goto, Leave, dbVars, batchVars
<1>8. CASE WalkHeader(p)
    BY <1>8 DEF WalkHeader, TypeOK, Goto, Leave, dbVars, batchVars
<1>9. CASE EndWalk(p)
    BY <1>9 DEF EndWalk, TypeOK, Goto, Leave, dbVars, batchVars
<1>10. CASE RewindCursor(p)
    BY <1>10 DEF RewindCursor, TypeOK, Goto, Leave, dbVars, batchVars
<1>11. CASE RewindFails(p)
    BY <1>11 DEF RewindFails, TypeOK, Goto, Leave, dbVars, batchVars
<1>12. CASE DeleteHashes(p)
    BY <1>12 DEF DeleteHashes, TypeOK, Goto, Leave, dbVars, batchVars
<1>13. CASE FetchChunk(p)
  <2>1. log \in logs'[p] /\ log \notin logs[p]
    BY <1>13 DEF FetchChunk, dbVars
  <2>2. QED
    BY <1>13, <2>1, ChunkLogs
<1>14. CASE ProcessLog(p)
    BY <1>14 DEF ProcessLog, TypeOK, Goto, Leave, dbVars, batchVars
<1>15. CASE LoseLog(p)
    BY <1>15 DEF LoseLog, TypeOK, Goto, Leave, dbVars, batchVars
<1>16. CASE FetchBoundaryHeader(p)
    BY <1>16 DEF FetchBoundaryHeader, TypeOK, Goto, Leave, dbVars, batchVars
<1>17. CASE SaveHash(p)
    BY <1>17 DEF SaveHash, TypeOK, Goto, Leave, dbVars, batchVars
<1>18. CASE HashNotStored(p)
    BY <1>18 DEF HashNotStored, TypeOK, Goto, Leave, dbVars, batchVars
<1>19. CASE Prune(p)
    BY <1>19 DEF Prune, TypeOK, Goto, Leave, dbVars, batchVars
<1>20. CASE Commit(p)
    BY <1>20 DEF Commit, TypeOK, Goto, Leave, dbVars, batchVars
<1>21. CASE CommitFails(p)
    BY <1>21 DEF CommitFails, TypeOK, Goto, Leave, dbVars, batchVars
<1>22. CASE RetryBatch(p)
    BY <1>22 DEF RetryBatch, TypeOK, Goto, Leave, dbVars, batchVars
<1>23. QED
  BY <1>1, <1>2, <1>3, <1>4, <1>5, <1>6, <1>7, <1>8, <1>9, <1>10, <1>11,
     <1>12, <1>13, <1>14, <1>15, <1>16, <1>17, <1>18, <1>19, <1>20, <1>21,
     <1>22 DEF ProcessChain, CheckReorg, Batch

\* A step of a processor stays within the confirmed head.
LEMMA BoundedProcess ==
  ASSUME TypeOK, NEW p \in Protocols, Shape(p), Bounded(p), ProcessChain(p)
  PROVE  Bounded(p)'
<1> DEFINE c == Confirmed(head)
           Within == /\ cursors'[p] <= c /\ cursor'[p] <= c /\ to'[p] <= c
                     /\ \A log \in indexed'[p] \cup logs'[p] : log[1] <= c
<1>a. c \in Nat
  BY HeadIsNat
<1>b. /\ cursors[p] <= c /\ cursor[p] <= c /\ to[p] <= c
      /\ \A log \in indexed[p] \cup logs[p] : log[1] <= c
  BY DEF Bounded
<1>f. head' = head
  BY ProcessFrame DEF OnlyOwnState
<1>g. SUFFICES Within
  BY <1>f DEF Bounded
<1> HIDE DEF c
<1>1. CASE LoadCursor(p)
    BY <1>1, <1>a, <1>b, HeightFacts DEF LoadCursor, TypeOK, Shape, InWalk,
       Goto, Leave, chainVars, dbVars, batchVars
<1>2. CASE LoadFails(p)
    BY <1>2, <1>a, <1>b, HeightFacts DEF LoadFails, TypeOK, Shape, InWalk,
       Goto, Leave, chainVars, dbVars, batchVars
<1>3. CASE PollHead(p)
  BY <1>3, <1>b, PolledBatch DEF PollHead, dbVars, c
<1>4. CASE ShutDown(p)
    BY <1>4, <1>a, <1>b, HeightFacts DEF ShutDown, TypeOK, Shape, InWalk,
       Goto, Leave, chainVars, dbVars, batchVars
<1>5. CASE ReadStoredHash(p)
    BY <1>5, <1>a, <1>b, HeightFacts DEF ReadStoredHash, NoReorg, TypeOK,
       Shape, InWalk, Goto, Leave, chainVars, dbVars, batchVars
<1>6. CASE CompareParent(p)
    BY <1>6, <1>a, <1>b, HeightFacts DEF CompareParent, NoReorg, TypeOK,
       Shape, InWalk, Goto, Leave, chainVars, dbVars, batchVars
<1>7. CASE WalkStored(p)
    BY <1>7, <1>a, <1>b, HeightFacts DEF WalkStored, TypeOK, Shape, InWalk,
       Goto, Leave, chainVars, dbVars, batchVars
<1>8. CASE WalkHeader(p)
    BY <1>8, <1>a, <1>b, HeightFacts DEF WalkHeader, TypeOK, Shape, InWalk,
       Goto, Leave, chainVars, dbVars, batchVars
<1>9. CASE EndWalk(p)
    BY <1>9, <1>a, <1>b, HeightFacts DEF EndWalk, TypeOK, Shape, InWalk, Goto,
       Leave, chainVars, dbVars, batchVars
<1>10. CASE RewindCursor(p)
    BY <1>10, <1>a, <1>b, HeightFacts DEF RewindCursor, TypeOK, Shape, InWalk,
       Goto, Leave, chainVars, dbVars, batchVars
<1>11. CASE RewindFails(p)
    BY <1>11, <1>a, <1>b, HeightFacts DEF RewindFails, TypeOK, Shape, InWalk,
       Goto, Leave, chainVars, dbVars, batchVars
<1>12. CASE DeleteHashes(p)
    BY <1>12, <1>a, <1>b, HeightFacts DEF DeleteHashes, TypeOK, Shape, InWalk,
       Goto, Leave, chainVars, dbVars, batchVars
<1>13. CASE FetchChunk(p)
  <2>1. UNCHANGED <<cursors, indexed, cursor, to>>
    BY <1>13 DEF FetchChunk, dbVars
  <2>2. \A log \in logs'[p] : log \in logs[p] \/ (log[1] \in Heights /\ log[1] <= to[p])
    BY <1>13, ChunkLogs
  <2>3. \A log \in logs'[p] : log[1] <= c
    BY <2>2, <1>a, <1>b, HeightFacts DEF TypeOK
  <2>4. QED
    BY <2>1, <2>3, <1>b
<1>14. CASE ProcessLog(p)
    BY <1>14, <1>a, <1>b, HeightFacts DEF ProcessLog, TypeOK, Shape, InWalk,
       Goto, Leave, chainVars, dbVars, batchVars
<1>15. CASE LoseLog(p)
    BY <1>15, <1>a, <1>b, HeightFacts DEF LoseLog, TypeOK, Shape, InWalk,
       Goto, Leave, chainVars, dbVars, batchVars
<1>16. CASE FetchBoundaryHeader(p)
    BY <1>16, <1>a, <1>b, HeightFacts DEF FetchBoundaryHeader, TypeOK, Shape,
       InWalk, Goto, Leave, chainVars, dbVars, batchVars
<1>17. CASE SaveHash(p)
    BY <1>17, <1>a, <1>b, HeightFacts DEF SaveHash, TypeOK, Shape, InWalk,
       Goto, Leave, chainVars, dbVars, batchVars
<1>18. CASE HashNotStored(p)
    BY <1>18, <1>a, <1>b, HeightFacts DEF HashNotStored, TypeOK, Shape,
       InWalk, Goto, Leave, chainVars, dbVars, batchVars
<1>19. CASE Prune(p)
    BY <1>19, <1>a, <1>b, HeightFacts DEF Prune, TypeOK, Shape, InWalk, Goto,
       Leave, chainVars, dbVars, batchVars
<1>20. CASE Commit(p)
    BY <1>20, <1>a, <1>b, HeightFacts DEF Commit, TypeOK, Shape, InWalk, Goto,
       Leave, chainVars, dbVars, batchVars
<1>21. CASE CommitFails(p)
    BY <1>21, <1>a, <1>b, HeightFacts DEF CommitFails, TypeOK, Shape, InWalk,
       Goto, Leave, chainVars, dbVars, batchVars
<1>22. CASE RetryBatch(p)
    BY <1>22, <1>a, <1>b, HeightFacts DEF RetryBatch, TypeOK, Shape, InWalk,
       Goto, Leave, chainVars, dbVars, batchVars
<1>23. QED
  BY <1>1, <1>2, <1>3, <1>4, <1>5, <1>6, <1>7, <1>8, <1>9, <1>10, <1>11,
     <1>12, <1>13, <1>14, <1>15, <1>16, <1>17, <1>18, <1>19, <1>20, <1>21,
     <1>22 DEF ProcessChain, CheckReorg, Batch

(***************************************************************************)
(* Type correctness and the confirmed head                                 *)
(***************************************************************************)

\* The chain's steps: heights grow, and a reorganisation keeps the head.
LEMMA ChainStepTypes ==
  ASSUME TypeOK, ChainStep
  PROVE  /\ ChainTypeOK'
         /\ Confirmed(head)' \in Nat /\ Confirmed(head) <= Confirmed(head)'
<1>1. CASE Grow
  <2>1. head + 1 \in Heights /\ head \in Nat
    BY <1>1, HeightFacts DEF Grow, TypeOK, ChainTypeOK
  <2>2. ChainTypeOK'
    BY <1>1, <2>1 DEF Grow, TypeOK, ChainTypeOK
  <2>3. Confirmed(head + 1) \in Nat /\ Confirmed(head) <= Confirmed(head + 1)
    BY <2>1, ConfirmedFacts, ConfirmedMonotonic
  <2>4. QED
    BY <1>1, <2>2, <2>3 DEF Grow
<1>2. CASE Reorg
  <2>1. branch[head] + 1 \in Branches
    <3>1. branch[head] \in Branches /\ branch[head] < MaxReorgs
      BY <1>2 DEF Reorg, TypeOK, ChainTypeOK
    <3>2. QED
      BY <3>1, ChainAssumption DEF Branches
  <2>2. ChainTypeOK'
    BY <1>2, <2>1 DEF Reorg, TypeOK, ChainTypeOK
  <2>3. Confirmed(head) \in Nat
    BY HeadIsNat
  <2>4. QED
    BY <1>2, <2>2, <2>3 DEF Reorg
<1>3. QED
  BY <1>1, <1>2 DEF ChainStep

\* Every local variable stands right at the start.
LEMMA ShapeInit == Init => ShapeInv
<1> SUFFICES ASSUME Init PROVE ShapeInv
  OBVIOUS
<1>1. TypeOK
  <2>1. 0 \in Branches
    BY ChainAssumption DEF Branches
  <2>2. QED
    BY <2>1, HeightFacts DEF Init, ChainInit, ProcessInit, TypeOK, ChainTypeOK,
       Labels
<1>2. \A p \in Protocols : Shape(p)
  BY DEF Init, ProcessInit, Shape, InBatch, InWalk
<1>3. \A p \in Protocols : Bounded(p)
  <2>1. Confirmed(head) \in Nat
    BY <1>1, HeadIsNat
  <2>2. QED
    BY <2>1 DEF Init, ProcessInit, Bounded
<1>4. QED
  BY <1>1, <1>2, <1>3 DEF ShapeInv

\* Every step keeps types, positions and bounds.
LEMMA ShapeNext == ShapeInv /\ [Next]_vars => ShapeInv'
<1> SUFFICES ASSUME ShapeInv, [Next]_vars PROVE ShapeInv'
  OBVIOUS
<1>1. TypeOK /\ \A p \in Protocols : Shape(p) /\ Bounded(p)
  BY DEF ShapeInv
<1>2. ASSUME NEW p \in Protocols, ProcessChain(p) PROVE ShapeInv'
  <2>1. TypeOK' /\ Shape(p)' /\ Bounded(p)'
    BY <1>1, <1>2, TypeProcess, ShapeProcess, BoundedProcess
  <2>2. ASSUME NEW q \in Protocols \ {p} PROVE Shape(q)' /\ Bounded(q)'
    BY <1>1, <1>2, <2>2, ProcessFrame DEF OnlyOwnState, Shape, Bounded
  <2>3. QED
    BY <2>1, <2>2 DEF ShapeInv
<1>3. CASE ChainStep
  <2>1. UNCHANGED <<dbVars, pc, cursor, batchVars, cancelled>>
    BY <1>3 DEF ChainStep
  <2>2. TypeOK'
    BY <1>1, <1>3, <2>1, ChainStepTypes DEF TypeOK, dbVars, batchVars
  <2>3. ASSUME NEW q \in Protocols PROVE Shape(q)'
    BY <1>1, <2>1 DEF Shape, dbVars, batchVars
  <2>4. ASSUME NEW q \in Protocols PROVE Bounded(q)'
    <3> DEFINE c == Confirmed(head)
               d == Confirmed(head)'
    <3>1. c \in Nat /\ d \in Nat /\ c <= d
      BY <1>1, <1>3, ChainStepTypes, HeadIsNat
    <3>2. /\ cursors[q] \in Nat /\ cursor[q] \in Nat /\ to[q] \in Nat
          /\ \A log \in indexed[q] \cup logs[q] : log[1] \in Nat
      BY <1>1, HeightFacts DEF TypeOK, Logs
    <3>3. /\ cursors[q] <= c /\ cursor[q] <= c /\ to[q] <= c
          /\ \A log \in indexed[q] \cup logs[q] : log[1] <= c
      BY <1>1 DEF Bounded
    <3> HIDE DEF c, d
    <3>4. /\ cursors[q] <= d /\ cursor[q] <= d /\ to[q] <= d
          /\ \A log \in indexed[q] \cup logs[q] : log[1] <= d
      BY <3>1, <3>2, <3>3
    <3>5. QED
      BY <2>1, <3>4 DEF Bounded, dbVars, batchVars, d
  <2>5. QED
    BY <2>2, <2>3, <2>4 DEF ShapeInv
<1>4. CASE Cancel
  BY <1>1, <1>4 DEF Cancel, ShapeInv, TypeOK, ChainTypeOK, Shape, Bounded,
     chainVars, dbVars, batchVars
<1>5. ASSUME ProcessStarts, UNCHANGED <<chainVars, dbVars>> PROVE ShapeInv'
  <2>1. TypeOK'
    BY <1>1, <1>5, HeightFacts DEF ProcessStarts, TypeOK, ChainTypeOK, Labels,
       chainVars, dbVars
  <2>2. \A q \in Protocols : Shape(q)'
    BY <1>5 DEF ProcessStarts, Shape, InBatch, InWalk
  <2>3. \A q \in Protocols : Bounded(q)'
    <3>1. Confirmed(head) \in Nat
      BY <1>1, HeadIsNat
    <3>2. QED
      BY <1>1, <1>5, <3>1 DEF ProcessStarts, Bounded, chainVars, dbVars
  <2>4. QED
    BY <2>1, <2>2, <2>3 DEF ShapeInv
<1>6. CASE UNCHANGED vars
  BY <1>1, <1>6 DEF vars, ShapeInv, TypeOK, ChainTypeOK, Shape, Bounded,
     chainVars, dbVars, batchVars
<1>7. QED
  BY <1>2, <1>3, <1>4, <1>5, <1>6 DEF Next, Restart, Crash, Sleep

\* Every variable keeps its type in every reachable state.
THEOREM TypeCorrect == Spec => []TypeOK
<1>1. ShapeInv => TypeOK
  BY DEF ShapeInv
<1>2. QED
  BY ShapeInit, ShapeNext, <1>1, PTL DEF Spec

\* Types, positions and bounds hold always.
LEMMA ShapeAlways == Spec => []ShapeInv
BY ShapeInit, ShapeNext, PTL DEF Spec

\* Whatever the batch size, the chunk size and the lag of an endpoint, and
\* however deep the reorganisations: a log is indexed only once its block has
\* ConfirmationDepth blocks on top of it.
THEOREM OnlyConfirmedIndexedHolds == Spec => []OnlyConfirmedIndexed
<1>1. ShapeInv => OnlyConfirmedIndexed
  BY DEF ShapeInv, Bounded, OnlyConfirmedIndexed
<1>2. QED
  BY ShapeAlways, <1>1, PTL

(***************************************************************************)
(* Every height up to the cursor is covered                                *)
(***************************************************************************)

\* No event is lost but by cancellation, and an endpoint has every block that
\* is confirmed.
NothingLost == "event" \notin Faults /\ MaxLag <= ConfirmationDepth

\* Messages are never removed.
LEMMA IndexedGrows ==
  ASSUME TypeOK, NEW p \in Protocols, ProcessChain(p)
  PROVE  indexed[p] \subseteq indexed'[p]
<1>1. CASE LoadCursor(p)
    BY <1>1 DEF LoadCursor, TypeOK, Goto, Leave, dbVars, batchVars
<1>2. CASE LoadFails(p)
    BY <1>2 DEF LoadFails, TypeOK, Goto, Leave, dbVars, batchVars
<1>3. CASE PollHead(p)
    BY <1>3 DEF PollHead, TypeOK, Goto, Leave, dbVars, batchVars
<1>4. CASE ShutDown(p)
    BY <1>4 DEF ShutDown, TypeOK, Goto, Leave, dbVars, batchVars
<1>5. CASE ReadStoredHash(p)
    BY <1>5 DEF ReadStoredHash, NoReorg, TypeOK, Goto, Leave, dbVars,
       batchVars
<1>6. CASE CompareParent(p)
    BY <1>6 DEF CompareParent, NoReorg, TypeOK, Goto, Leave, dbVars, batchVars
<1>7. CASE WalkStored(p)
    BY <1>7 DEF WalkStored, TypeOK, Goto, Leave, dbVars, batchVars
<1>8. CASE WalkHeader(p)
    BY <1>8 DEF WalkHeader, TypeOK, Goto, Leave, dbVars, batchVars
<1>9. CASE EndWalk(p)
    BY <1>9 DEF EndWalk, TypeOK, Goto, Leave, dbVars, batchVars
<1>10. CASE RewindCursor(p)
    BY <1>10 DEF RewindCursor, TypeOK, Goto, Leave, dbVars, batchVars
<1>11. CASE RewindFails(p)
    BY <1>11 DEF RewindFails, TypeOK, Goto, Leave, dbVars, batchVars
<1>12. CASE DeleteHashes(p)
    BY <1>12 DEF DeleteHashes, TypeOK, Goto, Leave, dbVars, batchVars
<1>13. CASE FetchChunk(p)
    BY <1>13 DEF FetchChunk, TypeOK, Goto, Leave, dbVars, batchVars
<1>14. CASE ProcessLog(p)
    BY <1>14 DEF ProcessLog, TypeOK, Goto, Leave, dbVars, batchVars
<1>15. CASE LoseLog(p)
    BY <1>15 DEF LoseLog, TypeOK, Goto, Leave, dbVars, batchVars
<1>16. CASE FetchBoundaryHeader(p)
    BY <1>16 DEF FetchBoundaryHeader, TypeOK, Goto, Leave, dbVars, batchVars
<1>17. CASE SaveHash(p)
    BY <1>17 DEF SaveHash, TypeOK, Goto, Leave, dbVars, batchVars
<1>18. CASE HashNotStored(p)
    BY <1>18 DEF HashNotStored, TypeOK, Goto, Leave, dbVars, batchVars
<1>19. CASE Prune(p)
    BY <1>19 DEF Prune, TypeOK, Goto, Leave, dbVars, batchVars
<1>20. CASE Commit(p)
    BY <1>20 DEF Commit, TypeOK, Goto, Leave, dbVars, batchVars
<1>21. CASE CommitFails(p)
    BY <1>21 DEF CommitFails, TypeOK, Goto, Leave, dbVars, batchVars
<1>22. CASE RetryBatch(p)
    BY <1>22 DEF RetryBatch, TypeOK, Goto, Leave, dbVars, batchVars
<1>23. QED
  BY <1>1, <1>2, <1>3, <1>4, <1>5, <1>6, <1>7, <1>8, <1>9, <1>10, <1>11,
     <1>12, <1>13, <1>14, <1>15, <1>16, <1>17, <1>18, <1>19, <1>20, <1>21,
     <1>22 DEF ProcessChain, CheckReorg, Batch

\* Nor does any other step remove one, or lower the confirmed head.
LEMMA NextGrows ==
  ASSUME ShapeInv, [Next]_vars
  PROVE  /\ \A p \in Protocols : indexed[p] \subseteq indexed'[p]
         /\ Confirmed(head) \in Nat /\ Confirmed(head)' \in Nat
         /\ Confirmed(head) <= Confirmed(head)'
<1>1. /\ TypeOK /\ \A p \in Protocols : Shape(p)
      /\ Confirmed(head) \in Nat
  BY HeadIsNat DEF ShapeInv
<1>2. ASSUME NEW p \in Protocols, ProcessChain(p)
      PROVE  head' = head /\ \A q \in Protocols : indexed[q] \subseteq indexed'[q]
  BY <1>1, <1>2, ProcessFrame, IndexedGrows DEF OnlyOwnState
<1>3. CASE ChainStep
  BY <1>1, <1>3, ChainStepTypes DEF ChainStep, dbVars
<1>4. CASE UNCHANGED <<chainVars, dbVars>>
  BY <1>1, <1>4 DEF chainVars, dbVars
<1>5. QED
  BY <1>1, <1>2, <1>3, <1>4 DEF Next, Cancel, Restart, Crash, Sleep, vars

\* A step of a processor keeps the logs of its batch in hand or indexed.
LEMMA CoverageProcess ==
  ASSUME NothingLost, TypeOK, NEW p \in Addressed, p \in Protocols,
         Shape(p), Bounded(p), Coverage(p), ProcessChain(p)
  PROVE  Coverage(p)'
<1>a. indexed[p] \subseteq indexed'[p]
  BY IndexedGrows
<1>b. /\ \A h : Indexed(p, h) => Indexed(p, h)'
      /\ \A h \in 1..cursors[p] : Indexed(p, h)'
      /\ \A h \in 1..cursor[p] : Indexed(p, h)'
  BY <1>a DEF Coverage, Indexed
<1>c. /\ cursors[p] \in Nat /\ cursor[p] \in Nat /\ to[p] \in Nat
      /\ at[p] \in Nat
  BY HeightFacts DEF TypeOK
<1>1. CASE LoadCursor(p)
    BY <1>1, <1>b, <1>c DEF LoadCursor, Coverage, Shape, InWalk, TypeOK, Goto,
       Leave, dbVars, batchVars
<1>2. CASE LoadFails(p)
    BY <1>2, <1>b, <1>c DEF LoadFails, Coverage, Shape, InWalk, TypeOK, Goto,
       Leave, dbVars, batchVars
<1>3. CASE PollHead(p)
    BY <1>3, <1>b, <1>c DEF PollHead, Coverage, Shape, InWalk, TypeOK, Goto,
       Leave, dbVars, batchVars
<1>4. CASE ShutDown(p)
    BY <1>4, <1>b, <1>c DEF ShutDown, Coverage, Shape, InWalk, TypeOK, Goto,
       Leave, dbVars, batchVars
<1>5. CASE ReadStoredHash(p)
    BY <1>5, <1>b, <1>c DEF ReadStoredHash, NoReorg, Coverage, Shape, InWalk,
       TypeOK, Goto, Leave, dbVars, batchVars
<1>6. CASE CompareParent(p)
    BY <1>6, <1>b, <1>c DEF CompareParent, NoReorg, Coverage, Shape, InWalk,
       TypeOK, Goto, Leave, dbVars, batchVars
<1>7. CASE WalkStored(p)
    BY <1>7, <1>b, <1>c DEF WalkStored, Coverage, Shape, InWalk, TypeOK, Goto,
       Leave, dbVars, batchVars
<1>8. CASE WalkHeader(p)
    BY <1>8, <1>b, <1>c DEF WalkHeader, Coverage, Shape, InWalk, TypeOK, Goto,
       Leave, dbVars, batchVars
<1>9. CASE EndWalk(p)
    BY <1>9, <1>b, <1>c DEF EndWalk, Coverage, Shape, InWalk, TypeOK, Goto,
       Leave, dbVars, batchVars
<1>10. CASE RewindCursor(p)
    BY <1>10, <1>b, <1>c DEF RewindCursor, Coverage, Shape, InWalk, TypeOK,
       Goto, Leave, dbVars, batchVars
<1>11. CASE RewindFails(p)
    BY <1>11, <1>b, <1>c DEF RewindFails, Coverage, Shape, InWalk, TypeOK,
       Goto, Leave, dbVars, batchVars
<1>12. CASE DeleteHashes(p)
    BY <1>12, <1>b, <1>c DEF DeleteHashes, Coverage, Shape, InWalk, TypeOK,
       Goto, Leave, dbVars, batchVars
<1>13. CASE FetchChunk(p)
  <2> DEFINE chunkEnd == Minimum(at[p] + MaxBlockRange - 1, to[p])
  <2>1. chunkEnd \in Int /\ chunkEnd <= to[p] /\ cursor[p] < at[p]
    BY <1>13, <1>c, ProcessorAssumption DEF FetchChunk, Minimum, Shape
  <2>2. \A h \in at[p]..chunkEnd : h \in Heights /\ <<h, branch[h]>> \in logs'[p]
    BY <1>13, ChunkComplete DEF NothingLost, Bounded
  <2> HIDE DEF chunkEnd
  <2>3. \A h \in at[p]..chunkEnd : InHand(p, h)'
    BY <2>2 DEF InHand, TypeOK, ChainTypeOK
  <2>4. \A h : InHand(p, h) => InHand(p, h)'
    BY <1>13, <1>a DEF FetchChunk, InHand, TypeOK
  <2>5. \A h \in cursor[p] + 1 .. chunkEnd : InHand(p, h)'
    BY <1>13, <1>c, <2>1, <2>3, <2>4 DEF FetchChunk, Coverage
  <2>6. /\ UNCHANGED <<cursors, cursor, to, cancelled>>
         /\ \/ pc'[p] = "fetch" /\ at'[p] - 1 = chunkEnd
            \/ pc'[p] = "process" /\ chunkEnd = to[p]
    BY <1>13, <1>c, <2>1 DEF FetchChunk, Goto, TypeOK, dbVars, chunkEnd
  <2>7. QED
    BY <1>b, <2>5, <2>6 DEF Coverage
<1>14. CASE ProcessLog(p)
  <2>1. \A h : InHand(p, h) => InHand(p, h)'
    BY <1>14 DEF ProcessLog, InHand, TypeOK
  <2>2. QED
    BY <1>14, <1>b, <2>1 DEF ProcessLog, Coverage
<1>15. CASE LoseLog(p)
  <2>1. cancelled
    BY <1>15 DEF LoseLog, MayFail, NothingLost
  <2>2. QED
    BY <1>15, <1>b, <2>1 DEF LoseLog, Coverage, dbVars
<1>16. CASE FetchBoundaryHeader(p)
  <2>1. \A h : InHand(p, h) => Indexed(p, h)
    BY <1>16 DEF FetchBoundaryHeader, InHand, Indexed
  <2>2. QED
    BY <1>16, <1>b, <2>1 DEF FetchBoundaryHeader, Coverage, Goto, dbVars, TypeOK
<1>17. CASE SaveHash(p)
  <2>1. \A h : Indexed(p, h)' => InHand(p, h)'
    BY DEF InHand, Indexed
  <2>2. QED
    BY <1>17, <1>b, <2>1 DEF SaveHash, Coverage, Goto, TypeOK
<1>18. CASE HashNotStored(p)
  <2>1. pc[p] = "process" => \A h : InHand(p, h) => Indexed(p, h)
    BY <1>18 DEF HashNotStored, InHand, Indexed
  <2>2. QED
    BY <1>18, <1>b, <2>1
       DEF HashNotStored, Coverage, Goto, dbVars, batchVars, TypeOK
<1>19. CASE Prune(p)
    BY <1>19, <1>b, <1>c DEF Prune, Coverage, Shape, InWalk, TypeOK, Goto,
       Leave, dbVars, batchVars
<1>20. CASE Commit(p)
  <2>1. pc[p] = "commit" /\ ~cancelled
    BY <1>20 DEF Commit, Shape
  <2>2. \A h \in 1..to[p] : Indexed(p, h)'
    BY <1>b, <1>c, <2>1 DEF Coverage
  <2>3. QED
    BY <1>20, <2>2 DEF Commit, Coverage, Leave, Goto, TypeOK
<1>21. CASE CommitFails(p)
  <2>1. pc[p] = "commit"
    BY <1>21 DEF CommitFails, Shape
  <2>2. ~cancelled => \A h \in 1..to[p] : Indexed(p, h)'
    BY <1>b, <1>c, <2>1 DEF Coverage
  <2>3. QED
    BY <1>21, <1>b, <2>2 DEF CommitFails, Coverage, Leave, Goto, TypeOK
<1>22. CASE RetryBatch(p)
    BY <1>22, <1>b, <1>c DEF RetryBatch, Coverage, Shape, InWalk, TypeOK,
       Goto, Leave, dbVars, batchVars
<1>23. QED
  BY <1>1, <1>2, <1>3, <1>4, <1>5, <1>6, <1>7, <1>8, <1>9, <1>10, <1>11,
     <1>12, <1>13, <1>14, <1>15, <1>16, <1>17, <1>18, <1>19, <1>20, <1>21,
     <1>22 DEF ProcessChain, CheckReorg, Batch

\* Before the first batch there is nothing to cover.
LEMMA CoverageInit == Init => CoverageInv
BY ProcessorAssumption DEF Init, ProcessInit, CoverageInv, Coverage

\* No step leaves a height behind the cursor without a log.
LEMMA CoverageNext ==
  ASSUME NothingLost
  PROVE  ShapeInv /\ CoverageInv /\ [Next]_vars => CoverageInv'
<1> SUFFICES ASSUME ShapeInv, CoverageInv, [Next]_vars, NEW q \in Addressed
             PROVE  Coverage(q)'
  BY DEF CoverageInv
<1>1. /\ TypeOK /\ Coverage(q) /\ q \in Protocols
      /\ \A p \in Protocols : Shape(p) /\ Bounded(p)
  BY ProcessorAssumption DEF ShapeInv, CoverageInv
<1>2. ASSUME NEW p \in Protocols, ProcessChain(p) PROVE Coverage(q)'
  <2>1. CASE p = q
    BY <1>1, <1>2, <2>1, CoverageProcess
  <2>2. CASE p # q
    BY <1>1, <1>2, <2>2, ProcessFrame
       DEF OnlyOwnState, Coverage, Indexed, InHand
  <2>3. QED
    BY <2>1, <2>2
<1>3. ASSUME UNCHANGED <<dbVars, pc, cursor, batchVars>>, cancelled => cancelled'
      PROVE  Coverage(q)'
  BY <1>1, <1>3 DEF Coverage, Indexed, InHand, dbVars, batchVars
<1>4. ASSUME ProcessStarts, UNCHANGED <<chainVars, dbVars>> PROVE Coverage(q)'
  BY <1>1, <1>4 DEF ProcessStarts, Coverage, Indexed, InHand, dbVars
<1>5. QED
  BY <1>2, <1>3, <1>4
     DEF Next, ChainStep, Cancel, Restart, Crash, Sleep, vars, dbVars, batchVars

\* No height behind the cursor is ever without a log.
LEMMA CoverageAlways ==
  ASSUME NothingLost
  PROVE  Spec => []CoverageInv
BY ShapeAlways, CoverageInit, CoverageNext, PTL DEF Spec

\* However deep the reorganisations, and whatever else fails, is cancelled or
\* crashes: every height up to the persisted cursor has been indexed.
THEOREM HeightsCoveredHolds ==
  ASSUME NothingLost
  PROVE  Spec => []HeightsCovered
<1>1. CoverageInv => HeightsCovered
  BY DEF CoverageInv, Coverage, HeightsCovered, Indexed
<1>2. QED
  BY CoverageAlways, <1>1, PTL

(***************************************************************************)
(* If confirmed blocks are final                                           *)
(***************************************************************************)

\* The confirmation depth protects the confirmed blocks.
LEMMA ConfirmedStay ==
  ASSUME MaxReorgDepth <= ConfirmationDepth, TypeOK, ChainStep,
         NEW h \in Heights, h <= Confirmed(head)
  PROVE  branch'[h] = branch[h]
<1>1. head \in Nat /\ h \in Nat /\ Confirmed(head) \in Nat
  BY HeadIsNat, HeightFacts
<1>2. CASE Grow
  <2>1. h # head + 1
    BY <1>1, ConfirmedFacts
  <2>2. QED
    BY <1>2, <2>1 DEF Grow, TypeOK, ChainTypeOK
<1>3. CASE Reorg
  <2>1. PICK d \in 1..MaxReorgDepth :
          /\ d <= head
          /\ branch' = [x \in Heights |-> IF head - d < x /\ x <= head
                                          THEN branch[head] + 1 ELSE branch[x]]
    BY <1>3 DEF Reorg
  <2>2. d \in Nat /\ d <= ConfirmationDepth
    BY ChainAssumption, ProcessorAssumption
  <2>3. ~(head - d < h)
    BY <1>1, <2>1, <2>2, ProcessorAssumption DEF Confirmed
  <2>4. QED
    BY <2>1, <2>3
<1>4. QED
  BY <1>2, <1>3 DEF ChainStep

\* A step of a processor records and indexes canonical blocks only, and finds
\* no reorganisation.
LEMMA FinalityProcess ==
  ASSUME TypeOK, NEW p \in Protocols, Shape(p), Bounded(p), RecordsCanonical,
         Canonical(p), ProcessChain(p)
  PROVE  Canonical(p)' /\ RecordsCanonical'
<1>b. head' = head /\ branch' = branch /\ Confirmed(head)' = Confirmed(head)
  BY ProcessFrame DEF OnlyOwnState
<1>c. hashes' = hashes => RecordsCanonical'
  BY <1>b DEF RecordsCanonical
<1>1. CASE LoadCursor(p)
    BY <1>1, <1>b, <1>c DEF LoadCursor, Canonical, InWalk, TypeOK, Goto,
       Leave, dbVars, batchVars
<1>2. CASE LoadFails(p)
    BY <1>2, <1>b, <1>c DEF LoadFails, Canonical, InWalk, TypeOK, Goto, Leave,
       dbVars, batchVars
<1>3. CASE PollHead(p)
    BY <1>3, <1>b, <1>c DEF PollHead, Canonical, InWalk, TypeOK, Goto, Leave,
       dbVars, batchVars
<1>4. CASE ShutDown(p)
    BY <1>4, <1>b, <1>c DEF ShutDown, Canonical, InWalk, TypeOK, Goto, Leave,
       dbVars, batchVars
<1>5. CASE ReadStoredHash(p)
  <2>1. hashes[cursor[p]] # NoHash => hashes[cursor[p]] = branch[cursor[p]]
    BY DEF RecordsCanonical, TypeOK
  <2>2. QED
    BY <1>5, <1>b, <1>c, <2>1
       DEF ReadStoredHash, NoReorg, Canonical, Goto, dbVars, TypeOK, InWalk
<1>6. CASE CompareParent(p)
  <2>1. branch[cursor[p]] = seen[p]
    BY <1>6 DEF CompareParent, Canonical
  <2>2. QED
    BY <1>6, <1>b, <1>c, <2>1
       DEF CompareParent, NoReorg, Canonical, Goto, dbVars, TypeOK, InWalk
<1>7. CASE WalkStored(p)
  BY <1>7 DEF WalkStored, Canonical, InWalk
<1>8. CASE WalkHeader(p)
  BY <1>8 DEF WalkHeader, Canonical, InWalk
<1>9. CASE EndWalk(p)
  BY <1>9 DEF EndWalk, Canonical, InWalk
<1>10. CASE RewindCursor(p)
  BY <1>10 DEF RewindCursor, Canonical, InWalk
<1>11. CASE RewindFails(p)
  BY <1>11 DEF RewindFails, Canonical, InWalk
<1>12. CASE DeleteHashes(p)
  BY <1>12 DEF DeleteHashes, Canonical, InWalk
<1>13. CASE FetchChunk(p)
  <2>2. \A log \in logs'[p] : log[2] = branch[log[1]]
    BY <1>13, ChunkLogs DEF Canonical
  <2>3. QED
    BY <1>13, <1>b, <1>c, <2>2
       DEF FetchChunk, Canonical, Goto, dbVars, TypeOK, InWalk
<1>14. CASE ProcessLog(p)
  <2>1. \A log \in indexed'[p] \cup logs'[p] : log \in indexed[p] \cup logs[p]
    BY <1>14 DEF ProcessLog, TypeOK
  <2>2. QED
    BY <1>14, <1>b, <1>c, <2>1 DEF ProcessLog, Canonical
<1>15. CASE LoseLog(p)
    BY <1>15, <1>b, <1>c DEF LoseLog, Canonical, InWalk, TypeOK, Goto, Leave,
       dbVars, batchVars
<1>16. CASE FetchBoundaryHeader(p)
    BY <1>16, <1>b, <1>c DEF FetchBoundaryHeader, Canonical, InWalk, TypeOK,
       Goto, Leave, dbVars, batchVars
<1>17. CASE SaveHash(p)
  <2>1. /\ at[p] \in Heights /\ to[p] \in Heights /\ Confirmed(head) \in Nat
        /\ at[p] <= to[p] /\ to[p] <= Confirmed(head)
    BY <1>17, HeadIsNat DEF SaveHash, Shape, Bounded, TypeOK
  <2>2. at[p] <= Confirmed(head) /\ seen[p] = branch[at[p]]
    BY <1>17, <2>1, HeightFacts DEF SaveHash, Canonical
  <2>3. RecordsCanonical'
    BY <1>17, <1>b, <2>2 DEF SaveHash, RecordsCanonical, TypeOK
  <2>4. QED
    BY <1>17, <1>b, <1>c, <2>3 DEF SaveHash, Canonical, Goto, TypeOK, InWalk
<1>18. CASE HashNotStored(p)
    BY <1>18, <1>b, <1>c DEF HashNotStored, Canonical, InWalk, TypeOK, Goto,
       Leave, dbVars, batchVars
<1>19. CASE Prune(p)
  <2>1. RecordsCanonical'
    BY <1>19, <1>b DEF Prune, RecordsCanonical
  <2>2. QED
    BY <1>19, <1>b, <1>c, <2>1 DEF Prune, Canonical, Goto, batchVars, TypeOK, InWalk
<1>20. CASE Commit(p)
    BY <1>20, <1>b, <1>c DEF Commit, Canonical, InWalk, TypeOK, Goto, Leave,
       dbVars, batchVars
<1>21. CASE CommitFails(p)
    BY <1>21, <1>b, <1>c DEF CommitFails, Canonical, InWalk, TypeOK, Goto,
       Leave, dbVars, batchVars
<1>22. CASE RetryBatch(p)
    BY <1>22, <1>b, <1>c DEF RetryBatch, Canonical, InWalk, TypeOK, Goto,
       Leave, dbVars, batchVars
<1>23. QED
  BY <1>1, <1>2, <1>3, <1>4, <1>5, <1>6, <1>7, <1>8, <1>9, <1>10, <1>11,
     <1>12, <1>13, <1>14, <1>15, <1>16, <1>17, <1>18, <1>19, <1>20, <1>21,
     <1>22 DEF ProcessChain, CheckReorg, Batch

\* At the start nothing is recorded.
LEMMA FinalityInit == Init => FinalityInv
BY DEF Init, ProcessInit, FinalityInv, RecordsCanonical, Canonical, InWalk

\* With final confirmed blocks, no step records what is not canonical.
LEMMA FinalityNext ==
  ASSUME ConfirmedIsFinal
  PROVE  ShapeInv /\ FinalityInv /\ [Next]_vars => FinalityInv'
<1> SUFFICES ASSUME ShapeInv, FinalityInv, [Next]_vars PROVE FinalityInv'
  OBVIOUS
<1>1. /\ TypeOK /\ \A p \in Protocols : Shape(p) /\ Bounded(p)
      /\ RecordsCanonical /\ \A p \in Protocols : Canonical(p)
  BY DEF ShapeInv, FinalityInv
<1>2. ASSUME NEW p \in Protocols, ProcessChain(p) PROVE FinalityInv'
  <2>1. Canonical(p)' /\ RecordsCanonical'
    BY <1>1, <1>2, FinalityProcess
  <2>2. ASSUME NEW q \in Protocols \ {p} PROVE Canonical(q)'
    BY <1>1, <1>2, <2>2, ProcessFrame DEF OnlyOwnState, Canonical
  <2>3. QED
    BY <2>1, <2>2 DEF FinalityInv
<1>3. CASE ChainStep
  <2>1. UNCHANGED <<dbVars, pc, cursor, batchVars, cancelled>>
    BY <1>3 DEF ChainStep
  <2>2. \A h \in Heights : h <= Confirmed(head) => branch'[h] = branch[h]
    BY <1>1, <1>3, ConfirmedStay DEF ConfirmedIsFinal
  <2>3. /\ Confirmed(head) \in Nat /\ Confirmed(head)' \in Nat
        /\ Confirmed(head) <= Confirmed(head)'
    BY <1>1, <1>3, HeadIsNat, ChainStepTypes
  <2>4. RecordsCanonical'
    <3> DEFINE c == Confirmed(head)
               d == Confirmed(head)'
    <3>1. SUFFICES ASSUME NEW h \in Heights, hashes[h] # NoHash
                   PROVE  h <= d /\ hashes[h] = branch'[h]
      BY <2>1 DEF RecordsCanonical, dbVars
    <3>2. h <= c /\ hashes[h] = branch[h]
      BY <1>1, <3>1 DEF RecordsCanonical
    <3>3. h \in Nat /\ c \in Nat /\ d \in Nat /\ c <= d
      BY <2>3, HeightFacts
    <3>4. branch'[h] = branch[h]
      BY <2>2, <3>2
    <3> HIDE DEF c, d
    <3>5. QED
      BY <3>2, <3>3, <3>4
  <2>5. ASSUME NEW q \in Protocols PROVE Canonical(q)'
    <3>1. Canonical(q) /\ Bounded(q) /\ Shape(q)
      BY <1>1
    <3>2. \A log \in indexed[q] \cup logs[q] : branch'[log[1]] = branch[log[1]]
      BY <1>1, <2>2, <3>1 DEF Bounded, TypeOK, Logs
    <3>3. branch'[cursor[q]] = branch[cursor[q]]
      BY <1>1, <2>2, <3>1 DEF Bounded, TypeOK
    <3>4. pc[q] = "save" => branch'[at[q]] = branch[at[q]]
      <4>1. pc[q] = "save" => at[q] <= to[q] /\ to[q] <= Confirmed(head)
        BY <3>1 DEF Shape, Bounded
      <4>2. at[q] \in Heights /\ at[q] \in Nat /\ to[q] \in Nat
        BY <1>1, HeightFacts DEF TypeOK
      <4>3. pc[q] = "save" => at[q] <= Confirmed(head)
        BY <2>3, <4>1, <4>2
      <4>4. QED
        BY <2>2, <4>2, <4>3
    <3>5. QED
      BY <2>1, <3>1, <3>2, <3>3, <3>4 DEF Canonical, dbVars, batchVars
  <2>6. QED
    BY <2>4, <2>5 DEF FinalityInv
<1>4. ASSUME UNCHANGED <<chainVars, dbVars, pc, cursor, batchVars>>
      PROVE  FinalityInv'
  BY <1>1, <1>4 DEF FinalityInv, RecordsCanonical, Canonical, chainVars, dbVars,
     batchVars
<1>5. ASSUME ProcessStarts, UNCHANGED <<chainVars, dbVars>> PROVE FinalityInv'
  <2>1. RecordsCanonical'
    BY <1>1, <1>5 DEF RecordsCanonical, chainVars, dbVars
  <2>2. \A q \in Protocols : Canonical(q)'
    BY <1>1, <1>5 DEF ProcessStarts, Canonical, InWalk, chainVars, dbVars
  <2>3. QED
    BY <2>1, <2>2 DEF FinalityInv
<1>6. QED
  BY <1>2, <1>3, <1>4, <1>5 DEF Next, Cancel, Restart, Crash, Sleep, vars

\* With final confirmed blocks, all that is recorded is canonical.
LEMMA FinalityAlways ==
  ASSUME ConfirmedIsFinal
  PROVE  Spec => []FinalityInv
BY ShapeAlways, FinalityInit, FinalityNext, PTL DEF Spec

\* If confirmed blocks are final, every height up to the persisted cursor has
\* been indexed from the canonical chain: no silent gap.
THEOREM ConfirmedPrefixIndexedHolds ==
  ASSUME "event" \notin Faults, ConfirmedIsFinal
  PROVE  Spec => []ConfirmedPrefixIndexed
<1>1. NothingLost
  BY DEF NothingLost, ConfirmedIsFinal
<1>2. ShapeInv /\ CoverageInv /\ FinalityInv => ConfirmedPrefixIndexed
  <2> SUFFICES ASSUME ShapeInv, CoverageInv, FinalityInv,
                      NEW p \in Addressed, NEW h \in 1..cursors[p]
               PROVE  <<h, branch[h]>> \in indexed[p]
    BY DEF ConfirmedPrefixIndexed
  <2>1. PICK b \in Branches : <<h, b>> \in indexed[p]
    BY DEF CoverageInv, Coverage, Indexed
  <2>2. Canonical(p)
    BY ProcessorAssumption DEF FinalityInv
  <2>3. b = branch[h]
    BY <2>1, <2>2 DEF Canonical
  <2>4. QED
    BY <2>1, <2>3
<1>3. QED
  BY <1>1, <1>2, ShapeAlways, CoverageAlways, FinalityAlways, PTL

\* If confirmed blocks are final, no cursor ever moves back.
THEOREM NeverRewindsHolds ==
  ASSUME ConfirmedIsFinal
  PROVE  Spec => NeverRewinds
<1>1. ShapeInv /\ FinalityInv /\ [Next]_vars =>
        [\A p \in Protocols : cursors'[p] >= cursors[p]]_vars
  <2> SUFFICES ASSUME ShapeInv, FinalityInv, Next, NEW q \in Protocols
               PROVE  cursors'[q] >= cursors[q]
    OBVIOUS
  <2>1. /\ TypeOK /\ Shape(q) /\ Canonical(q)
        /\ cursors[q] \in Nat /\ cursor[q] \in Nat /\ to[q] \in Nat
    BY HeightFacts DEF ShapeInv, FinalityInv, TypeOK
  <2>2. ASSUME NEW p \in Protocols, ProcessChain(p), p # q
        PROVE  cursors'[q] = cursors[q]
    BY <2>1, <2>2, ProcessFrame DEF OnlyOwnState
  <2>3. CASE Commit(q) \/ CommitFails(q)
    <3>1. cursors[q] = cursor[q] /\ cursor[q] < to[q]
      BY <2>1, <2>3 DEF Commit, CommitFails, Canonical, Shape, InBatch
    <3>2. cursors'[q] \in {cursors[q], to[q]}
      BY <2>1, <2>3 DEF Commit, CommitFails, TypeOK
    <3>3. QED
      BY <2>1, <3>1, <3>2
  <2>4. CASE UNCHANGED cursors
    BY <2>1, <2>4
  <2>5. ~RewindCursor(q) /\ ~RewindFails(q)
    BY <2>1 DEF RewindCursor, RewindFails, Canonical
  <2>6. ASSUME ProcessChain(q) PROVE Commit(q) \/ CommitFails(q) \/ UNCHANGED cursors
    BY <2>5, <2>6 DEF ProcessChain, CheckReorg, Batch, LoadCursor, LoadFails,
       PollHead, ShutDown, ReadStoredHash, CompareParent, WalkStored, WalkHeader,
       EndWalk, DeleteHashes, FetchChunk, ProcessLog, LoseLog,
       FetchBoundaryHeader, SaveHash, HashNotStored, Prune, RetryBatch, dbVars
  <2>7. QED
    BY <2>1, <2>2, <2>3, <2>4, <2>6 DEF Next, ChainStep, Cancel, Restart, Crash,
       Sleep, vars, dbVars
<1>2. QED
  BY <1>1, ShapeAlways, FinalityAlways, PTL DEF Spec, NeverRewinds

(***************************************************************************)
(* A reorganisation is seen                                                *)
(***************************************************************************)

\* The conditions under which block_hashes is evidence of every reorganisation:
\* one protocol writes it, a batch has no block but its first and last, no hash
\* goes unrecorded, no reorganisation comes during a batch, and none reaches
\* below what is pruned.
HashesTell ==
  /\ \A p, q \in Protocols : p = q
  /\ BatchSize <= 2
  /\ Faults \cap {"event", "rpc", "write"} = {}
  /\ ~RacyReorgs
  /\ MaxLag <= ConfirmationDepth
  /\ MaxReorgDepth <= ConfirmationDepth + PruneDepth + 1

\* No reorganisation reaches the block any more.
Final(h) == h <= head - MaxReorgDepth

\* Up to n, what is canonical is indexed.
GapFree(p, n) == \A h \in 1..n : <<h, branch[h]>> \in indexed[p]

\* A reorganisation's branch number is new.
BranchesGrow ==
  /\ \A h \in Heights : branch[h] <= branch[head] /\ hashes[h] <= branch[head]
  /\ \A p \in Protocols : seen[p] <= branch[head]

\* Each height behind the cursor tells whether there is a gap below it.
Evident(p) ==
  \A h \in 1..cursors[p] :
    /\ hashes[h] = NoHash => Final(h)
    /\ GapFree(p, h) \/ hashes[h] \notin {NoHash, branch[h]}

\* The batch under way follows on what is canonical, and its first hash is
\* recorded before its last.
Tracked(p) ==
  /\ pc[p] \notin {"load", "stopped", "delete"} => cursor[p] = cursors[p]
  /\ pc[p] = "delete" => cursors[p] = at[p]
  /\ pc[p] = "header" => seen[p] = hashes[cursor[p]] /\ seen[p] # NoHash
  /\ pc[p] \in InBatch => GapFree(p, cursor[p]) /\ to[p] <= cursor[p] + 2
  /\ pc[p] \in {"check", "header"} => to[p] <= cursor[p] + 2
  /\ pc[p] = "fetch" =>
       \A h \in cursor[p] + 1 .. at[p] - 1 : <<h, branch[h]>> \in indexed[p] \cup logs[p]
  /\ pc[p] = "process" /\ ~cancelled =>
       \A h \in cursor[p] + 1 .. to[p] : <<h, branch[h]>> \in indexed[p] \cup logs[p]
  /\ pc[p] \in {"save", "prune", "commit"} /\ ~cancelled =>
       \A h \in cursor[p] + 1 .. to[p] : <<h, branch[h]>> \in indexed[p]
  /\ pc[p] \in {"process", "save"} =>
       at[p] = cursor[p] + 1 \/ (at[p] = to[p] /\ hashes[cursor[p] + 1] # NoHash)
  /\ pc[p] = "save" => seen[p] # NoHash
  /\ pc[p] \in {"prune", "commit"} /\ ~cancelled =>
       \A h \in cursor[p] + 1 .. to[p] : hashes[h] = NoHash => Final(h)

EvidenceInv == BranchesGrow /\ \A p \in Addressed : Evident(p) /\ Tracked(p)

\* A step of a processor records no branch number that is not in use.
LEMMA BranchesGrowProcess ==
  ASSUME TypeOK, BranchesGrow, NEW p \in Protocols, ProcessChain(p)
  PROVE  BranchesGrow'
<1>1. /\ head' = head /\ branch' = branch /\ head \in Heights
      /\ branch \in [Heights -> Branches] /\ hashes \in [Heights -> Branches \cup {NoHash}]
      /\ seen \in [Protocols -> Branches \cup {NoHash}]
      /\ at[p] \in Heights /\ cursor[p] \in Heights
  BY ProcessFrame DEF OnlyOwnState, TypeOK, ChainTypeOK
<1>2. Branches \subseteq Nat /\ branch[head] \in Nat
  BY <1>1, ChainAssumption DEF Branches
<1>3. NoHash <= branch[head] /\ \A h \in Heights : hashes[h] <= branch[head]
  BY <1>2 DEF NoHash, BranchesGrow
<1>4. \A h \in Heights : hashes'[h] \in {hashes[h], NoHash, seen[p]}
  <2>1. CASE UNCHANGED hashes
    BY <2>1
  <2>2. CASE DeleteHashes(p)
    BY <2>2 DEF DeleteHashes
  <2>3. CASE SaveHash(p)
    BY <1>1, <2>3 DEF SaveHash
  <2>4. CASE Prune(p)
    BY <2>4 DEF Prune
  <2>5. QED
    BY <2>1, <2>2, <2>3, <2>4 DEF ProcessChain, CheckReorg, Batch, LoadCursor,
       LoadFails, PollHead, ShutDown, ReadStoredHash, CompareParent, WalkStored,
       WalkHeader, EndWalk, RewindCursor, RewindFails, FetchChunk, ProcessLog,
       LoseLog, FetchBoundaryHeader, HashNotStored, Commit, CommitFails,
       RetryBatch, dbVars
<1>5. seen'[p] \in {seen[p], NoHash, branch[at[p]], hashes[cursor[p]], hashes[at[p]]}
  BY <1>1 DEF ProcessChain, CheckReorg, Batch, LoadCursor, LoadFails, PollHead,
     ShutDown, ReadStoredHash, CompareParent, WalkStored, WalkHeader, EndWalk,
     RewindCursor, RewindFails, DeleteHashes, FetchChunk, ProcessLog, LoseLog,
     FetchBoundaryHeader, SaveHash, HashNotStored, Prune, Commit, CommitFails,
     RetryBatch, NoReorg, Leave, batchVars
<1>6. \A q \in Protocols : q # p => seen'[q] = seen[q]
  BY ProcessFrame DEF OnlyOwnState
<1>7. QED
  BY <1>1, <1>3, <1>4, <1>5, <1>6 DEF BranchesGrow

\* A step of the processor keeps the evidence and what it has of its batch.
LEMMA EvidenceProcess ==
  ASSUME HashesTell, TypeOK, NEW p \in Addressed, p \in Protocols,
         Shape(p), Bounded(p), Evident(p), Tracked(p), ProcessChain(p)
  PROVE  Evident(p)' /\ Tracked(p)'
<1>a. /\ head' = head /\ branch' = branch /\ cancelled' = cancelled
      /\ indexed[p] \subseteq indexed'[p]
  BY ProcessFrame, IndexedGrows DEF OnlyOwnState
<1>b. /\ cursors[p] \in Nat /\ cursor[p] \in Nat /\ to[p] \in Nat /\ at[p] \in Nat
      /\ to[p] \in Heights /\ at[p] \in Heights /\ cursor[p] \in Heights
      /\ cursors[p] <= MaxHeight /\ to[p] <= MaxHeight
  BY HeightFacts DEF TypeOK
<1>c. \A n : GapFree(p, n) => GapFree(p, n)'
  BY <1>a DEF GapFree
<1>d. (\A h \in 1..cursors'[p] : h \in 1..cursors[p] /\ hashes'[h] = hashes[h])
        => Evident(p)'
  BY <1>a, <1>c DEF Evident, Final
<1>e. MayFail("event") \/ MayFail("rpc") \/ MayFail("write") => cancelled
  BY DEF HashesTell, MayFail
<1>f. /\ MaxLag <= ConfirmationDepth
      /\ cancelled \/ "event" \notin Faults
  BY DEF HashesTell
<1>g. UNCHANGED <<cursors, hashes>> => Evident(p)'
  BY <1>d
<1>1. CASE LoadCursor(p)
  BY <1>1, <1>g DEF LoadCursor, Tracked, InBatch, TypeOK, Goto, Leave, dbVars
<1>2. CASE LoadFails(p)
  BY <1>2, <1>g DEF LoadFails, Tracked, InBatch, TypeOK, Goto, Leave, dbVars
<1>3. CASE PollHead(p)
  <2>1. to'[p] <= cursor[p] + 2
    BY <1>3, <1>b, PolledBatch, HeightFacts, ProcessorAssumption DEF HashesTell
  <2>2. QED
    BY <1>3, <1>g, <2>1 DEF PollHead, Tracked, InBatch, TypeOK, Goto, dbVars
<1>4. CASE ShutDown(p)
  BY <1>4, <1>g DEF ShutDown, Tracked, InBatch, TypeOK, Goto, Leave, dbVars
<1>5. CASE ReadStoredHash(p)
  <2>1. UNCHANGED <<cursors, hashes, indexed, cursor, to, logs>> /\ pc[p] = "check"
    BY <1>5 DEF ReadStoredHash, dbVars
  <2>2. CASE NoReorg(p) /\ hashes[cursor[p]] = NoHash
    <3>1. GapFree(p, cursor[p])
      BY <1>b, <2>1, <2>2 DEF Evident, Tracked, GapFree
    <3>2. QED
      BY <1>a, <1>b, <1>c, <1>g, <2>1, <2>2, <3>1
         DEF NoReorg, Goto, Tracked, InBatch, TypeOK
  <2>3. CASE ~(NoReorg(p) /\ hashes[cursor[p]] = NoHash)
    BY <1>5, <1>g, <2>1, <2>3 DEF ReadStoredHash, Tracked, InBatch, TypeOK, Goto
  <2>4. QED
    BY <2>2, <2>3
<1>6. CASE CompareParent(p)
  <2>1. UNCHANGED <<cursors, hashes, indexed, cursor, to, logs>> /\ pc[p] = "header"
    BY <1>6 DEF CompareParent, dbVars
  <2>2. CASE NoReorg(p) /\ branch[cursor[p]] = seen[p]
    <3>1. GapFree(p, cursor[p])
      BY <1>b, <2>1, <2>2 DEF Evident, Tracked, GapFree
    <3>2. QED
      BY <1>a, <1>b, <1>c, <1>g, <2>1, <2>2, <3>1
         DEF NoReorg, Goto, Tracked, InBatch, TypeOK
  <2>3. CASE ~(NoReorg(p) /\ branch[cursor[p]] = seen[p])
    BY <1>6, <1>g, <2>1, <2>3 DEF CompareParent, Tracked, InBatch, TypeOK, Goto
  <2>4. QED
    BY <2>2, <2>3
<1>7. CASE WalkStored(p)
  BY <1>7, <1>g DEF WalkStored, Tracked, InBatch, TypeOK, Goto, dbVars
<1>8. CASE WalkHeader(p)
  BY <1>8, <1>g DEF WalkHeader, Tracked, InBatch, TypeOK, Goto, dbVars
<1>9. CASE EndWalk(p)
  BY <1>9, <1>g DEF EndWalk, Tracked, InBatch, TypeOK, Goto, dbVars, batchVars
<1>10. CASE RewindCursor(p)
  <2>1. at[p] <= cursors[p] /\ cursors'[p] = at[p] /\ hashes' = hashes
    BY <1>10 DEF RewindCursor, Shape, Tracked, TypeOK
  <2>2. Evident(p)'
    BY <1>b, <1>d, <2>1
  <2>3. QED
    BY <1>10, <2>1, <2>2 DEF RewindCursor, Tracked, InBatch, TypeOK, Goto, batchVars
<1>11. CASE RewindFails(p)
  BY <1>11, <1>e, <1>g DEF RewindFails, Tracked, InBatch, TypeOK, Goto, Leave
<1>12. CASE DeleteHashes(p)
  <2>1. /\ cursors[p] = at[p] /\ cursors' = cursors
        /\ \A h \in 1..cursors[p] : hashes'[h] = hashes[h]
    BY <1>12, <1>b, HeightFacts DEF DeleteHashes, Tracked
  <2>2. QED
    BY <1>12, <1>d, <2>1 DEF DeleteHashes, Tracked, InBatch, TypeOK, Goto, Leave
<1>13. CASE FetchChunk(p)
  <2> DEFINE chunkEnd == Minimum(at[p] + MaxBlockRange - 1, to[p])
  <2>1. /\ chunkEnd \in Int /\ chunkEnd <= to[p] /\ cursor[p] < at[p]
        /\ pc[p] = "fetch" /\ UNCHANGED <<cursors, hashes, indexed, cursor, to>>
        /\ \/ pc'[p] = "fetch" /\ at'[p] = chunkEnd + 1
           \/ pc'[p] = "process" /\ chunkEnd = to[p] /\ at'[p] = cursor[p] + 1
        /\ logs[p] \subseteq logs'[p]
    BY <1>13, <1>b, ProcessorAssumption
       DEF FetchChunk, Minimum, Shape, Goto, TypeOK, dbVars
  <2>2. \A h \in at[p]..chunkEnd : <<h, branch[h]>> \in logs'[p]
    BY <1>13, <1>f, ChunkComplete DEF Bounded
  <2> HIDE DEF chunkEnd
  <2>3. \A h \in cursor[p] + 1 .. at[p] - 1 : <<h, branch[h]>> \in indexed[p] \cup logs[p]
    BY <2>1 DEF Tracked
  <2>4. \A h \in cursor[p] + 1 .. chunkEnd : <<h, branch[h]>> \in indexed[p] \cup logs'[p]
    BY <1>b, <2>1, <2>2, <2>3
  <2>5. GapFree(p, cursor[p])' /\ to[p] <= cursor[p] + 2 /\ cursor[p] = cursors[p]
    BY <1>c, <2>1 DEF Tracked, InBatch, GapFree
  <2>6. CASE pc'[p] = "fetch" /\ at'[p] = chunkEnd + 1
    <3>1. \A h \in cursor[p] + 1 .. at'[p] - 1 : <<h, branch[h]>> \in indexed[p] \cup logs'[p]
      BY <1>b, <2>1, <2>4, <2>6
    <3>2. Evident(p)'
      BY <1>g, <2>1
    <3>3. Tracked(p)'
      BY <1>a, <2>1, <2>5, <2>6, <3>1 DEF Tracked, InBatch
    <3>4. QED
      BY <3>2, <3>3
  <2>7. CASE pc'[p] = "process" /\ chunkEnd = to[p] /\ at'[p] = cursor[p] + 1
    <3>1. \A h \in cursor[p] + 1 .. to[p] : <<h, branch[h]>> \in indexed[p] \cup logs'[p]
      BY <2>4, <2>7
    <3>2. Evident(p)'
      BY <1>g, <2>1
    <3>3. /\ cursor'[p] = cursor[p] /\ cursors'[p] = cursor[p] /\ to'[p] = to[p]
          /\ branch' = branch /\ indexed' = indexed
      BY <1>a, <2>1, <2>5
    <3>4. Tracked(p)'
      BY <2>5, <2>7, <3>1, <3>3 DEF Tracked, InBatch
    <3>5. QED
      BY <3>2, <3>4
  <2>8. QED
    BY <2>1, <2>6, <2>7
<1>14. CASE ProcessLog(p)
  <2>1. indexed[p] \cup logs[p] \subseteq indexed'[p] \cup logs'[p]
    BY <1>14 DEF ProcessLog, TypeOK
  <2>2. QED
    BY <1>14, <1>a, <1>c, <1>g, <2>1 DEF ProcessLog, Tracked, InBatch, GapFree
<1>15. CASE LoseLog(p)
  <2>1. cancelled
    BY <1>15, <1>e DEF LoseLog
  <2>2. QED
    BY <1>15, <1>a, <1>c, <1>g, <2>1 DEF LoseLog, Tracked, InBatch, GapFree, dbVars
<1>16. CASE FetchBoundaryHeader(p)
  <2>1. branch[at[p]] # NoHash
    BY <1>b, ChainAssumption DEF TypeOK, ChainTypeOK, Branches, NoHash
  <2>2. QED
    BY <1>16, <1>a, <1>c, <1>g, <2>1
       DEF FetchBoundaryHeader, Tracked, InBatch, GapFree, Goto, TypeOK, dbVars
<1>17. CASE SaveHash(p)
  <2>1. /\ pc[p] = "save" /\ seen[p] # NoHash /\ cursor[p] < at[p] /\ at[p] <= to[p]
        /\ cursor[p] = cursors[p] /\ to[p] <= cursor[p] + 2
        /\ at[p] = cursor[p] + 1 \/ (at[p] = to[p] /\ hashes[cursor[p] + 1] # NoHash)
    BY <1>17 DEF SaveHash, Shape, Tracked, InBatch
  <2>2. /\ cursors' = cursors /\ indexed' = indexed /\ cursor' = cursor /\ to' = to
        /\ hashes'[at[p]] = seen[p]
        /\ \A h \in Heights \ {at[p]} : hashes'[h] = hashes[h]
        /\ at'[p] = to[p]
        /\ pc'[p] = IF at[p] = to[p] THEN "prune" ELSE "process"
    BY <1>17, <1>b DEF SaveHash, TypeOK, Goto
  <2>3. Evident(p)'
    <3>1. \A h \in 1..cursors[p] : h \in Heights \ {at[p]}
      BY <1>b, <2>1, HeightFacts
    <3>2. QED
      BY <1>d, <2>2, <3>1
  <2>4. at[p] = to[p] => \A h \in cursor[p] + 1 .. to[p] : hashes'[h] # NoHash
    <3>1. SUFFICES ASSUME at[p] = to[p], NEW h \in cursor[p] + 1 .. to[p], h # at[p]
                   PROVE  hashes'[h] # NoHash
      BY <2>1, <2>2
    <3>2. h = cursor[p] + 1 /\ h \in Heights
      BY <1>b, <2>1, <3>1, HeightFacts
    <3>3. QED
      BY <2>1, <2>2, <3>1, <3>2
  <2>5. at[p] # to[p] => hashes'[cursor[p] + 1] # NoHash
    BY <2>1, <2>2
  <2>6. /\ GapFree(p, cursor[p])'
        /\ ~cancelled => \A h \in cursor[p] + 1 .. to[p] : <<h, branch[h]>> \in indexed[p]
    BY <1>c, <2>1, <2>2 DEF Tracked, InBatch, GapFree
  <2>7. QED
    BY <1>a, <2>1, <2>2, <2>3, <2>4, <2>5, <2>6 DEF Tracked, InBatch
<1>18. CASE HashNotStored(p)
  <2>1. cancelled
    BY <1>18, <1>e DEF HashNotStored
  <2>2. pc[p] \in InBatch /\ pc'[p] = "prune"
    BY <1>18 DEF HashNotStored, InBatch, Goto, TypeOK
  <2>3. QED
    BY <1>18, <1>a, <1>c, <1>g, <2>1, <2>2
       DEF HashNotStored, Tracked, GapFree, dbVars, batchVars, InBatch
<1>19. CASE Prune(p)
  <2>1. /\ pc[p] = "prune" /\ pc'[p] = "commit"
        /\ UNCHANGED <<cursors, indexed, cursor, to, at, seen, logs>>
        /\ \A h \in Heights : hashes'[h] = hashes[h] \/ h < to[p] - PruneDepth
    BY <1>19 DEF Prune, Goto, TypeOK, batchVars
  <2>2. \A h \in Heights : hashes'[h] = NoHash => hashes[h] = NoHash \/ Final(h)
    <3>1. SUFFICES ASSUME NEW h \in Heights, h < to[p] - PruneDepth PROVE Final(h)
      BY <2>1
    <3>2. /\ to[p] <= Confirmed(head) /\ head \in Nat /\ cursor[p] < to[p]
          /\ MaxReorgDepth <= ConfirmationDepth + PruneDepth + 1
      BY <2>1, HeadIsNat DEF Bounded, HashesTell, Shape, InBatch
    <3>3. QED
      BY <1>b, <3>1, <3>2, HeightFacts, ChainAssumption, ProcessorAssumption
         DEF Confirmed, Final
  <2>3. /\ GapFree(p, cursor[p]) /\ cursor[p] = cursors[p] /\ to[p] <= cursor[p] + 2
        /\ ~cancelled => \A h \in cursor[p] + 1 .. to[p] :
             /\ <<h, branch[h]>> \in indexed[p]
             /\ hashes[h] = NoHash => Final(h)
    BY <2>1 DEF Tracked, InBatch
  <2>4. /\ \A h \in 1..cursors[p] : h \in Heights
        /\ \A h \in cursor[p] + 1 .. to[p] : h \in Heights
    BY <1>b, HeightFacts
  <2>5. \A h \in 1..cursors[p] : GapFree(p, h)
    BY <1>b, <2>3 DEF GapFree
  <2>6. Evident(p)'
    BY <1>a, <1>c, <2>1, <2>2, <2>4, <2>5 DEF Evident, Final
  <2>7. QED
    BY <1>a, <1>c, <2>1, <2>2, <2>3, <2>4, <2>6 DEF Tracked, InBatch, Final, GapFree
<1>20. CASE Commit(p)
  <2>1. /\ pc[p] = "commit" /\ ~cancelled /\ cursors'[p] = to[p] /\ cursor'[p] = to[p]
        /\ pc'[p] = "poll" /\ UNCHANGED <<hashes, indexed>>
    BY <1>20 DEF Commit, Shape, Leave, Goto, TypeOK
  <2>2. /\ GapFree(p, cursor[p]) /\ cursor[p] = cursors[p]
        /\ \A h \in cursor[p] + 1 .. to[p] :
             /\ <<h, branch[h]>> \in indexed[p]
             /\ hashes[h] = NoHash => Final(h)
    BY <2>1 DEF Tracked, InBatch
  <2>3. \A h \in 1..to[p] : GapFree(p, h)
    BY <1>b, <2>2 DEF GapFree
  <2>4. \A h \in 1..to[p] : hashes[h] = NoHash => Final(h)
    <3>1. \A h \in 1..cursors[p] : hashes[h] = NoHash => Final(h)
      BY DEF Evident
    <3>2. \A h \in 1..to[p] : h \in 1..cursors[p] \/ h \in cursor[p] + 1 .. to[p]
      BY <1>b, <2>2
    <3>3. QED
      BY <2>2, <3>1, <3>2
  <2>5. Evident(p)'
    BY <1>a, <1>c, <2>1, <2>3, <2>4 DEF Evident, Final
  <2>6. QED
    BY <2>1, <2>5 DEF Tracked, InBatch
<1>21. CASE CommitFails(p)
  BY <1>21, <1>e, <1>g DEF CommitFails, Tracked, InBatch, TypeOK, Goto, Leave
<1>22. CASE RetryBatch(p)
  BY <1>22, <1>g DEF RetryBatch, Tracked, InBatch, TypeOK, Goto, Leave, dbVars
<1>23. QED
  BY <1>1, <1>2, <1>3, <1>4, <1>5, <1>6, <1>7, <1>8, <1>9, <1>10, <1>11,
     <1>12, <1>13, <1>14, <1>15, <1>16, <1>17, <1>18, <1>19, <1>20, <1>21,
     <1>22 DEF ProcessChain, CheckReorg, Batch

\* The cursors and the batch of a processor are below the head.
LEMMA BelowHead ==
  ASSUME ShapeInv, NEW p \in Protocols
  PROVE  /\ cursors[p] \in Nat /\ cursor[p] \in Nat /\ to[p] \in Nat /\ at[p] \in Nat
         /\ cursors[p] <= head /\ cursor[p] <= head /\ to[p] <= head
         /\ cursors[p] <= MaxHeight /\ cursor[p] <= MaxHeight /\ to[p] <= MaxHeight
<1> DEFINE c == Confirmed(head)
<1>1. head \in Nat /\ c \in Nat /\ c <= head
  BY HeadIsNat, ConfirmedFacts DEF ShapeInv
<1>2. cursors[p] <= c /\ cursor[p] <= c /\ to[p] <= c
  BY DEF ShapeInv, Bounded
<1>3. /\ cursors[p] \in Heights /\ cursor[p] \in Heights /\ to[p] \in Heights
      /\ at[p] \in Heights
  BY DEF ShapeInv, TypeOK
<1>4. /\ cursors[p] \in Nat /\ cursor[p] \in Nat /\ to[p] \in Nat /\ at[p] \in Nat
      /\ cursors[p] <= MaxHeight /\ cursor[p] <= MaxHeight /\ to[p] <= MaxHeight
  BY <1>3, HeightFacts
<1> HIDE DEF c
<1>5. QED
  BY <1>1, <1>2, <1>4

\* A block that is added is above every batch.
LEMMA EvidenceGrow ==
  ASSUME ShapeInv, EvidenceInv, Grow,
         UNCHANGED <<dbVars, pc, cursor, batchVars, cancelled>>
  PROVE  EvidenceInv'
<1>1. TypeOK /\ BranchesGrow /\ head \in Nat /\ head \in Heights /\ head + 1 \in Heights
  BY HeightFacts DEF ShapeInv, EvidenceInv, Grow, TypeOK, ChainTypeOK
<1>2. /\ head' = head + 1 /\ branch'[head + 1] = branch[head]
      /\ \A h \in Heights : h # head + 1 => branch'[h] = branch[h]
  BY <1>1 DEF Grow, TypeOK, ChainTypeOK
<1>3. BranchesGrow'
  <2>1. branch'[head'] = branch[head] /\ UNCHANGED <<hashes, seen>>
    BY <1>2 DEF dbVars, batchVars
  <2>2. \A h \in Heights : branch'[h] \in {branch[h], branch[head]}
    BY <1>2
  <2>3. branch[head] <= branch[head]
    BY <1>1 DEF BranchesGrow
  <2>4. QED
    BY <1>1, <2>1, <2>2, <2>3 DEF BranchesGrow
<1>4. ASSUME NEW p \in Addressed PROVE Evident(p)' /\ Tracked(p)'
  <2>1. Evident(p) /\ Tracked(p) /\ Shape(p) /\ p \in Protocols
    BY ProcessorAssumption DEF EvidenceInv, ShapeInv
  <2>2. /\ cursors[p] \in Nat /\ cursor[p] \in Nat /\ to[p] \in Nat /\ at[p] \in Nat
        /\ cursors[p] <= head /\ cursor[p] <= head /\ to[p] <= head
        /\ cursors[p] <= MaxHeight /\ cursor[p] <= MaxHeight /\ to[p] <= MaxHeight
    BY <2>1, BelowHead
  <2>3. /\ \A h \in 1..cursors[p] : branch'[h] = branch[h]
        /\ \A h \in 1..cursor[p] : branch'[h] = branch[h]
        /\ \A h \in cursor[p] + 1 .. to[p] : branch'[h] = branch[h]
    BY <1>1, <1>2, <2>2, HeightFacts
  <2>4. \A h \in Nat : Final(h) => Final(h)'
    BY <1>1, <1>2, ChainAssumption DEF Final
  <2>5. UNCHANGED <<cursors, hashes, indexed, pc, cursor, to, at, seen, logs, cancelled>>
    BY DEF dbVars, batchVars
  <2>6. Evident(p)'
    <3>1. \A h \in 1..cursors[p] : GapFree(p, h) => GapFree(p, h)'
      BY <2>2, <2>3, <2>5 DEF GapFree
    <3>2. QED
      BY <2>1, <2>2, <2>3, <2>4, <2>5, <3>1 DEF Evident
  <2>7. GapFree(p, cursor[p]) => GapFree(p, cursor[p])'
    BY <2>3, <2>5 DEF GapFree
  <2>8. pc[p] = "fetch" => at[p] <= to[p]
    BY <2>1 DEF Shape
  <2>9. pc[p] = "fetch" =>
          \A h \in cursor[p] + 1 .. at[p] - 1 : branch'[h] = branch[h]
    BY <2>2, <2>3, <2>8
  <2>10. Tracked(p)'
    BY <2>1, <2>2, <2>3, <2>4, <2>5, <2>7, <2>9 DEF Tracked
  <2>11. QED
    BY <2>6, <2>10
<1>5. QED
  BY <1>3, <1>4 DEF EvidenceInv

\* A reorganisation changes no final block, and the hash recorded for any other
\* block behind the cursor is older than the block's new branch.
LEMMA EvidenceReorg ==
  ASSUME ShapeInv, EvidenceInv, Reorg, \A p \in Protocols : BetweenBatches(p),
         UNCHANGED <<dbVars, pc, cursor, batchVars, cancelled>>
  PROVE  EvidenceInv'
<1>1. TypeOK /\ BranchesGrow /\ head \in Nat /\ head \in Heights
  BY HeightFacts DEF ShapeInv, EvidenceInv, TypeOK, ChainTypeOK
<1>2. PICK d \in 1..MaxReorgDepth :
        branch' = [h \in Heights |-> IF head - d < h /\ h <= head
                                     THEN branch[head] + 1 ELSE branch[h]]
  BY DEF Reorg
<1>3. head' = head /\ d \in Nat /\ 1 <= d /\ d <= MaxReorgDepth
  BY ChainAssumption DEF Reorg
<1>4. /\ \A h \in Heights : branch[h] \in Nat
      /\ \A h \in Heights : hashes[h] \in Int
      /\ \A p \in Protocols : seen[p] \in Int
  BY <1>1, ChainAssumption DEF TypeOK, ChainTypeOK, Branches, NoHash
<1>5. /\ branch'[head] = branch[head] + 1
      /\ \A h \in Heights : IF head - d < h /\ h <= head
                            THEN branch'[h] = branch[head] + 1
                            ELSE branch'[h] = branch[h]
  BY <1>1, <1>2, <1>3
<1>6. BranchesGrow'
  <2>1. UNCHANGED <<hashes, seen>>
    BY DEF dbVars, batchVars
  <2>2. QED
    BY <1>1, <1>3, <1>4, <1>5, <2>1 DEF BranchesGrow
<1>7. ASSUME NEW p \in Addressed PROVE Evident(p)' /\ Tracked(p)'
  <2>1. Evident(p) /\ Tracked(p) /\ p \in Protocols /\ BetweenBatches(p)
    BY ProcessorAssumption DEF EvidenceInv
  <2>2. UNCHANGED <<cursors, hashes, indexed, pc, cursor, to, at, seen, logs, cancelled>>
    BY DEF dbVars, batchVars
  <2>3. Tracked(p)'
    BY <2>1, <2>2 DEF Tracked, BetweenBatches, InBatch
  <2>4. cursors[p] \in Nat /\ cursors[p] <= head /\ cursors[p] <= MaxHeight
    BY <2>1, BelowHead
  <2>5. ASSUME NEW h \in 1..cursors[p]
        PROVE  /\ hashes[h] = NoHash => Final(h)
               /\ GapFree(p, h)' \/ hashes[h] \notin {NoHash, branch'[h]}
    <3>0. h \in Nat /\ h <= head /\ h <= MaxHeight
      BY <1>1, <2>4, HeightFacts
    <3>1. /\ h \in Nat /\ h \in Heights /\ h <= head
          /\ hashes[h] = NoHash => Final(h)
          /\ GapFree(p, h) \/ hashes[h] \notin {NoHash, branch[h]}
      BY <2>1, <3>0, HeightFacts DEF Evident
    <3>2. CASE h <= head - d
      <4>1. \A x \in 1..h : branch'[x] = branch[x]
        BY <1>1, <1>3, <1>5, <2>4, <3>1, <3>2, HeightFacts
      <4>2. branch'[h] = branch[h]
        BY <3>1, <4>1
      <4>3. GapFree(p, h) => GapFree(p, h)'
        BY <2>2, <4>1 DEF GapFree
      <4>4. QED
        BY <3>1, <4>2, <4>3
    <3>3. CASE ~(h <= head - d)
      <4>1. branch'[h] = branch[head] + 1
        BY <1>1, <1>3, <1>5, <3>1, <3>3
      <4>2. hashes[h] <= branch[head]
        BY <1>1, <3>1 DEF BranchesGrow
      <4>3. ~Final(h)
        BY <1>1, <1>3, <3>1, <3>3, ChainAssumption DEF Final
      <4>4. QED
        BY <1>1, <1>4, <3>1, <4>1, <4>2, <4>3
    <3>4. QED
      BY <3>2, <3>3
  <2>6. Evident(p)'
    BY <1>3, <2>2, <2>5 DEF Evident, Final
  <2>7. QED
    BY <2>3, <2>6
<1>8. QED
  BY <1>6, <1>7 DEF EvidenceInv

\* Nothing is indexed at the start.
LEMMA EvidenceInit == Init => EvidenceInv
<1> SUFFICES ASSUME Init PROVE EvidenceInv
  OBVIOUS
<1>1. BranchesGrow
  BY HeightFacts DEF Init, ChainInit, ProcessInit, BranchesGrow, NoHash
<1>2. \A p \in Addressed : Evident(p) /\ Tracked(p)
  BY ProcessorAssumption DEF Init, ProcessInit, Evident, Tracked, InBatch
<1>3. QED
  BY <1>1, <1>2 DEF EvidenceInv

\* Under these conditions every step keeps the evidence.
LEMMA EvidenceNext ==
  ASSUME HashesTell
  PROVE  ShapeInv /\ EvidenceInv /\ [Next]_vars => EvidenceInv'
<1> SUFFICES ASSUME ShapeInv, EvidenceInv, [Next]_vars PROVE EvidenceInv'
  OBVIOUS
<1>1. /\ TypeOK /\ \A p \in Protocols : Shape(p) /\ Bounded(p)
      /\ BranchesGrow /\ \A p \in Addressed : Evident(p) /\ Tracked(p)
  BY DEF ShapeInv, EvidenceInv
<1>2. ASSUME NEW q \in Protocols, ProcessChain(q) PROVE EvidenceInv'
  <2>1. BranchesGrow'
    BY <1>1, <1>2, BranchesGrowProcess
  <2>2. ASSUME NEW p \in Addressed PROVE Evident(p)' /\ Tracked(p)'
    <3>1. p \in Protocols /\ p = q
      BY ProcessorAssumption DEF HashesTell
    <3>2. QED
      BY <1>1, <1>2, <3>1, EvidenceProcess
  <2>3. QED
    BY <2>1, <2>2 DEF EvidenceInv
<1>3. CASE ChainStep
  BY <1>3, EvidenceGrow, EvidenceReorg DEF ChainStep, HashesTell
<1>4. ASSUME UNCHANGED <<chainVars, dbVars, pc, cursor, batchVars>>,
             cancelled => cancelled'
      PROVE  EvidenceInv'
  <2>1. BranchesGrow'
    BY <1>1, <1>4 DEF BranchesGrow, chainVars, dbVars, batchVars
  <2>2. \A p \in Addressed : Evident(p)'
    BY <1>1, <1>4 DEF Evident, GapFree, Final, chainVars, dbVars
  <2>3. ASSUME NEW p \in Addressed PROVE Tracked(p)'
    BY <1>1, <1>4 DEF Tracked, GapFree, Final, chainVars, dbVars, batchVars
  <2>4. QED
    BY <2>1, <2>2, <2>3 DEF EvidenceInv
<1>5. ASSUME ProcessStarts, UNCHANGED <<chainVars, dbVars>> PROVE EvidenceInv'
  <2>1. BranchesGrow'
    <3>1. head \in Heights /\ branch \in [Heights -> Branches] /\ Branches \subseteq Nat
      BY <1>1, ChainAssumption DEF TypeOK, ChainTypeOK, Branches
    <3>2. branch[head] \in Nat
      BY <3>1
    <3>3. NoHash <= branch[head]
      BY <3>2 DEF NoHash
    <3>4. QED
      BY <1>1, <1>5, <3>3 DEF ProcessStarts, BranchesGrow, chainVars, dbVars
  <2>2. \A p \in Addressed : Evident(p)'
    BY <1>1, <1>5 DEF Evident, GapFree, Final, chainVars, dbVars
  <2>3. \A p \in Addressed : Tracked(p)'
    BY <1>5, ProcessorAssumption DEF ProcessStarts, Tracked, InBatch
  <2>4. QED
    BY <2>1, <2>2, <2>3 DEF EvidenceInv
<1>6. QED
  BY <1>2, <1>3, <1>4, <1>5 DEF Next, Cancel, Restart, Crash, Sleep, vars

\* Where every hash is recorded and no reorganisation reaches below what is
\* pruned, one that replaced indexed blocks shows at the cursor: whatever is
\* restarted, cancelled or rewound only part of the way, a gap behind the cursor
\* is one the next check of the loop finds (processor.go:219-247).
THEOREM ReorgDetectableHolds ==
  ASSUME HashesTell
  PROVE  Spec => []ReorgDetectable
<1>1. ShapeInv /\ EvidenceInv => ReorgDetectable
  <2> SUFFICES ASSUME ShapeInv, EvidenceInv, NEW p \in Addressed, HasGap(p)
               PROVE  hashes[cursors[p]] \notin {NoHash, branch[cursors[p]]}
    BY DEF ReorgDetectable
  <2>1. cursors[p] \in Nat
    BY ProcessorAssumption, HeightFacts DEF ShapeInv, TypeOK
  <2>2. cursors[p] \in 1..cursors[p] /\ ~GapFree(p, cursors[p])
    BY <2>1 DEF HasGap, GapFree
  <2>3. Evident(p)
    BY DEF EvidenceInv
  <2>4. QED
    BY <2>2, <2>3 DEF Evident
<1>2. QED
  BY <1>1, ShapeAlways, EvidenceInit, EvidenceNext, PTL DEF Spec
=============================================================================
