--------------------------- MODULE BackfillProofs ---------------------------
(***************************************************************************)
(* Theorems about Backfill, for any range, any batch size and any number   *)
(* of protocols.  What a step of the shared loop does is not proved again: *)
(* it is ProcessorProofs' lemmas for the backfill's own variables.         *)
(***************************************************************************)
EXTENDS Backfill, ProcessorProofs

BP == INSTANCE ProcessorProofs WITH
        hashes <- [h \in Heights |-> NoHash],
        pc <- bpc, cursor <- bcursor, to <- bto, at <- bat, seen <- bseen,
        logs <- blogs, cancelled <- bcancelled

(***************************************************************************)
(* The loop of the backfill                                                *)
(***************************************************************************)

\* A step of ProcessChain keeps the backfill's variables in type and in shape,
\* leaves the chain and the other protocols alone, and adds logs of its batch
\* only.
LEMMA LoopStep ==
  ASSUME BP!TypeOK, NEW t \in Protocols, BP!Shape(t), BP!ProcessChain(t)
  PROVE  /\ BP!TypeOK' /\ BP!Shape(t)' /\ BP!OnlyOwnState(t)
         /\ \A log \in indexed'[t] \cup blogs'[t] :
              \/ log \in indexed[t] \cup blogs[t]
              \/ /\ log[1] \in Heights /\ bcursor[t] < log[1]
                 /\ log[1] <= bto[t] /\ log[2] = branch[log[1]]
<1>1. BP!TypeOK'
  BY BP!TypeProcess, ChainAssumption, ProcessorAssumption
     DEF FaultKinds, BP!FaultKinds
<1>2. BP!Shape(t)'
  BY <1>1, BP!ShapeProcess, ChainAssumption, ProcessorAssumption
     DEF FaultKinds, BP!FaultKinds
<1>3. BP!OnlyOwnState(t)
  BY BP!ProcessFrame, ChainAssumption, ProcessorAssumption
     DEF FaultKinds, BP!FaultKinds
<1>4. ASSUME NEW log \in indexed'[t] \cup blogs'[t],
             log \notin indexed[t] \cup blogs[t]
      PROVE  /\ log[1] \in BP!Heights /\ bcursor[t] < log[1]
             /\ log[1] <= bto[t] /\ log[2] = branch[log[1]]
  BY <1>4, BP!LogsProcess, ChainAssumption, ProcessorAssumption
     DEF FaultKinds, BP!FaultKinds
<1>5. QED
  BY <1>1, <1>2, <1>3, <1>4 DEF Heights, BP!Heights

\* The steps it shares with the indexer are steps of ProcessChain.
LEMMA SharedSteps ==
  ASSUME NEW t \in Protocols, target = t, SharedLoop
  PROVE  \/ BP!PollHead(t) \/ BP!FetchChunk(t) \/ BP!ProcessLog(t) \/ BP!LoseLog(t)
         \/ bpc[t] = "fetch" /\ BP!RetryBatch(t)
<1>1. B!PollHead(t) => BP!PollHead(t)
  BY DEF B!PollHead, BP!PollHead, B!Minimum, BP!Minimum, B!Confirmed, BP!Confirmed,
     B!Goto, BP!Goto, B!chainVars, BP!chainVars, B!dbVars, BP!dbVars
<1>2. B!FetchChunk(t) => BP!FetchChunk(t)
  BY DEF B!FetchChunk, BP!FetchChunk, B!Minimum, BP!Minimum, B!Heights, BP!Heights,
     B!Goto, BP!Goto, B!chainVars, BP!chainVars, B!dbVars, BP!dbVars
<1>3. B!ProcessLog(t) => BP!ProcessLog(t)
  BY DEF B!ProcessLog, BP!ProcessLog, B!IsNextLog, BP!IsNextLog,
     B!chainVars, BP!chainVars
<1>4. B!LoseLog(t) => BP!LoseLog(t)
  BY DEF B!LoseLog, BP!LoseLog, B!IsNextLog, BP!IsNextLog, B!MayFail, BP!MayFail,
     B!chainVars, BP!chainVars, B!dbVars, BP!dbVars
<1>5. B!RetryBatch(t) => BP!RetryBatch(t)
  BY DEF B!RetryBatch, BP!RetryBatch, B!MayFail, BP!MayFail, B!Leave, BP!Leave,
     B!Goto, BP!Goto, B!NoHash, BP!NoHash, B!chainVars, BP!chainVars, B!dbVars, BP!dbVars
<1>6. QED
  BY <1>1, <1>2, <1>3, <1>4, <1>5 DEF SharedLoop

\* A row written before the end of the range is ProcessChain's Commit.
LEMMA RowCommitted ==
  ASSUME NEW t \in Protocols, target = t, UpdateRow
  PROVE  BP!Commit(t)
BY DEF UpdateRow, B!Commit, BP!Commit, B!Leave, BP!Leave, B!Goto, BP!Goto,
   B!NoHash, BP!NoHash, B!chainVars, BP!chainVars

\* The names of Processor mean the same in both instances.
LEMMA SameTypes == (B!TypeOK <=> BP!TypeOK) /\ (B!TypeOK' <=> BP!TypeOK')
BY DEF B!TypeOK, BP!TypeOK, B!ChainTypeOK, BP!ChainTypeOK, B!Heights, BP!Heights,
   B!Branches, BP!Branches, B!NoHash, BP!NoHash, B!Logs, BP!Logs, B!Labels,
   BP!Labels

(***************************************************************************)
(* The inductive invariant                                                 *)
(***************************************************************************)

InLoop == {"check", "header", "fetch", "process", "save", "prune", "commit", "skip"}

\* Where a backfill stands: only a running one has left the start, its cursor
\* is within the range, and the logs in hand are those of one batch.
BackfillShape ==
  /\ BackfillTypeOK
  /\ BP!Shape(target)
  /\ \A p \in Protocols : (p = target /\ exit = "running") \/ bpc[p] = "load"
  /\ \A p \in Protocols : bpc[p] \in {"load", "poll", "check"} => blogs[p] = {}
  /\ exit = "running" => 0 < from
  /\ bpc[target] # "load" => from - 1 <= bcursor[target] /\ bcursor[target] < stop
  /\ bpc[target] \in InLoop => bto[target] <= bcursor[target] + BatchSize
  /\ \A log \in blogs[target] :
       /\ log[1] \in Heights
       /\ bcursor[target] < log[1] /\ log[1] <= bto[target]

\* Its batch is within the confirmed head.
BackfillBounded == \A p \in Protocols : bto[p] <= Confirmed(head)

\* The indexer's own invariant holds beside it.
BackfillInv == ShapeInv /\ BackfillShape /\ BackfillBounded

\* The steps of the backfill and of its operator.
BackfillAct == BackfillStep \/ Launch \/ CancelBackfill \/ Kill

(***************************************************************************)
(* What a backfill may touch                                               *)
(***************************************************************************)

\* A backfill writes two things the indexer reads: the row of its protocol,
\* at the end of a batch, and a message of the batch.
LEMMA BackfillWrites ==
  ASSUME BackfillAct, NEW t \in Protocols, target = t
  PROVE  /\ UNCHANGED <<chainVars, hashes, liveVars>>
         /\ \/ cursors' = cursors
            \/ /\ bpc[t] \in {"commit", "skip"} /\ ~bcancelled
               /\ cursors' = [cursors EXCEPT ![t] = bto[t]]
         /\ \/ indexed' = indexed
            \/ /\ bpc[t] = "process"
               /\ \E log \in blogs[t] :
                    indexed' = [indexed EXCEPT ![t] = indexed[t] \cup {log}]
<1>1. CASE LoadRange
  BY <1>1 DEF LoadRange, Goes
<1>2. CASE SkipCheck
  BY <1>2 DEF SkipCheck, Goes
<1>3. CASE SkipHashes
  BY <1>3 DEF SkipHashes, Goes
<1>4. CASE SharedLoop
  <2>1. UNCHANGED <<hashes, liveVars>>
    BY <1>4 DEF SharedLoop, Goes
  <2>2. CASE BP!ProcessLog(t)
    BY <2>1, <2>2 DEF BP!ProcessLog, BP!chainVars, chainVars
  <2>3. CASE ~BP!ProcessLog(t)
    <3>1. UNCHANGED <<chainVars, cursors, indexed>>
      BY <1>4, <2>3, SharedSteps DEF BP!PollHead, BP!FetchChunk, BP!LoseLog,
         BP!RetryBatch, BP!chainVars, BP!dbVars, chainVars
    <3>2. QED
      BY <2>1, <3>1
  <2>4. QED
    BY <2>2, <2>3
<1>5. CASE UpdateRow
  <2>1. BP!Commit(t)
    BY <1>5, RowCommitted
  <2>2. QED
    BY <1>5, <2>1 DEF UpdateRow, Goes, BP!Commit, BP!chainVars, chainVars
<1>6. CASE UpdateRowFails
  BY <1>6 DEF UpdateRowFails, AtUpdate, Exits
<1>7. CASE FinishRange
  BY <1>7 DEF FinishRange, AtUpdate, Exits
<1>8. CASE Interrupted
  BY <1>8 DEF Interrupted, Exits
<1>9. CASE Launch
  BY <1>9 DEF Launch, vars, dbVars, batchVars, liveVars
<1>10. CASE CancelBackfill
  BY <1>10 DEF CancelBackfill, vars, dbVars, batchVars, liveVars
<1>11. CASE Kill
  BY <1>11 DEF Kill, Exits
<1>12. QED
  BY <1>1, <1>2, <1>3, <1>4, <1>5, <1>6, <1>7, <1>8, <1>9, <1>10, <1>11
     DEF BackfillAct, BackfillStep

(***************************************************************************)
(* Types, positions and bounds                                             *)
(***************************************************************************)

\* What BackfillShape says once the instances' names are out of the way.
LEMMA ShapeParts ==
  BackfillShape =>
    /\ BP!TypeOK /\ target \in Protocols /\ BP!Shape(target)
    /\ from \in Nat /\ stop \in Nat /\ from <= stop /\ stop <= MaxHeight
    /\ bpc \in [Protocols -> Labels] /\ blogs \in [Protocols -> SUBSET Logs]
    /\ bcursor \in [Protocols -> Heights] /\ bto \in [Protocols -> Heights]
    /\ bat \in [Protocols -> Heights]
    /\ bseen \in [Protocols -> Branches \cup {NoHash}]
    /\ cursors \in [Protocols -> Heights]
    /\ indexed \in [Protocols -> SUBSET Logs]
BY SameTypes, HeightFacts
   DEF BackfillShape, BackfillTypeOK, BP!TypeOK, BP!Heights, Heights, BP!Labels,
   Labels, BP!Logs, Logs, BP!Branches, Branches, BP!NoHash, NoHash

\* A process that is gone leaves nothing behind in memory.
LEMMA ExitShape ==
  ASSUME BackfillShape, NEW how \in {"complete", "error", "killed"}, Exits(how),
         UNCHANGED <<chainVars, indexed, bcancelled>>, done' \in BOOLEAN,
         cursors' \in [Protocols -> Heights]
  PROVE  BackfillShape'
<1>1. PICK t \in Protocols : target = t
  BY ShapeParts
<1>2. /\ target' = t /\ from' = from /\ stop' = stop /\ exit' = how
      /\ bcursor' = [p \in Protocols |-> 0]
      /\ bpc' = [bpc EXCEPT ![t] = "load"]
      /\ bto' = [bto EXCEPT ![t] = 0] /\ bat' = [bat EXCEPT ![t] = 0]
      /\ bseen' = [bseen EXCEPT ![t] = NoHash]
      /\ blogs' = [blogs EXCEPT ![t] = {}]
  BY <1>1 DEF Exits, B!Leave, B!Goto, B!NoHash, NoHash, argVars
<1>3. \A p \in Protocols : bpc'[p] = "load" /\ blogs'[p] = {}
  BY <1>1, <1>2, ShapeParts DEF BackfillShape
<1>4. BP!TypeOK'
  BY <1>2, ShapeParts, HeightFacts
     DEF BP!TypeOK, BP!ChainTypeOK, BP!Heights, Heights, BP!Labels, BP!Logs, Logs,
     BP!Branches, Branches, BP!NoHash, NoHash, chainVars
<1>5. BackfillTypeOK'
  BY <1>2, <1>3, <1>4, SameTypes DEF BackfillShape, BackfillTypeOK
<1>6. BP!Shape(target)'
  BY <1>2, <1>3 DEF BP!Shape, BP!InBatch, BP!InWalk
<1>7. QED
  BY <1>2, <1>3, <1>5, <1>6 DEF BackfillShape, InLoop

\* A launch finds no loop under way.
LEMMA LaunchShape ==
  ASSUME BackfillShape, Launch
  PROVE  BackfillShape'
<1>1. /\ target' \in Protocols /\ from' \in Heights /\ stop' \in Heights
      /\ from' <= stop' /\ 0 < from'
  <2>1. PICK a \in Heights \ {0} :
          \E b \in a..MaxHeight : from' = a /\ stop' = b
    BY DEF Launch
  <2>2. QED
    BY <2>1, HeightFacts DEF Launch
<1>2. \A p \in Protocols : bpc'[p] = "load" /\ blogs'[p] = {}
  BY DEF Launch, BackfillShape
<1>3. BP!TypeOK'
  BY ShapeParts DEF Launch, BP!TypeOK, BP!ChainTypeOK, vars, chainVars, dbVars
<1>4. BackfillTypeOK'
  BY <1>1, <1>2, <1>3, SameTypes DEF Launch, BackfillTypeOK
<1>5. BP!Shape(target)'
  BY <1>1, <1>2 DEF BP!Shape, BP!InBatch, BP!InWalk
<1>6. QED
  BY <1>1, <1>2, <1>4, <1>5 DEF BackfillShape, InLoop, Launch

\* A step of the loop that goes on moves the target's own loop only.  What is
\* left to show of it is said of the target.
LEMMA LoopShape ==
  ASSUME BackfillShape, NEW t \in Protocols, target = t,
         exit = "running", UNCHANGED rangeVars, BP!TypeOK', BP!Shape(t)',
         \A p \in Protocols \ {t} : bpc'[p] = bpc[p] /\ blogs'[p] = blogs[p],
         bpc'[t] \in {"load", "poll", "check"} => blogs'[t] = {},
         bpc'[t] # "load" => from - 1 <= bcursor'[t] /\ bcursor'[t] < stop,
         bpc'[t] \in InLoop => bto'[t] <= bcursor'[t] + BatchSize,
         \A log \in blogs'[t] :
           /\ log[1] \in Heights
           /\ bcursor'[t] < log[1] /\ log[1] <= bto'[t]
  PROVE  BackfillShape'
<1>1. target' = t /\ UNCHANGED <<exit, from, stop, done>>
  BY DEF rangeVars, argVars
<1>2. BackfillTypeOK'
  BY <1>1, SameTypes DEF BackfillShape, BackfillTypeOK
<1>3. BP!Shape(target)'
  BY <1>1
<1>4. \A p \in Protocols : p = target' \/ bpc'[p] = "load"
  BY <1>1 DEF BackfillShape
<1>5. \A p \in Protocols : bpc'[p] \in {"load", "poll", "check"} => blogs'[p] = {}
  BY <1>1 DEF BackfillShape
<1>6. QED
  BY <1>1, <1>2, <1>3, <1>4, <1>5 DEF BackfillShape

\* Each step of the backfill keeps it in shape.
LEMMA BackfillActShape ==
  ASSUME BackfillShape, BackfillAct
  PROVE  BackfillShape'
<1>0. PICK t \in Protocols : target = t
  BY ShapeParts
<1>a. BP!TypeOK /\ BP!Shape(t)
  BY <1>0, ShapeParts
<1>b. /\ from \in Nat /\ stop \in Nat /\ stop <= MaxHeight /\ from <= stop
      /\ bcursor[t] \in Nat /\ bto[t] \in Nat /\ bat[t] \in Nat
      /\ BatchSize \in Nat
  BY ShapeParts, HeightFacts, ProcessorAssumption
<1>c. /\ \A p \in Protocols : p # t => bpc[p] = "load"
      /\ exit # "running" => bpc[t] = "load"
      /\ bpc[t] \in {"load", "poll", "check"} => blogs[t] = {}
      /\ exit = "running" => 0 < from
      /\ bpc[t] # "load" => from - 1 <= bcursor[t] /\ bcursor[t] < stop
      /\ bpc[t] \in InLoop => bto[t] <= bcursor[t] + BatchSize
      /\ \A log \in blogs[t] : /\ log[1] \in Heights
                               /\ bcursor[t] < log[1] /\ log[1] <= bto[t]
  BY <1>0 DEF BackfillShape
<1>1. CASE LoadRange
  <2>1. /\ exit = "running" /\ UNCHANGED rangeVars
        /\ UNCHANGED <<chainVars, cursors, indexed, bcancelled>>
        /\ bcursor' = [bcursor EXCEPT ![t] = from - 1]
        /\ bpc' = [bpc EXCEPT ![t] = "poll"]
        /\ bto' = [bto EXCEPT ![t] = 0] /\ bat' = [bat EXCEPT ![t] = 0]
        /\ bseen' = [bseen EXCEPT ![t] = NoHash]
        /\ blogs' = [blogs EXCEPT ![t] = {}]
    BY <1>0, <1>1 DEF LoadRange, Goes, B!Leave, B!Goto, B!NoHash, NoHash
  <2>2. from - 1 \in Heights /\ from - 1 < stop
    BY <1>b, <1>c, <2>1, HeightFacts
  <2>3. BP!TypeOK'
    BY <1>a, <2>1, <2>2, HeightFacts
       DEF BP!TypeOK, BP!ChainTypeOK, BP!Heights, Heights, BP!Labels, BP!Logs,
       BP!Branches, BP!NoHash, NoHash, chainVars
  <2>4. /\ \A p \in Protocols \ {t} : bpc'[p] = bpc[p] /\ blogs'[p] = blogs[p]
        /\ bpc'[t] = "poll" /\ blogs'[t] = {} /\ bcursor'[t] = from - 1
    BY <2>1, ShapeParts
  <2>5. BP!Shape(t)'
    BY <2>4 DEF BP!Shape, BP!InBatch, BP!InWalk
  <2>6. QED
    BY <1>0, <1>b, <2>1, <2>2, <2>3, <2>4, <2>5, LoopShape DEF InLoop
<1>2. CASE SkipCheck
  <2>1. /\ exit = "running" /\ UNCHANGED rangeVars
        /\ UNCHANGED <<chainVars, cursors, indexed, bcursor, bto, blogs, bcancelled>>
        /\ bpc[t] = "check"
        /\ bpc' = [bpc EXCEPT ![t] = IF t \in Addressed THEN "fetch" ELSE "skip"]
        /\ bat' = [bat EXCEPT ![t] = bcursor[t] + 1]
        /\ bseen' = [bseen EXCEPT ![t] = NoHash]
    BY <1>0, <1>2 DEF SkipCheck, Goes, B!NoReorg, B!Goto, B!NoHash, NoHash
  <2>2. bcursor[t] < bto[t] /\ bcursor[t] + 1 \in Heights
    BY <1>a, <1>b, <2>1, ShapeParts, HeightFacts DEF BP!Shape
  <2>3. BP!TypeOK'
    BY <1>a, <2>1, <2>2
       DEF BP!TypeOK, BP!ChainTypeOK, BP!Heights, Heights, BP!Labels, BP!NoHash,
       NoHash, chainVars
  <2>4. /\ \A p \in Protocols \ {t} : bpc'[p] = bpc[p] /\ blogs'[p] = blogs[p]
        /\ bpc'[t] = IF t \in Addressed THEN "fetch" ELSE "skip"
        /\ bat'[t] = bcursor[t] + 1
    BY <2>1, ShapeParts
  <2>5. BP!Shape(t)'
    BY <1>b, <2>1, <2>2, <2>4 DEF BP!Shape, BP!InBatch, BP!InWalk
  <2>6. QED
    BY <1>0, <1>c, <2>1, <2>3, <2>4, <2>5, LoopShape DEF InLoop
<1>3. CASE SkipHashes
  <2>1. /\ exit = "running" /\ UNCHANGED rangeVars
        /\ UNCHANGED <<chainVars, cursors, indexed, bcursor, bto, bat, bseen,
                       blogs, bcancelled>>
        /\ bpc[t] = "process"
        /\ bpc' = [bpc EXCEPT ![t] = "commit"]
    BY <1>0, <1>3 DEF SkipHashes, Goes, B!Goto
  <2>2. BP!TypeOK'
    BY <1>a, <2>1 DEF BP!TypeOK, BP!ChainTypeOK, BP!Labels, chainVars
  <2>3. /\ \A p \in Protocols \ {t} : bpc'[p] = bpc[p] /\ blogs'[p] = blogs[p]
        /\ bpc'[t] = "commit"
    BY <2>1, ShapeParts
  <2>4. BP!Shape(t)'
    BY <1>a, <2>1, <2>3 DEF BP!Shape, BP!InBatch, BP!InWalk
  <2>5. QED
    BY <1>0, <1>c, <2>1, <2>2, <2>3, <2>4, LoopShape DEF InLoop
<1>4. CASE SharedLoop
  <2>1. /\ exit = "running" /\ UNCHANGED rangeVars
        /\ \/ BP!PollHead(t) \/ BP!FetchChunk(t) \/ BP!ProcessLog(t) \/ BP!LoseLog(t)
           \/ bpc[t] = "fetch" /\ BP!RetryBatch(t)
    BY <1>0, <1>4, SharedSteps DEF SharedLoop, Goes
  <2>2. BP!ProcessChain(t)
    BY <2>1 DEF BP!ProcessChain, BP!Batch
  <2>3. /\ BP!TypeOK' /\ BP!Shape(t)' /\ BP!OnlyOwnState(t)
        /\ \A log \in blogs'[t] :
             \/ log \in blogs[t]
             \/ log \in indexed[t]
             \/ log[1] \in Heights /\ bcursor[t] < log[1] /\ log[1] <= bto[t]
    BY <1>a, <2>2, LoopStep
  <2>4. \A p \in Protocols \ {t} : bpc'[p] = bpc[p] /\ blogs'[p] = blogs[p]
    BY <2>3 DEF BP!OnlyOwnState
  <2>5. CASE BP!PollHead(t)
    <3>1. /\ bpc'[t] = "check" /\ blogs'[t] = {} /\ bcursor'[t] = bcursor[t]
          /\ bpc[t] = "poll"
      BY <1>a, <1>c, <2>5 DEF BP!PollHead, BP!Goto, BP!TypeOK
    <3>2. bto'[t] <= bcursor[t] + BatchSize
      BY <1>a, <2>5, BP!PolledBatch, ChainAssumption, ProcessorAssumption
         DEF FaultKinds, BP!FaultKinds
    <3>3. QED
      BY <1>0, <1>c, <2>1, <2>3, <2>4, <3>1, <3>2, LoopShape
  <2>6. CASE BP!FetchChunk(t)
    <3>1. /\ bpc'[t] \in {"fetch", "process"} /\ bpc[t] = "fetch"
          /\ bcursor'[t] = bcursor[t] /\ bto'[t] = bto[t]
      BY <1>a, <2>6 DEF BP!FetchChunk, BP!Goto, BP!TypeOK
    <3>2. ASSUME NEW log \in blogs'[t], log \notin blogs[t]
          PROVE  log[1] \in Heights /\ bcursor[t] < log[1] /\ log[1] <= bto[t]
      BY <1>a, <2>6, <3>2, BP!ChunkLogs, ChainAssumption, ProcessorAssumption
         DEF FaultKinds, BP!FaultKinds, Heights, BP!Heights
    <3>3. QED
      BY <1>0, <1>c, <2>1, <2>3, <2>4, <3>1, <3>2, LoopShape DEF InLoop
  <2>7. CASE BP!ProcessLog(t) \/ BP!LoseLog(t)
    <3>1. /\ bpc'[t] = "process" /\ bpc[t] = "process" /\ blogs'[t] \subseteq blogs[t]
          /\ bcursor'[t] = bcursor[t] /\ bto'[t] = bto[t]
      BY <1>a, <2>7 DEF BP!ProcessLog, BP!LoseLog, BP!TypeOK
    <3>2. QED
      BY <1>0, <1>c, <2>1, <2>3, <2>4, <3>1, LoopShape DEF InLoop
  <2>8. CASE bpc[t] = "fetch" /\ BP!RetryBatch(t)
    <3>1. bpc'[t] = "poll" /\ blogs'[t] = {} /\ bcursor'[t] = bcursor[t]
      BY <1>a, <2>8 DEF BP!RetryBatch, BP!Leave, BP!Goto, BP!TypeOK
    <3>2. QED
      BY <1>0, <1>c, <2>1, <2>3, <2>4, <2>8, <3>1, LoopShape DEF InLoop
  <2>9. QED
    BY <2>1, <2>5, <2>6, <2>7, <2>8
<1>5. CASE UpdateRow
  <2>1. /\ exit = "running" /\ UNCHANGED rangeVars /\ BP!Commit(t) /\ bto[t] < stop
    BY <1>0, <1>5, <1>b, RowCommitted DEF UpdateRow, Goes, AtEnd
  <2>2. BP!ProcessChain(t)
    BY <2>1 DEF BP!ProcessChain, BP!Batch
  <2>3. BP!TypeOK' /\ BP!Shape(t)' /\ BP!OnlyOwnState(t)
    BY <1>a, <2>2, LoopStep
  <2>4. \A p \in Protocols \ {t} : bpc'[p] = bpc[p] /\ blogs'[p] = blogs[p]
    BY <2>3 DEF BP!OnlyOwnState
  <2>5. /\ bpc'[t] = "poll" /\ blogs'[t] = {} /\ bcursor'[t] = bto[t]
        /\ bpc[t] \in {"commit", "skip"}
    BY <1>a, <2>1 DEF BP!Commit, BP!Leave, BP!Goto, BP!TypeOK
  <2>6. from - 1 <= bto[t]
    BY <1>a, <1>b, <1>c, <2>5 DEF BP!Shape, BP!InBatch
  <2>7. QED
    BY <1>0, <2>1, <2>3, <2>4, <2>5, <2>6, LoopShape DEF InLoop
<1>6. CASE UpdateRowFails
  <2>1. /\ Exits("error") /\ UNCHANGED <<chainVars, indexed, done, bcancelled>>
        /\ cursors' \in [Protocols -> Heights]
    BY <1>0, <1>6, ShapeParts DEF UpdateRowFails
  <2>2. QED
    BY <2>1, ExitShape DEF BackfillShape, BackfillTypeOK
<1>7. CASE FinishRange
  <2>1. /\ Exits("error") /\ UNCHANGED <<chainVars, indexed, bcancelled>>
        /\ done' = TRUE /\ cursors' \in [Protocols -> Heights]
    BY <1>0, <1>7, ShapeParts DEF FinishRange
  <2>2. QED
    BY <2>1, ExitShape
<1>8. CASE Interrupted
  <2>1. /\ Exits("complete")
        /\ UNCHANGED <<chainVars, cursors, indexed, done, bcancelled>>
    BY <1>8 DEF Interrupted
  <2>2. QED
    BY <2>1, ExitShape, ShapeParts DEF BackfillShape, BackfillTypeOK
<1>9. CASE Launch
  BY <1>9, LaunchShape
<1>10. CASE CancelBackfill
  <2>1. /\ exit = "running" /\ UNCHANGED <<vars, rangeVars, bpc, bcursor, bto, bat, bseen, blogs>>
        /\ bcancelled' = TRUE
    BY <1>10 DEF CancelBackfill
  <2>2. BP!TypeOK' /\ BP!Shape(t)'
    BY <1>a, <2>1 DEF BP!TypeOK, BP!ChainTypeOK, BP!Shape, vars, chainVars, dbVars
  <2>3. QED
    BY <1>0, <1>c, <2>1, <2>2, LoopShape
<1>11. CASE Kill
  <2>1. /\ Exits("killed")
        /\ UNCHANGED <<chainVars, cursors, indexed, done, bcancelled>>
    BY <1>11 DEF Kill
  <2>2. QED
    BY <2>1, ExitShape, ShapeParts DEF BackfillShape, BackfillTypeOK
<1>12. QED
  BY <1>1, <1>2, <1>3, <1>4, <1>5, <1>6, <1>7, <1>8, <1>9, <1>10, <1>11
     DEF BackfillAct, BackfillStep

\* A backfill's batch is confirmed when it is chosen, and stays so.
LEMMA BackfillActBounded ==
  ASSUME BackfillShape, BackfillBounded, Confirmed(head) \in Nat, BackfillAct
  PROVE  BackfillBounded'
<1>0. PICK t \in Protocols : target = t
  BY ShapeParts
<1>1. Confirmed(head)' = Confirmed(head)
  BY <1>0, BackfillWrites DEF chainVars
<1>2. ASSUME NEW p \in Protocols PROVE bto'[p] <= Confirmed(head)
  <2>0. bto[p] <= Confirmed(head) /\ bto \in [Protocols -> Heights]
    BY ShapeParts DEF BackfillBounded
  <2>1. CASE UNCHANGED bto
    BY <2>0, <2>1
  <2>2. CASE bto' = [bto EXCEPT ![t] = 0]
    BY <2>0, <2>2
  <2>3. CASE BP!PollHead(t)
    <3>1. /\ bto' = [bto EXCEPT ![t] = bto'[t]]
          /\ bto'[t] <= BP!Confirmed(head)
      BY <2>3, <1>0, ShapeParts, BP!PolledBatch, ChainAssumption, ProcessorAssumption
         DEF FaultKinds, BP!FaultKinds
    <3>2. QED
      BY <2>0, <3>1 DEF BP!Confirmed, Confirmed
  <2>4. CASE SharedLoop
    BY <1>0, <2>1, <2>2, <2>3, <2>4, SharedSteps DEF BP!FetchChunk, BP!ProcessLog,
       BP!LoseLog, BP!RetryBatch, BP!Leave
  <2>5. CASE UpdateRow
    BY <1>0, <2>2, <2>5, RowCommitted DEF BP!Commit, BP!Leave
  <2>6. CASE LoadRange
    BY <1>0, <2>2, <2>6 DEF LoadRange, B!Leave
  <2>7. CASE UpdateRowFails \/ FinishRange \/ Interrupted \/ Kill
    BY <1>0, <2>2, <2>7
       DEF UpdateRowFails, FinishRange, Interrupted, Kill, Exits, B!Leave
  <2>8. QED
    BY <2>1, <2>4, <2>5, <2>6, <2>7 DEF BackfillAct, BackfillStep, SkipCheck,
       SkipHashes, Launch, CancelBackfill
<1>3. QED
  BY <1>1, <1>2 DEF BackfillBounded

\* What a backfill writes leaves the indexer's own invariant true.
LEMMA BackfillActLive ==
  ASSUME BackfillInv, BackfillAct
  PROVE  ShapeInv'
<1>0. PICK t \in Protocols : target = t
  BY ShapeParts DEF BackfillInv
<1>1. /\ TypeOK /\ BackfillShape /\ \A p \in Protocols : Shape(p) /\ Bounded(p)
      /\ bto \in [Protocols -> Heights] /\ blogs \in [Protocols -> SUBSET Logs]
      /\ bto[t] <= Confirmed(head) /\ Confirmed(head) \in Nat
  BY ShapeParts, HeadIsNat DEF BackfillInv, ShapeInv, BackfillBounded
<1>2. /\ UNCHANGED <<chainVars, hashes, liveVars>>
      /\ \/ cursors' = cursors
         \/ cursors' = [cursors EXCEPT ![t] = bto[t]]
      /\ \/ indexed' = indexed
         \/ \E log \in blogs[t] :
              indexed' = [indexed EXCEPT ![t] = indexed[t] \cup {log}]
  BY <1>0, BackfillWrites
<1>3. TypeOK'
  BY <1>1, <1>2 DEF TypeOK, ChainTypeOK, chainVars, liveVars
<1>4. ASSUME NEW q \in Protocols PROVE Shape(q)' /\ Bounded(q)'
  <2>1. Shape(q)'
    BY <1>1, <1>2 DEF Shape, liveVars
  <2>2. cursors'[q] <= Confirmed(head)
    BY <1>1, <1>2 DEF Bounded, TypeOK
  <2>3. \A log \in blogs[t] : log[1] <= Confirmed(head)
    <3>1. \A log \in blogs[t] : log[1] \in Heights /\ log[1] <= bto[t]
      BY <1>0, <1>1 DEF BackfillShape
    <3>2. QED
      BY <1>1, <3>1, HeightFacts
  <2>4. \A log \in indexed'[q] : log[1] <= Confirmed(head)
    BY <1>1, <1>2, <2>3 DEF Bounded, TypeOK
  <2>5. QED
    BY <1>1, <1>2, <2>1, <2>2, <2>4 DEF Bounded, chainVars, liveVars
<1>5. QED
  BY <1>3, <1>4 DEF ShapeInv

\* Nothing has started.
LEMMA BackfillInvInit == BackfillInit => BackfillInv
<1> SUFFICES ASSUME BackfillInit PROVE BackfillInv
  OBVIOUS
<1>1. ShapeInv
  BY ShapeInit DEF BackfillInit
<1>2. TypeOK /\ Confirmed(head) \in Nat /\ target \in Protocols
  BY <1>1, HeadIsNat DEF ShapeInv, BackfillInit
<1>3. \A p \in Protocols : bpc[p] = "load" /\ blogs[p] = {} /\ bto[p] = 0
  BY DEF BackfillInit, B!ProcessInit
<1>4. BP!TypeOK
  BY <1>2, HeightFacts
     DEF BackfillInit, B!ProcessInit, BP!TypeOK, TypeOK, BP!ChainTypeOK, ChainTypeOK,
     BP!Heights, Heights, BP!Labels, Labels, BP!Branches, Branches, BP!NoHash, NoHash,
     B!NoHash, BP!Logs, Logs
<1>5. BackfillTypeOK
  <2>1. B!TypeOK /\ bpc[target] = "load"
    BY <1>2, <1>3, <1>4, SameTypes
  <2>2. exit = "none" /\ from = 0 /\ stop = 0 /\ done \in BOOLEAN
    BY DEF BackfillInit
  <2>3. from \in Heights /\ stop \in Heights /\ from <= stop
    BY <2>2, HeightFacts
  <2>4. QED
    BY <1>2, <2>1, <2>2, <2>3 DEF BackfillTypeOK
<1>6. BP!Shape(target)
  BY <1>2, <1>3 DEF BP!Shape, BP!InBatch, BP!InWalk
<1>7. QED
  BY <1>1, <1>2, <1>3, <1>5, <1>6
     DEF BackfillInv, BackfillShape, BackfillBounded, BackfillInit, InLoop

\* Neither process breaks it.
LEMMA BackfillInvNext == BackfillInv /\ [BackfillNext]_allVars => BackfillInv'
<1> SUFFICES ASSUME BackfillInv, [BackfillNext]_allVars PROVE BackfillInv'
  OBVIOUS
<1>1. ShapeInv /\ BackfillShape /\ BackfillBounded /\ Confirmed(head) \in Nat
  BY HeadIsNat DEF BackfillInv, ShapeInv
<1>2. CASE BackfillAct
  BY <1>1, <1>2, BackfillActLive, BackfillActShape, BackfillActBounded DEF BackfillInv
<1>3. CASE [Next]_vars /\ UNCHANGED backfillVars
  <2>1. ShapeInv'
    BY <1>1, <1>3, ShapeNext
  <2>2. UNCHANGED <<exit, target, from, stop, done, bpc, bcursor, bto, bat, bseen,
                    blogs, bcancelled>>
    BY <1>3 DEF backfillVars, rangeVars, argVars, loopVars
  <2>3. BP!TypeOK'
    BY <1>1, <2>1, <2>2, ShapeParts
       DEF ShapeInv, TypeOK, ChainTypeOK, Heights, Branches, Logs, BP!TypeOK,
       BP!ChainTypeOK, BP!Heights, BP!Branches, BP!Logs
  <2>4. BackfillTypeOK'
    BY <1>1, <2>2, <2>3, SameTypes DEF BackfillShape, BackfillTypeOK
  <2>5. BP!Shape(target)'
    BY <1>1, <2>2 DEF BackfillShape, BP!Shape
  <2>6. BackfillShape'
    BY <1>1, <2>2, <2>4, <2>5 DEF BackfillShape
  <2>7. BackfillBounded'
    <3> DEFINE c == Confirmed(head)
               d == Confirmed(head)'
    <3>1. c \in Nat /\ d \in Nat /\ c <= d
      BY <1>1, <1>3, NextGrows
    <3>2. \A p \in Protocols : bto[p] \in Nat /\ bto[p] <= c
      BY <1>1, ShapeParts, HeightFacts DEF BackfillBounded
    <3> HIDE DEF c, d
    <3>3. \A p \in Protocols : bto[p] <= d
      BY <3>1, <3>2
    <3>4. QED
      BY <2>2, <3>3 DEF BackfillBounded, d
  <2>8. QED
    BY <2>1, <2>6, <2>7 DEF BackfillInv
<1>4. QED
  BY <1>2, <1>3 DEF BackfillNext, IndexerStep, BackfillAct, allVars

\* Types, positions and bounds of both processes hold always.
LEMMA BackfillAlways == BackfillSpec => []BackfillInv
BY BackfillInvInit, BackfillInvNext, PTL DEF BackfillSpec

\* Every variable of the backfill keeps its type, and one that is not running
\* has left nothing in memory, for any range, also one that starts anywhere.
THEOREM BackfillTypeCorrect == BackfillSpec => []BackfillTypeOK
<1>1. BackfillInv => BackfillTypeOK
  BY DEF BackfillInv, BackfillShape
<1>2. QED
  BY BackfillAlways, <1>1, PTL

\* A backfill writes no message of a block before its range, and none further
\* past its end than the batch that reaches it.
THEOREM NearRangeOnlyHolds == BackfillSpec => NearRangeOnly
<1>1. ASSUME BackfillInv, [BackfillNext]_allVars, blogs' # blogs,
             NEW log \in indexed'[target] \ indexed[target]
      PROVE  /\ from <= log[1] /\ log[1] <= bcursor[target] + BatchSize
             /\ bcursor[target] < stop
  <2>0. PICK t \in Protocols : target = t
    BY <1>1, ShapeParts DEF BackfillInv
  <2>1. BackfillAct
    BY <1>1 DEF BackfillNext, IndexerStep, BackfillAct, allVars, backfillVars, loopVars
  <2>2. BackfillShape /\ indexed \in [Protocols -> SUBSET Logs]
    BY <1>1, ShapeParts DEF BackfillInv
  <2>3. bpc[t] = "process" /\ log \in blogs[t]
    BY <2>0, <2>1, <2>2, <1>1, BackfillWrites
  <2>4. /\ log[1] \in Nat /\ bcursor[t] < log[1] /\ log[1] <= bto[t]
        /\ from - 1 <= bcursor[t] /\ bcursor[t] < stop
        /\ bto[t] <= bcursor[t] + BatchSize
    BY <2>0, <2>2, <2>3, HeightFacts DEF BackfillShape, InLoop
  <2>5. from \in Nat /\ bcursor[t] \in Nat /\ bto[t] \in Nat /\ BatchSize \in Nat
    BY <2>2, ShapeParts, HeightFacts, ProcessorAssumption
  <2>6. QED
    BY <2>0, <2>4, <2>5
<1>2. BackfillInv /\ [BackfillNext]_allVars =>
        [blogs' # blogs => \A log \in indexed'[target] \ indexed[target] :
           /\ from <= log[1] /\ log[1] <= bcursor[target] + BatchSize
           /\ bcursor[target] < stop]_allVars
  BY <1>1
<1>3. QED
  BY <1>2, BackfillAlways, PTL DEF BackfillSpec, NearRangeOnly

(***************************************************************************)
(* The range is indexed                                                    *)
(***************************************************************************)

\* A log of height h is indexed, or the backfill has it in hand.
Held(p, h) == \E b \in Branches : <<h, b>> \in indexed[p] \cup blogs[p]

\* What the backfill has indexed of its range.  Logs are dropped once the
\* context is cancelled, but then the batch that lacks them does not count.
RangeCoverage ==
  /\ bpc[target] # "load" => \A h \in from..bcursor[target] : Indexed(target, h)
  /\ bpc[target] = "fetch" =>
       \A h \in bcursor[target] + 1 .. bat[target] - 1 : Held(target, h)
  /\ bpc[target] = "process" /\ ~bcancelled =>
       \A h \in bcursor[target] + 1 .. bto[target] : Held(target, h)
  /\ bpc[target] = "commit" /\ ~bcancelled =>
       \A h \in bcursor[target] + 1 .. bto[target] : Indexed(target, h)
  /\ done /\ ~bcancelled => \A h \in from..stop : Indexed(target, h)

RangeInv == target \in Addressed => RangeCoverage

\* A message once stored is stored for good, by whichever process.
LEMMA AllGrows ==
  ASSUME BackfillInv, [BackfillNext]_allVars
  PROVE  \A p \in Protocols : /\ indexed[p] \subseteq indexed'[p]
                              /\ \A h : Indexed(p, h) => Indexed(p, h)'
<1>1. \A p \in Protocols : indexed[p] \subseteq indexed'[p]
  <2>1. CASE BackfillAct
    <3>1. PICK t \in Protocols : target = t
      BY ShapeParts DEF BackfillInv
    <3>2. QED
      BY <2>1, <3>1, BackfillWrites, ShapeParts DEF BackfillInv
  <2>2. CASE [Next]_vars
    BY <2>2, NextGrows DEF BackfillInv
  <2>3. QED
    BY <2>1, <2>2 DEF BackfillNext, IndexerStep, BackfillAct, allVars
<1>2. QED
  BY <1>1 DEF Indexed

\* A step of the backfill that goes on keeps what it has of its range.
LEMMA RangeLoop ==
  ASSUME NothingLost, BackfillInv, NEW t \in Addressed, target = t, RangeCoverage,
         LoadRange \/ SkipCheck \/ SkipHashes \/ SharedLoop \/ UpdateRow,
         \A h : Indexed(t, h) => Indexed(t, h)'
  PROVE  RangeCoverage'
<1>a. /\ BackfillShape /\ t \in Protocols /\ BP!TypeOK /\ BP!Shape(t)
      /\ bpc \in [Protocols -> Labels] /\ blogs \in [Protocols -> SUBSET Logs]
      /\ bcursor \in [Protocols -> Heights] /\ bto \in [Protocols -> Heights]
      /\ bat \in [Protocols -> Heights] /\ indexed \in [Protocols -> SUBSET Logs]
      /\ from \in Nat
  BY ProcessorAssumption, ShapeParts DEF BackfillInv
<1>b. /\ bcursor[t] \in Nat /\ bto[t] \in Nat /\ bat[t] \in Nat
      /\ bto[t] <= MaxHeight
  BY <1>a, HeightFacts
<1>c. target' = t /\ UNCHANGED <<from, stop, done>>
  BY DEF LoadRange, SkipCheck, SkipHashes, SharedLoop, UpdateRow, Goes, rangeVars,
     argVars
<1>d. /\ bpc[t] # "load" => \A h \in from..bcursor[t] : Indexed(t, h)'
      /\ bpc[t] = "fetch" => \A h \in bcursor[t] + 1 .. bat[t] - 1 : Held(t, h)
      /\ bpc[t] = "process" /\ ~bcancelled =>
           \A h \in bcursor[t] + 1 .. bto[t] : Held(t, h)
      /\ bpc[t] = "commit" /\ ~bcancelled =>
           \A h \in bcursor[t] + 1 .. bto[t] : Indexed(t, h)'
      /\ done /\ ~bcancelled => \A h \in from..stop : Indexed(t, h)'
  BY DEF RangeCoverage
<1>e. SUFFICES
      /\ bcancelled' = bcancelled
      /\ bpc'[t] # "load" => \A h \in from..bcursor'[t] : Indexed(t, h)'
      /\ bpc'[t] = "fetch" =>
           \A h \in bcursor'[t] + 1 .. bat'[t] - 1 : Held(t, h)'
      /\ bpc'[t] = "process" /\ ~bcancelled =>
           \A h \in bcursor'[t] + 1 .. bto'[t] : Held(t, h)'
      /\ bpc'[t] = "commit" /\ ~bcancelled =>
           \A h \in bcursor'[t] + 1 .. bto'[t] : Indexed(t, h)'
  BY <1>c, <1>d DEF RangeCoverage
<1>1. CASE LoadRange
  <2>1. /\ bcursor'[t] = from - 1 /\ bpc'[t] = "poll" /\ bcancelled' = bcancelled
    BY <1>a, <1>1 DEF LoadRange, B!Leave, B!Goto
  <2>2. QED
    BY <1>a, <2>1
<1>2. CASE SkipCheck
  <2>1. /\ bpc[t] = "check" /\ bcursor' = bcursor /\ bcancelled' = bcancelled
        /\ bpc'[t] \in {"fetch", "skip"} /\ bat'[t] = bcursor[t] + 1
    BY <1>a, <1>2 DEF SkipCheck, B!NoReorg, B!Goto
  <2>2. QED
    BY <1>b, <1>d, <2>1
<1>3. CASE SkipHashes
  <2>1. /\ bpc[t] = "process" /\ bcursor' = bcursor /\ bcancelled' = bcancelled
        /\ bto' = bto /\ bpc'[t] = "commit" /\ blogs[t] = {}
    BY <1>a, <1>3 DEF SkipHashes, B!Goto
  <2>2. \A h : Held(t, h) => Indexed(t, h)'
    BY <2>1 DEF Held, Indexed
  <2>3. QED
    BY <1>d, <2>1, <2>2
<1>4. CASE SharedLoop
  <2>1. CASE BP!PollHead(t)
    <3>1. /\ bpc[t] = "poll" /\ bcursor' = bcursor /\ bcancelled' = bcancelled
          /\ bpc'[t] = "check"
      BY <1>a, <2>1 DEF BP!PollHead, BP!Goto
    <3>2. QED
      BY <1>d, <3>1
  <2>2. CASE BP!FetchChunk(t)
    <3> DEFINE chunkEnd == BP!Minimum(bat[t] + MaxBlockRange - 1, bto[t])
    <3>1. /\ chunkEnd \in Int /\ chunkEnd <= bto[t] /\ bcursor[t] < bat[t]
          /\ bpc[t] = "fetch" /\ UNCHANGED <<indexed, bcursor, bto, bcancelled>>
          /\ \/ bpc'[t] = "fetch" /\ bat'[t] = chunkEnd + 1
             \/ bpc'[t] = "process" /\ chunkEnd = bto[t]
      BY <1>a, <1>b, <2>2, ProcessorAssumption
         DEF BP!FetchChunk, BP!Minimum, BP!Shape, BP!Goto, BP!dbVars
    <3>2. ASSUME NEW h \in bat[t]..chunkEnd
          PROVE  h \in Heights /\ <<h, branch[h]>> \in blogs'[t]
      <4>1. bto[t] <= BP!Confirmed(head)
        BY <1>a DEF BackfillInv, BackfillBounded, BP!Confirmed, Confirmed
      <4>2. MaxLag <= ConfirmationDepth
        BY DEF NothingLost
      <4>3. h \in BP!Heights /\ <<h, branch[h]>> \in blogs'[t]
        BY <1>a, <2>2, <3>2, <4>1, <4>2, BP!ChunkComplete, ChainAssumption,
           ProcessorAssumption DEF FaultKinds, BP!FaultKinds
      <4>4. QED
        BY <4>3 DEF BP!Heights, Heights
    <3> HIDE DEF chunkEnd
    <3>3. \A h \in bat[t]..chunkEnd : Held(t, h)'
      BY <3>2 DEF Held, BackfillInv, ShapeInv, TypeOK, ChainTypeOK
    <3>4. \A h : Held(t, h) => Held(t, h)'
      BY <1>a, <2>2, <3>1 DEF BP!FetchChunk, Held
    <3>5. \A h \in bcursor[t] + 1 .. chunkEnd : Held(t, h)'
      BY <1>b, <1>d, <3>1, <3>3, <3>4
    <3>6. QED
      BY <1>d, <3>1, <3>5
  <2>3. CASE BP!ProcessLog(t)
    <3>1. /\ bpc[t] = "process" /\ UNCHANGED <<bpc, bcursor, bto, bcancelled>>
          /\ indexed[t] \cup blogs[t] \subseteq indexed'[t] \cup blogs'[t]
      BY <1>a, <2>3 DEF BP!ProcessLog
    <3>2. \A h : Held(t, h) => Held(t, h)'
      BY <3>1 DEF Held
    <3>3. QED
      BY <1>d, <3>1, <3>2
  <2>4. CASE BP!LoseLog(t)
    <3>1. /\ bpc[t] = "process" /\ UNCHANGED <<bpc, bcursor, bcancelled>>
          /\ bcancelled
      BY <1>a, <2>4 DEF BP!LoseLog, BP!MayFail, NothingLost
    <3>2. QED
      BY <1>d, <3>1
  <2>5. CASE bpc[t] = "fetch" /\ BP!RetryBatch(t)
    <3>1. bpc'[t] = "poll" /\ UNCHANGED <<bcursor, bcancelled>>
      BY <1>a, <2>5 DEF BP!RetryBatch, BP!Leave, BP!Goto
    <3>2. QED
      BY <1>d, <2>5, <3>1
  <2>6. QED
    BY <1>a, <1>4, <2>1, <2>2, <2>3, <2>4, <2>5, SharedSteps
<1>5. CASE UpdateRow
  <2>1. /\ bpc[t] \in {"commit", "skip"} /\ ~bcancelled /\ bcancelled' = bcancelled
        /\ bcursor'[t] = bto[t] /\ bpc'[t] = "poll"
    BY <1>a, <1>5, RowCommitted DEF BP!Commit, BP!Leave, BP!Goto
  <2>2. bpc[t] = "commit"
    BY <1>a, <2>1 DEF BP!Shape
  <2>3. QED
    BY <1>a, <1>b, <1>d, <2>1, <2>2
<1>6. QED
  BY <1>1, <1>2, <1>3, <1>4, <1>5

\* Whoever moves, what the backfill has of its range stays.
LEMMA RangeNext ==
  ASSUME NothingLost
  PROVE  BackfillInv /\ RangeInv /\ [BackfillNext]_allVars => RangeInv'
<1> SUFFICES ASSUME BackfillInv, RangeInv, [BackfillNext]_allVars,
                    target' \in Addressed
             PROVE  RangeCoverage'
  BY DEF RangeInv
<1>0. PICK t \in Protocols : target = t
  BY ShapeParts DEF BackfillInv
<1>a. \A p \in Protocols : \A h : Indexed(p, h) => Indexed(p, h)'
  BY AllGrows
<1>b. /\ BackfillShape /\ BP!Shape(t) /\ from \in Nat /\ stop \in Nat
      /\ bpc \in [Protocols -> Labels]
      /\ bcursor \in [Protocols -> Heights] /\ bto \in [Protocols -> Heights]
  BY <1>0, ShapeParts DEF BackfillInv
<1>1. CASE LoadRange \/ SkipCheck \/ SkipHashes \/ SharedLoop \/ UpdateRow
  <2>1. target' = target
    BY <1>1 DEF LoadRange, SkipCheck, SkipHashes, SharedLoop, UpdateRow, Goes,
       rangeVars, argVars
  <2>2. t \in Addressed /\ RangeCoverage
    BY <1>0, <2>1 DEF RangeInv
  <2>3. QED
    BY <1>0, <1>1, <1>a, <2>2, RangeLoop
<1>2. ASSUME NEW how, Exits(how), bcancelled' = bcancelled,
             done' /\ ~bcancelled => \A h \in from..stop : Indexed(t, h)'
      PROVE  RangeCoverage'
  <2>1. /\ target' = t /\ UNCHANGED <<from, stop>> /\ bpc'[t] = "load"
    BY <1>0, <1>b, <1>2 DEF Exits, B!Leave, B!Goto, argVars
  <2>2. QED
    BY <1>2, <2>1 DEF RangeCoverage
<1>3. CASE UpdateRowFails \/ Interrupted \/ Kill
  <2>1. PICK how \in {"error", "complete", "killed"} : Exits(how)
    BY <1>3 DEF UpdateRowFails, Interrupted, Kill
  <2>2. UNCHANGED <<done, bcancelled>> /\ target' = target
    BY <1>3, <2>1 DEF UpdateRowFails, Interrupted, Kill, Exits, argVars
  <2>3. done' /\ ~bcancelled => \A h \in from..stop : Indexed(t, h)'
    BY <1>0, <1>a, <2>2 DEF RangeInv, RangeCoverage
  <2>4. QED
    BY <1>2, <2>1, <2>2, <2>3
<1>4. CASE FinishRange
  <2>1. /\ Exits("error") /\ bcancelled' = bcancelled /\ target' = target
        /\ bpc[t] \in {"commit", "skip"} /\ bto[t] >= stop
    BY <1>0, <1>4 DEF FinishRange, AtUpdate, AtEnd, Exits, argVars
  <2>2. t \in Addressed /\ RangeCoverage
    BY <1>0, <2>1 DEF RangeInv
  <2>3. bpc[t] = "commit"
    BY <1>b, <2>1, <2>2 DEF BP!Shape
  <2>4. /\ \A h \in from..bcursor[t] : Indexed(t, h)
        /\ ~bcancelled => \A h \in bcursor[t] + 1 .. bto[t] : Indexed(t, h)
    BY <1>0, <2>2, <2>3 DEF RangeCoverage
  <2>5. bcursor[t] \in Nat /\ bto[t] \in Nat
    BY <1>b, HeightFacts
  <2>6. ~bcancelled => \A h \in from..stop : Indexed(t, h)'
    BY <1>a, <1>b, <2>1, <2>4, <2>5
  <2>7. QED
    BY <1>2, <2>1, <2>6
<1>5. CASE Launch
  <2>1. done' = FALSE /\ target' \in Protocols /\ bpc'[target'] = "load"
    BY <1>b, <1>5 DEF Launch, BackfillShape
  <2>2. QED
    BY <2>1 DEF RangeCoverage
<1>6. CASE CancelBackfill
  <2>1. /\ bcancelled' = TRUE
        /\ UNCHANGED <<target, from, stop, done, bpc, bcursor, bto, bat, blogs, indexed>>
    BY <1>6 DEF CancelBackfill, vars, dbVars, rangeVars, argVars
  <2>2. RangeCoverage
    BY <2>1 DEF RangeInv
  <2>3. QED
    BY <2>1, <2>2 DEF RangeCoverage, Indexed, Held
<1>7. CASE [Next]_vars /\ UNCHANGED backfillVars
  <2>1. UNCHANGED <<target, from, stop, done, bpc, bcursor, bto, bat, blogs, bcancelled>>
    BY <1>7 DEF backfillVars, rangeVars, argVars, loopVars
  <2>2. RangeCoverage
    BY <2>1 DEF RangeInv
  <2>3. \A h : Held(t, h) => Held(t, h)'
    BY <2>1, AllGrows DEF Held
  <2>4. QED
    BY <1>0, <1>a, <2>1, <2>2, <2>3 DEF RangeCoverage
<1>8. QED
  BY <1>1, <1>3, <1>4, <1>5, <1>6, <1>7
     DEF BackfillNext, BackfillStep, IndexerStep, allVars

\* What the backfill has indexed of its range is known at every step.
LEMMA RangeAlways ==
  ASSUME NothingLost
  PROVE  BackfillSpec => []RangeInv
<1>1. BackfillInit => RangeInv
  BY DEF BackfillInit, B!ProcessInit, RangeInv, RangeCoverage
<1>2. QED
  BY <1>1, BackfillAlways, RangeNext, PTL DEF BackfillSpec

\* A range run to its end without a signal has been indexed, every height of it,
\* wherever it starts, whatever the indexer does to the row and whether or not
\* the row could be written.
THEOREM RangeCoveredHolds ==
  ASSUME NothingLost
  PROVE  BackfillSpec => []RangeCovered
<1>1. RangeInv => RangeCovered
  BY DEF RangeInv, RangeCoverage, RangeCovered, Indexed
<1>2. QED
  BY <1>1, RangeAlways, PTL

(***************************************************************************)
(* Beside a backfill that starts at or before the cursor                   *)
(***************************************************************************)

\* What lies before the range of a running backfill has been indexed.
BeforeInv ==
  target \in Addressed /\ exit = "running" =>
    \A h \in 1 .. from - 1 : Indexed(target, h)

\* At the end of a batch the row may be moved to it: all up to there is indexed,
\* before the range by the indexer and in it by the backfill.
LEMMA RowCovered ==
  ASSUME BackfillInv, RangeInv, BeforeInv, target \in Addressed,
         bpc[target] \in {"commit", "skip"}, ~bcancelled
  PROVE  \A h \in 1 .. bto[target] : Indexed(target, h)
<1>1. /\ BP!Shape(target) /\ target \in Protocols /\ from \in Nat
      /\ bcursor[target] \in Nat /\ bto[target] \in Nat
  BY ShapeParts, HeightFacts DEF BackfillInv
<1>2. bpc[target] = "commit" /\ exit = "running"
  BY <1>1 DEF BP!Shape, BackfillInv, BackfillShape, BackfillTypeOK
<1>3. /\ \A h \in from..bcursor[target] : Indexed(target, h)
      /\ \A h \in bcursor[target] + 1 .. bto[target] : Indexed(target, h)
      /\ \A h \in 1 .. from - 1 : Indexed(target, h)
  BY <1>2 DEF RangeInv, RangeCoverage, BeforeInv
<1>4. QED
  BY <1>1, <1>3

\* A backfill may only be launched where its range joins what is indexed.
LEMMA BeforeNext ==
  ASSUME Reindexing
  PROVE  BackfillInv /\ CoverageInv /\ BeforeInv /\ [BackfillNext]_allVars => BeforeInv'
<1> SUFFICES ASSUME BackfillInv, CoverageInv, BeforeInv, [BackfillNext]_allVars,
                    NEW t \in Addressed, target' = t, exit' = "running",
                    NEW h \in 1 .. from' - 1
             PROVE  \E b \in Branches : <<h, b>> \in indexed'[t]
  BY DEF BeforeInv, Indexed
<1>1. t \in Protocols /\ indexed[t] \subseteq indexed'[t]
  BY AllGrows, ProcessorAssumption
<1>2. SUFFICES Indexed(t, h)
  BY <1>1 DEF Indexed
<1>3. CASE Launch
  <2>1. from' \in Heights /\ from' <= cursors[t] + 1
    BY <1>3 DEF Launch
  <2>2. cursors[t] \in Nat
    BY <1>1, HeightFacts DEF BackfillInv, ShapeInv, TypeOK
  <2>3. h \in 1..cursors[t]
    BY <2>1, <2>2, HeightFacts
  <2>4. QED
    BY <2>3 DEF CoverageInv, Coverage
<1>4. CASE ~Launch
  <2>1. UNCHANGED <<target, from>> /\ exit = "running"
    BY <1>4 DEF BackfillNext, BackfillStep, IndexerStep, allVars, backfillVars,
       LoadRange, SkipCheck, SkipHashes, SharedLoop, UpdateRow, UpdateRowFails,
       FinishRange, Interrupted, CancelBackfill, Kill, Goes, Exits, rangeVars, argVars
  <2>2. QED
    BY <2>1 DEF BeforeInv
<1>5. QED
  BY <1>3, <1>4

\* Neither the indexer nor the backfill leaves a height behind the row without
\* a log, though the backfill moves the row under the indexer.
LEMMA BesideNext ==
  ASSUME NothingLost
  PROVE  BackfillInv /\ RangeInv /\ BeforeInv /\ CoverageInv /\ [BackfillNext]_allVars
           => CoverageInv'
<1> SUFFICES ASSUME BackfillInv, RangeInv, BeforeInv, CoverageInv,
                    [BackfillNext]_allVars
             PROVE  CoverageInv'
  OBVIOUS
<1>1. CASE BackfillAct
  <2>0. PICK t \in Protocols : target = t
    BY ShapeParts DEF BackfillInv
  <2>1. SUFFICES ASSUME NEW q \in Addressed PROVE Coverage(q)'
    BY DEF CoverageInv
  <2>2. /\ q \in Protocols /\ Coverage(q) /\ TypeOK
        /\ bto \in [Protocols -> Heights]
    BY ProcessorAssumption, ShapeParts DEF CoverageInv, BackfillInv, ShapeInv
  <2>3. /\ UNCHANGED liveVars
        /\ \/ cursors' = cursors
           \/ /\ bpc[t] \in {"commit", "skip"} /\ ~bcancelled
              /\ cursors' = [cursors EXCEPT ![t] = bto[t]]
    BY <1>1, <2>0, BackfillWrites
  <2>4. indexed[q] \subseteq indexed'[q]
    BY <2>2, AllGrows
  <2>5. \A h : Indexed(q, h) => Indexed(q, h)'
    BY <2>2, AllGrows
  <2>6. \A h : InHand(q, h) => InHand(q, h)'
    BY <2>3, <2>4 DEF InHand, liveVars
  <2>7. \A h \in 1..cursors'[q] : Indexed(q, h)
    <3>1. CASE cursors'[q] = cursors[q]
      BY <2>2, <3>1 DEF Coverage
    <3>2. CASE cursors'[q] # cursors[q]
      <4>1. /\ q = t /\ cursors'[q] = bto[t]
            /\ bpc[t] \in {"commit", "skip"} /\ ~bcancelled
        BY <2>2, <2>3, <3>2 DEF TypeOK
      <4>2. QED
        BY <2>0, <4>1, RowCovered
    <3>3. QED
      BY <3>1, <3>2
  <2>8. QED
    BY <2>2, <2>3, <2>5, <2>6, <2>7 DEF Coverage, liveVars
<1>2. CASE [Next]_vars
  BY <1>2, CoverageNext DEF BackfillInv
<1>3. QED
  BY <1>1, <1>2 DEF BackfillNext, IndexerStep, BackfillAct, allVars

\* The coverage of the indexer and of the backfill hold together.
LEMMA BesideAlways ==
  ASSUME NothingLost, Reindexing
  PROVE  BackfillSpec => [](BackfillInv /\ CoverageInv)
<1>1. BackfillInit => CoverageInv /\ BeforeInv
  BY CoverageInit DEF BackfillInit, BeforeInv
<1>2. QED
  BY <1>1, BackfillAlways, RangeAlways, BeforeNext, BesideNext, PTL DEF BackfillSpec

\* A backfill that starts at or before the indexer's cursor leaves every height
\* behind the row indexed, though it writes the row the indexer goes on from.
THEOREM BackfillKeepsCoverage ==
  ASSUME NothingLost, Reindexing
  PROVE  BackfillSpec => []HeightsCovered
<1>1. CoverageInv => HeightsCovered
  BY DEF CoverageInv, Coverage, HeightsCovered, Indexed
<1>2. QED
  BY BesideAlways, <1>1, PTL

(***************************************************************************)
(* If confirmed blocks are final                                           *)
(***************************************************************************)

\* Everything indexed or in hand is canonical, of either process.
LogsCanonical ==
  \A p \in Protocols : \A log \in indexed[p] \cup logs[p] \cup blogs[p] :
    log[2] = branch[log[1]]

\* What either process has is confirmed.
LEMMA LogsConfirmed ==
  ASSUME BackfillInv, NEW p \in Protocols,
         NEW log \in indexed[p] \cup logs[p] \cup blogs[p]
  PROVE  log[1] \in Heights /\ log[1] <= Confirmed(head)
<1>1. CASE log \in blogs[p]
  <2>1. p = target /\ Confirmed(head) \in Nat
    BY <1>1, HeadIsNat DEF BackfillInv, ShapeInv, BackfillShape
  <2>2. /\ log[1] \in Heights /\ log[1] <= bto[p] /\ bto[p] <= Confirmed(head)
        /\ bto[p] \in Heights
    BY <1>1, <2>1, ShapeParts DEF BackfillInv, BackfillShape, BackfillBounded
  <2>3. QED
    BY <2>1, <2>2, HeightFacts
<1>2. CASE log \in indexed[p] \cup logs[p]
  BY <1>2 DEF BackfillInv, ShapeInv, Bounded, TypeOK, Logs
<1>3. QED
  BY <1>1, <1>2

\* No step of either process, and no reorganisation, changes that.
LEMMA LogsCanonicalNext ==
  ASSUME ConfirmedIsFinal
  PROVE  BackfillInv /\ LogsCanonical /\ [BackfillNext]_allVars => LogsCanonical'
<1> SUFFICES ASSUME BackfillInv, LogsCanonical, [BackfillNext]_allVars,
                    NEW p \in Protocols,
                    NEW log \in indexed'[p] \cup logs'[p] \cup blogs'[p]
             PROVE  log[2] = branch'[log[1]]
  BY DEF LogsCanonical
<1>a. /\ TypeOK /\ BackfillShape /\ \A q \in Protocols : Shape(q)
      /\ \A l \in indexed[p] \cup logs[p] \cup blogs[p] : l[2] = branch[l[1]]
  BY DEF BackfillInv, ShapeInv, LogsCanonical
<1>1. CASE BackfillAct
  <2>0. PICK t \in Protocols : target = t
    BY <1>a, ShapeParts
  <2>1. /\ branch' = branch /\ logs' = logs
        /\ \A l \in indexed'[p] : l \in indexed[p] \cup blogs[p]
    BY <1>a, <1>1, <2>0, BackfillWrites, ShapeParts DEF chainVars, liveVars, TypeOK
  <2>2. CASE log \in blogs'[p] /\ log \notin blogs[p]
    <3>1. SharedLoop
      <4>1. LoadRange \/ UpdateRow \/ UpdateRowFails \/ FinishRange \/ Interrupted \/ Kill
              => blogs' = [blogs EXCEPT ![t] = {}]
        BY <2>0, RowCommitted DEF LoadRange, UpdateRowFails, FinishRange,
           Interrupted, Kill, Exits, B!Leave, BP!Commit, BP!Leave
      <4>2. SkipCheck \/ SkipHashes \/ Launch \/ CancelBackfill => UNCHANGED blogs
        BY DEF SkipCheck, SkipHashes, Launch, CancelBackfill
      <4>3. blogs \in [Protocols -> SUBSET Logs]
        BY <1>a, ShapeParts
      <4>4. QED
        BY <1>1, <2>2, <4>1, <4>2, <4>3 DEF BackfillAct, BackfillStep
    <3>2. BP!ProcessChain(t)
      BY <2>0, <3>1, SharedSteps DEF BP!ProcessChain, BP!Batch
    <3>3. /\ BP!OnlyOwnState(t)
          /\ \A l \in blogs'[t] : \/ l \in indexed[t] \cup blogs[t]
                                  \/ l[2] = branch[l[1]]
      BY <1>a, <2>0, <3>2, ShapeParts, LoopStep
    <3>4. p = t
      BY <2>2, <3>3 DEF BP!OnlyOwnState
    <3>5. QED
      BY <1>a, <2>1, <2>2, <3>3, <3>4
  <2>3. QED
    BY <1>a, <2>1, <2>2
<1>2. ASSUME NEW q \in Protocols, ProcessChain(q), UNCHANGED backfillVars
      PROVE  log[2] = branch'[log[1]]
  <2>1. branch' = branch /\ blogs' = blogs
    BY <1>a, <1>2, ProcessFrame DEF OnlyOwnState, backfillVars, loopVars
  <2>2. CASE p = q
    BY <1>a, <1>2, <2>1, <2>2, LogsProcess
  <2>3. CASE p # q
    BY <1>a, <1>2, <2>1, <2>3, ProcessFrame DEF OnlyOwnState
  <2>4. QED
    BY <2>2, <2>3
<1>3. CASE ChainStep /\ UNCHANGED backfillVars
  <2>1. indexed' = indexed /\ logs' = logs /\ blogs' = blogs
    BY <1>3 DEF ChainStep, dbVars, batchVars, backfillVars, loopVars
  <2>2. log[1] \in Heights /\ log[1] <= Confirmed(head)
    BY <2>1, LogsConfirmed
  <2>3. branch'[log[1]] = branch[log[1]]
    BY <1>a, <1>3, <2>2, ConfirmedStay DEF ConfirmedIsFinal
  <2>4. QED
    BY <1>a, <2>1, <2>3
<1>4. ASSUME UNCHANGED <<chainVars, dbVars>>, UNCHANGED backfillVars,
             \A l \in logs'[p] : l \in logs[p]
      PROVE  log[2] = branch'[log[1]]
  BY <1>a, <1>4 DEF chainVars, dbVars, backfillVars, loopVars
<1>5. QED
  <2>1. CASE IndexerStep \/ UNCHANGED allVars
    <3>1. Cancel \/ UNCHANGED vars \/ (\E q \in Protocols : Sleep(q)) => UNCHANGED logs
      BY DEF Cancel, Sleep, vars, batchVars
    <3>2. Restart \/ Crash => logs'[p] = {}
      BY DEF Restart, Crash, ProcessStarts
    <3>3. QED
      BY <1>2, <1>3, <1>4, <2>1, <3>1, <3>2
         DEF IndexerStep, Next, Cancel, Restart, Crash, Sleep, vars, allVars
  <2>2. QED
    BY <1>1, <2>1 DEF BackfillNext, BackfillAct

\* If confirmed blocks are final, the two processes together leave no gap in the
\* canonical chain behind the row they share.
THEOREM BackfillKeepsPrefix ==
  ASSUME "event" \notin Faults, ConfirmedIsFinal, Reindexing
  PROVE  BackfillSpec => []ConfirmedPrefixIndexed
<1>1. NothingLost
  BY DEF NothingLost, ConfirmedIsFinal
<1>2. BackfillInit => LogsCanonical
  BY DEF BackfillInit, Init, ProcessInit, B!ProcessInit, LogsCanonical
<1>3. CoverageInv /\ LogsCanonical => ConfirmedPrefixIndexed
  <2> SUFFICES ASSUME CoverageInv, LogsCanonical,
                      NEW p \in Addressed, NEW h \in 1..cursors[p]
               PROVE  <<h, branch[h]>> \in indexed[p]
    BY DEF ConfirmedPrefixIndexed
  <2>1. PICK b \in Branches : <<h, b>> \in indexed[p]
    BY DEF CoverageInv, Coverage, Indexed
  <2>2. b = branch[h]
    BY <2>1, ProcessorAssumption DEF LogsCanonical
  <2>3. QED
    BY <2>1, <2>2
<1>4. QED
  BY <1>1, <1>2, <1>3, BesideAlways, LogsCanonicalNext, PTL DEF BackfillSpec
=============================================================================
