----------------------------- MODULE Processor -----------------------------
(***************************************************************************)
(* The indexing loop of one chain (internal/indexer/processor.go): one     *)
(* goroutine per protocol, each with its own row of indexer_cursors, all   *)
(* of them sharing the rows the chain has in block_hashes.                 *)
(*                                                                         *)
(* One action is one call to an RPC endpoint or to PostgreSQL together     *)
(* with the local computation that follows it; a call that fails is an     *)
(* action of its own, named for what the loop does about it.               *)
(***************************************************************************)
EXTENDS SourceChain, FiniteSets

CONSTANTS
  Protocols,         \* protocols with a decoder: one processor each
  Addressed,         \* those with a contract address on this chain
  BatchSize,         \* indexer.batch_size
  MaxBlockRange,     \* chains.<id>.max_block_range, the span of one eth_getLogs
  ConfirmationDepth, \* chains.<id>.confirmation_depth
  PruneDepth,        \* reorgPruneDepth
  MaxLag,            \* how far an endpoint of the rotation may trail the head
  RacyReorgs,        \* FALSE: reorganisations only between batches
  Faults             \* which faults happen, see FaultKinds

FaultKinds == {"rpc", "read", "write", "event", "cancel", "crash"}

ASSUME ProcessorAssumption ==
  /\ Addressed \subseteq Protocols
  /\ BatchSize \in Nat \ {0}
  /\ MaxBlockRange \in Nat \ {0}
  /\ ConfirmationDepth \in Nat
  /\ PruneDepth \in Nat
  /\ MaxLag \in Nat
  /\ RacyReorgs \in BOOLEAN
  /\ Faults \subseteq FaultKinds

VARIABLES
  \* PostgreSQL
  cursors,   \* indexer_cursors: last indexed block of each protocol, 0 if no row
  hashes,    \* block_hashes: the branch recorded for a height, or NoHash
  indexed,   \* the logs whose message was stored, per protocol
  \* memory of the process
  pc,        \* the next call of each processor
  cursor,    \* ProcessChain's variable cursor
  to,        \* toBlock; fromBlock is always cursor + 1
  at,        \* the block a loop has come to: rewindTo, chunkStart, or b
  seen,      \* the hash the last read returned
  logs,      \* fetched logs not yet processed
  cancelled  \* the context has been cancelled

dbVars    == <<cursors, hashes, indexed>>
batchVars == <<to, at, seen, logs>>
vars      == <<chainVars, dbVars, pc, cursor, batchVars, cancelled>>

NoHash == -1

\* A log is known by its height and branch: every block carries one log of
\* interest to each protocol, so that a block that is passed over shows.
Logs == Heights \X Branches

Labels == {"load", "poll", "check", "header", "walkStored", "walkHeader",
           "rewind", "delete", "skip", "fetch", "process", "save", "prune",
           "commit", "stopped"}

\* Seeded fault: toBlock is not capped at the confirmed head.
Uncapped(a, b) == a

\* min
Minimum(a, b) == IF a < b THEN a ELSE b

\* Seeded fault: the confirmation depth is not applied.
Unconfirmed(n) == n

\* Seeded fault: no guard, so that a short chain's difference wraps to a huge
\* number, for which MaxHeight stands.
ConfirmedUnguarded(n) ==
  IF n < ConfirmationDepth THEN MaxHeight ELSE n - ConfirmationDepth

\* LatestConfirmedBlock of an endpoint whose newest block is n.
Confirmed(n) == IF n <= ConfirmationDepth THEN 0 ELSE n - ConfirmationDepth

TypeOK ==
  /\ ChainTypeOK
  /\ cursors \in [Protocols -> Heights]
  /\ hashes \in [Heights -> Branches \cup {NoHash}]
  /\ indexed \in [Protocols -> SUBSET Logs]
  /\ pc \in [Protocols -> Labels]
  /\ cursor \in [Protocols -> Heights]
  /\ to \in [Protocols -> Heights]
  /\ at \in [Protocols -> Heights]
  /\ seen \in [Protocols -> Branches \cup {NoHash}]
  /\ logs \in [Protocols -> SUBSET Logs]
  /\ cancelled \in BOOLEAN

ProcessInit ==
  /\ pc = [p \in Protocols |-> "load"]
  /\ cursor = [p \in Protocols |-> 0]
  /\ to = [p \in Protocols |-> 0]
  /\ at = [p \in Protocols |-> 0]
  /\ seen = [p \in Protocols |-> NoHash]
  /\ logs = [p \in Protocols |-> {}]
  /\ cancelled = FALSE

Init ==
  /\ ChainInit
  /\ cursors = [p \in Protocols |-> 0]
  /\ hashes = [h \in Heights |-> NoHash]
  /\ indexed = [p \in Protocols |-> {}]
  /\ ProcessInit

\* A call fails for a fault of its kind, and every call fails once the context
\* is cancelled.
MayFail(kind) == cancelled \/ kind \in Faults

Goto(p, label) == pc' = [pc EXCEPT ![p] = label]

\* The batch's local variables go out of scope.
Leave(p, label) ==
  /\ Goto(p, label)
  /\ to' = [to EXCEPT ![p] = 0]
  /\ at' = [at EXCEPT ![p] = 0]
  /\ seen' = [seen EXCEPT ![p] = NoHash]
  /\ logs' = [logs EXCEPT ![p] = {}]

(***************************************************************************)
(* Start of the loop                                                       *)
(***************************************************************************)

\* LoadCursor, on start and after a rewind.
LoadCursor(p) ==
  /\ pc[p] = "load" /\ ~cancelled
  /\ cursor' = [cursor EXCEPT ![p] = cursors[p]]
  /\ Leave(p, "poll")
  /\ UNCHANGED <<chainVars, dbVars, cancelled>>

\* A cursor that cannot be loaded ends the processor.
LoadFails(p) ==
  /\ pc[p] = "load" /\ MayFail("read")
  /\ Leave(p, "stopped")
  /\ UNCHANGED <<chainVars, dbVars, cursor, cancelled>>

\* Nothing is confirmed beyond the cursor, or the head is not to be had: the
\* loop sleeps and polls again.
Sleep(p) ==
  /\ pc[p] = "poll" /\ ~cancelled
  /\ \/ \E lag \in 0..Minimum(MaxLag, head) : cursor[p] >= Confirmed(head - lag)
     \/ MayFail("rpc")
  /\ UNCHANGED vars

\* Seeded fault: the processor waits for a full batch.
PollFullBatch(p) ==
  /\ pc[p] = "poll" /\ ~cancelled
  /\ \E lag \in 0..Minimum(MaxLag, head) :
       cursor[p] + BatchSize <= Confirmed(head - lag)
  /\ to' = [to EXCEPT ![p] = cursor[p] + BatchSize]
  /\ Goto(p, "check")
  /\ UNCHANGED <<chainVars, dbVars, cursor, at, seen, logs, cancelled>>

\* LatestConfirmedBlock shows blocks to index: the batch is chosen.
PollHead(p) ==
  /\ pc[p] = "poll" /\ ~cancelled
  /\ \E lag \in 0..Minimum(MaxLag, head) :
       LET latest == Confirmed(head - lag) IN
         /\ cursor[p] < latest
         /\ to' = [to EXCEPT ![p] = Minimum(cursor[p] + BatchSize, latest)]
  /\ Goto(p, "check")
  /\ UNCHANGED <<chainVars, dbVars, cursor, at, seen, logs, cancelled>>

\* The check for cancellation at the head of the loop.
ShutDown(p) ==
  /\ pc[p] = "poll" /\ cancelled
  /\ Leave(p, "stopped")
  /\ UNCHANGED <<chainVars, dbVars, cursor, cancelled>>

(***************************************************************************)
(* checkAndHandleReorg                                                     *)
(***************************************************************************)

\* The check found nothing: on to the logs, or past them if the protocol has
\* no contract on this chain.
NoReorg(p) ==
  /\ Goto(p, IF p \in Addressed THEN "fetch" ELSE "skip")
  /\ at' = [at EXCEPT ![p] = cursor[p] + 1]
  /\ seen' = [seen EXCEPT ![p] = NoHash]

\* GetBlockHash(fromBlock - 1).  Without a record the check is skipped.
ReadStoredHash(p) ==
  /\ pc[p] = "check" /\ ~cancelled
  /\ \/ /\ hashes[cursor[p]] = NoHash
        /\ NoReorg(p)
     \/ /\ hashes[cursor[p]] # NoHash
        /\ seen' = [seen EXCEPT ![p] = hashes[cursor[p]]]
        /\ Goto(p, "header")
        /\ UNCHANGED at
  /\ UNCHANGED <<chainVars, dbVars, cursor, to, logs, cancelled>>

\* Seeded fault: a rewind goes no further back than the block it is found at.
CompareWithoutWalk(p) ==
  /\ pc[p] = "header" /\ ~cancelled
  /\ \/ branch[cursor[p]] = seen[p] /\ NoReorg(p)
     \/ /\ branch[cursor[p]] # seen[p]
        /\ at' = [at EXCEPT ![p] = cursor[p]]
        /\ Goto(p, "rewind")
        /\ UNCHANGED seen
  /\ UNCHANGED <<chainVars, dbVars, cursor, to, logs, cancelled>>

\* BlockHeader(fromBlock): its parent hash against the record.
CompareParent(p) ==
  /\ pc[p] = "header" /\ ~cancelled
  /\ \/ /\ branch[cursor[p]] = seen[p]
        /\ NoReorg(p)
     \/ /\ branch[cursor[p]] # seen[p]
        /\ at' = [at EXCEPT ![p] = cursor[p]]
        /\ Goto(p, IF cursor[p] > 0 THEN "walkStored" ELSE "rewind")
        /\ UNCHANGED seen
  /\ UNCHANGED <<chainVars, dbVars, cursor, to, logs, cancelled>>

\* GetBlockHash(rewindTo).  Where the records end, so does the walk.
WalkStored(p) ==
  /\ pc[p] = "walkStored" /\ ~cancelled
  /\ seen' = [seen EXCEPT ![p] = hashes[at[p]]]
  /\ Goto(p, IF hashes[at[p]] = NoHash THEN "rewind" ELSE "walkHeader")
  /\ UNCHANGED <<chainVars, dbVars, cursor, to, at, logs, cancelled>>

\* BlockHeader(rewindTo).  The walk ends at a block that is still canonical.
WalkHeader(p) ==
  /\ pc[p] = "walkHeader" /\ ~cancelled
  /\ \/ /\ branch[at[p]] = seen[p]
        /\ Goto(p, "rewind")
        /\ UNCHANGED at
     \/ /\ branch[at[p]] # seen[p]
        /\ at' = [at EXCEPT ![p] = at[p] - 1]
        /\ Goto(p, IF at[p] > 1 THEN "walkStored" ELSE "rewind")
  /\ UNCHANGED <<chainVars, dbVars, cursor, to, seen, logs, cancelled>>

\* A failing call ends the walk where it is; the rewind goes ahead.
EndWalk(p) ==
  /\ \/ pc[p] = "walkStored" /\ MayFail("read")
     \/ pc[p] = "walkHeader" /\ MayFail("rpc")
  /\ Goto(p, "rewind")
  /\ UNCHANGED <<chainVars, dbVars, cursor, batchVars, cancelled>>

\* UpdateCursor(rewindTo).
RewindCursor(p) ==
  /\ pc[p] = "rewind" /\ ~cancelled
  /\ cursors' = [cursors EXCEPT ![p] = at[p]]
  /\ Goto(p, "delete")
  /\ UNCHANGED <<chainVars, hashes, indexed, cursor, batchVars, cancelled>>

\* A failed write may have been applied: the error can be that of a lost
\* connection.  The loop retries with the cursor it has in memory.
RewindFails(p) ==
  /\ pc[p] = "rewind" /\ MayFail("write")
  /\ \/ UNCHANGED cursors
     \/ ~cancelled /\ cursors' = [cursors EXCEPT ![p] = at[p]]
  /\ Leave(p, "poll")
  /\ UNCHANGED <<chainVars, hashes, indexed, cursor, cancelled>>

\* DeleteBlockHashesFrom(rewindTo + 1): every protocol's records.  A failure is
\* logged only.  The caller reloads its cursor.
DeleteHashes(p) ==
  /\ pc[p] = "delete"
  /\ \/ /\ ~cancelled
        /\ hashes' = [h \in Heights |-> IF h > at[p] THEN NoHash ELSE hashes[h]]
     \/ MayFail("write") /\ UNCHANGED hashes
  /\ Leave(p, "load")
  /\ UNCHANGED <<chainVars, cursors, indexed, cursor, cancelled>>

(***************************************************************************)
(* The batch                                                               *)
(***************************************************************************)

\* Seeded fault: a batch whose logs could not all be fetched is processed.
ProcessPartialBatch(p) ==
  /\ pc[p] = "fetch" /\ MayFail("rpc")
  /\ at' = [at EXCEPT ![p] = cursor[p] + 1]
  /\ Goto(p, "process")
  /\ UNCHANGED <<chainVars, dbVars, cursor, to, seen, logs, cancelled>>

\* The reorg check or FetchLogs failed: sleep, then poll again.
RetryBatch(p) ==
  /\ \/ pc[p] = "check" /\ MayFail("read")
     \/ pc[p] \in {"header", "fetch"} /\ MayFail("rpc")
  /\ Leave(p, "poll")
  /\ UNCHANGED <<chainVars, dbVars, cursor, cancelled>>

\* One eth_getLogs of FetchLogs, for the chunk that starts at chunkStart.  An
\* endpoint that trails the head has no logs of the blocks it lacks.
FetchChunk(p) ==
  /\ pc[p] = "fetch" /\ ~cancelled
  /\ LET chunkEnd == Minimum(at[p] + MaxBlockRange - 1, to[p]) IN
       /\ \E lag \in 0..Minimum(MaxLag, head) :
            logs' = [logs EXCEPT ![p] = @ \cup
              {<<h, branch[h]>> : h \in {x \in Heights : /\ at[p] <= x
                                                         /\ x <= chunkEnd
                                                         /\ x <= head - lag}}]
       /\ IF chunkEnd < to[p]
            THEN /\ at' = [at EXCEPT ![p] = chunkEnd + 1]
                 /\ UNCHANGED pc
            ELSE /\ at' = [at EXCEPT ![p] = cursor[p] + 1]
                 /\ Goto(p, "process")
  /\ UNCHANGED <<chainVars, dbVars, cursor, to, seen, cancelled>>

\* The logs come in the order of the chain.
IsNextLog(p, log) == log \in logs[p] /\ \A l \in logs[p] : log[1] <= l[1]

\* Decode and correlator.Process of the next log.
ProcessLog(p) ==
  /\ pc[p] = "process" /\ ~cancelled
  /\ \E log \in logs[p] :
       /\ IsNextLog(p, log)
       /\ indexed' = [indexed EXCEPT ![p] = @ \cup {log}]
       /\ logs' = [logs EXCEPT ![p] = @ \ {log}]
  /\ UNCHANGED <<chainVars, cursors, hashes, pc, cursor, to, at, seen, cancelled>>

\* A log that cannot be decoded or processed is skipped.
LoseLog(p) ==
  /\ pc[p] = "process" /\ MayFail("event")
  /\ \E log \in logs[p] :
       /\ IsNextLog(p, log)
       /\ logs' = [logs EXCEPT ![p] = @ \ {log}]
  /\ UNCHANGED <<chainVars, dbVars, pc, cursor, to, at, seen, cancelled>>

\* storeBlockHashes: BlockHeader of a boundary block, first fromBlock ...
FetchBoundaryHeader(p) ==
  /\ pc[p] = "process" /\ logs[p] = {} /\ ~cancelled
  /\ seen' = [seen EXCEPT ![p] = branch[at[p]]]
  /\ Goto(p, "save")
  /\ UNCHANGED <<chainVars, dbVars, cursor, to, at, logs, cancelled>>

\* Seeded fault: only the hash of fromBlock is stored.
SaveFromHash(p) ==
  /\ pc[p] = "save" /\ ~cancelled
  /\ hashes' = [hashes EXCEPT ![at[p]] = seen[p]]
  /\ Goto(p, "prune")
  /\ UNCHANGED <<chainVars, cursors, indexed, cursor, batchVars, cancelled>>

\* ... then SaveBlockHash, and the same for toBlock if it is another block.
SaveHash(p) ==
  /\ pc[p] = "save" /\ ~cancelled
  /\ hashes' = [hashes EXCEPT ![at[p]] = seen[p]]
  /\ seen' = [seen EXCEPT ![p] = NoHash]
  /\ at' = [at EXCEPT ![p] = to[p]]
  /\ Goto(p, IF at[p] = to[p] THEN "prune" ELSE "process")
  /\ UNCHANGED <<chainVars, cursors, indexed, cursor, to, logs, cancelled>>

\* Hashes that cannot be stored are not missed.  (A save that fails but was
\* applied leaves what SaveHash and a failing second save leave.)
HashNotStored(p) ==
  /\ \/ pc[p] = "process" /\ logs[p] = {} /\ MayFail("rpc")
     \/ pc[p] = "save" /\ MayFail("write")
  /\ Goto(p, "prune")
  /\ UNCHANGED <<chainVars, dbVars, cursor, batchVars, cancelled>>

\* PruneBlockHashes(toBlock - reorgPruneDepth): every protocol's records.
Prune(p) ==
  /\ pc[p] = "prune"
  /\ \/ /\ ~cancelled
        /\ hashes' = [h \in Heights |-> IF h < to[p] - PruneDepth
                                        THEN NoHash ELSE hashes[h]]
     \/ MayFail("write") /\ UNCHANGED hashes
  /\ Goto(p, "commit")
  /\ UNCHANGED <<chainVars, cursors, indexed, cursor, batchVars, cancelled>>

\* UpdateCursor(toBlock), after a batch or instead of one.
Commit(p) ==
  /\ pc[p] \in {"commit", "skip"} /\ ~cancelled
  /\ cursor' = [cursor EXCEPT ![p] = to[p]]
  /\ cursors' = [cursors EXCEPT ![p] = to[p]]
  /\ Leave(p, "poll")
  /\ UNCHANGED <<chainVars, hashes, indexed, cancelled>>

\* A cursor that cannot be written, or was but is not known to be, ends the
\* processor; nothing starts it again before the process does.
CommitFails(p) ==
  /\ pc[p] \in {"commit", "skip"} /\ MayFail("write")
  /\ \/ UNCHANGED cursors
     \/ ~cancelled /\ cursors' = [cursors EXCEPT ![p] = to[p]]
  /\ Leave(p, "stopped")
  /\ UNCHANGED <<chainVars, hashes, indexed, cursor, cancelled>>

(***************************************************************************)
(* The process and its environment                                         *)
(***************************************************************************)

\* SIGINT or SIGTERM.
Cancel ==
  /\ "cancel" \in Faults /\ ~cancelled
  /\ cancelled' = TRUE
  /\ UNCHANGED <<chainVars, dbVars, pc, cursor, batchVars>>

ProcessStarts ==
  /\ pc' = [p \in Protocols |-> "load"]
  /\ cursor' = [p \in Protocols |-> 0]
  /\ to' = [p \in Protocols |-> 0]
  /\ at' = [p \in Protocols |-> 0]
  /\ seen' = [p \in Protocols |-> NoHash]
  /\ logs' = [p \in Protocols |-> {}]
  /\ cancelled' = FALSE

\* Start returns when its goroutines have; the process is started again.
Restart ==
  /\ \A p \in Protocols : pc[p] = "stopped"
  /\ ProcessStarts
  /\ UNCHANGED <<chainVars, dbVars>>

Crash ==
  /\ "crash" \in Faults
  /\ ProcessStarts
  /\ UNCHANGED <<chainVars, dbVars>>

BetweenBatches(p) == pc[p] \in {"load", "poll", "stopped"}

ChainStep ==
  /\ \/ Grow
     \/ Reorg /\ (RacyReorgs \/ \A p \in Protocols : BetweenBatches(p))
  /\ UNCHANGED <<dbVars, pc, cursor, batchVars, cancelled>>

CheckReorg(p) ==
  \/ ReadStoredHash(p) \/ CompareParent(p) \/ WalkStored(p) \/ WalkHeader(p)
  \/ EndWalk(p) \/ RewindCursor(p) \/ RewindFails(p) \/ DeleteHashes(p)

Batch(p) ==
  \/ FetchChunk(p) \/ ProcessLog(p) \/ FetchBoundaryHeader(p) \/ SaveHash(p)
  \/ Prune(p) \/ Commit(p)
  \/ RetryBatch(p) \/ LoseLog(p) \/ HashNotStored(p) \/ CommitFails(p)

ProcessChain(p) ==
  \/ LoadCursor(p) \/ LoadFails(p) \/ PollHead(p) \/ ShutDown(p)
  \/ CheckReorg(p) \/ Batch(p)

Next ==
  \/ \E p \in Protocols : ProcessChain(p) \/ Sleep(p)
  \/ ChainStep
  \/ Cancel
  \/ Restart
  \/ Crash

Spec == Init /\ [][Next]_vars

(***************************************************************************)
(* Properties                                                              *)
(***************************************************************************)

\* A reorganisation never replaces a confirmed block, and an endpoint never
\* trails the head by more than the confirmation depth: what an operator who
\* chooses confirmation_depth relies on.
ConfirmedIsFinal ==
  /\ MaxReorgDepth <= ConfirmationDepth
  /\ MaxLag <= ConfirmationDepth

\* Up to its persisted cursor a protocol has indexed a log of every height,
\* whatever was interrupted, cancelled, retried or rewound on the way: the
\* cursor is written after the batch, and a batch whose logs were skipped
\* because the context was cancelled never gets its cursor written
\* (processor.go:151-209).  Reorganisations may have made the log stale.
HeightsCovered ==
  \A p \in Addressed : \A h \in 1..cursors[p] :
    \E b \in Branches : <<h, b>> \in indexed[p]

\* If confirmed blocks are final, the log indexed for every height up to the
\* persisted cursor is the canonical one: no crash, race of two protocols on
\* block_hashes or failed call leaves a silent gap behind the cursor.
ConfirmedPrefixIndexed ==
  \A p \in Addressed : \A h \in 1..cursors[p] : <<h, branch[h]>> \in indexed[p]

\* No log of a block without ConfirmationDepth blocks on top of it is indexed,
\* so that the chunks of FetchLogs never reach past the confirmed head.
OnlyConfirmedIndexed ==
  \A p \in Protocols : \A log \in indexed[p] : log[1] <= Confirmed(head)

\* If confirmed blocks are final, no hash another protocol saves, prunes or
\* deletes makes checkAndHandleReorg see a reorganisation that did not happen:
\* a cursor never moves back.
NeverRewinds == [][\A p \in Protocols : cursors'[p] >= cursors[p]]_vars

\* A log of the canonical chain at or below the cursor is missing.
HasGap(p) == \E h \in 1..cursors[p] : <<h, branch[h]>> \notin indexed[p]

\* A reorganisation that replaced indexed blocks will be seen: whenever the
\* processor is between batches and behind its cursor a canonical log is
\* missing, the hash recorded at the cursor differs from the live one, so that
\* the next batch's check fires (processor.go:219-247), and a rewind that ends
\* early leaves that evidence in place (processor.go:265-284).
ReorgDetectable ==
  \A p \in Addressed :
    BetweenBatches(p) /\ HasGap(p) =>
      hashes[cursors[p]] \notin {NoHash, branch[cursors[p]]}

\* The goroutines keep running and the chain grows.
Running ==
  /\ WF_vars(Grow /\ ChainStep)
  /\ \A p \in Protocols : WF_vars(ProcessChain(p))

\* A request that is repeated for ever succeeds in the end: the header for the
\* check, the header of a walk, each chunk of logs (were the k-th chunk to fail
\* for ever, FetchLogs would start over for ever), the cursor of a batch, though
\* the process has to be started again each time, and that of a rewind, also one
\* to a lower height (it would do no good were every such rewind to fail, and
\* only those to succeed whose walk has failed).
Answering ==
  \A p \in Protocols :
    /\ SF_vars(CompareParent(p))
    /\ SF_vars(WalkHeader(p))
    /\ SF_vars(at[p] < cursor[p] /\ RewindCursor(p))
    /\ SF_vars(Commit(p))
    /\ p \in Addressed =>
         \A k \in 1..BatchSize : SF_vars(at[p] = cursor[p] + k /\ FetchChunk(p))

FairSpec == Spec /\ Running /\ Answering

\* Once the chain stops growing every processor gets to the last confirmed
\* block and stays there, also when reorganisations make it rewind and
\* protocols rewind under one another, unless a cursor that could not be
\* written has ended its goroutine: nothing starts that again while another
\* protocol goes on (processor.go:206-208).
CatchesUp ==
  <>[](\A p \in Protocols : pc[p] = "stopped" \/ cursors[p] = Confirmed(MaxHeight))

(***************************************************************************)
(* What the documentation says and the code does not do                    *)
(***************************************************************************)

\* architecture.md:72: a rewind goes back to the common ancestor of what was
\* indexed and what is canonical.  It does not where a batch has more than two
\* blocks: only its boundaries are recorded (processor.go:301), and the walk
\* stops at the first height without a record.
RewindsToCommonAncestor ==
  [][\A p \in Addressed : cursors'[p] < cursors[p] => ~HasGap(p)']_vars

\* architecture.md:73: a rewind invalidates the messages of the orphaned
\* blocks.  Nothing removes or marks them.
OrphansInvalidated ==
  [][\A p \in Addressed : pc[p] = "delete" /\ pc'[p] = "load" =>
       \A log \in indexed'[p] :
         log[1] > cursors'[p] => log[2] = branch'[log[1]]]_vars

\* indexer.go:60-61: a processor completes its current batch before shutdown.
\* The cancelled context makes every later call of the batch fail, its cursor
\* update included.
BatchCompletedOnShutdown ==
  [][\A p \in Addressed :
       pc[p] \in {"process", "save", "prune", "commit"} /\ pc'[p] = "stopped" =>
         cursors'[p] = to[p]]_vars
=============================================================================
