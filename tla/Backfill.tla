------------------------------ MODULE Backfill ------------------------------
(***************************************************************************)
(* cmd/backfill/main.go: a second process that runs the same ProcessChain  *)
(* over a range of one protocol's blocks, beside the indexer, on the same  *)
(* database.  It keeps no block hashes, and its rangedCursorStore starts   *)
(* it at --from and ends it at --to, but writes the indexer's own row of   *)
(* indexer_cursors.                                                        *)
(***************************************************************************)
EXTENDS Processor

CONSTANT Reindexing  \* TRUE: --from is at most one past the indexer's cursor

ASSUME BackfillAssumption == Reindexing \in BOOLEAN

VARIABLES
  exit,    \* of the last backfill: none, running, complete, error or killed
  target,  \* --protocol
  from,    \* --from
  stop,    \* --to
  done,    \* rangedCursorStore.done is closed
  \* ProcessChain's variables, as in Processor
  bpc, bcursor, bto, bat, bseen, blogs, bcancelled

argVars      == <<target, from, stop>>
rangeVars    == <<exit, argVars, done>>
loopVars     == <<bpc, bcursor, bto, bat, bseen, blogs, bcancelled>>
liveVars     == <<pc, cursor, to, at, seen, logs, cancelled>>
backfillVars == <<rangeVars, loopVars>>
allVars      == <<vars, backfillVars>>

\* The loop of the backfill: the indexer's, on its own variables and without a
\* BlockHashStore.
B == INSTANCE Processor WITH
       hashes <- [h \in Heights |-> NoHash],
       pc <- bpc, cursor <- bcursor, to <- bto, at <- bat, seen <- bseen,
       logs <- blogs, cancelled <- bcancelled

BackfillTypeOK ==
  /\ B!TypeOK
  /\ exit \in {"none", "running", "complete", "error", "killed"}
  /\ target \in Protocols
  /\ from \in Heights /\ stop \in Heights /\ from <= stop
  /\ done \in BOOLEAN
  /\ exit # "running" => bpc[target] = "load"

BackfillInit ==
  /\ Init
  /\ B!ProcessInit
  /\ exit = "none"
  /\ target \in Protocols
  /\ from = 0 /\ stop = 0
  /\ done = FALSE

\* The process is gone, and its variables with it.
Exits(how) ==
  /\ exit' = how
  /\ bcursor' = [p \in Protocols |-> 0]
  /\ B!Leave(target, "load")
  /\ UNCHANGED <<argVars, hashes, liveVars>>

\* The loop goes on.
Goes == exit = "running" /\ UNCHANGED <<rangeVars, hashes, liveVars>>

\* Seeded fault: --from is not checked.
LaunchUnchecked ==
  /\ exit # "running"
  /\ target' \in Protocols
  /\ \E a \in Heights : \E b \in a..MaxHeight :
       /\ Reindexing => a <= cursors[target'] + 1
       /\ from' = a /\ stop' = b
  /\ exit' = "running"
  /\ done' = FALSE
  /\ bcancelled' = FALSE
  /\ UNCHANGED <<vars, bpc, bcursor, bto, bat, bseen, blogs>>

\* An operator starts a backfill; --from is not 0 and not beyond --to.
Launch ==
  /\ exit # "running"
  /\ target' \in Protocols
  /\ \E a \in Heights \ {0} : \E b \in a..MaxHeight :
       /\ Reindexing => a <= cursors[target'] + 1
       /\ from' = a /\ stop' = b
  /\ exit' = "running"
  /\ done' = FALSE
  /\ bcancelled' = FALSE
  /\ UNCHANGED <<vars, bpc, bcursor, bto, bat, bseen, blogs>>

\* Seeded fault: the range is taken to start after --from.
LoadRangeAtFrom ==
  /\ bpc[target] = "load"
  /\ bcursor' = [bcursor EXCEPT ![target] = from]
  /\ B!Leave(target, "poll")
  /\ UNCHANGED <<chainVars, cursors, indexed, bcancelled>>
  /\ Goes

\* rangedCursorStore.LoadCursor: the row is not read.
LoadRange ==
  /\ bpc[target] = "load"
  /\ bcursor' = [bcursor EXCEPT ![target] = from - 1]
  /\ B!Leave(target, "poll")
  /\ UNCHANGED <<chainVars, cursors, indexed, bcancelled>>
  /\ Goes

\* checkAndHandleReorg returns at once.
SkipCheck ==
  /\ bpc[target] = "check"
  /\ B!NoReorg(target)
  /\ UNCHANGED <<chainVars, cursors, indexed, bcursor, bto, blogs, bcancelled>>
  /\ Goes

\* No hashes are stored after the logs.
SkipHashes ==
  /\ bpc[target] = "process" /\ blogs[target] = {}
  /\ B!Goto(target, "commit")
  /\ UNCHANGED <<chainVars, cursors, indexed, bcursor, bto, bat, bseen, blogs, bcancelled>>
  /\ Goes

\* What the backfill does as the indexer does: the head is polled, the logs are
\* fetched in chunks and processed, and what fails is skipped or done again.
SharedLoop ==
  /\ \/ B!PollHead(target) \/ B!FetchChunk(target)
     \/ B!ProcessLog(target) \/ B!LoseLog(target)
     \/ bpc[target] = "fetch" /\ B!RetryBatch(target)
  /\ Goes

\* Seeded faults: --to is exclusive, or the batch that ends with it is not the
\* last.
EndsEarly(b) == b >= stop - 1
EndsLate(b) == b > stop

\* The batch reached the end of the range.
AtEnd(b) == b >= stop

AtUpdate == exit = "running" /\ bpc[target] \in {"commit", "skip"}

\* rangedCursorStore.UpdateCursor before the end of the range.
UpdateRow ==
  /\ AtUpdate /\ ~AtEnd(bto[target])
  /\ B!Commit(target)
  /\ Goes

\* A row that cannot be written ends the backfill.
UpdateRowFails ==
  /\ AtUpdate /\ ~AtEnd(bto[target]) /\ B!MayFail("write")
  /\ \/ UNCHANGED cursors
     \/ ~bcancelled /\ cursors' = [cursors EXCEPT ![target] = bto[target]]
  /\ Exits("error")
  /\ UNCHANGED <<chainVars, indexed, done, bcancelled>>

\* ... and at its end: whether or not the row could be written, done is closed
\* and context.Canceled returned, which ProcessChain wraps, so that main does
\* not know it again (main.go:144).
FinishRange ==
  /\ AtUpdate /\ AtEnd(bto[target])
  /\ done' = TRUE
  /\ \/ ~bcancelled /\ cursors' = [cursors EXCEPT ![target] = bto[target]]
     \/ B!MayFail("write") /\ UNCHANGED cursors
  /\ Exits("error")
  /\ UNCHANGED <<chainVars, indexed, bcancelled>>

\* A signal is seen at the head of the loop, whose bare ctx.Err() main takes
\* for completion.
Interrupted ==
  /\ exit = "running" /\ bpc[target] = "poll" /\ bcancelled
  /\ Exits("complete")
  /\ UNCHANGED <<chainVars, cursors, indexed, done, bcancelled>>

CancelBackfill ==
  /\ "cancel" \in Faults /\ exit = "running" /\ ~bcancelled
  /\ bcancelled' = TRUE
  /\ UNCHANGED <<vars, rangeVars, bpc, bcursor, bto, bat, bseen, blogs>>

Kill ==
  /\ "crash" \in Faults /\ exit = "running"
  /\ Exits("killed")
  /\ UNCHANGED <<chainVars, cursors, indexed, done, bcancelled>>

BackfillStep ==
  \/ LoadRange \/ SkipCheck \/ SkipHashes \/ SharedLoop
  \/ UpdateRow \/ UpdateRowFails \/ FinishRange \/ Interrupted

\* The indexer and the chain go on beside it.
IndexerStep == Next /\ UNCHANGED backfillVars

BackfillNext == IndexerStep \/ BackfillStep \/ Launch \/ CancelBackfill \/ Kill

BackfillSpec == BackfillInit /\ [][BackfillNext]_allVars

\* A process that can run does, the chain grows, and a request for a chunk of
\* logs that is repeated for ever is answered in the end.
BackfillFairSpec ==
  /\ BackfillSpec
  /\ WF_allVars(Grow /\ IndexerStep)
  /\ WF_allVars(BackfillStep)
  /\ \A k \in 1..BatchSize :
       SF_allVars(bat[target] = bcursor[target] + k /\ B!FetchChunk(target) /\ Goes)

(***************************************************************************)
(* Properties; HeightsCovered and ConfirmedPrefixIndexed are Processor's   *)
(***************************************************************************)

\* A range that was run to its end without a signal has been indexed, every
\* height of it, whatever the indexer did to the cursor row meanwhile and
\* whether or not the row could be written (main.go:173-182).
RangeCovered ==
  done /\ ~bcancelled /\ target \in Addressed =>
    \A h \in from..stop : \E b \in Branches : <<h, b>> \in indexed[target]

\* --to is checked after a batch only (main.go:174): a backfill indexes past the
\* end of its range, but only what is in the batch that reaches it, and nothing
\* before its start.
NearRangeOnly ==
  [][blogs' # blogs => \A log \in indexed'[target] \ indexed[target] :
       /\ from <= log[1] /\ log[1] <= bcursor[target] + BatchSize
       /\ bcursor[target] < stop]_allVars

\* A backfill of blocks that will be confirmed ends, however often its RPC calls
\* fail (processor.go:133-141) and wherever the indexer leaves the row.
BackfillEnds == exit = "running" /\ stop <= Confirmed(MaxHeight) ~> exit # "running"

(***************************************************************************)
(* What comments say and the code does not do                              *)
(***************************************************************************)

\* main.go:154-156 and 182: reaching --to makes ProcessChain exit cleanly.  The
\* wrapped error makes main report an error and exit 1 exactly when the range
\* was done, and completion when it was interrupted.
ExitTellsOutcome == exit \in {"complete", "error"} => (exit = "complete" <=> done)
=============================================================================
