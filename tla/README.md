# CrossChain Archive: TLA+ models and proofs

CrossChain Archive indexes the cross-chain messages of four bridge protocols
(LayerZero, Wormhole, CCIP, Axelar) from EVM chains into PostgreSQL, links each
message's source and destination events, and copies complete months to object
storage (Akave O3).  This directory holds TLA+ modules of the parts that carry
that logic, the configurations that model-check them with TLC, and proofs of
their main properties that TLAPS checks.  Paths below are relative to the
repository; line numbers are those of the commit modelled.

## 1. Inventory

| Component | State | Operations | Interacts with |
|---|---|---|---|
| **Processor** `internal/indexer/processor.go`, `cursor.go`, `block_hash_store.go` | a row of `indexer_cursors` per (chain, protocol); the chain's rows of `block_hashes`; the locals of `ProcessChain` | poll, reorg check and rewind, fetch, process events, record hashes, prune, write the cursor | chain client (calls), correlator (calls), the chain's other processors (through `block_hashes`) |
| **Indexer service** `internal/indexer/indexer.go`, `cmd/indexer` | one goroutine per chain and protocol, the archiver goroutine, one context | start, cancel on a signal, wait for all | starts processors and archiver |
| **Chain client** `internal/chain` | list of endpoints, current index, rate limiter | `LatestConfirmedBlock`, `FetchLogs` in chunks, `HeaderByNumber`, retry and failover | called by all processors of a chain |
| **Decoders** `internal/decoder` | none | one log to one raw event | called by the processor |
| **Normalizer** `internal/normalizer` | none | ten event kinds to a message, or to a correlation key with a destination | called by the correlator |
| **Correlator** `internal/correlator` | none of its own | store a source event's message; find a destination event's message and update it | message store, called by every processor concurrently |
| **Message store** `internal/indexer/message_store_pg.go` | `messages` and its four side tables | `UpsertMessage`, `FindByCorrelationKey`, `UpdateDestination` | PostgreSQL |
| **Backfill** `cmd/backfill` | the same cursor row as the live processor | `ProcessChain` over a range, through `rangedCursorStore` | runs beside the indexer |
| **Archiver** `internal/archiver` | `archival_cursors`, the objects, the manifest | a cycle over (protocol, chain) pairs and months: query, upload, record; then the manifest | the message tables while they are written, object storage |
| **Object storage client** `internal/storage/akave` | the bucket | upload and download with retries | archiver, historical download |
| **Query API** `internal/api`, `cmd/api` | a statistics cache; the page cursors its clients hold | lists and address histories in pages, message, trace, protocol and route statistics, cursors, historical download | reads what the others write |

What makes them correct, and what is hard about each:

* *Processor*: no height behind the persisted cursor is missing; only confirmed
  blocks are indexed; a reorganisation of indexed blocks is noticed and rewound to
  the common ancestor; it catches up.  Hard: calls fail at every point, the
  process dies between two writes, the chain reorganises in the middle of a batch,
  an endpoint trails the others, and two protocols of a chain write the same
  `block_hashes`.
* *Correlator, normalizer, message store*: a message gets one outcome, its own, and
  keeps it; nothing that a source event said is lost.  Hard: events are replayed,
  arrive in any order from independent goroutines, find and update are separate
  transactions, and some keys are not unique.
* *Archiver and historical download*: file, record and manifest agree with the
  table in the end and never run ahead of one another; a download holds what
  the record tells, and no more if that has a checksum.  Hard: each is a separate call, messages arrive late, the
  process dies in between, and requests overlap uploads.
* *Chain client*: no endpoint is lost from the list, an endpoint that answers is
  found, no request is on a closed connection.  Hard: all goroutines of a chain rotate
  one list, and ask outside its lock.
* *Backfill*: its range is covered, little beyond it is touched, it ends, and the
  indexer loses no block through it.  Hard: a second process runs the same loop on the
  same cursor row.
* *Query API*: pages neither repeat nor lose a row that lasts; a trace and the
  statistics see no half of an update; a cached answer is recent and for the question
  asked.  Hard: rows are committed, replayed and concluded between two pages and two
  queries, and requests fill one cache side by side.

`PROJECT.json` lists the hazards of the code, each at its line and with the
properties aimed at it.

## 2. Plan

1. **done** `SourceChain`, `Processor`: the indexing loop of one chain.
2. **done** `ProcessorProofs`.
3. **done** `Normalizer`, `MessageStore`, `Correlator`, and `MessageLifecycle`, the
   abstract specification they implement; `CorrelatorProofs`.
4. **done** `Archiver`, `Historical`, `ArchiverProofs`, `HistoricalProofs`.
5. **done** `RpcClient`: the endpoints a chain's goroutines share.
6. **done** `Backfill`: the same loop, as an instance of `Processor`, in a second
   process on the same rows.
7. **done** `MessageTable`, `MessageQuerier`, `StatsQuerier`, `QueryApi`: the API on the
   table the correlator writes; `QueryApiProofs` for the cache.
8. **done** Theorems for every safety property the passing runs check, in eight proof
   modules (section 5).
9. To come: the processor's abstract specification, and weaker hypotheses where the
   code allows them (`ReorgDetectable` for batches of any size).

The abstract specifications worth stating are `MessageLifecycle` (done) and, for
the processor, an index that grows along the canonical chain, which it implements
where confirmed blocks are final.

## 3. Modules

`EXTENDS` and `INSTANCE`:

    SourceChain <- Processor <- MCProcessor, ProcessorProofs
                             <- Backfill <- MCBackfill     (and B == INSTANCE Processor)
    Backfill, ProcessorProofs <- BackfillProofs    (and BP == INSTANCE ProcessorProofs)
    Normalizer, MessageStore <- Correlator <- MCCorrelator, CorrelatorProofs
                                           (and INSTANCE MessageLifecycle)
    Correlator <- MessageTable <- MessageQuerier, StatsQuerier <- QueryApi <- MCQueryApi
    QueryApi, CorrelatorProofs <- MessageQuerierProofs <- QueryApiProofs
    Archiver <- ArchiverProofs
             <- Historical <- MCHistorical, HistoricalProofs
    RpcClient <- MCRpcClient, RpcClientProofs

None of them declares a RECURSIVE operator.

A definition commented "Seeded fault" stands next to the one it is a mutated form of
and is used by no specification.  Putting it in the place of that definition shows
that a run would notice such a bug (`PROJECT.json`, "mutants").

### SourceChain (external)
Head and branch of one chain.  A block is a height and a branch number; `Reorg`
gives the newest blocks a branch number not used before, so comparing branch numbers
is comparing hashes, and the parent hash of height h is the branch at h - 1.

### Processor
One processor per protocol; each action is one RPC or SQL call with the computation
after it.  `cursors`, `hashes` are the tables; `indexed` is the set of logs whose
message was stored; `pc`, `cursor`, `to`, `at`, `seen`, `logs` are the locals of
`ProcessChain`, `checkAndHandleReorg` and `storeBlockHashes`; `cancelled` is the
context.  Every block carries one log for each protocol, so a skipped block shows.

| Code | Actions |
|---|---|
| `processor.go:47-61` | `LoadCursor`, `LoadFails` |
| `:63-112` loop head, head poll, sleep | `ShutDown`, `PollHead`, `Sleep` |
| `:219-284` `checkAndHandleReorg` | `ReadStoredHash`, `CompareParent`, `WalkStored`, `WalkHeader`, `EndWalk`, `RewindCursor`, `RewindFails`, `DeleteHashes` |
| `client.go:169-214` `FetchLogs` | `FetchChunk` (an endpoint may trail by `MaxLag`), `RetryBatch` |
| `:149-190` event loop | `ProcessLog`, `LoseLog` |
| `:292-320` `storeBlockHashes` | `FetchBoundaryHeader`, `SaveHash`, `HashNotStored`, `Prune` |
| `:205-208` | `Commit`, `CommitFails` |
| `cmd/indexer`, `indexer.go` | `Cancel`, `Restart`, `Crash` |

`Faults` says what may fail: `rpc`, `read`, `write` (calls), `event` (an event that is
skipped), `cancel`, `crash`.

### Normalizer, MessageStore, Correlator, MessageLifecycle
`Normalizer` is a set of operators: which of the ten event kinds is a source or a
destination event, what message or key it becomes.  `MessageStore` holds `rows`, one
record per message id joining the five tables, with the columns of an INSERT (`NewRow`;
`latency_seconds` starts at 0, since every normalized message has empty metadata, not at
NULL), the ON CONFLICT clauses of `UpsertMessage` (`Merged`), the query of `FindByCorrelationKey` (any one of the rows
that match, as LIMIT 1 without ORDER BY) and `UpdateDestination`.  `Correlator`
runs workers, each reading the event log of one chain and protocol: `StoreMessage`,
`FindMessage`, `DropEvent`, `SetDestination`, `SkipEvent` (an error, of a call or of
`Normalize`, after which the processor goes on) and `Replay` (the processor restarts, retries or rewinds).  The
position `next` ranges over a worker's log.  `MessageLifecycle` is what the schema
documentation promises of `status`: pending, then one outcome, for good;
`ImplementsLifecycle` is the refinement, under the mapping
known = stored ids, outcome = status and destination chain.

### Archiver, Historical
Messages have a version counter (how often their rows changed), a pair and a month.  A
file's contents map each message to the version it had, so contents also stand for the
checksum.  `pc` is the archiver's next call: `Fetch` or `SkipMonth`, `Upload`, `Record`,
`EndPair`, then `ListArchivalCursors`, `UploadManifest`; `AbandonPair` and
`ManifestFails` are the error returns, where the failing call may have had its effect;
`Crash` is the process dying.  `verifyUpload` changes no state, and its failure is only
logged (`archiver.go:174`), so it is not a step.  `WriteMessage` is an upsert or delivery
of a message at any time, also of a month gone by.  `Historical` adds one request at a
time: `LookUp`, then `Serve` or `DownloadFails`.

Migration 000005 added the column `checksum` with '' for the rows that were there, and
the handler verifies a file only if its record has one (`historical_handler.go:83`).
`bare` is the set of files whose record has none: `Init` is the archive as an earlier
version left it, with any such records, their files and their manifest entries, and
`UpsertArchivalCursor` gives a record its checksum.  A request remembers the record it
read (`rec`) and whether that had one (`summed`) until the next request.

The archiver archives every complete month again in each cycle; `archival_cursors` is
read only for the manifest and the API.  `docs/architecture.md` ("all complete months
not yet archived") and `migrations/000003` ("Prevents re-archiving unchanged data") say
otherwise.  The model follows the code, and `ArchiveCompletes` depends on it: it is this
repetition that picks up late messages.

### RpcClient
`stage` is the Manager's, from `NewManager` to `Close`; `endpoints` is the list of each
`Client`, which `Failover` rotates under its lock; `open` the connections.  A goroutine
goes through `withRetry`: `Ask` reads the primary (and releases the lock), `Answered` or
`NotAnswered`, `Failover`, and `Retry` or the end of the call; `GiveUp` is the cancelled
context.  `Dial`, `StartFails`, `Connected` and `Close` are `NewClient`, `NewManager` and
`Close`.  The code rotates after every failing attempt; `docs/architecture.md:62` says
that retries come "before failover".  What endpoints answer is in `Processor`.

### Backfill
`B` is `Processor` on the backfill's own locals (`bpc`, `bcursor`, ...) and no hash
store; it shares `cursors`, `indexed` and the chain with the indexer, whose `Next` goes
on beside it.  `LoadRange`, `UpdateRow`, `UpdateRowFails` and `FinishRange` are
`rangedCursorStore`; `SkipCheck` and `SkipHashes` are what `ProcessChain` does without a
hash store; `SharedLoop` is the rest of it.  `Launch`, `CancelBackfill`, `Interrupted`
and `Kill` are the process.  `Reindexing` states how it may be started: `--from` at
most one past the cursor of the indexer.

### MessageTable, MessageQuerier, StatsQuerier, QueryApi
`MessageTable` adds `created_at` to the table: a worker takes it from the clock when it
normalizes (`Normalize`), and the row is committed by a later call (`Store`), so rows
are committed out of the order of `created_at`.  In `MessageQuerier` a client walks
through the pages of a list or an address history (`StartWalk`, `NextPage`, each one
SELECT); `Message` and `Trace` are operators, since nothing is kept of their answers.
`walk.expected` remembers what lasted.  In `StatsQuerier` a request is answered from the
cache, or computes its answer, for a protocol in two queries without a transaction, and
caches it (`AnswerFromCache`, `Miss`, `QueryProtocol`, `QueryRoutes`, `QueryFails`).  A
count is the set of what is counted.  `QueryApi` puts the API's process beside the
indexer's; walks and statistics read the same table and nothing of each other, so a
behaviour has one or the other (`workload`).

The query for an address's history is a UNION of what it sent and what it received.
Axelar's and CCIP's destination events name no receiver (`Receiver`), so that it does
not find messages of these protocols by their receiver, although
`docs/api-reference.md:146` promises history "as sender or receiver".  `cacheKey` writes
a bound that is not given as 0 (`stats_querier.go:142-153`): a request for a bound of 0
and one without it share an entry, and `AnswersOwnFilter` is about other bounds.

## 4. Runs

| Run | Module, instance | Distinct states | Shows |
|---|---|---|---|
| `final` | `MCProcessor`: 2 protocols (one without a contract on the chain), 5 blocks, 1 reorg of depth 1, depth 1, batch 3, chunk 1, prune 1, lag 1; every fault but a lost event | 1.5 M | `TypeOK`, `HeightsCovered`, `ConfirmedPrefixIndexed`, `OnlyConfirmedIndexed`, `NeverRewinds` |
| `quiet` | 1 protocol, 6 blocks, 2 reorgs of depth up to 4, batch 2, prune 2, reorgs between batches only; faults that leave every hash recorded | 507 k | `ReorgDetectable` |
| `live` | 2 protocols, 3 blocks, 1 reorg of depth 2 at any time, failing RPC calls and writes; `FairSpec` | 28 k | `HeightsCovered`, `OnlyConfirmedIndexed`, `CatchesUp` |
| `distinct` | `MCCorrelator`: 6 workers, 3 messages (two LayerZero to two chains, one CCIP), replay anywhere, unknown block times | 170 k | `TypeOK`, `EventsReflected`, `LatencyConsistent`, `DeliveredOnlyOwn`, `ImplementsLifecycle`, `DeliveryRecorded` |
| `archive` | `MCHistorical`: 2 pairs, 2 months, 2 messages, failures and crashes, one download at a time; `HistoricalFairSpec` | 5.4 k | `TypeOK`, `CustodyOrdered`, `HistoricalTypeOK`, `ServedIsRecorded`, `ArchiveCompletes` |
| `backfill` | `MCBackfill`: 1 protocol, 3 blocks, 1 reorg of depth 1, batch 2, chunk 1; every fault but a lost event in both processes; `BackfillFairSpec` | 532 k | `BackfillTypeOK`, `HeightsCovered`, `ConfirmedPrefixIndexed`, `RangeCovered`, `NearRangeOnly`, `BackfillEnds` |
| `rpc` | `MCRpcClient`: a chain with 3 endpoints and 1 goroutine, one with 2 endpoints and 2 goroutines, 2 attempts; `FairSpec` | 469 k | `TypeOK`, `NoEndpointLost`, `ConnectionsKept`, `LoneCallerTriesAll`, `LoneCallerAnswered` |
| `api` | `MCQueryApi`: 3 workers, 3 messages, one delivered; walks with 3 filters, both orders, pages of 1 and 2; or 2 requests for the same statistics, for two windows, or 1 for routes | 1.2 M | `ApiTypeOK`, `NoRepeats`, `WalkComplete`, `TraceTellsOutcome`, `ServedFresh`, `AnswersOwnFilter`, `ExecutedAreSampled`, `RoutesConcluded` |
| `shared`, `bypass`, `exit`, `sequence` | smallest instances that show it | | a property the documentation or a comment states is violated (section 6) |

Why the bounds are enough.  `final`: three blocks are the least batch with an unrecorded
one in the middle and with two chunk boundaries; five blocks give two batches after a
first, and prune depth 1 makes hashes go missing.  `quiet`: six blocks and two
reorganisations of depth four let a second reorganisation hit a rewind that is not over
or was cut short.  `live`: two protocols and one deep reorganisation let each rewind
delete what the other needs.  `distinct`: two workers share one message's source (a
backfill), two events of one message come from one worker, two outcomes of one message
come in sequence, two messages have the same sender and source chain, and all go
through one table.  `archive`: a second pair ends the first one's turn; two messages in
a month make a file that is archived before it is complete; the second month is what
`AbandonPair` skips; a change of each message makes record, file and request differ,
also where the record is one of before migration 000005.
`backfill`: three blocks and batches of two let a backfill overshoot `--to`, start
behind, at and one past the indexer's cursor, run again after it ended, and write the
row between any two calls of the indexer.  `rpc`: the first chain has more endpoints
than attempts, so that only a later call finds the one that answers; the second has two
callers, who rotate past one another.  `LoneCallerTriesAll` and `LoneCallerAnswered` are
about the first: a client with one caller is what `cmd/backfill` has, while the
protocols that `cmd/indexer` starts on a chain share theirs and get no such guarantee.  `api`: two rows may share a `created_at` or be
committed against its order, one of three is concluded during a walk, and pages of one
need two cursors; the time to live and the request's time are one tick each, and with
two ticks an entry can be replaced by one that was counted before it.  `MaxHeight`,
`MaxReorgs`, `MaxMonth`, `MaxVersion`, `MaxClock`, `MaxNow` and `Workloads` are bounds
of the models, not of the code; the proofs hold for all values of them.

Fairness.  `Running`: each goroutine goes on (weak fairness of its loop; a Go goroutine
that can run does), and the chain grows to its bound.  `Answering`: a request repeated
for ever is answered in the end (strong fairness, one per request, chunk and cursor
write); without it an endpoint that never answers keeps the loop polling and retrying.
The rewind's write has its own conjunct, for rewinds that lower the cursor: a walk
whose first header cannot be had ends where it started, so that a run in which the walk
succeeds only when the write after it fails would rewind for ever to the same height.
`BackfillFairSpec` assumes as much as that needs: both processes go on, and a chunk
asked for again and again is answered.  `CycleFairness`: the same for the archiver's
calls per file, and the process is not killed for ever; the ticker starts the next
cycle.  The last is needed: a cycle that is always killed after archiving and before its
manifest leaves the manifest behind, since only a cycle that archived something writes
it.  `RpcClient!FairSpec`: a goroutine goes on and a request comes to an answer or an error
(an assumption on the network: the code sets a request no time limit); only the endpoints in `Reliable` answer always.  Nothing is
assumed of reorganisations, cancellation, events, failing calls or clients of the API.

Deadlock is checked in all runs but `rpc`, where a Manager that was closed, or could not
be started, does nothing more.

## 5. Theorems

All are proved for every value of the constants, under the named assumptions of the
modules (`ChainAssumption`, `ProcessorAssumption`, `CorrelatorAssumption`,
`ArchiverAssumption`, `StatsAssumption`, `WorkloadAssumption`, `BackfillAssumption`,
`QuerierAssumption`, `RpcAssumption`), which say no more than that bounds are naturals
and sets are of the right kind, that no two messages have the same rank in a query's
tie-break (`id` is the primary key) and that a chain's configuration names an endpoint
once.  What else a theorem needs is a named hypothesis in its ASSUME; each is evaluated
by TLC or satisfied by the constants of a run, so that none is empty.

**Processor.**  `TypeCorrect` and `OnlyConfirmedIndexedHolds` follow from `ShapeInv`:
types, where the locals stand at each call (`Shape`), and that nothing lies beyond the
confirmed head (`Bounded`).  It is needed because `TypeOK` alone does not rule out a
batch past the head.  `HeightsCoveredHolds` adds `CoverageInv`: of the current batch,
what is below the chunk being fetched is in hand, and after the event loop it is
indexed, unless the context is cancelled, in which case the cursor cannot be written.
It assumes `NothingLost`: no event is skipped on an error, and no endpoint trails the
head by more than the confirmation depth.  With either, the property fails: a skipped
event is dropped by design (`processor.go:172`), a trailing endpoint answers without the
blocks it lacks.  `ConfirmedPrefixIndexedHolds` and `NeverRewindsHolds` add
`FinalityInv`, under `ConfirmedIsFinal` (no reorganisation, and no lag, deeper than the
confirmation depth): then everything recorded in `block_hashes`, whoever recorded it, is
canonical, so no walk is ever entered.

`ReorgDetectableHolds` is about the opposite case, reorganisations deeper than the
confirmation depth.  It assumes `HashesTell`, which is how narrow the guarantee of the
code is: one protocol on the chain, batches of at most two blocks, no hash that went
unrecorded, no reorganisation in the middle of a batch, and none that reaches a block
whose hash may have been pruned (`confirmation_depth` and `reorgPruneDepth` and one block
more; in the instance of `quiet` that is 4, and with 5 TLC finds a violation).
`shared`, the configuration `MCProcessorAncestor.cfg` and the remarks of section 6 show
what becomes of it without these.  The property itself is about the cursor only and not inductive, since a rewind
can stop at any height and leave that as the cursor.  `EvidenceInv` says it of every
height behind the cursor (`Evident`: up to there nothing canonical is missing, or the
hash recorded there is another branch's; a height without a hash is out of reach of a
reorganisation), of the batch under way (`Tracked`: it follows on what is canonical, its
logs are in hand or indexed, its first hash is recorded before its last), and that a
branch's number is new (`BranchesGrow`).

**Backfill.**  `BackfillProofs` reuses the lemmas about a step of `ProcessChain`
(`PolledBatch`, `ChunkComplete`, `LogsProcess` and others) through an instance of
`ProcessorProofs` on the backfill's variables.  `BackfillTypeCorrect` and
`NearRangeOnlyHolds` follow from `BackfillInv`: the indexer's `ShapeInv` holds beside a
backfill, only a running backfill has left the start of the loop, its cursor and logs are
within its range and the batch that reaches its end, and that batch is confirmed.
`RangeCoveredHolds` adds `RangeInv`, the coverage of the range so far, under
`NothingLost`; it needs no assumption on where the range begins.
`BackfillKeepsCoverage` and `BackfillKeepsPrefix` do: under `Reindexing` whatever lies
before the range is indexed when the backfill starts, and stays so (`BeforeInv`), so the
row it writes has no gap below it, however far the indexer had come.  `BackfillKeepsPrefix`
adds `ConfirmedIsFinal`, as for the indexer alone; `LogsCanonical` says of both processes
that what they indexed or hold is canonical.

**RPC client.**  `RpcTypeOKHolds`, `NoEndpointLostHolds`, `ConnectionsKeptHolds` and
`LoneCallerTriesAllHolds` hold for any chains, endpoints, goroutines and attempts.
`ListsInv` says that a client's list is the configured one, begun after some endpoint
and without those that could not be dialled, so that failovers, in whatever order they
get the lock, drop or repeat none; `CallsInv` that a goroutine asks an endpoint of the client it called while the
Manager is open.  The last theorem counts: while one goroutine has a client to itself,
its attempts are the end of the list as it now stands, in that order (`LoneInv`), so
they are of as many endpoints.  In this repository it is about `cmd/backfill`.

**Correlator.**  `ImplementsLifecycleHolds`, `DeliveredOnlyOwnHolds` and
`LatencyConsistentHolds` assume `UniqueKeys` (a key fits only its own message) and
`OneReader` (a message's destination events are in one worker's log).  The invariant
is `CorrelatorInv`: each row's key columns come from one of its source events
(`RowInv`), and what a worker holds between its two calls is its own event's message,
still pending (`FoundInv`).  `FoundInv` is where both assumptions enter: without
`OneReader` another worker may conclude the message in between, and `UpdateDestination`
does not look.  So neither the run `distinct` nor these theorems cover a second reader
(a backfill over the blocks of a message's destination) or keys that are not unique
(`MCCorrelatorNonce.cfg`); what they cover is replays, source events that come again,
and second outcomes of one log.  `CorrelatorTypeCorrect` needs neither.

`LatencyConsistentHolds` says what `latency_seconds` tells: the difference of the stored
times once both are known, and 0 otherwise.  The column cannot tell a latency of 0 from
one that is not known; traces and statistics leave out whatever is not positive.

`EventsReflectedHolds` assumes `OneMessagePerId` (the source events of an id are of one
protocol and agree on whether it carries tokens) and that no event is skipped
("event" not in `Faults`).  Its invariant is the property
with the workers' positions.  It needs neither key uniqueness nor one reader: an upsert
and an update write different columns, so no order of them loses what a source event
said.  `DeliveryRecordedHolds` assumes all of these and `KeysFit`: the key of a
destination event is that of the row its message opened.  `sequence` shows a Wormhole
redemption for which it is not.

**Archiver.**  `ArchiverTypeCorrect` and `CustodyOrderedHolds` follow from `Inv`, which
adds to the stored order what the archiver carries: the buffer lies between file and
table until it is uploaded and equals the file until it is recorded, and the listing
lies between manifest and records (`CarriedInv`); and a cycle stays behind the month
it started in (`BoundsInv`).  `ServedIsRecordedHolds` carries `Inv` over to the
composition and adds that records only grow newer (`RecordsGrow`), so the record a
request read is never newer than the one in the index, nor, by `CustodyOrdered`, than
the file it downloads: without a checksum the response may hold more than the record
told, and never less.  `HistoricalTypeOKHolds` needs no more.

**Query API: lists and traces.**  `NoRepeatsHolds` and `WalkCompleteHolds` rest on the order
of the pages being strict and total over what is stored, for any number of messages with
the same `created_at`: a page is the foremost rows after the cursor, and if a row is left
over, all that is not on the page comes after its last (`PageFacts`).  `WalkInv` then
says of a walk that the cursor has all it has seen before it and all that is still
expected after it.  Writers keep it because no step changes a row's place in the order; a
row committed behind the cursor is simply not expected.  `TraceTellsOutcomeHolds` is the
invariant that a row has a destination exactly if its status is final and a latency
other than 0 only then (`OutcomesInv`): it needs neither unique keys nor one reader.

**Query API: statistics.**  `ServedFreshHolds`: what is served was counted less than a cache
entry's life and one request's time ago.  The invariant is `FreshInv`, from which `ApiTypeCorrect` follows too: a request that
has reached the table started no later than now and counted no earlier than it started
(`Counted`), and an entry expires no later than `TTL + MaxQuery` after its value was
counted (`Timely`).  Both are needed because the last request to finish has its answer
cached, however old its count is: only the request's own time limit bounds it.  It says
that a slow request may replace the entry of a faster, later one, so a client can see
counts go back, but never by more than this.

`RoutesConcludedHolds` and `AnswersOwnFilterHolds` say of the cache what they say of an
answer (`AnswersInv`): an entry fits its key, whichever request left it.  The second
assumes `BoundsTell`, that no bound of 0 is asked for, since the key writes a missing one
as 0.  `ExecutedAreSampledHolds` is about the two queries of protocol statistics: under
`UniqueKeys` and `OneReader`, a message counted as executed by the first is as it was
when the second samples it (`SampledInv`), because a concluded row is not concluded
again; the sample may have more than was counted, and lacks only a message without a
positive latency.

Model-checked only are the liveness properties `CatchesUp`, `ArchiveCompletes`,
`BackfillEnds` and `LoneCallerAnswered`: fairness and ENABLED are out of the prover's
reach.  Every invariant and every action property that a passing run checks is stated by
a theorem.

## 6. Where code and documentation differ

Each of these is a run that TLC finds violated; `PROJECT.json` quotes the lines.

* `shared`: `block_hashes` is keyed by chain and height, but each protocol has its own
  cursor.  In the run's trace one protocol's rewind deletes the hash the other would have
  compared with, and the other's check is skipped.
* `bypass`: a backfill does not bypass the live cursor, as `cmd/backfill/main.go:1-2`
  says; it writes it.  One that starts beyond it makes the indexer leave out the blocks
  between.  The run `backfill` shows that nothing is lost where `--from` is at most one
  past the cursor, as in re-indexing.
* `exit`: the error that ends a finished backfill is wrapped on its way to main, which
  then exits 1; the error of an interrupted one is not, and main reports completion.
* `sequence`: a Wormhole redemption looks its sequence up in a column that the source
  event leaves 0.

Five more configurations are kept for running by hand (`tlc -config X.cfg M`); each is
violated too.

* `MCProcessorAncestor.cfg`: a batch of more than two blocks records only its first and
  last hash, and the walk back ends at the first height without one, so the cursor stays
  above the common ancestor (`docs/architecture.md:72`).
* `MCProcessorOrphans.cfg`: a rewind touches no message (`docs/architecture.md:73`).
* `MCProcessorShutdown.cfg`: the cancelled context is also that of the calls left in the
  batch, which is not completed (`internal/indexer/indexer.go:60-61`).
* `MCCorrelatorNonce.cfg`: LayerZero's deliveries are matched by (source chain, sender,
  nonce), but the nonce counts per path, so a message may get another's delivery.
* `MCRpcClientSkip.cfg`: two goroutines that fail on the first of two endpoints both
  rotate, and the next attempt of one goes to the same endpoint, unlike
  `internal/chain/client.go:255-256` says.

With `RacyReorgs = TRUE` in the configuration of `quiet`, `ReorgDetectable` fails as
well: hashes are recorded after the events, from headers fetched anew, so a
reorganisation during a batch is recorded as if its blocks had been indexed.  This is
why that run allows reorganisations only between batches; what holds without that
restriction is `HeightsCovered` and, under finality, `ConfirmedPrefixIndexed`.

Differences that no run is about, met on the way:

* `docs/architecture.md:110` says `--to` caps the end block and that an interrupted
  backfill can resume.  The batch that reaches `--to` is indexed whole (`NearRangeOnly`
  says how far), and every backfill starts at `--from` (`cmd/backfill/main.go:165-171`).
* `docs/architecture.md:107` and the messages of `cmd/backfill` name the protocol
  `layerzero`; the registry knows it as `layerzero_v2`.
* `Readme.md:31` gives Axelar's correlation key as `commandId`; a `ContractCall` has
  none and stays pending for good under its payload hash.
* `internal/api/historical_handler.go:29` says that the handler verifies the file's
  checksum.  For a record of before migration 000005 there is none, until the month is
  archived again, and a file that was uploaded but not yet recorded is served under it.
* `docs/api-reference.md:66, 154` pages by `offset`; the handlers page by a cursor.

## 7. Not modelled

* Decoders, Parquet, configuration, logging and metrics: no state that interacts.  A
  decoded event is an element of `EventType`.
* The health and cursor listings, the lookup by transaction hash, and the HTTP server
  and middleware: they copy rows and keep nothing.  The timeout of a request is in
  `StatsQuerier`.
* The rate limiter and the backoff times: they delay and nothing else.
* `binary search` in the documentation of the reorg walk: the code walks block by block,
  and so does the model.
* Rows of the message tables beyond what the properties tell apart (transaction hashes,
  log indexes, fees), and the encoding of a page cursor, which loses nothing.
* The link between an index log (`Processor`) and a stored row (`Correlator`) is kept
  abstract: `ProcessLog` stands for a successful `Correlator.Process`, `Replay` for what
  the processor may do to a worker.  The two are checked separately.  So are
  `RpcClient`, which says what becomes of a call, and `Processor`, where a call fails or
  does not.
