------------------------------ MODULE Archiver ------------------------------
(***************************************************************************)
(* internal/archiver/archiver.go: the goroutine that copies the messages   *)
(* of every complete month to object storage, one file per (protocol,      *)
(* chain) pair and month, while the processors go on writing to the table. *)
(*                                                                         *)
(* One action is one call to PostgreSQL or to the object storage.  The     *)
(* pairs are numbered in the order in which runCycle visits them.          *)
(***************************************************************************)
EXTENDS Integers

CONSTANTS
  Messages,
  NumPairs,     \* (protocol, chain) pairs
  MaxMonth,     \* bound: months are numbered from scanStart
  MaxVersion,   \* bound: how often the rows of a message change
  PairOf,       \* PairOf[m]: the pair of a message
  MonthOf,      \* MonthOf[m]: the month of its source timestamp, 0 if unknown
  Faults        \* "call": calls fail; "crash": the process dies

ASSUME ArchiverAssumption ==
  /\ NumPairs \in Nat \ {0}
  /\ MaxMonth \in Nat
  /\ MaxVersion \in Nat
  /\ PairOf \in [Messages -> 1..NumPairs]
  /\ MonthOf \in [Messages -> 0..MaxMonth]
  /\ Faults \subseteq {"call", "crash"}

VARIABLES
  \* PostgreSQL, and the clock
  version,    \* how often a message's rows have been written, 0: not stored
  archived,   \* archival_cursors: what was recorded of each file
  bare,       \* the files whose record has no checksum
  month,      \* the current month
  \* object storage
  objects,    \* the file under each file's key
  manifest,   \* manifests/index.json: what it says of each file
  \* memory of the archiver
  pc,         \* its next call
  before,     \* beforeMonth
  pair, at,   \* the file it has come to
  buf,        \* the serialised records
  count,      \* files of this pair were archived in this cycle
  total,      \* files of earlier pairs were
  listed      \* the records the manifest is made from

tableVars == <<version, month>>
fileVars  == <<objects, archived, bare, manifest>>
cycleVars == <<pc, before, pair, at, buf, count, total, listed>>
vars      == <<tableVars, fileVars, cycleVars>>

Files == (1..NumPairs) \X (1..MaxMonth)

\* What a file holds: each message in the version it had.  A file without
\* messages is not written, so Nothing also stands for no file and no record.
\* The checksum of a file is known by the file's contents.
Contents == [Messages -> 0..MaxVersion]
Nothing  == [m \in Messages |-> 0]

\* Each message is in c at most as new as in d.
NoNewer(c, d) == \A m \in Messages : c[m] <= d[m]

\* FetchRecordsForArchival: one statement, so one state of the table.
Fetched(f) ==
  [m \in Messages |->
     IF PairOf[m] = f[1] /\ MonthOf[m] = f[2] THEN version[m] ELSE 0]

TypeOK ==
  /\ version \in Contents
  /\ month \in 1..MaxMonth + 1
  /\ objects \in [Files -> Contents]
  /\ archived \in [Files -> Contents]
  /\ bare \subseteq Files
  /\ manifest \in [Files -> Contents]
  /\ pc \in {"idle", "fetch", "upload", "record", "list", "manifest"}
  /\ before \in 1..MaxMonth + 1
  /\ pair \in 1..NumPairs
  /\ at \in 1..MaxMonth + 1
  /\ buf \in Contents
  /\ count \in BOOLEAN
  /\ total \in BOOLEAN
  /\ listed \in [Files -> Contents]

\* What an earlier version of the program archived before migration 000005 is
\* there: records to which the migration gave no checksum, their files, and
\* their entries in the manifest.
Init ==
  /\ month \in 1..MaxMonth + 1
  /\ version \in {v \in Contents : \A m \in Messages : MonthOf[m] > month => v[m] = 0}
  /\ bare \in SUBSET {f \in Files : f[2] < month /\ Fetched(f) # Nothing}
  /\ archived = [f \in Files |-> IF f \in bare THEN Fetched(f) ELSE Nothing]
  /\ objects = archived
  /\ manifest = archived
  /\ pc = "idle"
  /\ before = 1
  /\ pair = 1 /\ at = 1
  /\ buf = Nothing
  /\ count = FALSE /\ total = FALSE
  /\ listed = [f \in Files |-> Nothing]

File == <<pair, at>>

Fails == "call" \in Faults

(***************************************************************************)
(* runCycle                                                                *)
(***************************************************************************)

\* Seeded fault: the current month is archived too.
StartCycleNow ==
  /\ pc = "idle"
  /\ before' = month + 1
  /\ pair' = 1 /\ at' = 1
  /\ count' = FALSE /\ total' = FALSE
  /\ pc' = "fetch"
  /\ UNCHANGED <<tableVars, fileVars, buf, listed>>

\* On start, and on each tick: the months before the current one.
StartCycle ==
  /\ pc = "idle"
  /\ before' = month
  /\ pair' = 1 /\ at' = 1
  /\ count' = FALSE /\ total' = FALSE
  /\ pc' = "fetch"
  /\ UNCHANGED <<tableVars, fileVars, buf, listed>>

\* archiveChainProtocol returned; any tells whether files have been archived.
\* After the last pair the manifest is updated if there are any.
NextPair(any) ==
  /\ at' = 1
  /\ buf' = Nothing
  /\ count' = FALSE
  /\ total' = any
  /\ IF pair < NumPairs
       THEN pair' = pair + 1 /\ pc' = "fetch"
       ELSE pair' = 1 /\ pc' = IF any THEN "list" ELSE "idle"
  /\ UNCHANGED <<before, listed>>

\* The pair's months are done.
EndPair ==
  /\ pc = "fetch" /\ at >= before
  /\ NextPair(total \/ count)
  /\ UNCHANGED <<tableVars, fileVars>>

\* A month without messages is passed over.
SkipMonth ==
  /\ pc = "fetch" /\ at < before
  /\ Fetched(File) = Nothing
  /\ at' = at + 1
  /\ UNCHANGED <<tableVars, fileVars, pc, before, pair, buf, count, total, listed>>

\* FetchRecordsForArchival, WriteParquet and the checksum.
Fetch ==
  /\ pc = "fetch" /\ at < before
  /\ Fetched(File) # Nothing
  /\ buf' = Fetched(File)
  /\ pc' = "upload"
  /\ UNCHANGED <<tableVars, fileVars, before, pair, at, count, total, listed>>

\* Seeded fault: a file whose upload fails is recorded.
UploadUnchecked ==
  /\ pc = "upload"
  /\ objects' \in {[objects EXCEPT ![File] = buf]} \cup (IF Fails THEN {objects} ELSE {})
  /\ pc' = "record"
  /\ UNCHANGED <<tableVars, archived, bare, manifest, before, pair, at, buf, count,
                 total, listed>>

\* Upload.  verifyUpload, which follows, changes nothing: if it fails, that is
\* logged and the file is recorded all the same.
Upload ==
  /\ pc = "upload"
  /\ objects' = [objects EXCEPT ![File] = buf]
  /\ pc' = "record"
  /\ UNCHANGED <<tableVars, archived, bare, manifest, before, pair, at, buf, count,
                 total, listed>>

\* UpsertArchivalCursor: from now on the file's record has a checksum.
UpsertArchivalCursor ==
  /\ archived' = [archived EXCEPT ![File] = buf]
  /\ bare' = bare \ {File}

\* Seeded fault: a record that exists is not updated.
RecordOnce ==
  /\ pc = "record"
  /\ archived' = [archived EXCEPT ![File] = IF @ = Nothing THEN buf ELSE @]
  /\ UNCHANGED bare
  /\ count' = TRUE
  /\ at' = at + 1
  /\ buf' = Nothing
  /\ pc' = "fetch"
  /\ UNCHANGED <<tableVars, objects, manifest, before, pair, total, listed>>

\* The file is recorded, and the next month's turn comes.
Record ==
  /\ pc = "record"
  /\ UpsertArchivalCursor
  /\ count' = TRUE
  /\ at' = at + 1
  /\ buf' = Nothing
  /\ pc' = "fetch"
  /\ UNCHANGED <<tableVars, objects, manifest, before, pair, total, listed>>

\* A call for this file fails, with or without effect.  The pair's other months
\* wait for the next cycle, and the files it did archive are not counted.
AbandonPair ==
  /\ Fails
  /\ \/ pc = "fetch" /\ at < before /\ UNCHANGED <<objects, archived, bare>>
     \/ /\ pc = "upload"
        /\ objects' \in {objects, [objects EXCEPT ![File] = buf]}
        /\ UNCHANGED <<archived, bare>>
     \/ /\ pc = "record"
        /\ (UpsertArchivalCursor \/ UNCHANGED <<archived, bare>>)
        /\ UNCHANGED objects
  /\ NextPair(total)
  /\ UNCHANGED <<tableVars, manifest>>

(***************************************************************************)
(* updateManifest                                                          *)
(***************************************************************************)

ListArchivalCursors ==
  /\ pc = "list"
  /\ listed' = archived
  /\ pc' = "manifest"
  /\ UNCHANGED <<tableVars, fileVars, before, pair, at, buf, count, total>>

\* The cycle ends, and what was listed goes out of scope.
EndCycle ==
  /\ pc' = "idle"
  /\ listed' = [f \in Files |-> Nothing]
  /\ UNCHANGED <<before, pair, at, buf, count, total>>

UploadManifest ==
  /\ pc = "manifest"
  /\ manifest' = listed
  /\ EndCycle
  /\ UNCHANGED <<tableVars, objects, archived, bare>>

\* The next attempt is made by the next cycle that archives a file.
ManifestFails ==
  /\ Fails
  /\ \/ pc = "list" /\ UNCHANGED manifest
     \/ pc = "manifest" /\ manifest' \in {manifest, listed}
  /\ EndCycle
  /\ UNCHANGED <<tableVars, objects, archived, bare>>

(***************************************************************************)
(* The process and its environment                                         *)
(***************************************************************************)

\* The process dies at any point and starts again.  (A cancelled context lets
\* every call fail and then ends the loop: failing calls and a crash.)
Crash ==
  /\ "crash" \in Faults
  /\ pc # "idle"
  /\ pc' = "idle"
  /\ before' = 1 /\ pair' = 1 /\ at' = 1
  /\ buf' = Nothing
  /\ count' = FALSE /\ total' = FALSE
  /\ listed' = [f \in Files |-> Nothing]
  /\ UNCHANGED <<tableVars, fileVars>>

\* UpsertMessage or UpdateDestination: also for messages of months gone by.
WriteMessage ==
  /\ \E m \in Messages :
       /\ MonthOf[m] <= month /\ version[m] < MaxVersion
       /\ version' = [version EXCEPT ![m] = @ + 1]
  /\ UNCHANGED <<month, fileVars, cycleVars>>

MonthEnds ==
  /\ month <= MaxMonth
  /\ month' = month + 1
  /\ UNCHANGED <<version, fileVars, cycleVars>>

RunCycle ==
  \/ StartCycle \/ EndPair \/ SkipMonth \/ Fetch \/ Upload \/ Record \/ AbandonPair
  \/ ListArchivalCursors \/ UploadManifest \/ ManifestFails

Next == RunCycle \/ Crash \/ WriteMessage \/ MonthEnds

Spec == Init /\ [][Next]_vars

(***************************************************************************)
(* Properties                                                              *)
(***************************************************************************)

\* Every stage of the archive is at most as new as the one it is made from, for
\* each message: the manifest lists what is recorded, a record describes a file
\* that was uploaded, and the file holds what the table held, of a month gone by.
\* So no record refers to a file that is not there, and no failing call, crash or
\* late message takes a message out of the archive again (archiver.go:168-202).
CustodyOrdered ==
  \A f \in Files :
    /\ NoNewer(manifest[f], archived[f])
    /\ NoNewer(archived[f], objects[f])
    /\ NoNewer(objects[f], Fetched(f))
    /\ objects[f] # Nothing => f[2] < month

\* Every complete month is archived.
Complete ==
  \A f \in Files : f[2] < month =>
    /\ objects[f] = Fetched(f)
    /\ archived[f] = objects[f]
    /\ manifest[f] = archived[f]

\* The loop goes on, a call that is made over and over succeeds in the end, and
\* the process is not killed for ever: a cycle that archived a file and is killed
\* before its manifest leaves it to the next cycle.
CycleFairness ==
  /\ WF_vars(RunCycle)
  /\ \A f \in Files :
       /\ SF_vars(File = f /\ (Fetch \/ SkipMonth))
       /\ SF_vars(File = f /\ Upload)
       /\ SF_vars(File = f /\ Record)
  /\ SF_vars(ListArchivalCursors)
  /\ SF_vars(UploadManifest)
  /\ <>[][~Crash]_vars

FairSpec == Spec /\ CycleFairness

\* Once no more messages change, file, record and manifest of every complete
\* month come to agree with the table and stay so, although a failing month
\* ends its pair's turn and uncounts the months before it (archiver.go:89-106).
ArchiveCompletes == <>[]Complete
=============================================================================
