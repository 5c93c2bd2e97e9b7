-------------------------- MODULE HistoricalProofs --------------------------
(***************************************************************************)
(* Theorems about the historical download beside the archiver, for any     *)
(* messages, pairs, months and faults (ArchiverAssumption).                *)
(*                                                                         *)
(* The archiver's invariant carries over, since a request changes nothing  *)
(* of the archiver's.  From it follows that a record is only ever replaced *)
(* by one that is as new, and so what a request read of the index stays no *)
(* newer than the index, nor than the file it downloads.                   *)
(***************************************************************************)
EXTENDS Historical, ArchiverProofs

RequestInv ==
  /\ HistoricalTypeOK
  /\ rec # Nothing => want \in Files /\ NoNewer(rec, archived[want])
  /\ served # Nothing => rec # Nothing /\ NoNewer(rec, served) /\ (summed => served = rec)

\* A record is replaced by one that is at least as new (archiver.go:188).
LEMMA RecordsGrow ==
  ASSUME Inv, [Next]_vars, NEW f \in Files
  PROVE  NoNewer(archived[f], archived'[f])
<1> USE DEF Inv
<1>1. NoNewer(archived[f], archived[f])
  BY NoNewerOrder DEF TypeOK
<1>2. ASSUME pc = "record", archived' = [archived EXCEPT ![File] = buf]
      PROVE  NoNewer(archived[f], archived'[f])
  <2>1. CASE f = File
    <3>1. archived'[f] = objects[f]
      BY <1>2, <2>1 DEF TypeOK, CarriedInv
    <3> QED BY <3>1 DEF CustodyOrdered
  <2>2. CASE f # File
    BY <1>1, <1>2, <2>2 DEF TypeOK
  <2> QED BY <2>1, <2>2
<1>3. CASE archived' = archived
  BY <1>1, <1>3
<1>4. CASE Record \/ AbandonPair
  BY <1>2, <1>3, <1>4 DEF Record, AbandonPair, UpsertArchivalCursor
<1>5. CASE ~(Record \/ AbandonPair)
  <2>1. archived' = archived
    BY <1>5 DEF Next, RunCycle, StartCycle, EndPair, SkipMonth, Fetch, Upload,
       ListArchivalCursors, UploadManifest, ManifestFails, Crash, WriteMessage, MonthEnds,
       vars, fileVars
  <2> QED BY <1>3, <2>1
<1> QED BY <1>4, <1>5

LEMMA RequestInit == HistoricalInit => Inv /\ RequestInv
<1> SUFFICES ASSUME HistoricalInit PROVE Inv /\ RequestInv
  OBVIOUS
<1>1. Inv
  BY InvInit DEF HistoricalInit
<1>2. Nothing \in Contents
  BY <1>1, ContentsOf DEF Inv, TypeOK
<1>3. NoFile \notin Files
  BY ArchiverAssumption DEF NoFile, Files
<1> QED
  BY <1>1, <1>2, <1>3 DEF HistoricalInit, RequestInv, HistoricalTypeOK, Inv

\* What is no newer than a record is no newer than any later one.
LEMMA StaysRecorded ==
  ASSUME Inv, Inv', [Next]_vars, NEW f \in Files, NEW c \in Contents, NoNewer(c, archived[f])
  PROVE  NoNewer(c, archived'[f])
<1>1. archived[f] \in Contents /\ archived'[f] \in Contents
  BY DEF Inv, TypeOK
<1>2. NoNewer(archived[f], archived'[f])
  BY RecordsGrow
<1> QED BY <1>1, <1>2, NoNewerOrder

LEMMA RequestStep ==
  Inv /\ RequestInv /\ [HistoricalNext]_allVars => Inv' /\ RequestInv'
<1> SUFFICES ASSUME Inv, RequestInv, [HistoricalNext]_allVars
             PROVE  Inv' /\ RequestInv'
  OBVIOUS
<1>1. [Next]_vars
  BY DEF HistoricalNext, LookUp, Serve, DownloadFails, allVars
<1>2. Inv'
  BY <1>1, InvNext
<1>3. TypeOK'
  BY <1>2 DEF Inv
<1>4. Nothing \in Contents
  BY ContentsOf DEF Inv, TypeOK
<1>5. CASE UNCHANGED readVars
  <2>1. HistoricalTypeOK'
    BY <1>3, <1>5 DEF RequestInv, HistoricalTypeOK, readVars
  <2>2. rec' # Nothing => want' \in Files /\ NoNewer(rec', archived'[want'])
    BY <1>1, <1>2, <1>5, StaysRecorded DEF RequestInv, HistoricalTypeOK, readVars
  <2>3. served' # Nothing =>
          rec' # Nothing /\ NoNewer(rec', served') /\ (summed' => served' = rec')
    BY <1>5 DEF RequestInv, readVars
  <2> QED BY <1>2, <2>1, <2>2, <2>3 DEF RequestInv
<1>6. ASSUME NEW f \in Files, LookUp(f) PROVE RequestInv'
  <2>1. archived[f] \in Contents /\ archived' = archived
    BY <1>6 DEF LookUp, vars, fileVars, Inv, TypeOK
  <2>2. NoNewer(archived[f], archived[f])
    BY <2>1, NoNewerOrder
  <2>3. HistoricalTypeOK'
    BY <1>3, <1>4, <1>6, <2>1 DEF LookUp, HistoricalTypeOK
  <2> QED BY <1>6, <2>1, <2>2, <2>3 DEF LookUp, RequestInv
<1>7. CASE Serve
  <2>1. reading /\ UNCHANGED <<want, rec, summed, archived, objects>> /\ reading' = FALSE
    BY <1>7 DEF Serve, vars, fileVars
  <2>2. want \in Files /\ rec # Nothing /\ NoNewer(rec, archived[want])
    BY <2>1 DEF RequestInv, HistoricalTypeOK
  <2>3. objects[want] \in Contents /\ archived[want] \in Contents /\ rec \in Contents
    BY <2>2 DEF RequestInv, HistoricalTypeOK, Inv, TypeOK
  <2>4. NoNewer(rec, objects[want])
    BY <2>2, <2>3, NoNewerOrder DEF Inv, CustodyOrdered
  <2>5. served' = Nothing \/ (served' = objects[want] /\ (summed => objects[want] = rec))
    BY <1>7 DEF Serve
  <2>6. HistoricalTypeOK'
    BY <1>3, <1>4, <2>1, <2>3, <2>5 DEF RequestInv, HistoricalTypeOK
  <2>7. served' # Nothing => NoNewer(rec', served') /\ (summed' => served' = rec')
    BY <2>1, <2>4, <2>5
  <2> QED BY <1>2, <2>1, <2>2, <2>6, <2>7 DEF RequestInv
<1>8. CASE DownloadFails
  <2>1. UNCHANGED <<want, rec, summed, served, archived>> /\ reading' = FALSE
    BY <1>8 DEF DownloadFails, vars, fileVars
  <2>2. HistoricalTypeOK'
    BY <1>3, <2>1 DEF RequestInv, HistoricalTypeOK
  <2>3. rec' # Nothing => want' \in Files /\ NoNewer(rec', archived'[want'])
    BY <2>1 DEF RequestInv
  <2>4. served' # Nothing =>
          rec' # Nothing /\ NoNewer(rec', served') /\ (summed' => served' = rec')
    BY <2>1 DEF RequestInv
  <2> QED BY <1>2, <2>2, <2>3, <2>4 DEF RequestInv
<1>9. RequestInv'
  BY <1>5, <1>6, <1>7, <1>8 DEF HistoricalNext, allVars
<1> QED BY <1>2, <1>9

\* Whatever the archiver uploads and records while a request is under way, and
\* whatever an earlier version recorded without a checksum, a response holds all
\* that the record the handler read tells of, just that if there is a checksum
\* to verify, and the index goes on telling it (historical_handler.go:49-99).
THEOREM ServedIsRecordedHolds == HistoricalSpec => []ServedIsRecorded
<1>1. Inv /\ RequestInv => ServedIsRecorded
  BY DEF RequestInv, ServedIsRecorded
<1> QED BY <1>1, RequestInit, RequestStep, PTL DEF HistoricalSpec

\* The request's file and record are a record the index holds or held, without
\* one nothing is downloaded, and what it serves is a state of that file's
\* contents (historical_handler.go:49-99).
THEOREM HistoricalTypeOKHolds == HistoricalSpec => []HistoricalTypeOK
<1>1. Inv /\ RequestInv => HistoricalTypeOK
  BY DEF RequestInv
<1> QED BY <1>1, RequestInit, RequestStep, PTL DEF HistoricalSpec
=============================================================================
