--------------------------- MODULE ArchiverProofs ---------------------------
(***************************************************************************)
(* Theorems about the archiver, for any messages, pairs, months and faults *)
(* (ArchiverAssumption).                                                   *)
(*                                                                         *)
(* CustodyOrdered compares what is stored; a step stores what the archiver *)
(* carries in memory.  CarriedInv therefore says where that stands: what   *)
(* is in buf is between the file and the table until it is uploaded, and   *)
(* what was listed is between the manifest and the records.                *)
(***************************************************************************)
EXTENDS Archiver, TLAPS

BoundsInv ==
  /\ before <= month
  /\ pc \in {"fetch", "upload", "record"} => at <= before
  /\ pc \in {"upload", "record"} => at < before

CarriedInv ==
  /\ pc = "upload" => NoNewer(objects[File], buf) /\ NoNewer(buf, Fetched(File))
  /\ pc = "record" => objects[File] = buf
  /\ pc = "manifest" =>
       \A f \in Files : NoNewer(manifest[f], listed[f]) /\ NoNewer(listed[f], archived[f])

Inv == TypeOK /\ BoundsInv /\ CustodyOrdered /\ CarriedInv

(***************************************************************************)
(* What is used of the operators                                           *)
(***************************************************************************)

\* Nothing and what a query returns are contents of a file (store.go:21-120).
LEMMA ContentsOf ==
  ASSUME version \in Contents
  PROVE  /\ Nothing \in Contents
         /\ \A f \in Files : Fetched(f) \in Contents
<1> USE ArchiverAssumption
<1>1. Nothing \in Contents
  BY DEF Nothing, Contents
<1>2. ASSUME NEW f \in Files PROVE Fetched(f) \in Contents
  <2>1. \A m \in Messages : (IF PairOf[m] = f[1] /\ MonthOf[m] = f[2] THEN version[m] ELSE 0)
                              \in 0..MaxVersion
    BY DEF Contents
  <2> QED BY <2>1 DEF Contents, Fetched
<1> QED BY <1>1, <1>2

\* Being no newer is a preorder, with Nothing at its bottom.
LEMMA NoNewerOrder ==
  ASSUME NEW b \in Contents, NEW c \in Contents, NEW d \in Contents
  PROVE  /\ NoNewer(c, c)
         /\ NoNewer(Nothing, c)
         /\ NoNewer(b, c) /\ NoNewer(c, d) => NoNewer(b, d)
<1> USE ArchiverAssumption
<1>1. \A m \in Messages : b[m] \in Nat /\ c[m] \in Nat /\ d[m] \in Nat
  BY DEF Contents
<1> QED BY <1>1 DEF NoNewer, Nothing

\* A query returns what it returned before, or newer (message_store_pg.go:25-90).
LEMMA QueriesGrow ==
  ASSUME version \in Contents, WriteMessage, NEW f \in Files
  PROVE  NoNewer(Fetched(f), Fetched(f)')
<1> USE ArchiverAssumption
<1>1. \A m \in Messages : version[m] \in Nat
  BY DEF Contents
<1>2. \A m \in Messages : version'[m] \in Nat /\ version[m] <= version'[m]
  BY <1>1 DEF WriteMessage, Contents
<1> QED BY <1>1, <1>2 DEF NoNewer, Fetched

(***************************************************************************)
(* Types                                                                   *)
(***************************************************************************)

LEMMA TypeInit == Init => TypeOK
<1> USE ArchiverAssumption
<1> SUFFICES ASSUME Init PROVE TypeOK
  OBVIOUS
<1>1. Nothing \in Contents
  BY DEF Nothing, Contents
<1>2. version \in Contents /\ buf \in Contents
  BY <1>1 DEF Init
<1>3. \A f \in Files : Fetched(f) \in Contents
  BY <1>2, ContentsOf
<1>4. /\ objects \in [Files -> Contents] /\ archived \in [Files -> Contents]
      /\ manifest \in [Files -> Contents] /\ listed \in [Files -> Contents]
      /\ bare \subseteq Files
  BY <1>1, <1>3 DEF Init
<1>5. count \in BOOLEAN /\ total \in BOOLEAN
  BY DEF Init
<1>6. /\ month \in 1..MaxMonth + 1 /\ before \in 1..MaxMonth + 1
      /\ pair \in 1..NumPairs /\ at \in 1..MaxMonth + 1
      /\ pc \in {"idle", "fetch", "upload", "record", "list", "manifest"}
  BY DEF Init
<1> QED BY <1>2, <1>4, <1>5, <1>6 DEF TypeOK

\* The file the archiver has come to, while there are months left.
LEMMA FileIsFile ==
  ASSUME TypeOK, at < before
  PROVE  File \in Files
BY ArchiverAssumption DEF TypeOK, File, Files

\* NextPair stays among the pairs.
LEMMA NextPairType ==
  ASSUME TypeOK, NEW any \in BOOLEAN, NextPair(any)
  PROVE  /\ pair' \in 1..NumPairs /\ at' \in 1..MaxMonth + 1
         /\ buf' \in Contents /\ count' \in BOOLEAN /\ total' \in BOOLEAN
         /\ pc' \in {"fetch", "list", "idle"}
         /\ before' = before /\ listed' = listed
         /\ at' = 1
<1> USE ArchiverAssumption
<1>1. Nothing \in Contents
  BY ContentsOf DEF TypeOK
<1>2. count' \in BOOLEAN /\ total' \in BOOLEAN
  BY Zenon DEF NextPair
<1>3. /\ at' = 1 /\ buf' = Nothing
      /\ before' = before /\ listed' = listed
  BY DEF NextPair
<1>4. pair' \in 1..NumPairs /\ pc' \in {"fetch", "list", "idle"}
  <2>1. CASE pair < NumPairs
    BY <2>1 DEF TypeOK, NextPair
  <2>2. CASE ~(pair < NumPairs)
    BY <2>2 DEF TypeOK, NextPair
  <2> QED BY <2>1, <2>2
<1> QED BY <1>1, <1>2, <1>3, <1>4

\* Every action keeps the types, where the archiver is within the months.
LEMMA TypeStep == TypeOK /\ BoundsInv /\ [Next]_vars => TypeOK'
<1> USE ArchiverAssumption
<1> SUFFICES ASSUME TypeOK, BoundsInv, [Next]_vars PROVE TypeOK'
  OBVIOUS
<1> USE DEF TypeOK
<1>0. /\ Nothing \in Contents
      /\ [f \in Files |-> Nothing] \in [Files -> Contents]
  BY ContentsOf
<1>1. CASE StartCycle
  <2>1. count' \in BOOLEAN /\ total' \in BOOLEAN
    BY <1>1, Zenon DEF StartCycle
  <2> QED BY <1>1, <2>1 DEF StartCycle, tableVars, fileVars
<1>2. CASE EndPair
  <2>1. (total \/ count) \in BOOLEAN
    OBVIOUS
  <2> QED BY <1>2, <2>1, NextPairType DEF EndPair, tableVars, fileVars
<1>3. CASE SkipMonth
  BY <1>3 DEF SkipMonth, tableVars, fileVars
<1>4. CASE Fetch
  <2>1. Fetched(File) \in Contents
    BY <1>4, FileIsFile, ContentsOf DEF Fetch
  <2> QED BY <1>4, <2>1 DEF Fetch, tableVars, fileVars
<1>5. CASE Upload
  <2>1. objects' \in [Files -> Contents]
    BY <1>5 DEF Upload
  <2> QED BY <1>5, <2>1 DEF Upload, tableVars
<1>6. CASE Record
  <2>1. archived' \in [Files -> Contents] /\ bare' \subseteq Files
    BY <1>6 DEF Record, UpsertArchivalCursor
  <2>2. at' \in 1..MaxMonth + 1
    BY <1>6 DEF Record, BoundsInv
  <2> QED BY <1>0, <1>6, <2>1, <2>2 DEF Record, tableVars
<1>7. CASE AbandonPair
  <2>1. /\ objects' \in [Files -> Contents] /\ archived' \in [Files -> Contents]
        /\ bare' \subseteq Files
    BY <1>7 DEF AbandonPair, UpsertArchivalCursor
  <2> QED BY <1>7, <2>1, NextPairType DEF AbandonPair, tableVars
<1>8. CASE ListArchivalCursors
  BY <1>8 DEF ListArchivalCursors, tableVars, fileVars
<1>9. CASE UploadManifest
  BY <1>0, <1>9 DEF UploadManifest, EndCycle, tableVars
<1>10. CASE ManifestFails
  <2>1. manifest' \in [Files -> Contents]
    BY <1>10 DEF ManifestFails
  <2> QED BY <1>0, <1>10, <2>1 DEF ManifestFails, EndCycle, tableVars
<1>11. CASE Crash
  <2>1. count' \in BOOLEAN /\ total' \in BOOLEAN
    BY <1>11, Zenon DEF Crash
  <2> QED BY <1>0, <1>11, <2>1 DEF Crash, tableVars, fileVars
<1>12. CASE WriteMessage
  <2>1. version' \in Contents
    BY <1>12 DEF WriteMessage, Contents
  <2> QED BY <1>12, <2>1 DEF WriteMessage, fileVars, cycleVars
<1>13. CASE MonthEnds
  BY <1>13 DEF MonthEnds, fileVars, cycleVars
<1>14. CASE UNCHANGED vars
  BY <1>14 DEF vars, tableVars, fileVars, cycleVars
<1> QED
  BY <1>1, <1>2, <1>3, <1>4, <1>5, <1>6, <1>7, <1>8, <1>9, <1>10, <1>11, <1>12,
     <1>13, <1>14 DEF Next, RunCycle

(***************************************************************************)
(* The archiver's place                                                    *)
(***************************************************************************)

\* A cycle stays behind the month it started in (archiver.go:80-82, 121).
LEMMA BoundsStep == TypeOK /\ BoundsInv /\ [Next]_vars => BoundsInv'
<1> USE ArchiverAssumption
<1> SUFFICES ASSUME TypeOK, BoundsInv, [Next]_vars PROVE BoundsInv'
  OBVIOUS
<1> USE DEF TypeOK, BoundsInv
<1>1. CASE StartCycle
  BY <1>1 DEF StartCycle, tableVars
<1>2. CASE EndPair
  <2>1. (total \/ count) \in BOOLEAN
    OBVIOUS
  <2>2. pc' \in {"fetch", "list", "idle"} /\ before' = before /\ at' = 1
    BY <1>2, <2>1, NextPairType DEF EndPair
  <2> QED BY <1>2, <2>2 DEF EndPair, tableVars
<1>3. CASE SkipMonth
  BY <1>3 DEF SkipMonth, tableVars
<1>4. CASE Fetch
  BY <1>4 DEF Fetch, tableVars
<1>5. CASE Upload
  BY <1>5 DEF Upload, tableVars
<1>6. CASE Record
  BY <1>6 DEF Record, tableVars
<1>7. CASE AbandonPair
  <2>1. pc' \in {"fetch", "list", "idle"} /\ before' = before /\ at' = 1
    BY <1>7, NextPairType DEF AbandonPair
  <2> QED BY <1>7, <2>1 DEF AbandonPair, tableVars
<1>8. CASE ListArchivalCursors
  BY <1>8 DEF ListArchivalCursors, tableVars
<1>9. CASE UploadManifest \/ ManifestFails
  BY <1>9 DEF UploadManifest, ManifestFails, EndCycle, tableVars
<1>10. CASE Crash
  BY <1>10 DEF Crash, tableVars
<1>11. CASE WriteMessage \/ MonthEnds
  BY <1>11 DEF WriteMessage, MonthEnds, cycleVars
<1>12. CASE UNCHANGED vars
  BY <1>12 DEF vars, tableVars, cycleVars
<1> QED
  BY <1>1, <1>2, <1>3, <1>4, <1>5, <1>6, <1>7, <1>8, <1>9, <1>10, <1>11, <1>12
  DEF Next, RunCycle

(***************************************************************************)
(* What is stored                                                          *)
(***************************************************************************)

\* The order of the stores is that of the stages: each is written from the one
\* before it, so it suffices to look at the store a step writes.
LEMMA CustodyStep ==
  TypeOK /\ BoundsInv /\ CustodyOrdered /\ CarriedInv /\ [Next]_vars => CustodyOrdered'
<1> USE ArchiverAssumption
<1> SUFFICES ASSUME TypeOK, BoundsInv, CustodyOrdered, CarriedInv, [Next]_vars
             PROVE  CustodyOrdered'
  OBVIOUS
<1>0. TypeOK'
  BY TypeStep
<1>1. CASE UNCHANGED <<tableVars, fileVars>>
  BY <1>1 DEF CustodyOrdered, Fetched, tableVars, fileVars
<1>2. ASSUME pc = "upload", UNCHANGED <<tableVars, archived, manifest>>,
             objects' = [objects EXCEPT ![File] = buf]
      PROVE  CustodyOrdered'
  <2> SUFFICES ASSUME NEW f \in Files
               PROVE  /\ NoNewer(manifest'[f], archived'[f])
                      /\ NoNewer(archived'[f], objects'[f])
                      /\ NoNewer(objects'[f], Fetched(f)')
                      /\ objects'[f] # Nothing => f[2] < month'
    BY DEF CustodyOrdered
  <2>1. File \in Files /\ File[2] < month
    BY <1>2, FileIsFile DEF BoundsInv, File, TypeOK
  <2>2. Fetched(f)' = Fetched(f) /\ archived' = archived /\ manifest' = manifest
        /\ month' = month
    BY <1>2 DEF Fetched, tableVars
  <2>3. CASE f = File
    <3>1. objects'[f] = buf
      BY <1>2, <2>1, <2>3 DEF TypeOK
    <3>2. NoNewer(objects[f], buf) /\ NoNewer(buf, Fetched(f))
      BY <1>2, <2>3 DEF CarriedInv
    <3>3. NoNewer(archived[f], buf)
      BY <3>2, NoNewerOrder DEF CustodyOrdered, TypeOK
    <3> QED BY <2>1, <2>2, <2>3, <3>1, <3>2, <3>3 DEF CustodyOrdered
  <2>4. CASE f # File
    <3>1. objects'[f] = objects[f]
      BY <1>2, <2>4 DEF TypeOK
    <3> QED BY <2>2, <3>1 DEF CustodyOrdered
  <2> QED BY <2>3, <2>4
<1>3. ASSUME pc = "record", UNCHANGED <<tableVars, objects, manifest>>,
             archived' = [archived EXCEPT ![File] = buf]
      PROVE  CustodyOrdered'
  <2> SUFFICES ASSUME NEW f \in Files
               PROVE  /\ NoNewer(manifest'[f], archived'[f])
                      /\ NoNewer(archived'[f], objects'[f])
                      /\ NoNewer(objects'[f], Fetched(f)')
                      /\ objects'[f] # Nothing => f[2] < month'
    BY DEF CustodyOrdered
  <2>1. Fetched(f)' = Fetched(f) /\ objects' = objects /\ manifest' = manifest
        /\ month' = month
    BY <1>3 DEF Fetched, tableVars
  <2>2. CASE f = File
    <3>1. archived'[f] = objects[f]
      BY <1>3, <2>2 DEF TypeOK, CarriedInv
    <3>2. NoNewer(manifest[f], objects[f]) /\ NoNewer(objects[f], objects[f])
      BY NoNewerOrder DEF CustodyOrdered, TypeOK
    <3> QED BY <2>1, <3>1, <3>2 DEF CustodyOrdered
  <2>3. CASE f # File
    <3>1. archived'[f] = archived[f]
      BY <1>3, <2>3 DEF TypeOK
    <3> QED BY <2>1, <3>1 DEF CustodyOrdered
  <2> QED BY <2>2, <2>3
<1>4. ASSUME pc = "manifest", UNCHANGED <<tableVars, objects, archived>>, manifest' = listed
      PROVE  CustodyOrdered'
  BY <1>4 DEF CustodyOrdered, CarriedInv, Fetched, tableVars
<1>5. CASE StartCycle \/ EndPair \/ SkipMonth \/ Fetch \/ ListArchivalCursors \/ Crash
  BY <1>1, <1>5 DEF StartCycle, EndPair, SkipMonth, Fetch, ListArchivalCursors, Crash
<1>6. CASE Upload \/ Record
  BY <1>2, <1>3, <1>6 DEF Upload, Record, UpsertArchivalCursor
<1>7. CASE AbandonPair
  <2>1. UNCHANGED <<tableVars, manifest>>
    BY <1>7 DEF AbandonPair
  <2>2. CASE UNCHANGED <<objects, archived>>
    BY <2>1, <2>2 DEF CustodyOrdered, Fetched, tableVars
  <2>3. CASE pc = "upload" /\ ~UNCHANGED <<objects, archived>>
    BY <1>2, <1>7, <2>1, <2>3 DEF AbandonPair
  <2>4. CASE pc = "record" /\ ~UNCHANGED <<objects, archived>>
    BY <1>3, <1>7, <2>1, <2>4 DEF AbandonPair, UpsertArchivalCursor
  <2> QED BY <1>7, <2>2, <2>3, <2>4 DEF AbandonPair
<1>8. CASE UploadManifest \/ ManifestFails
  BY <1>1, <1>4, <1>8 DEF UploadManifest, ManifestFails, fileVars
<1>9. CASE WriteMessage
  <2> SUFFICES ASSUME NEW f \in Files
               PROVE  NoNewer(objects[f], Fetched(f)')
    BY <1>9 DEF WriteMessage, CustodyOrdered, fileVars
  <2>1. NoNewer(objects[f], Fetched(f)) /\ NoNewer(Fetched(f), Fetched(f)')
    BY <1>9, QueriesGrow DEF CustodyOrdered, TypeOK
  <2>2. /\ objects[f] \in Contents /\ Fetched(f) \in Contents
        /\ Fetched(f)' \in Contents
    <3>1. version' \in Contents
      BY <1>0 DEF TypeOK
    <3>2. \A m \in Messages : (IF PairOf[m] = f[1] /\ MonthOf[m] = f[2]
                                THEN version'[m] ELSE 0) \in 0..MaxVersion
      BY <3>1 DEF Contents
    <3>3. Fetched(f)' \in Contents
      BY <3>2 DEF Fetched, Contents
    <3> QED BY <3>3, ContentsOf DEF TypeOK
  <2> QED BY <2>1, <2>2, NoNewerOrder
<1>10. CASE MonthEnds
  <2>1. \A f \in Files : f[2] \in Nat /\ Fetched(f)' = Fetched(f)
    BY <1>10 DEF MonthEnds, Files, Fetched
  <2> QED BY <1>10, <2>1 DEF MonthEnds, CustodyOrdered, fileVars, TypeOK
<1>11. CASE UNCHANGED vars
  BY <1>1, <1>11 DEF vars
<1> QED
  BY <1>5, <1>6, <1>7, <1>8, <1>9, <1>10, <1>11 DEF Next, RunCycle

(***************************************************************************)
(* What is carried                                                         *)
(***************************************************************************)

LEMMA CarriedStep ==
  TypeOK /\ BoundsInv /\ CustodyOrdered /\ CarriedInv /\ [Next]_vars => CarriedInv'
<1> USE ArchiverAssumption
<1> SUFFICES ASSUME TypeOK, BoundsInv, CustodyOrdered, CarriedInv, [Next]_vars
             PROVE  CarriedInv'
  OBVIOUS
<1>0. TypeOK'
  BY TypeStep
<1>1. ASSUME pc' \in {"idle", "fetch", "list"} PROVE CarriedInv'
  BY <1>1 DEF CarriedInv
<1>2. CASE StartCycle \/ SkipMonth \/ Record \/ Crash
  BY <1>1, <1>2 DEF StartCycle, SkipMonth, Record, Crash
<1>3. CASE EndPair
  <2>1. (total \/ count) \in BOOLEAN
    BY DEF TypeOK
  <2> QED BY <1>1, <1>3, <2>1, NextPairType DEF EndPair
<1>4. CASE AbandonPair
  <2>1. total \in BOOLEAN
    BY DEF TypeOK
  <2> QED BY <1>1, <1>4, <2>1, NextPairType DEF AbandonPair
<1>5. CASE UploadManifest \/ ManifestFails
  BY <1>1, <1>5 DEF UploadManifest, ManifestFails, EndCycle
<1>6. CASE Fetch
  <2>1. File \in Files /\ Fetched(File) \in Contents
    BY <1>6, FileIsFile, ContentsOf DEF Fetch, TypeOK
  <2>2. /\ buf' = Fetched(File) /\ File' = File /\ objects' = objects
        /\ pc' = "upload" /\ Fetched(File)' = Fetched(File)
    BY <1>6 DEF Fetch, File, Fetched, tableVars, fileVars
  <2>3. NoNewer(objects[File], Fetched(File)) /\ NoNewer(Fetched(File), Fetched(File))
    BY <2>1, NoNewerOrder DEF CustodyOrdered
  <2>4. NoNewer(objects[File], buf)' /\ NoNewer(buf, Fetched(File))'
    BY <2>2, <2>3 DEF NoNewer
  <2> QED BY <2>2, <2>4 DEF CarriedInv
<1>7. CASE Upload
  <2>1. File \in Files
    BY <1>7, FileIsFile DEF Upload, BoundsInv
  <2>2. pc' = "record" /\ (objects[File] = buf)'
    BY <1>7, <2>1 DEF Upload, File, TypeOK
  <2> QED BY <2>2 DEF CarriedInv
<1>8. CASE ListArchivalCursors
  <2>1. \A f \in Files : NoNewer(manifest[f], archived[f]) /\ NoNewer(archived[f], archived[f])
    BY NoNewerOrder DEF CustodyOrdered, TypeOK
  <2>2. pc' = "manifest" /\ listed' = archived /\ archived' = archived /\ manifest' = manifest
    BY <1>8 DEF ListArchivalCursors, fileVars
  <2> QED BY <2>1, <2>2 DEF CarriedInv
<1>9. CASE WriteMessage
  <2>1. UNCHANGED <<fileVars, cycleVars>>
    BY <1>9 DEF WriteMessage
  <2>2. ASSUME pc = "upload" PROVE NoNewer(buf, Fetched(File)')
    <3>1. File \in Files
      BY <2>2, FileIsFile DEF BoundsInv
    <3>2. NoNewer(buf, Fetched(File))
      BY <2>2 DEF CarriedInv
    <3>3. File' = File
      BY <2>1 DEF File, cycleVars
    <3>4. \A m \in Messages : version[m] \in Nat /\ version'[m] \in Nat
                             /\ version[m] <= version'[m]
      BY <1>0, <1>9 DEF WriteMessage, TypeOK, Contents
    <3>5. \A m \in Messages : buf[m] \in Nat
      BY DEF TypeOK, Contents
    <3> QED BY <3>2, <3>3, <3>4, <3>5 DEF NoNewer, Fetched
  <2> QED BY <2>1, <2>2 DEF CarriedInv, NoNewer, File, fileVars, cycleVars
<1>10. CASE MonthEnds \/ UNCHANGED vars
  BY <1>10 DEF MonthEnds, vars, tableVars, fileVars, cycleVars, CarriedInv, File, Fetched
<1> QED
  BY <1>2, <1>3, <1>4, <1>5, <1>6, <1>7, <1>8, <1>9, <1>10 DEF Next, RunCycle

(***************************************************************************)
(* Theorems                                                                *)
(***************************************************************************)

LEMMA InvInit == Init => Inv
<1> SUFFICES ASSUME Init PROVE Inv
  OBVIOUS
<1>1. TypeOK
  BY TypeInit
<1>2. BoundsInv /\ CarriedInv
  BY DEF Init, BoundsInv, CarriedInv
<1>3. CustodyOrdered
  <2>1. Nothing \in Contents /\ \A f \in Files : Fetched(f) \in Contents
    BY <1>1, ContentsOf DEF TypeOK
  <2>2. \A f \in Files :
           /\ NoNewer(Fetched(f), Fetched(f)) /\ NoNewer(Nothing, Nothing)
           /\ NoNewer(Nothing, Fetched(f))
    BY <2>1, NoNewerOrder
  <2>3. \A f \in Files :
           /\ manifest[f] = archived[f] /\ objects[f] = archived[f]
           /\ (archived[f] = Fetched(f) /\ f[2] < month) \/ archived[f] = Nothing
    BY DEF Init
  <2> QED BY <2>2, <2>3 DEF CustodyOrdered
<1> QED BY <1>1, <1>2, <1>3 DEF Inv

LEMMA InvNext == Inv /\ [Next]_vars => Inv'
BY TypeStep, BoundsStep, CustodyStep, CarriedStep DEF Inv

LEMMA InvHolds == Spec => []Inv
BY InvInit, InvNext, PTL DEF Spec

\* Type correctness: the archiver stays among its pairs and months, and no cycle
\* starts or ends beyond the current one (archiver.go:76-121).
THEOREM ArchiverTypeCorrect == Spec => []TypeOK
<1>1. Inv => TypeOK
  BY DEF Inv
<1> QED BY <1>1, InvHolds, PTL

\* For any number of messages, pairs and months, and whatever call fails with or
\* without effect and wherever the process dies, the manifest lists only what is
\* recorded, a record describes only what was uploaded, and a file holds only
\* what the table holds or held (archiver.go:114-268).
THEOREM CustodyOrderedHolds == Spec => []CustodyOrdered
<1>1. Inv => CustodyOrdered
  BY DEF Inv
<1> QED BY <1>1, InvHolds, PTL
=============================================================================
