----------------------------- MODULE Historical -----------------------------
(***************************************************************************)
(* GetHistoricalMessagesHandler (internal/api/historical_handler.go) of    *)
(* the API server, beside the archiver: it reads the record of a file and  *)
(* then downloads the file, and serves it unless the record has a checksum *)
(* and it is not the file's.                                               *)
(***************************************************************************)
EXTENDS Archiver

VARIABLES
  reading,  \* a request has found its record and is downloading the file
  want,     \* the file of the last request, or none yet
  rec,      \* the record it read of the file
  summed,   \* whether that record has a checksum
  served    \* what the response held, if it was successful

readVars == <<reading, want, rec, summed, served>>
allVars  == <<vars, readVars>>

NoFile == <<0, 0>>

HistoricalTypeOK ==
  /\ TypeOK
  /\ reading \in BOOLEAN
  /\ want \in Files \cup {NoFile}
  /\ rec \in Contents
  /\ summed \in BOOLEAN
  /\ served \in Contents
  /\ reading => want \in Files /\ rec # Nothing

HistoricalInit ==
  /\ Init
  /\ reading = FALSE
  /\ want = NoFile
  /\ rec = Nothing
  /\ summed = FALSE
  /\ served = Nothing

\* Seeded fault: a request without a record is not turned away.
LookUpUnguarded(f) ==
  /\ ~reading
  /\ reading' = TRUE
  /\ want' = f
  /\ rec' = archived[f]
  /\ summed' = (f \notin bare)
  /\ served' = Nothing
  /\ UNCHANGED vars

\* ListArchivalCursors, from which the request's file is picked; without a
\* record the answer is 404.
LookUp(f) ==
  /\ ~reading
  /\ archived[f] # Nothing
  /\ reading' = TRUE
  /\ want' = f
  /\ rec' = archived[f]
  /\ summed' = (f \notin bare)
  /\ served' = Nothing
  /\ UNCHANGED vars

\* Seeded fault: the checksum is not verified.
ServeUnverified ==
  /\ reading
  /\ served' = objects[want]
  /\ reading' = FALSE
  /\ UNCHANGED <<vars, want, rec, summed>>

\* Download, and verification if the record has a checksum; on a mismatch the
\* answer is an error.
Serve ==
  /\ reading
  /\ served' = IF summed /\ objects[want] # rec THEN Nothing ELSE objects[want]
  /\ reading' = FALSE
  /\ UNCHANGED <<vars, want, rec, summed>>

DownloadFails ==
  /\ Fails
  /\ reading
  /\ reading' = FALSE
  /\ UNCHANGED <<vars, want, rec, summed, served>>

HistoricalNext ==
  \/ Next /\ UNCHANGED readVars
  \/ \E f \in Files : LookUp(f)
  \/ Serve
  \/ DownloadFails

HistoricalSpec == HistoricalInit /\ [][HistoricalNext]_allVars

HistoricalFairSpec == HistoricalSpec /\ CycleFairness

(***************************************************************************)
(* Properties                                                              *)
(***************************************************************************)

\* A response holds all that the record told of which the handler had read,
\* although the archiver may have replaced the file in between and a record of
\* before migration 000005 leaves nothing to verify; with a checksum it holds
\* just that, and never a file uploaded but not recorded, or recorded only
\* afterwards.  And what the record told the index goes on telling: no later
\* record of the file takes it back (historical_handler.go:49-99).
ServedIsRecorded ==
  served # Nothing =>
    /\ NoNewer(rec, served)
    /\ summed => served = rec
    /\ NoNewer(rec, archived[want])
=============================================================================
