---------------------------- MODULE MessageTable ----------------------------
(***************************************************************************)
(* The messages table as the query API reads it while the correlator       *)
(* writes it: the rows of MessageStore with created_at.  Normalize takes   *)
(* created_at from the clock; the row is committed by a later call.        *)
(***************************************************************************)
EXTENDS Correlator, FiniteSets

CONSTANT MaxClock  \* bound: the clock stops here

ASSUME ClockAssumption == MaxClock \in Nat

VARIABLES
  clock,    \* wall clock of both processes
  stamp,    \* the created_at of the message each worker has normalized
  created   \* messages.created_at

tableVars == <<vars, clock, stamp, created>>

NoTime == -1

TableTypeOK ==
  /\ TypeOK
  /\ clock \in 0..MaxClock
  /\ stamp \in [Workers -> 0..MaxClock \cup {NoTime}]
  /\ created \in [MessageIds -> 0..MaxClock]

TableInit ==
  /\ Init
  /\ clock = 0
  /\ stamp = [w \in Workers |-> NoTime]
  /\ created = [id \in MessageIds |-> 0]

\* Seeded fault: a replayed event renews created_at.
CreatedAnew(id, t) == t

\* ON CONFLICT leaves created_at alone.
CreatedAt(id, t) == IF rows[id].status = "absent" THEN t ELSE created[id]

Normalize(w) ==
  /\ HasEvent(w) /\ IsSend(Event(w)) /\ stamp[w] = NoTime
  /\ stamp' = [stamp EXCEPT ![w] = clock]
  /\ UNCHANGED <<vars, clock, created>>

Store(w) ==
  /\ stamp[w] # NoTime
  /\ StoreMessage(w)
  /\ created' = [created EXCEPT ![Event(w).id] = CreatedAt(Event(w).id, stamp[w])]
  /\ stamp' = [stamp EXCEPT ![w] = NoTime]
  /\ UNCHANGED clock

\* The other steps of the correlator; what was normalized is dropped with the
\* event.
Correlate(w) ==
  /\ \/ FindMessage(w) \/ DropEvent(w) \/ SetDestination(w)
     \/ SkipEvent(w) \/ Replay(w)
  /\ stamp' = [stamp EXCEPT ![w] = NoTime]
  /\ UNCHANGED <<clock, created>>

Tick ==
  /\ clock < MaxClock
  /\ clock' = clock + 1
  /\ UNCHANGED <<vars, stamp, created>>

TableNext == Tick \/ \E w \in Workers : Normalize(w) \/ Store(w) \/ Correlate(w)

\* An optional parameter is the empty set or a singleton; one that is not given
\* restricts nothing.
Fits(param, value) == param = {} \/ value \in param

\* from_ts and to_ts bound the source event's time.
InWindow(f, id) ==
  /\ \A t \in f.from : rows[id].source.time >= t
  /\ \A t \in f.to   : rows[id].source.time <= t
=============================================================================
