----------------------------- MODULE Correlator -----------------------------
(***************************************************************************)
(* internal/correlator/correlator.go, called by the processors: each takes *)
(* the events of one protocol on one chain in order (processor.go:151-190) *)
(* and applies them to the message store all of them share.  Finding the   *)
(* message of a destination event and updating it are two calls.           *)
(***************************************************************************)
EXTENDS MessageStore, Sequences

CONSTANTS
  Workers,   \* processors; a backfill over the same blocks is one more
  Events,    \* Events[w]: what worker w reads, in order
  Faults     \* "event": a call fails and its event is skipped;
             \* "timestamp": the time of an event's block is not to be had

ASSUME CorrelatorAssumption ==
  /\ Chains \subseteq Nat \ {UnknownChain}
  /\ MaxTime \in Nat
  /\ MaxNonce \in Nat
  /\ Senders # {}
  /\ Events \in [Workers -> Seq(EventType)]
  /\ Faults \subseteq {"event", "timestamp"}

VARIABLES
  next,    \* index of the event each worker is at
  found    \* what FindByCorrelationKey returned for it: one id, or none yet

vars == <<rows, next, found>>

TypeOK ==
  /\ rows \in [MessageIds -> RowType]
  /\ next \in [Workers -> Nat \ {0}]
  /\ found \in [Workers -> SUBSET MessageIds]

Init ==
  /\ StoreInit
  /\ next = [w \in Workers |-> 1]
  /\ found = [w \in Workers |-> {}]

HasEvent(w) == next[w] <= Len(Events[w])
Event(w)    == Events[w][next[w]]

\* The events that are not skipped with an error: those of a source chain, which
\* bring a message, and those of a destination chain, which bring an outcome.
IsSend(e)     == ~IsCorrelation(e) /\ Normalizes(e)
IsDelivery(e) == IsCorrelation(e) /\ Normalizes(e)

\* The event as it reaches the correlator: with the time of its block, or 0.
Stamped(w) ==
  {[Event(w) EXCEPT !.time = t] :
     t \in {Event(w).time} \cup (IF "timestamp" \in Faults THEN {0} ELSE {})}

GoOn(w) ==
  /\ next' = [next EXCEPT ![w] = @ + 1]
  /\ found' = [found EXCEPT ![w] = {}]

\* Process, for a source event.
StoreMessage(w) ==
  /\ HasEvent(w) /\ IsSend(Event(w))
  /\ \E e \in Stamped(w) : UpsertMessage(SourceMessage(e))
  /\ GoOn(w)

\* correlate: the first of its two calls, where it finds a message ...
FindMessage(w) ==
  /\ HasEvent(w) /\ IsDelivery(Event(w))
  /\ found[w] = {}
  /\ \E id \in FindByCorrelationKey(CorrelationKey(Event(w))) :
       found' = [found EXCEPT ![w] = {id}]
  /\ UNCHANGED <<rows, next>>

\* ... and where it finds none: the event is dropped.
DropEvent(w) ==
  /\ HasEvent(w) /\ IsDelivery(Event(w))
  /\ found[w] = {}
  /\ FindByCorrelationKey(CorrelationKey(Event(w))) = {}
  /\ GoOn(w)
  /\ UNCHANGED rows

\* correlate: the second call.
SetDestination(w) ==
  /\ HasEvent(w)
  /\ \E id \in found[w] : \E e \in Stamped(w) :
       UpdateDestination(id, DestinationOf(e), FinalStatus(e))
  /\ GoOn(w)

\* An error of Process: the event is skipped.
SkipEvent(w) ==
  /\ HasEvent(w)
  /\ ~Normalizes(Event(w)) \/ "event" \in Faults
  /\ GoOn(w)
  /\ UNCHANGED rows

\* The worker starts over from an earlier event: its process was restarted
\* before the batch was committed, its batch was retried, or its cursor rewound.
Replay(w) ==
  /\ \E k \in 1..next[w] : next' = [next EXCEPT ![w] = k]
  /\ found' = [found EXCEPT ![w] = {}]
  /\ UNCHANGED rows

Next ==
  \E w \in Workers :
    \/ StoreMessage(w) \/ FindMessage(w) \/ DropEvent(w) \/ SetDestination(w)
    \/ SkipEvent(w) \/ Replay(w)

Spec == Init /\ [][Next]_vars

(***************************************************************************)
(* Properties                                                              *)
(***************************************************************************)

Outcome(e) == [status |-> FinalStatus(e), chain |-> e.chain]

\* The outcomes the destination chains report of a message.
Reported == [id \in MessageIds |->
  UNION {{Outcome(Events[w][i]) : i \in {j \in DOMAIN Events[w] :
                                           /\ IsDelivery(Events[w][j])
                                           /\ Events[w][j].id = id}} : w \in Workers}]

Stored    == {id \in MessageIds : rows[id].status # "absent"}
Concluded == [id \in MessageIds |->
                {[status |-> rows[id].status, chain |-> d.chain] : d \in rows[id].dest}]

Lifecycle == INSTANCE MessageLifecycle
               WITH Messages <- MessageIds, known <- Stored, outcome <- Concluded

\* Keys tell messages apart: a destination event fits no source event but its
\* own message's.  LayerZero's and Wormhole's composite keys need not.
UniqueKeys ==
  \A v, w \in Workers : \A i \in DOMAIN Events[v], j \in DOMAIN Events[w] :
    LET m   == SourceMessage(Events[v][i])
        key == CorrelationKey(Events[w][j]) IN
      /\ IsSend(Events[v][i]) /\ IsDelivery(Events[w][j])
      /\ m.protocol = key.protocol
      /\ IF key.byId THEN m.id = key.id
         ELSE m.nonce = key.nonce /\ m.source.sender = key.sender /\ m.source.chain = key.chain
      => m.id = Events[w][j].id

\* One worker reads the destination events of a message: it is delivered on one
\* chain, and no backfill runs over the blocks of a live processor.
OneReader ==
  \A v, w \in Workers : \A i \in DOMAIN Events[v], j \in DOMAIN Events[w] :
    /\ IsDelivery(Events[v][i]) /\ IsDelivery(Events[w][j])
    /\ Events[v][i].id = Events[w][j].id
    => v = w

\* An id is that of one message: the source events that carry it are of one
\* protocol, and say the same of its tokens.
OneMessagePerId ==
  \A v, w \in Workers : \A i \in DOMAIN Events[v], j \in DOMAIN Events[w] :
    LET d == Events[v][i]
        e == Events[w][j] IN
      IsSend(d) /\ IsSend(e) /\ d.id = e.id =>
        ProtocolOf(d.kind) = ProtocolOf(e.kind) /\ (d.tokens > 0 <=> e.tokens > 0)

\* The first event of a log about a message, whose columns the row gets.
Opens(v, i) ==
  /\ IsSend(Events[v][i])
  /\ \A j \in 1..i - 1 : IsSend(Events[v][j]) => Events[v][j].id # Events[v][i].id

\* The key of a destination event fits what is stored of its message.  That of a
\* Wormhole redemption need not.
KeysFit ==
  \A v, w \in Workers : \A i \in DOMAIN Events[v], j \in DOMAIN Events[w] :
    LET m   == SourceMessage(Events[v][i])
        key == CorrelationKey(Events[w][j]) IN
      Opens(v, i) /\ IsDelivery(Events[w][j]) /\ m.id = Events[w][j].id =>
        /\ m.protocol = key.protocol
        /\ ~key.byId => m.nonce = key.nonce /\ m.source.sender = key.sender
                         /\ m.source.chain = key.chain

\* With unique keys and one reader, whatever is replayed and however the workers
\* interleave, a message gets one outcome and keeps it, and the outcome is one
\* that its own destination events report: a second destination event, a
\* replayed source event and the gap between FindByCorrelationKey and
\* UpdateDestination (correlator.go:53-76) do not change it.
ImplementsLifecycle == Lifecycle!Spec

\* No message is marked by the destination event of another.
DeliveredOnlyOwn ==
  \A id \in MessageIds : Concluded[id] \subseteq Reported[id]

\* What the source events before a worker's position say is in the table, also
\* after replays and after other source events of the same message: the row, the
\* type if it is more telling than "message", and every payload column.
EventsReflected ==
  \A w \in Workers : \A i \in 1..next[w] - 1 :
    LET e == Events[w][i] IN
      IsSend(e) =>
        /\ e.id \in Stored
        /\ FilledColumns(e) \subseteq rows[e.id].payload
        /\ MessageType(e) # "message" => rows[e.id].type = MessageType(e)

\* latency_seconds agrees with the times that are stored beside it: it is their
\* difference once both are known, and 0, which traces and statistics leave out, as
\* long as the message has not arrived or one of them is unknown.
LatencyConsistent ==
  \A id \in MessageIds :
    /\ rows[id].dest = {} => rows[id].latency = 0
    /\ \A d \in rows[id].dest :
         rows[id].latency = IF d.time > 0 /\ rows[id].source.time > 0
                              THEN d.time - rows[id].source.time ELSE 0

\* A destination event whose message is stored and pending when the worker gets
\* past the event has marked it: the key finds the message it is about.
DeliveryRecorded ==
  [][\A w \in Workers :
       HasEvent(w) /\ next'[w] = next[w] + 1 /\ IsDelivery(Event(w))
         /\ rows[Event(w).id].status = "pending" =>
       rows'[Event(w).id].status # "pending"]_vars
=============================================================================
