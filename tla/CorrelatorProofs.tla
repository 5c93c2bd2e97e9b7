-------------------------- MODULE CorrelatorProofs --------------------------
(***************************************************************************)
(* Theorems about Correlator, for any number of workers and messages and   *)
(* any event logs.                                                         *)
(***************************************************************************)
EXTENDS Correlator, TLAPS

(***************************************************************************)
(* What the normalizer and the store compute                               *)
(***************************************************************************)

MessageRecord ==
  [id : MessageIds, protocol : Protocols, type : Types,
   source : [chain : Chains \cup {UnknownChain}, time : 0..MaxTime, sender : Senders],
   nonce : 0..MaxNonce, payload : SUBSET Columns]

\* A source event gives a well-formed message.
LEMMA SourceMessageType ==
  ASSUME NEW e \in EventType, ~IsCorrelation(e)
  PROVE  SourceMessage(e) \in MessageRecord
<1>1. e.kind \in SourceKinds /\ e.id \in MessageIds /\ e.chain \in Chains
      /\ e.time \in 0..MaxTime /\ e.nonce \in 0..MaxNonce /\ e.sender \in Senders
      /\ e.src \in Chains \cup {UnknownChain}
  BY DEF EventType, IsCorrelation
<1>2. ProtocolOf(e.kind) \in Protocols
  BY <1>1 DEF ProtocolOf, Protocols, SourceKinds
<1>3. MessageType(e) \in Types
  BY <1>1 DEF MessageType, Types, SourceKinds
<1>4. FilledColumns(e) \in SUBSET Columns
  <2>1. CASE e.kind \in {"PacketSent", "LogMessagePublished", "ContractCall"}
    BY <2>1 DEF FilledColumns, Columns
  <2>2. CASE e.kind = "OFTSent"
    BY <2>2 DEF FilledColumns, Columns
  <2>3. CASE e.kind = "ContractCallApproved"
    BY <2>3 DEF FilledColumns, Columns
  <2>4. CASE e.kind = "CCIPSendRequested"
    BY <2>4 DEF FilledColumns, Columns
  <2>5. QED
    BY <1>1, <2>1, <2>2, <2>3, <2>4 DEF SourceKinds
<1>5. StoredNonce(e) \in 0..MaxNonce
  BY <1>1, CorrelatorAssumption DEF StoredNonce
<1>6. QED
  BY <1>1, <1>2, <1>3, <1>4, <1>5 DEF SourceMessage, MessageRecord

\* A row that is inserted or merged is well formed.
LEMMA UpsertType ==
  ASSUME NEW m \in MessageRecord, NEW row \in RowType
  PROVE  NewRow(m) \in RowType /\ Merged(row, m) \in RowType
<1>1. NewRow(m) \in RowType
  BY DEF NewRow, MessageRecord, RowType
<1>2. Merged(row, m) \in RowType
  BY DEF Merged, MessageRecord, RowType
<1>3. QED
  BY <1>1, <1>2

\* NoRow is well formed: there is a sender to fill it with.
LEMMA NoRowType == NoRow \in RowType
<1>1. (CHOOSE s \in Senders : TRUE) \in Senders
  BY CorrelatorAssumption
<1>2. QED
  BY <1>1, CorrelatorAssumption
     DEF NoRow, RowType, Protocols, Types, UnknownChain, Columns

\* The event a worker is at is one of its log.
LEMMA EventFacts ==
  ASSUME TypeOK, NEW w \in Workers, HasEvent(w)
  PROVE  next[w] \in DOMAIN Events[w] /\ Event(w) \in EventType
<1>1. Events[w] \in Seq(EventType) /\ next[w] \in Nat \ {0}
  BY CorrelatorAssumption DEF TypeOK
<1>2. QED
  BY <1>1 DEF HasEvent, Event

\* Stamping an event changes its time only.
LEMMA StampedFacts ==
  ASSUME NEW w \in Workers, Event(w) \in EventType, NEW e \in Stamped(w)
  PROVE  /\ e \in EventType
         /\ e.kind = Event(w).kind /\ e.id = Event(w).id
         /\ e.chain = Event(w).chain /\ e.nonce = Event(w).nonce
         /\ e.sender = Event(w).sender /\ e.src = Event(w).src
         /\ e.tokens = Event(w).tokens /\ e.state = Event(w).state
<1>1. PICK t \in {Event(w).time, 0} : e = [Event(w) EXCEPT !.time = t]
  BY DEF Stamped
<1>2. t \in 0..MaxTime
  BY CorrelatorAssumption DEF EventType
<1>3. QED
  BY <1>1, <1>2 DEF EventType

(***************************************************************************)
(* Types                                                                   *)
(***************************************************************************)

\* The table stays well formed when a message is stored.
LEMMA UpsertKeepsType ==
  ASSUME TypeOK, NEW m \in MessageRecord, UpsertMessage(m)
  PROVE  rows' \in [MessageIds -> RowType]
<1>1. m.id \in MessageIds
  BY DEF MessageRecord
<1>2. rows[m.id] \in RowType
  BY <1>1 DEF TypeOK
<1>3. NewRow(m) \in RowType /\ Merged(rows[m.id], m) \in RowType
  BY <1>2, UpsertType
<1>4. QED
  BY <1>1, <1>3 DEF UpsertMessage, TypeOK

\* The table stays well formed when a message is concluded.
LEMMA UpdateKeepsType ==
  ASSUME TypeOK, NEW id \in MessageIds, NEW e \in EventType,
         UpdateDestination(id, DestinationOf(e), FinalStatus(e))
  PROVE  rows' \in [MessageIds -> RowType]
<1> DEFINE d == DestinationOf(e)
<1>1. d \in [chain : Chains, time : 0..MaxTime]
  BY DEF DestinationOf, EventType
<1>2. FinalStatus(e) \in {"executed", "failed"}
  BY DEF FinalStatus
<1>3. rows[id] \in RowType
  BY DEF TypeOK
<1>4. Latency(rows[id], d) \in Int
  <2>1. d.time \in Int /\ rows[id].source.time \in Int /\ rows[id].latency \in Int
    BY <1>1, <1>3, CorrelatorAssumption DEF RowType
  <2>2. QED
    BY <2>1 DEF Latency
<1>5. [rows[id] EXCEPT !.dest = {d}, !.status = FinalStatus(e),
                       !.latency = Latency(rows[id], d)] \in RowType
  BY <1>1, <1>2, <1>3, <1>4 DEF RowType
<1>6. QED
  BY <1>5 DEF UpdateDestination, TypeOK

\* The empty table and the initial positions are well formed.
LEMMA TypeInit == Init => TypeOK
<1> SUFFICES ASSUME Init PROVE TypeOK
  OBVIOUS
<1>1. rows \in [MessageIds -> RowType]
  BY NoRowType DEF Init, StoreInit
<1>2. next \in [Workers -> Nat \ {0}] /\ found \in [Workers -> SUBSET MessageIds]
  BY DEF Init
<1>3. QED
  BY <1>1, <1>2 DEF TypeOK

\* Every action keeps the table, the positions and what was found well formed.
LEMMA TypeNext == TypeOK /\ [Next]_vars => TypeOK'
<1> SUFFICES ASSUME TypeOK, [Next]_vars PROVE TypeOK'
  OBVIOUS
<1>1. ASSUME NEW w \in Workers, StoreMessage(w) PROVE TypeOK'
  <2>1. PICK e \in Stamped(w) : UpsertMessage(SourceMessage(e))
    BY <1>1 DEF StoreMessage
  <2>2. e \in EventType /\ ~IsCorrelation(e)
    BY <1>1, EventFacts, StampedFacts DEF StoreMessage, IsSend, IsCorrelation
  <2>3. rows' \in [MessageIds -> RowType]
    BY <2>1, <2>2, SourceMessageType, UpsertKeepsType
  <2>4. QED
    BY <1>1, <2>3 DEF StoreMessage, GoOn, TypeOK
<1>2. ASSUME NEW w \in Workers, FindMessage(w) PROVE TypeOK'
  BY <1>2 DEF FindMessage, FindByCorrelationKey, TypeOK
<1>3. ASSUME NEW w \in Workers, DropEvent(w) PROVE TypeOK'
  BY <1>3 DEF DropEvent, GoOn, TypeOK
<1>4. ASSUME NEW w \in Workers, SetDestination(w) PROVE TypeOK'
  <2>1. PICK id \in found[w] : \E e \in Stamped(w) :
          UpdateDestination(id, DestinationOf(e), FinalStatus(e))
    BY <1>4 DEF SetDestination
  <2>2. PICK e \in Stamped(w) : UpdateDestination(id, DestinationOf(e), FinalStatus(e))
    BY <2>1
  <2>3. id \in MessageIds /\ e \in EventType
    BY <1>4, <2>1, EventFacts, StampedFacts DEF SetDestination, TypeOK
  <2>4. rows' \in [MessageIds -> RowType]
    BY <2>2, <2>3, UpdateKeepsType
  <2>5. QED
    BY <1>4, <2>4 DEF SetDestination, GoOn, TypeOK
<1>5. ASSUME NEW w \in Workers, SkipEvent(w) PROVE TypeOK'
  BY <1>5 DEF SkipEvent, GoOn, TypeOK
<1>6. ASSUME NEW w \in Workers, Replay(w) PROVE TypeOK'
  BY <1>6 DEF Replay, TypeOK
<1>7. CASE UNCHANGED vars
  BY <1>7 DEF vars, TypeOK
<1>8. QED
  BY <1>1, <1>2, <1>3, <1>4, <1>5, <1>6, <1>7 DEF Next

\* The table, the positions and what was found are always well formed.
THEOREM CorrelatorTypeCorrect == Spec => []TypeOK
<1>1. Init => TypeOK
  BY TypeInit
<1>2. TypeOK /\ [Next]_vars => TypeOK'
  BY TypeNext
<1>3. QED
  BY <1>1, <1>2, PTL DEF Spec

(***************************************************************************)
(* The inductive invariant                                                 *)
(***************************************************************************)

\* The key columns of a row are those of one source event of its message.
RowFromEvent(id) ==
  \E v \in Workers : \E i \in DOMAIN Events[v] :
    LET m == SourceMessage(Events[v][i]) IN
      /\ IsSend(Events[v][i]) /\ m.id = id
      /\ rows[id].protocol = m.protocol
      /\ rows[id].nonce = m.nonce
      /\ rows[id].source.sender = m.source.sender
      /\ rows[id].source.chain = m.source.chain

\* Only a message with an outcome has a destination or a latency.
RowInv(id) ==
  /\ rows[id].status # "absent" => RowFromEvent(id)
  /\ rows[id].status \in {"absent", "pending"} =>
       rows[id].dest = {} /\ rows[id].latency = 0

\* Between its two calls a worker holds its own event's message, still pending:
\* nobody else can have concluded it meanwhile.
FoundInv(w) ==
  found[w] # {} =>
    /\ HasEvent(w) /\ IsDelivery(Event(w))
    /\ found[w] = {Event(w).id}
    /\ rows[Event(w).id].status = "pending"

RowsInv == \A id \in MessageIds : RowInv(id)

CorrelatorInv ==
  /\ TypeOK
  /\ RowsInv
  /\ \A w \in Workers : FoundInv(w)

(***************************************************************************)
(* Steps                                                                   *)
(***************************************************************************)

\* An upsert inserts the message, or changes no more of its row than type and
\* payload; every other row stays.
LEMMA UpsertFacts ==
  ASSUME TypeOK, NEW m \in MessageRecord, UpsertMessage(m)
  PROVE  /\ \A id \in MessageIds \ {m.id} : rows'[id] = rows[id]
         /\ rows[m.id].status = "absent" => rows'[m.id] = NewRow(m)
         /\ rows[m.id].status # "absent" =>
              /\ rows'[m.id] = Merged(rows[m.id], m)
              /\ rows'[m.id].protocol = rows[m.id].protocol
              /\ rows'[m.id].status = rows[m.id].status
              /\ rows'[m.id].source = rows[m.id].source
              /\ rows'[m.id].nonce = rows[m.id].nonce
              /\ rows'[m.id].dest = rows[m.id].dest
              /\ rows'[m.id].latency = rows[m.id].latency
<1>1. m.id \in MessageIds
  BY DEF MessageRecord
<1>2. rows[m.id] \in RowType
  BY <1>1 DEF TypeOK
<1>3. /\ \A id \in MessageIds \ {m.id} : rows'[id] = rows[id]
      /\ rows'[m.id] = IF rows[m.id].status = "absent" THEN NewRow(m)
                                                       ELSE Merged(rows[m.id], m)
  BY <1>1 DEF UpsertMessage, TypeOK
<1>4. /\ Merged(rows[m.id], m).protocol = rows[m.id].protocol
      /\ Merged(rows[m.id], m).status = rows[m.id].status
      /\ Merged(rows[m.id], m).source = rows[m.id].source
      /\ Merged(rows[m.id], m).nonce = rows[m.id].nonce
      /\ Merged(rows[m.id], m).dest = rows[m.id].dest
      /\ Merged(rows[m.id], m).latency = rows[m.id].latency
  BY <1>2 DEF Merged, RowType
<1>5. QED
  BY <1>3, <1>4

\* What a source event's step does: it upserts a message that differs from the
\* event's own in its time at most.
LEMMA StoreFacts ==
  ASSUME TypeOK, NEW w \in Workers, StoreMessage(w)
  PROVE  \E m \in MessageRecord :
           LET own == SourceMessage(Event(w)) IN
             /\ UpsertMessage(m) /\ HasEvent(w) /\ IsSend(Event(w))
             /\ m.id = Event(w).id /\ own.id = Event(w).id
             /\ m.protocol = own.protocol /\ m.nonce = own.nonce
             /\ m.source.sender = own.source.sender
             /\ m.source.chain = own.source.chain
             /\ m.type = MessageType(Event(w)) /\ m.payload = FilledColumns(Event(w))
<1>1. PICK e \in Stamped(w) : UpsertMessage(SourceMessage(e))
  BY DEF StoreMessage
<1>2. HasEvent(w) /\ IsSend(Event(w)) /\ Event(w) \in EventType
  BY EventFacts DEF StoreMessage
<1>3. /\ e \in EventType /\ ~IsCorrelation(e)
      /\ e.kind = Event(w).kind /\ e.id = Event(w).id
      /\ e.chain = Event(w).chain /\ e.nonce = Event(w).nonce
      /\ e.sender = Event(w).sender /\ e.src = Event(w).src
      /\ e.tokens = Event(w).tokens
  BY <1>2, StampedFacts DEF IsSend, IsCorrelation
<1>4. SourceMessage(e) \in MessageRecord
  BY <1>3, SourceMessageType
<1>5. MessageType(e) = MessageType(Event(w)) /\ FilledColumns(e) = FilledColumns(Event(w))
      /\ StoredNonce(e) = StoredNonce(Event(w))
  BY <1>3 DEF MessageType, FilledColumns, StoredNonce
<1>6. QED
  BY <1>1, <1>2, <1>3, <1>4, <1>5 DEF SourceMessage

\* What the second call does: it concludes the message the worker holds, which
\* is pending and its event's own.
LEMMA SetDestinationFacts ==
  ASSUME TypeOK, NEW w \in Workers, FoundInv(w), SetDestination(w)
  PROVE  LET id == Event(w).id IN
           /\ HasEvent(w) /\ IsDelivery(Event(w)) /\ id \in MessageIds
           /\ rows[id].status = "pending"
           /\ \A other \in MessageIds \ {id} : rows'[other] = rows[other]
           /\ \E d \in [chain : Chains, time : 0..MaxTime] :
                /\ d.chain = Event(w).chain
                /\ rows'[id] = [rows[id] EXCEPT !.dest = {d},
                                               !.status = FinalStatus(Event(w)),
                                               !.latency = Latency(rows[id], d)]
<1>1. HasEvent(w) /\ Event(w) \in EventType
  BY EventFacts DEF SetDestination
<1>2. PICK id \in found[w] : \E e \in Stamped(w) :
        UpdateDestination(id, DestinationOf(e), FinalStatus(e))
  BY DEF SetDestination
<1>3. PICK e \in Stamped(w) : UpdateDestination(id, DestinationOf(e), FinalStatus(e))
  BY <1>2
<1>4. /\ id = Event(w).id /\ IsDelivery(Event(w))
      /\ rows[id].status = "pending"
  BY <1>2 DEF FoundInv
<1>5. id \in MessageIds
  BY <1>1, <1>4 DEF EventType
<1>6. e \in EventType /\ e.chain = Event(w).chain /\ FinalStatus(e) = FinalStatus(Event(w))
  BY <1>1, StampedFacts DEF FinalStatus
<1>7. DestinationOf(e) \in [chain : Chains, time : 0..MaxTime]
      /\ DestinationOf(e).chain = Event(w).chain
  BY <1>6 DEF DestinationOf, EventType
<1>8. /\ \A other \in MessageIds \ {id} : rows'[other] = rows[other]
      /\ rows'[id] = [rows[id] EXCEPT !.dest = {DestinationOf(e)},
                                     !.status = FinalStatus(Event(w)),
                                     !.latency = Latency(rows[id], DestinationOf(e))]
  BY <1>3, <1>5, <1>6 DEF UpdateDestination, TypeOK
<1>9. QED
  BY <1>1, <1>4, <1>5, <1>7, <1>8

\* A key finds only its own event's message.
LEMMA FoundIsOwn ==
  ASSUME UniqueKeys, TypeOK, RowsInv, NEW w \in Workers,
         HasEvent(w), IsDelivery(Event(w)),
         NEW id \in FindByCorrelationKey(CorrelationKey(Event(w)))
  PROVE  id = Event(w).id /\ rows[id].status = "pending"
<1> DEFINE key == CorrelationKey(Event(w))
<1>1. /\ id \in MessageIds /\ rows[id].status = "pending"
      /\ rows[id].protocol = key.protocol
      /\ IF key.byId THEN id = key.id
         ELSE /\ rows[id].nonce = key.nonce
              /\ rows[id].source.sender = key.sender
              /\ rows[id].source.chain = key.chain
  BY DEF FindByCorrelationKey
<1>2. RowFromEvent(id)
  BY <1>1 DEF RowsInv, RowInv
<1>3. PICK v \in Workers : \E i \in DOMAIN Events[v] :
        LET m == SourceMessage(Events[v][i]) IN
          /\ IsSend(Events[v][i]) /\ m.id = id
          /\ rows[id].protocol = m.protocol
          /\ rows[id].nonce = m.nonce
          /\ rows[id].source.sender = m.source.sender
          /\ rows[id].source.chain = m.source.chain
  BY <1>2 DEF RowFromEvent
<1>4. PICK i \in DOMAIN Events[v] :
        LET m == SourceMessage(Events[v][i]) IN
          /\ IsSend(Events[v][i]) /\ m.id = id
          /\ rows[id].protocol = m.protocol
          /\ rows[id].nonce = m.nonce
          /\ rows[id].source.sender = m.source.sender
          /\ rows[id].source.chain = m.source.chain
  BY <1>3
<1>5. next[w] \in DOMAIN Events[w] /\ Event(w) = Events[w][next[w]]
  BY EventFacts DEF Event
<1> DEFINE m == SourceMessage(Events[v][i])
<1>6. /\ IsSend(Events[v][i]) /\ IsDelivery(Events[w][next[w]])
      /\ m.protocol = key.protocol
      /\ IF key.byId THEN m.id = key.id
         ELSE m.nonce = key.nonce /\ m.source.sender = key.sender
              /\ m.source.chain = key.chain
  BY <1>1, <1>4, <1>5
<1> HIDE DEF m, key
<1>7. m.id = Event(w).id
  BY <1>5, <1>6 DEF UniqueKeys, m, key
<1>8. QED
  BY <1>1, <1>4, <1>7 DEF m

\* The invariant holds of the empty table.
LEMMA InvInit == Init => CorrelatorInv
<1> SUFFICES ASSUME Init PROVE CorrelatorInv
  OBVIOUS
<1>1. TypeOK
  BY TypeInit
<1>2. RowsInv
  BY DEF Init, StoreInit, NoRow, RowsInv, RowInv
<1>3. \A w \in Workers : FoundInv(w)
  BY DEF Init, FoundInv
<1>4. QED
  BY <1>1, <1>2, <1>3 DEF CorrelatorInv

\* A step that leaves the table alone, and holds nothing new.
LEMMA FoundCleared ==
  ASSUME CorrelatorInv, rows' = rows, NEW w \in Workers,
         \A v \in Workers \ {w} : next'[v] = next[v] /\ found'[v] = found[v],
         found'[w] = {}
  PROVE  RowsInv' /\ \A v \in Workers : FoundInv(v)'
<1>1. RowsInv'
  BY DEF CorrelatorInv, RowsInv, RowInv, RowFromEvent
<1>2. \A v \in Workers : FoundInv(v)'
  BY DEF CorrelatorInv, FoundInv, HasEvent, Event
<1>3. QED
  BY <1>1, <1>2

\* A source event's step keeps every row's key, and no pending message is lost.
LEMMA StoreKeepsInv ==
  ASSUME CorrelatorInv, NEW w \in Workers, StoreMessage(w)
  PROVE  RowsInv' /\ \A v \in Workers : FoundInv(v)'
<1>1. TypeOK /\ RowsInv /\ \A v \in Workers : FoundInv(v)
  BY DEF CorrelatorInv
<1>2. PICK m \in MessageRecord :
        LET own == SourceMessage(Event(w)) IN
          /\ UpsertMessage(m) /\ HasEvent(w) /\ IsSend(Event(w))
          /\ m.id = Event(w).id /\ own.id = Event(w).id
          /\ m.protocol = own.protocol /\ m.nonce = own.nonce
          /\ m.source.sender = own.source.sender
          /\ m.source.chain = own.source.chain
          /\ m.type = MessageType(Event(w)) /\ m.payload = FilledColumns(Event(w))
  BY <1>1, StoreFacts
<1>3. m.id \in MessageIds
  BY DEF MessageRecord
<1>4. \A id \in MessageIds \ {m.id} : rows'[id] = rows[id]
  BY <1>1, <1>2, UpsertFacts
<1>5. ASSUME NEW id \in MessageIds PROVE RowInv(id)'
  <2>1. RowInv(id)
    BY <1>1 DEF RowsInv
  <2>2. CASE id # m.id
    BY <2>1, <2>2, <1>4 DEF RowInv, RowFromEvent
  <2>3. CASE id = m.id /\ rows[id].status # "absent"
    <3>1. /\ rows'[id].protocol = rows[id].protocol
          /\ rows'[id].status = rows[id].status
          /\ rows'[id].source = rows[id].source
          /\ rows'[id].nonce = rows[id].nonce
          /\ rows'[id].dest = rows[id].dest
          /\ rows'[id].latency = rows[id].latency
      BY <2>3, <1>1, <1>2, UpsertFacts
    <3>2. QED
      BY <3>1, <2>1 DEF RowInv, RowFromEvent
  <2>4. CASE id = m.id /\ rows[id].status = "absent"
    <3>1. rows'[id] = NewRow(m)
      BY <2>4, <1>1, <1>2, UpsertFacts
    <3>2. /\ rows'[id].dest = {} /\ rows'[id].latency = 0
          /\ rows'[id].protocol = m.protocol /\ rows'[id].nonce = m.nonce
          /\ rows'[id].source = m.source
      BY <3>1 DEF NewRow
    <3>3. next[w] \in DOMAIN Events[w]
      BY <1>1, <1>2, EventFacts
    <3>4. RowFromEvent(id)'
      BY <3>2, <3>3, <1>2, <2>4 DEF RowFromEvent, Event
    <3>5. QED
      BY <3>2, <3>4 DEF RowInv
  <2>5. QED
    BY <2>2, <2>3, <2>4
<1>6. ASSUME NEW v \in Workers PROVE FoundInv(v)'
  <2>1. CASE v = w
    BY <2>1, <1>1 DEF StoreMessage, GoOn, FoundInv, TypeOK
  <2>2. CASE v # w
    <3>1. next'[v] = next[v] /\ found'[v] = found[v]
      BY <2>2, <1>1 DEF StoreMessage, GoOn, TypeOK
    <3>2. ASSUME found[v] # {} PROVE rows'[Event(v).id].status = "pending"
      <4>1. rows[Event(v).id].status = "pending" /\ Event(v).id \in MessageIds
        BY <3>2, <1>1 DEF FoundInv, TypeOK
      <4>2. QED
        BY <4>1, <1>1, <1>2, <1>4, UpsertFacts
    <3>3. QED
      BY <3>1, <3>2, <1>1 DEF FoundInv, HasEvent, Event
  <2>3. QED
    BY <2>1, <2>2
<1>7. QED
  BY <1>5, <1>6 DEF RowsInv

\* A message is concluded by the one worker that may, so nobody else holds it.
LEMMA SetDestinationKeepsInv ==
  ASSUME OneReader, CorrelatorInv, NEW w \in Workers, SetDestination(w)
  PROVE  RowsInv' /\ \A v \in Workers : FoundInv(v)'
<1>1. TypeOK /\ RowsInv /\ \A v \in Workers : FoundInv(v)
  BY DEF CorrelatorInv
<1> DEFINE id == Event(w).id
<1>2. /\ HasEvent(w) /\ IsDelivery(Event(w)) /\ id \in MessageIds
      /\ rows[id].status = "pending"
      /\ \A other \in MessageIds \ {id} : rows'[other] = rows[other]
      /\ \E d \in [chain : Chains, time : 0..MaxTime] :
           /\ d.chain = Event(w).chain
           /\ rows'[id] = [rows[id] EXCEPT !.dest = {d},
                                          !.status = FinalStatus(Event(w)),
                                          !.latency = Latency(rows[id], d)]
  BY <1>1, SetDestinationFacts
<1>3. rows[id] \in RowType
  BY <1>1, <1>2 DEF TypeOK
<1>4. FinalStatus(Event(w)) \in {"executed", "failed"}
  BY DEF FinalStatus
<1>5. /\ rows'[id].status \in {"executed", "failed"}
      /\ rows'[id].protocol = rows[id].protocol
      /\ rows'[id].nonce = rows[id].nonce
      /\ rows'[id].source = rows[id].source
  BY <1>2, <1>3, <1>4 DEF RowType
<1> HIDE DEF id
<1>6. ASSUME NEW x \in MessageIds PROVE RowInv(x)'
  <2>1. CASE x # id
    BY <2>1, <1>1, <1>2 DEF RowsInv, RowInv, RowFromEvent
  <2>2. CASE x = id
    BY <2>2, <1>1, <1>2, <1>5 DEF RowsInv, RowInv, RowFromEvent
  <2>3. QED
    BY <2>1, <2>2
<1>7. ASSUME NEW v \in Workers PROVE FoundInv(v)'
  <2>1. CASE v = w
    BY <2>1, <1>1 DEF SetDestination, GoOn, FoundInv, TypeOK
  <2>2. CASE v # w
    <3>1. next'[v] = next[v] /\ found'[v] = found[v]
      BY <2>2, <1>1 DEF SetDestination, GoOn, TypeOK
    <3>2. ASSUME found[v] # {} PROVE rows'[Event(v).id].status = "pending"
      <4>1. /\ rows[Event(v).id].status = "pending" /\ Event(v).id \in MessageIds
            /\ HasEvent(v) /\ IsDelivery(Event(v))
        BY <3>2, <1>1 DEF FoundInv, TypeOK
      <4>2. /\ next[v] \in DOMAIN Events[v] /\ Event(v) = Events[v][next[v]]
            /\ next[w] \in DOMAIN Events[w] /\ Event(w) = Events[w][next[w]]
        BY <4>1, <1>1, <1>2, EventFacts DEF Event
      <4>3. Event(v).id # id
        BY <4>1, <4>2, <1>2, <2>2 DEF OneReader, id
      <4>4. QED
        BY <4>1, <4>3, <1>2
    <3>3. QED
      BY <3>1, <3>2, <1>1 DEF FoundInv, HasEvent, Event
  <2>3. QED
    BY <2>1, <2>2
<1>8. QED
  BY <1>6, <1>7 DEF RowsInv

\* Every action keeps the invariant, if keys are unique and have one reader.
LEMMA InvNext ==
  ASSUME UniqueKeys, OneReader
  PROVE  CorrelatorInv /\ [Next]_vars => CorrelatorInv'
<1> SUFFICES ASSUME CorrelatorInv, [Next]_vars PROVE CorrelatorInv'
  OBVIOUS
<1>1. TypeOK /\ RowsInv /\ \A v \in Workers : FoundInv(v)
  BY DEF CorrelatorInv
<1>2. TypeOK'
  BY <1>1, TypeNext
<1> DEFINE Goal == RowsInv' /\ \A v \in Workers : FoundInv(v)'
<1>3. ASSUME NEW w \in Workers, StoreMessage(w) PROVE Goal
  BY <1>3, StoreKeepsInv
<1>4. ASSUME NEW w \in Workers, FindMessage(w) PROVE Goal
  <2>1. PICK id \in FindByCorrelationKey(CorrelationKey(Event(w))) :
          found' = [found EXCEPT ![w] = {id}]
    BY <1>4 DEF FindMessage
  <2>2. HasEvent(w) /\ IsDelivery(Event(w)) /\ rows' = rows /\ next' = next
    BY <1>4 DEF FindMessage
  <2>3. id = Event(w).id /\ rows[id].status = "pending"
    BY <2>2, <1>1, FoundIsOwn
  <2>4. RowsInv'
    BY <2>2, <1>1 DEF RowsInv, RowInv, RowFromEvent
  <2>5. ASSUME NEW v \in Workers PROVE FoundInv(v)'
    <3>1. found'[v] = IF v = w THEN {id} ELSE found[v]
      BY <2>1, <1>1 DEF TypeOK
    <3>2. QED
      BY <3>1, <2>2, <2>3, <1>1 DEF FoundInv, HasEvent, Event
  <2>6. QED
    BY <2>4, <2>5
<1>5. ASSUME NEW w \in Workers, DropEvent(w) PROVE Goal
  BY <1>5, <1>1, FoundCleared DEF DropEvent, GoOn, TypeOK
<1>6. ASSUME NEW w \in Workers, SetDestination(w) PROVE Goal
  BY <1>6, SetDestinationKeepsInv
<1>7. ASSUME NEW w \in Workers, SkipEvent(w) PROVE Goal
  BY <1>7, <1>1, FoundCleared DEF SkipEvent, GoOn, TypeOK
<1>8. ASSUME NEW w \in Workers, Replay(w) PROVE Goal
  BY <1>8, <1>1, FoundCleared DEF Replay, TypeOK
<1>9. ASSUME UNCHANGED vars PROVE Goal
  <2>1. rows' = rows /\ next' = next /\ found' = found
    BY <1>9 DEF vars
  <2>2. RowsInv'
    BY <2>1, <1>1 DEF RowsInv, RowInv, RowFromEvent
  <2>3. ASSUME NEW v \in Workers PROVE FoundInv(v)'
    BY <2>1, <1>1 DEF FoundInv, HasEvent, Event
  <2>4. QED
    BY <2>2, <2>3
<1> HIDE DEF Goal
<1>10. Goal
  BY <1>3, <1>4, <1>5, <1>6, <1>7, <1>8, <1>9 DEF Next
<1>11. RowsInv' /\ \A v \in Workers : FoundInv(v)'
  BY <1>10 DEF Goal
<1>12. QED
  BY <1>2, <1>11 DEF CorrelatorInv

\* So it always holds.
LEMMA InvAlways ==
  ASSUME UniqueKeys, OneReader
  PROVE  Spec => []CorrelatorInv
<1>1. Init => CorrelatorInv
  BY InvInit
<1>2. CorrelatorInv /\ [Next]_vars => CorrelatorInv'
  BY InvNext
<1>3. QED
  BY <1>1, <1>2, PTL DEF Spec

(***************************************************************************)
(* What follows from the invariant                                         *)
(***************************************************************************)

\* The empty table maps to no known message.
LEMMA RefinesInit == Init => Lifecycle!Init
<1> SUFFICES ASSUME Init PROVE Lifecycle!Init
  OBVIOUS
<1>1. \A id \in MessageIds : rows[id].status = "absent" /\ rows[id].dest = {}
  BY DEF Init, StoreInit, NoRow
<1>2. Stored = {}
  BY <1>1 DEF Stored
<1>3. Concluded = [id \in MessageIds |-> {}]
  BY <1>1 DEF Concluded
<1>4. QED
  BY <1>2, <1>3 DEF Lifecycle!Init

\* A step that changes neither status nor destinations is not seen.
LEMMA Unseen ==
  ASSUME \A id \in MessageIds : rows'[id].status = rows[id].status
                                /\ rows'[id].dest = rows[id].dest
  PROVE  UNCHANGED Lifecycle!lifecycleVars
<1>1. Stored' = Stored
  BY DEF Stored
<1>2. Concluded' = Concluded
  BY DEF Concluded
<1>3. QED
  BY <1>1, <1>2 DEF Lifecycle!lifecycleVars

\* A source event's step makes its message known, if it was not.
LEMMA StoreRefines ==
  ASSUME CorrelatorInv, NEW w \in Workers, StoreMessage(w)
  PROVE  [Lifecycle!Next]_(Lifecycle!lifecycleVars)
<1>1. TypeOK /\ RowsInv
  BY DEF CorrelatorInv
<1>2. PICK m \in MessageRecord : UpsertMessage(m)
  BY <1>1, StoreFacts
<1>3. m.id \in MessageIds
  BY <1>2 DEF MessageRecord
<1>4. \A id \in MessageIds \ {m.id} : rows'[id] = rows[id]
  BY <1>1, <1>2, UpsertFacts
<1>5. CASE rows[m.id].status # "absent"
  <2>1. rows'[m.id].status = rows[m.id].status /\ rows'[m.id].dest = rows[m.id].dest
    BY <1>1, <1>2, <1>5, UpsertFacts
  <2>2. QED
    BY <2>1, <1>4, Unseen
<1>6. CASE rows[m.id].status = "absent"
  <2>1. rows'[m.id] = NewRow(m)
    BY <1>1, <1>2, <1>6, UpsertFacts
  <2>2. rows'[m.id].status = "pending" /\ rows'[m.id].dest = {}
    BY <2>1 DEF NewRow
  <2>3. rows[m.id].dest = {}
    BY <1>1, <1>3, <1>6 DEF RowsInv, RowInv
  <2>4. m.id \notin Stored /\ Stored' = Stored \cup {m.id}
    BY <1>3, <1>4, <1>6, <2>2 DEF Stored
  <2>5. Concluded' = Concluded
    <3>1. ASSUME NEW id \in MessageIds PROVE Concluded'[id] = Concluded[id]
      <4>1. CASE id # m.id
        BY <4>1, <1>4 DEF Concluded
      <4>2. CASE id = m.id
        BY <4>2, <2>2, <2>3 DEF Concluded
      <4>3. QED
        BY <4>1, <4>2
    <3>2. QED
      BY <3>1 DEF Concluded
  <2>6. Lifecycle!Observe(m.id)
    BY <2>4, <2>5 DEF Lifecycle!Observe
  <2>7. QED
    BY <2>6, <1>3 DEF Lifecycle!Next
<1>7. QED
  BY <1>5, <1>6

\* The second call of correlate concludes the message with a reported outcome.
LEMMA SetDestinationRefines ==
  ASSUME CorrelatorInv, NEW w \in Workers, SetDestination(w)
  PROVE  Lifecycle!Next
<1>1. TypeOK /\ RowsInv /\ FoundInv(w)
  BY DEF CorrelatorInv
<1> DEFINE id == Event(w).id
<1>2. PICK d \in [chain : Chains, time : 0..MaxTime] :
        /\ d.chain = Event(w).chain
        /\ rows'[id] = [rows[id] EXCEPT !.dest = {d},
                                       !.status = FinalStatus(Event(w)),
                                       !.latency = Latency(rows[id], d)]
  BY <1>1, SetDestinationFacts
<1>3. /\ HasEvent(w) /\ IsDelivery(Event(w)) /\ id \in MessageIds
      /\ rows[id].status = "pending"
      /\ \A other \in MessageIds \ {id} : rows'[other] = rows[other]
  BY <1>1, SetDestinationFacts
<1>4. rows[id] \in RowType /\ rows[id].dest = {}
  BY <1>1, <1>3 DEF TypeOK, RowsInv, RowInv
<1>5. rows'[id].status = FinalStatus(Event(w)) /\ rows'[id].dest = {d}
  BY <1>2, <1>4 DEF RowType
<1>6. FinalStatus(Event(w)) # "absent"
  BY DEF FinalStatus
<1>7. next[w] \in DOMAIN Events[w] /\ Event(w) = Events[w][next[w]]
  BY <1>1, <1>3, EventFacts DEF Event
<1>8. Outcome(Event(w)) \in Reported[id]
  <2>1. Reported[id] = UNION {{Outcome(Events[v][i]) : i \in
            {j \in DOMAIN Events[v] : /\ IsDelivery(Events[v][j])
                                      /\ Events[v][j].id = id}} : v \in Workers}
    BY <1>3 DEF Reported
  <2>2. next[w] \in {j \in DOMAIN Events[w] : /\ IsDelivery(Events[w][j])
                                             /\ Events[w][j].id = id}
    BY <1>3, <1>7
  <2>3. QED
    BY <2>1, <2>2, <1>7
<1> HIDE DEF id
<1>9. Stored' = Stored /\ id \in Stored
  BY <1>3, <1>5, <1>6 DEF Stored
<1>10. Concluded[id] = {}
  BY <1>3, <1>4 DEF Concluded
<1>11. Concluded' = [Concluded EXCEPT ![id] = {Outcome(Event(w))}]
  <2>1. Concluded'[id] = {Outcome(Event(w))}
    <3>1. Concluded'[id] = {[status |-> FinalStatus(Event(w)), chain |-> x.chain] : x \in {d}}
      BY <1>3, <1>5 DEF Concluded
    <3>2. QED
      BY <3>1, <1>2 DEF Outcome
  <2>2. \A x \in MessageIds \ {id} : Concluded'[x] = Concluded[x]
    BY <1>3 DEF Concluded
  <2>3. QED
    BY <2>1, <2>2, <1>3 DEF Concluded
<1>12. Lifecycle!Conclude(id)
  BY <1>8, <1>9, <1>10, <1>11 DEF Lifecycle!Conclude
<1>13. QED
  BY <1>12, <1>3 DEF Lifecycle!Next

\* Every step is one of the lifecycle's, or not seen by it.
LEMMA RefinesNext ==
  ASSUME CorrelatorInv, [Next]_vars
  PROVE  [Lifecycle!Next]_(Lifecycle!lifecycleVars)
<1>1. ASSUME rows' = rows PROVE [Lifecycle!Next]_(Lifecycle!lifecycleVars)
  BY <1>1, Unseen
<1>2. ASSUME NEW w \in Workers, StoreMessage(w)
      PROVE  [Lifecycle!Next]_(Lifecycle!lifecycleVars)
  BY <1>2, StoreRefines
<1>3. ASSUME NEW w \in Workers, SetDestination(w)
      PROVE  [Lifecycle!Next]_(Lifecycle!lifecycleVars)
  BY <1>3, SetDestinationRefines
<1>4. ASSUME NEW w \in Workers,
             FindMessage(w) \/ DropEvent(w) \/ SkipEvent(w) \/ Replay(w)
      PROVE  rows' = rows
  BY <1>4 DEF FindMessage, DropEvent, SkipEvent, Replay
<1>5. UNCHANGED vars => rows' = rows
  BY DEF vars
<1>6. QED
  BY <1>1, <1>2, <1>3, <1>4, <1>5 DEF Next

\* Where keys tell messages apart and every message's destination events have
\* one reader, the correlator and its store keep the lifecycle's promise, for
\* any logs, workers, replays, skipped events and missing block times.
THEOREM ImplementsLifecycleHolds ==
  ASSUME UniqueKeys, OneReader
  PROVE  Spec => ImplementsLifecycle
<1>1. Init => Lifecycle!Init
  BY RefinesInit
<1>2. CorrelatorInv /\ [Next]_vars => [Lifecycle!Next]_(Lifecycle!lifecycleVars)
  BY RefinesNext
<1>3. Spec => []CorrelatorInv
  BY InvAlways
<1>4. QED
  BY <1>1, <1>2, <1>3, PTL DEF Spec, ImplementsLifecycle, Lifecycle!Spec

\* A lifecycle's outcomes are reported ones, so under the same conditions no
\* message is marked by the destination event of another.
THEOREM DeliveredOnlyOwnHolds ==
  ASSUME UniqueKeys, OneReader
  PROVE  Spec => []DeliveredOnlyOwn
<1>1. Init => DeliveredOnlyOwn
  BY RefinesInit DEF Lifecycle!Init, DeliveredOnlyOwn
<1>2. DeliveredOnlyOwn /\ [Lifecycle!Next]_(Lifecycle!lifecycleVars) => DeliveredOnlyOwn'
  <2> SUFFICES ASSUME DeliveredOnlyOwn, [Lifecycle!Next]_(Lifecycle!lifecycleVars)
               PROVE  DeliveredOnlyOwn'
    OBVIOUS
  <2>1. ASSUME NEW id \in MessageIds, Lifecycle!Observe(id) PROVE DeliveredOnlyOwn'
    BY <2>1 DEF Lifecycle!Observe, DeliveredOnlyOwn
  <2>2. ASSUME NEW id \in MessageIds, Lifecycle!Conclude(id) PROVE DeliveredOnlyOwn'
    <3>1. PICK o \in Reported[id] : Concluded' = [Concluded EXCEPT ![id] = {o}]
      BY <2>2 DEF Lifecycle!Conclude
    <3>2. ASSUME NEW x \in MessageIds PROVE Concluded'[x] \subseteq Reported[x]
      <4>1. Concluded'[x] = IF x = id THEN {o} ELSE Concluded[x]
        BY <3>1 DEF Concluded
      <4>2. QED
        BY <4>1 DEF DeliveredOnlyOwn
    <3>3. QED
      BY <3>2 DEF DeliveredOnlyOwn
  <2>3. CASE UNCHANGED Lifecycle!lifecycleVars
    BY <2>3 DEF Lifecycle!lifecycleVars, DeliveredOnlyOwn
  <2>4. QED
    BY <2>1, <2>2, <2>3 DEF Lifecycle!Next
<1>3. Spec => []CorrelatorInv
  BY InvAlways
<1>4. CorrelatorInv /\ [Next]_vars => [Lifecycle!Next]_(Lifecycle!lifecycleVars)
  BY RefinesNext
<1>5. QED
  BY <1>1, <1>2, <1>3, <1>4, PTL DEF Spec

\* The latency of one row.
LatencyInv(id) ==
  /\ rows[id].dest = {} => rows[id].latency = 0
  /\ \A d \in rows[id].dest :
       rows[id].latency = IF d.time > 0 /\ rows[id].source.time > 0
                            THEN d.time - rows[id].source.time ELSE 0

\* Every action keeps the latencies consistent.
LEMMA LatencyNext ==
  ASSUME CorrelatorInv, LatencyConsistent, [Next]_vars
  PROVE  LatencyConsistent'
<1>1. TypeOK /\ RowsInv /\ \A w \in Workers : FoundInv(w)
  BY DEF CorrelatorInv
<1>2. \A id \in MessageIds : LatencyInv(id)
  BY DEF LatencyConsistent, LatencyInv
<1>3. ASSUME rows' = rows PROVE LatencyConsistent'
  BY <1>3 DEF LatencyConsistent
<1>4. ASSUME NEW w \in Workers, StoreMessage(w), NEW id \in MessageIds
      PROVE  LatencyInv(id)'
  <2>1. PICK m \in MessageRecord : UpsertMessage(m)
    BY <1>1, <1>4, StoreFacts
  <2>2. CASE id = m.id /\ rows[id].status = "absent"
    <3>1. rows'[id] = NewRow(m)
      BY <2>1, <2>2, <1>1, UpsertFacts
    <3>2. rows'[id].dest = {} /\ rows'[id].latency = 0
      BY <3>1 DEF NewRow
    <3>3. QED
      BY <3>2 DEF LatencyInv
  <2>3. CASE id # m.id \/ rows[id].status # "absent"
    <3>1. /\ rows'[id].dest = rows[id].dest /\ rows'[id].source = rows[id].source
          /\ rows'[id].latency = rows[id].latency
      BY <2>1, <2>3, <1>1, UpsertFacts
    <3>2. QED
      BY <3>1, <1>2 DEF LatencyInv
  <2>4. QED
    BY <2>2, <2>3
<1>5. ASSUME NEW w \in Workers, SetDestination(w), NEW id \in MessageIds
      PROVE  LatencyInv(id)'
  <2>1. PICK d \in [chain : Chains, time : 0..MaxTime] :
          rows'[Event(w).id] = [rows[Event(w).id] EXCEPT
                                  !.dest = {d}, !.status = FinalStatus(Event(w)),
                                  !.latency = Latency(rows[Event(w).id], d)]
    BY <1>1, <1>5, SetDestinationFacts
  <2>2. /\ rows[Event(w).id].status = "pending"
        /\ \A other \in MessageIds \ {Event(w).id} : rows'[other] = rows[other]
    BY <1>1, <1>5, SetDestinationFacts
  <2>3. CASE id # Event(w).id
    BY <2>2, <2>3, <1>2 DEF LatencyInv
  <2>4. CASE id = Event(w).id
    <3>1. rows[id] \in RowType /\ rows[id].latency = 0
      BY <2>2, <2>4, <1>1 DEF TypeOK, RowsInv, RowInv
    <3>2. /\ rows'[id].dest = {d} /\ rows'[id].source = rows[id].source
          /\ rows'[id].latency = Latency(rows[id], d)
      BY <2>1, <2>4, <3>1 DEF RowType
    <3>3. QED
      BY <3>1, <3>2 DEF Latency, LatencyInv
  <2>5. QED
    BY <2>3, <2>4
<1>6. ASSUME NEW w \in Workers,
             FindMessage(w) \/ DropEvent(w) \/ SkipEvent(w) \/ Replay(w)
      PROVE  rows' = rows
  BY <1>6 DEF FindMessage, DropEvent, SkipEvent, Replay
<1>7. UNCHANGED vars => rows' = rows
  BY DEF vars
<1>8. ASSUME \A id \in MessageIds : LatencyInv(id)' PROVE LatencyConsistent'
  BY <1>8 DEF LatencyConsistent, LatencyInv
<1>9. QED
  BY <1>3, <1>4, <1>5, <1>6, <1>7, <1>8 DEF Next

\* Under the same conditions the stored latency agrees with the stored times: a
\* row is concluded once, so no older latency survives a missing timestamp.
THEOREM LatencyConsistentHolds ==
  ASSUME UniqueKeys, OneReader
  PROVE  Spec => []LatencyConsistent
<1>1. Init => LatencyConsistent
  <2>1. NoRow.dest = {} /\ NoRow.latency = 0
    BY DEF NoRow
  <2>2. Init => \A id \in MessageIds : rows[id] = NoRow
    BY DEF Init, StoreInit
  <2> QED BY <2>1, <2>2 DEF LatencyConsistent
<1>2. CorrelatorInv /\ LatencyConsistent /\ [Next]_vars => LatencyConsistent'
  BY LatencyNext
<1>3. Spec => []CorrelatorInv
  BY InvAlways
<1>4. QED
  BY <1>1, <1>2, <1>3, PTL DEF Spec

(***************************************************************************)
(* What the table reflects                                                 *)
(***************************************************************************)

\* A worker is at an event of its log or past the last one, and holds a message
\* only for a destination event.
PositionInv(w) ==
  /\ next[w] <= Len(Events[w]) + 1
  /\ found[w] # {} => IsCorrelation(Event(w))

PositionsInv == \A w \in Workers : PositionInv(w)

\* What one source event says is in the table.
Reflected(e) ==
  /\ e.id \in Stored
  /\ FilledColumns(e) \subseteq rows[e.id].payload
  /\ MessageType(e) # "message" => rows[e.id].type = MessageType(e)

ReflectedInv == TypeOK /\ PositionsInv /\ EventsReflected

\* A step moves each worker past its event, back, or not at all.
LEMMA Moves ==
  ASSUME TypeOK, PositionsInv, [Next]_vars, NEW w \in Workers
  PROVE  /\ next'[w] <= next[w] + 1
         /\ next'[w] = next[w] + 1 => HasEvent(w)
<1>1. next[w] \in Nat \ {0}
  BY DEF TypeOK
<1>2. ASSUME NEW v \in Workers, GoOn(v), HasEvent(v)
      PROVE  next'[w] = IF w = v THEN next[w] + 1 ELSE next[w]
  BY <1>2 DEF GoOn, TypeOK
<1>3. ASSUME NEW v \in Workers,
             StoreMessage(v) \/ DropEvent(v) \/ SetDestination(v) \/ SkipEvent(v)
      PROVE  GoOn(v) /\ HasEvent(v)
  BY <1>3 DEF StoreMessage, DropEvent, SetDestination, SkipEvent
<1>4. ASSUME NEW v \in Workers, Replay(v) PROVE next'[w] \in Nat /\ next'[w] <= next[w]
  <2>1. PICK k \in 1..next[v] : next' = [next EXCEPT ![v] = k]
    BY <1>4 DEF Replay
  <2>2. next'[w] = IF w = v THEN k ELSE next[w]
    BY <2>1 DEF TypeOK
  <2> QED BY <1>1, <2>1, <2>2
<1>5. ASSUME NEW v \in Workers, FindMessage(v) PROVE next'[w] = next[w]
  BY <1>5 DEF FindMessage
<1>6. UNCHANGED vars => next'[w] = next[w]
  BY DEF vars
<1> QED BY <1>1, <1>2, <1>3, <1>4, <1>5, <1>6 DEF Next

LEMMA PositionsNext ==
  ASSUME TypeOK, PositionsInv, [Next]_vars
  PROVE  PositionsInv'
<1> SUFFICES ASSUME NEW w \in Workers PROVE PositionInv(w)'
  BY DEF PositionsInv
<1>1. /\ PositionInv(w) /\ next[w] \in Nat \ {0} /\ next'[w] \in Nat \ {0}
      /\ Len(Events[w]) \in Nat
  BY TypeNext, CorrelatorAssumption DEF PositionsInv, TypeOK
<1>2. next'[w] <= Len(Events[w]) + 1
  BY <1>1, Moves DEF PositionInv, HasEvent
<1>3. ASSUME found'[w] # {} PROVE IsCorrelation(Event(w))'
  <2>1. ASSUME NEW v \in Workers, FindMessage(v) PROVE IsCorrelation(Event(w))'
    <3>1. next' = next /\ IsCorrelation(Event(v)) /\ (v # w => found'[w] = found[w])
      BY <2>1 DEF FindMessage, IsDelivery, TypeOK
    <3> QED BY <1>1, <1>3, <3>1 DEF PositionInv, Event
  <2>2. ASSUME NEW v \in Workers,
               StoreMessage(v) \/ DropEvent(v) \/ SetDestination(v) \/ SkipEvent(v) \/ Replay(v)
        PROVE  IsCorrelation(Event(w))'
    <3>1. v # w /\ found'[w] = found[w] /\ next'[w] = next[w]
      BY <1>3, <2>2
      DEF StoreMessage, DropEvent, SetDestination, SkipEvent, Replay, GoOn, TypeOK
    <3> QED BY <1>1, <1>3, <3>1 DEF PositionInv, Event
  <2>3. CASE UNCHANGED vars
    BY <1>1, <1>3, <2>3 DEF PositionInv, Event, vars
  <2> QED BY <2>1, <2>2, <2>3 DEF Next
<1> QED BY <1>2, <1>3 DEF PositionInv

\* Source events of one message have the same telling type.
LEMMA TypesAgree ==
  ASSUME OneMessagePerId,
         NEW v \in Workers, NEW i \in DOMAIN Events[v], IsSend(Events[v][i]),
         NEW w \in Workers, NEW j \in DOMAIN Events[w], IsSend(Events[w][j]),
         Events[v][i].id = Events[w][j].id,
         MessageType(Events[v][i]) # "message", MessageType(Events[w][j]) # "message"
  PROVE  MessageType(Events[v][i]) = MessageType(Events[w][j])
<1> DEFINE d == Events[v][i]
           e == Events[w][j]
<1>1. d.kind \in SourceKinds /\ e.kind \in SourceKinds
  <2>1. d \in EventType /\ e \in EventType
    BY CorrelatorAssumption
  <2> QED BY <2>1 DEF EventType, IsSend, IsCorrelation
<1>2. ProtocolOf(d.kind) = ProtocolOf(e.kind)
  BY DEF OneMessagePerId
<1> HIDE DEF d, e
<1>3. ASSUME NEW x, x.kind \in SourceKinds, MessageType(x) # "message"
      PROVE  \/ x.kind = "OFTSent" /\ ProtocolOf(x.kind) = "layerzero_v2"
                /\ MessageType(x) = "token_transfer"
             \/ x.kind \in {"ContractCall", "ContractCallApproved"}
                /\ ProtocolOf(x.kind) = "axelar" /\ MessageType(x) = "contract_call"
             \/ x.kind = "CCIPSendRequested" /\ ProtocolOf(x.kind) = "ccip"
                /\ MessageType(x) = "token_transfer"
  BY <1>3 DEF SourceKinds, MessageType, ProtocolOf
<1>4. MessageType(d) # "message" /\ MessageType(e) # "message"
  BY DEF d, e
<1>5. MessageType(d) = MessageType(e)
  BY <1>1, <1>2, <1>3, <1>4
<1> QED BY <1>5 DEF d, e

\* Storing an event's message puts what it says into the table.
LEMMA StoreReflects ==
  ASSUME TypeOK, NEW w \in Workers, StoreMessage(w), NEW e, e = Event(w)
  PROVE  Reflected(e)'
<1>1. PICK m \in MessageRecord :
        /\ UpsertMessage(m) /\ HasEvent(w) /\ IsSend(Event(w))
        /\ m.id = Event(w).id
        /\ m.type = MessageType(Event(w)) /\ m.payload = FilledColumns(Event(w))
  BY StoreFacts
<1>2. m.id \in MessageIds /\ rows[m.id] \in RowType
  BY DEF MessageRecord, TypeOK
<1>3. rows'[m.id] = NewRow(m) \/ (rows'[m.id] = Merged(rows[m.id], m)
                                  /\ rows[m.id].status # "absent")
  BY <1>1, UpsertFacts
<1>4. /\ rows'[m.id].status # "absent"
      /\ m.payload \subseteq rows'[m.id].payload
      /\ m.type # "message" => rows'[m.id].type = m.type
  <2>1. CASE rows'[m.id] = NewRow(m)
    BY <2>1 DEF NewRow
  <2>2. CASE rows'[m.id] = Merged(rows[m.id], m) /\ rows[m.id].status # "absent"
    BY <1>2, <2>2 DEF Merged, RowType
  <2> QED BY <1>3, <2>1, <2>2
<1> QED BY <1>1, <1>2, <1>4 DEF Stored, Reflected

\* What the table has of a message only grows: nothing that an event said is
\* overwritten, if the ids tell messages apart.
LEMMA ReflectionStays ==
  ASSUME OneMessagePerId, TypeOK, [Next]_vars,
         NEW v \in Workers, NEW i \in DOMAIN Events[v], IsSend(Events[v][i]),
         Reflected(Events[v][i])
  PROVE  Reflected(Events[v][i])'
<1> DEFINE e == Events[v][i]
<1>1. e.id \in MessageIds /\ rows[e.id] \in RowType /\ rows[e.id].status # "absent"
  BY DEF Reflected, Stored, TypeOK
<1>2. SUFFICES /\ rows'[e.id].status # "absent"
               /\ rows[e.id].payload \subseteq rows'[e.id].payload
               /\ MessageType(e) # "message" =>
                    rows'[e.id].type = rows[e.id].type \/ rows'[e.id].type = MessageType(e)
  BY <1>1 DEF Reflected, Stored
<1>3. ASSUME rows'[e.id] = rows[e.id]
      PROVE  /\ rows'[e.id].status # "absent"
             /\ rows[e.id].payload \subseteq rows'[e.id].payload
             /\ rows'[e.id].type = rows[e.id].type
  BY <1>1, <1>3
<1>4. CASE rows' = rows
  BY <1>3, <1>4
<1>5. ASSUME NEW w \in Workers, StoreMessage(w)
      PROVE  /\ rows'[e.id].status # "absent"
             /\ rows[e.id].payload \subseteq rows'[e.id].payload
             /\ MessageType(e) # "message" =>
                  rows'[e.id].type = rows[e.id].type \/ rows'[e.id].type = MessageType(e)
  <2>1. PICK m \in MessageRecord :
          /\ UpsertMessage(m) /\ HasEvent(w) /\ IsSend(Event(w))
          /\ m.id = Event(w).id
          /\ m.type = MessageType(Event(w)) /\ m.payload = FilledColumns(Event(w))
    BY <1>5, StoreFacts
  <2>2. CASE m.id # e.id
    BY <1>1, <1>3, <2>1, <2>2, UpsertFacts
  <2>3. CASE m.id = e.id
    <3>1. rows'[e.id] = Merged(rows[e.id], m)
      BY <1>1, <2>1, <2>3, UpsertFacts
    <3>2. /\ rows'[e.id].status = rows[e.id].status
          /\ rows'[e.id].payload = rows[e.id].payload \cup m.payload
          /\ rows'[e.id].type = IF m.type # "message" THEN m.type ELSE rows[e.id].type
      BY <1>1, <3>1 DEF Merged, RowType
    <3>3. MessageType(e) # "message" /\ m.type # "message" => m.type = MessageType(e)
      <4>1. PICK j \in DOMAIN Events[w] : Event(w) = Events[w][j]
        BY <2>1, EventFacts DEF Event
      <4>2. IsSend(Events[w][j]) /\ Events[w][j].id = Events[v][i].id
            /\ m.type = MessageType(Events[w][j])
        BY <2>1, <2>3, <4>1
      <4>3. ASSUME MessageType(Events[v][i]) # "message", MessageType(Events[w][j]) # "message"
            PROVE  MessageType(Events[w][j]) = MessageType(Events[v][i])
        BY <4>2, <4>3, TypesAgree
      <4> QED BY <4>2, <4>3
    <3> QED BY <1>1, <3>2, <3>3
  <2> QED BY <2>2, <2>3
<1>6. ASSUME NEW w \in Workers, SetDestination(w)
      PROVE  /\ rows'[e.id].status # "absent"
             /\ rows[e.id].payload \subseteq rows'[e.id].payload
             /\ rows'[e.id].type = rows[e.id].type
  <2>1. PICK id \in found[w] : \E x \in Stamped(w) :
          UpdateDestination(id, DestinationOf(x), FinalStatus(x))
    BY <1>6 DEF SetDestination
  <2>2. PICK x \in Stamped(w) : UpdateDestination(id, DestinationOf(x), FinalStatus(x))
    BY <2>1
  <2>3. rows'[e.id] = IF e.id = id
                        THEN [rows[e.id] EXCEPT !.dest = {DestinationOf(x)},
                                                !.status = FinalStatus(x),
                                                !.latency = Latency(rows[e.id], DestinationOf(x))]
                        ELSE rows[e.id]
    BY <1>1, <2>1, <2>2 DEF UpdateDestination, TypeOK
  <2>4. FinalStatus(x) # "absent"
    BY DEF FinalStatus
  <2> QED BY <1>1, <2>3, <2>4 DEF RowType
<1>7. CASE UNCHANGED vars
  BY <1>4, <1>7 DEF vars
<1>8. ASSUME NEW w \in Workers,
             FindMessage(w) \/ DropEvent(w) \/ SkipEvent(w) \/ Replay(w)
      PROVE  rows' = rows
  BY <1>8 DEF FindMessage, DropEvent, SkipEvent, Replay
<1> QED BY <1>4, <1>5, <1>6, <1>7, <1>8 DEF Next

\* A source event is passed only by storing its message, if no call fails.
LEMMA SourceEventsStored ==
  ASSUME "event" \notin Faults, TypeOK, PositionsInv, [Next]_vars,
         NEW w \in Workers, IsSend(Event(w)), next'[w] = next[w] + 1
  PROVE  StoreMessage(w)
<1>1. HasEvent(w) /\ Event(w) \in EventType /\ next[w] \in Nat
  BY Moves, EventFacts DEF TypeOK
<1>2. Normalizes(Event(w)) /\ ~IsCorrelation(Event(w))
  BY DEF IsSend
<1>3. found[w] = {}
  BY <1>2 DEF PositionsInv, PositionInv
<1>4. ASSUME NEW v \in Workers, v # w,
             StoreMessage(v) \/ DropEvent(v) \/ SetDestination(v) \/ SkipEvent(v) \/ Replay(v)
      PROVE  FALSE
  BY <1>1, <1>4 DEF StoreMessage, DropEvent, SetDestination, SkipEvent, Replay, GoOn, TypeOK
<1>5. ~\E v \in Workers : FindMessage(v)
  BY <1>1 DEF FindMessage
<1>6. ~(DropEvent(w) \/ SetDestination(w) \/ SkipEvent(w))
  BY <1>2, <1>3 DEF DropEvent, SetDestination, SkipEvent, IsDelivery
<1>7. ~Replay(w)
  <2> SUFFICES ASSUME Replay(w) PROVE FALSE
    OBVIOUS
  <2>1. PICK k \in 1..next[w] : next'[w] = k
    BY DEF Replay, TypeOK
  <2> QED BY <1>1, <2>1
<1>8. ~UNCHANGED vars
  BY <1>1 DEF vars
<1> QED BY <1>4, <1>5, <1>6, <1>7, <1>8 DEF Next

LEMMA ReflectedNext ==
  ASSUME OneMessagePerId, "event" \notin Faults
  PROVE  ReflectedInv /\ [Next]_vars => ReflectedInv'
<1> SUFFICES ASSUME ReflectedInv, [Next]_vars PROVE ReflectedInv'
  OBVIOUS
<1>1. TypeOK /\ PositionsInv /\ TypeOK' /\ PositionsInv'
  BY TypeNext, PositionsNext DEF ReflectedInv
<1>2. ASSUME NEW w \in Workers, NEW i \in 1..next'[w] - 1, IsSend(Events[w][i])
      PROVE  Reflected(Events[w][i])'
  <2>1. /\ next[w] \in Nat \ {0} /\ next'[w] \in Nat \ {0} /\ Events[w] \in Seq(EventType)
        /\ next'[w] <= Len(Events[w]) + 1 /\ next'[w] <= next[w] + 1
    BY <1>1, Moves, CorrelatorAssumption DEF TypeOK, PositionsInv, PositionInv
  <2>2. i \in DOMAIN Events[w]
    BY <2>1
  <2>3. CASE i < next[w]
    <3>1. i \in 1..next[w] - 1
      BY <2>1, <2>3
    <3>2. Reflected(Events[w][i])
      BY <1>2, <3>1 DEF ReflectedInv, EventsReflected, Reflected
    <3> QED BY <1>1, <1>2, <2>2, <3>2, ReflectionStays
  <2>4. CASE ~(i < next[w])
    <3>1. i = next[w] /\ next'[w] = next[w] + 1
      BY <2>1, <2>4
    <3>2. Events[w][i] = Event(w)
      BY <3>1 DEF Event
    <3>3. StoreMessage(w)
      BY <1>1, <1>2, <3>1, <3>2, SourceEventsStored
    <3> QED BY <1>1, <3>2, <3>3, StoreReflects
  <2> QED BY <2>3, <2>4
<1>3. EventsReflected'
  BY <1>2 DEF EventsReflected, Reflected
<1> QED BY <1>1, <1>3 DEF ReflectedInv

LEMMA ReflectedInit == Init => ReflectedInv
<1> SUFFICES ASSUME Init PROVE ReflectedInv
  OBVIOUS
<1>1. PositionsInv
  BY CorrelatorAssumption DEF Init, PositionsInv, PositionInv
<1>2. EventsReflected
  BY DEF Init, EventsReflected
<1> QED BY <1>1, <1>2, TypeInit DEF ReflectedInv

LEMMA ReflectedAlways ==
  ASSUME OneMessagePerId, "event" \notin Faults
  PROVE  Spec => []ReflectedInv
<1>1. ReflectedInv /\ [Next]_vars => ReflectedInv'
  BY ReflectedNext
<1> QED BY <1>1, ReflectedInit, PTL DEF Spec

\* If an id is that of one message and no call fails, then whatever is replayed,
\* and however several logs speak of one message, what the source events before
\* a worker's position say is in the table (message_store_pg.go:34-72).
THEOREM EventsReflectedHolds ==
  ASSUME OneMessagePerId, "event" \notin Faults
  PROVE  Spec => []EventsReflected
<1>1. ReflectedInv => EventsReflected
  BY DEF ReflectedInv
<1> QED BY <1>1, ReflectedAlways, PTL

(***************************************************************************)
(* Destination events find their message                                   *)
(***************************************************************************)

\* The key columns of the row are those of event i of worker v's log.
HasKeyOf(row, v, i) ==
  LET m == SourceMessage(Events[v][i]) IN
    /\ row.protocol = m.protocol
    /\ row.nonce = m.nonce
    /\ row.source.sender = m.source.sender
    /\ row.source.chain = m.source.chain

\* The key columns of a row are those of the first event of its message in some
\* log: later ones find the row there and leave the columns alone.
OpeningInv(id) ==
  rows[id].status # "absent" =>
    \E v \in Workers : \E i \in DOMAIN Events[v] :
      Opens(v, i) /\ Events[v][i].id = id /\ HasKeyOf(rows[id], v, i)

OpeningsInv == \A id \in MessageIds : OpeningInv(id)

\* An event that finds no row is the first of its log about the message.
LEMMA InsertOpens ==
  ASSUME ReflectedInv, NEW w \in Workers, StoreMessage(w), rows[Event(w).id].status = "absent"
  PROVE  next[w] \in DOMAIN Events[w] /\ Opens(w, next[w])
<1>1. next[w] \in DOMAIN Events[w] /\ Event(w) = Events[w][next[w]] /\ IsSend(Event(w))
  BY EventFacts DEF ReflectedInv, StoreMessage, Event
<1>2. ASSUME NEW j \in 1..next[w] - 1, IsSend(Events[w][j])
      PROVE  Events[w][j].id # Event(w).id
  BY <1>2 DEF ReflectedInv, EventsReflected, Stored
<1> QED BY <1>1, <1>2 DEF Opens

LEMMA OpeningsNext ==
  CorrelatorInv /\ ReflectedInv /\ OpeningsInv /\ [Next]_vars => OpeningsInv'
<1> SUFFICES ASSUME CorrelatorInv, ReflectedInv, OpeningsInv, [Next]_vars,
                    NEW id \in MessageIds
             PROVE  OpeningInv(id)'
  BY DEF OpeningsInv
<1>1. TypeOK /\ rows[id] \in RowType /\ OpeningInv(id) /\ \A w \in Workers : FoundInv(w)
  BY DEF CorrelatorInv, TypeOK, OpeningsInv
<1>2. ASSUME rows[id].status # "absent",
             rows'[id].protocol = rows[id].protocol, rows'[id].nonce = rows[id].nonce,
             rows'[id].source = rows[id].source
      PROVE  OpeningInv(id)'
  BY <1>1, <1>2 DEF OpeningInv, HasKeyOf
<1>3. CASE rows' = rows
  BY <1>1, <1>3 DEF OpeningInv
<1>4. ASSUME NEW w \in Workers, StoreMessage(w) PROVE OpeningInv(id)'
  <2>1. PICK m \in MessageRecord :
          LET own == SourceMessage(Event(w)) IN
            /\ UpsertMessage(m) /\ HasEvent(w) /\ IsSend(Event(w))
            /\ m.id = Event(w).id /\ own.id = Event(w).id
            /\ m.protocol = own.protocol /\ m.nonce = own.nonce
            /\ m.source.sender = own.source.sender
            /\ m.source.chain = own.source.chain
    BY <1>1, <1>4, StoreFacts
  <2>2. CASE m.id # id
    BY <1>1, <2>1, <2>2, UpsertFacts DEF OpeningInv
  <2>3. CASE m.id = id /\ rows[id].status # "absent"
    BY <1>1, <1>2, <2>1, <2>3, UpsertFacts
  <2>4. CASE m.id = id /\ rows[id].status = "absent"
    <3>1. rows'[id] = NewRow(m)
      BY <1>1, <2>1, <2>4, UpsertFacts
    <3>2. PICK i \in DOMAIN Events[w] : i = next[w] /\ Opens(w, i)
      BY <1>4, <2>1, <2>4, InsertOpens
    <3>3. Event(w) = Events[w][i]
      BY <3>2 DEF Event
    <3>4. /\ rows'[id].protocol = m.protocol /\ rows'[id].nonce = m.nonce
          /\ rows'[id].source = m.source
      BY <3>1 DEF NewRow
    <3>5. HasKeyOf(rows'[id], w, i) /\ Events[w][i].id = id
      BY <2>1, <2>4, <3>3, <3>4 DEF HasKeyOf
    <3> QED BY <3>2, <3>5 DEF OpeningInv
  <2> QED BY <2>2, <2>3, <2>4
<1>5. ASSUME NEW w \in Workers, SetDestination(w) PROVE OpeningInv(id)'
  <2>1. PICK x \in found[w] : \E e \in Stamped(w) :
          UpdateDestination(x, DestinationOf(e), FinalStatus(e))
    BY <1>5 DEF SetDestination
  <2>2. PICK e \in Stamped(w) : UpdateDestination(x, DestinationOf(e), FinalStatus(e))
    BY <2>1
  <2>3. rows'[id] = IF id = x
                      THEN [rows[id] EXCEPT !.dest = {DestinationOf(e)},
                                            !.status = FinalStatus(e),
                                            !.latency = Latency(rows[id], DestinationOf(e))]
                      ELSE rows[id]
    BY <1>1, <2>1, <2>2 DEF UpdateDestination, TypeOK
  <2>4. CASE rows[id].status # "absent"
    BY <1>1, <1>2, <2>3, <2>4 DEF RowType
  <2>5. CASE rows[id].status = "absent"
    <3>1. id # x
      BY <1>1, <2>1, <2>5 DEF FoundInv
    <3> QED BY <2>3, <2>5, <3>1 DEF OpeningInv
  <2> QED BY <2>4, <2>5
<1>6. CASE UNCHANGED vars
  BY <1>3, <1>6 DEF vars
<1>7. ASSUME NEW w \in Workers,
             FindMessage(w) \/ DropEvent(w) \/ SkipEvent(w) \/ Replay(w)
      PROVE  rows' = rows
  BY <1>7 DEF FindMessage, DropEvent, SkipEvent, Replay
<1> QED BY <1>3, <1>4, <1>5, <1>6, <1>7 DEF Next

\* A pending message whose columns are those of a log's first event about it is
\* found by the key of its destination events.
LEMMA OwnIsFound ==
  ASSUME KeysFit, TypeOK, OpeningsInv, NEW w \in Workers, HasEvent(w), IsDelivery(Event(w)),
         rows[Event(w).id].status = "pending"
  PROVE  Event(w).id \in FindByCorrelationKey(CorrelationKey(Event(w)))
<1> DEFINE id == Event(w).id
           key == CorrelationKey(Event(w))
<1>1. PICK j \in DOMAIN Events[w] : Event(w) = Events[w][j]
  BY EventFacts DEF Event
<1>2. id \in MessageIds
  BY EventFacts DEF EventType
<1>0. PICK v \in Workers : \E i \in DOMAIN Events[v] :
        Opens(v, i) /\ Events[v][i].id = id /\ HasKeyOf(rows[id], v, i)
  BY <1>2 DEF OpeningsInv, OpeningInv
<1>3. PICK i \in DOMAIN Events[v] :
        Opens(v, i) /\ Events[v][i].id = id /\ HasKeyOf(rows[id], v, i)
  BY <1>0
<1> DEFINE m == SourceMessage(Events[v][i])
<1>4. m.id = Events[w][j].id /\ IsDelivery(Events[w][j])
  BY <1>1, <1>3 DEF SourceMessage
<1>5. /\ m.protocol = key.protocol
      /\ ~key.byId => m.nonce = key.nonce /\ m.source.sender = key.sender
                       /\ m.source.chain = key.chain
  BY <1>1, <1>3, <1>4 DEF KeysFit
<1>6. /\ rows[id].protocol = m.protocol /\ rows[id].nonce = m.nonce
      /\ rows[id].source.sender = m.source.sender
      /\ rows[id].source.chain = m.source.chain
  BY <1>3 DEF HasKeyOf
<1>7. key.id = id
  BY DEF CorrelationKey
<1> HIDE DEF id, key, m
<1>8. id \in FindByCorrelationKey(key)
  BY <1>2, <1>5, <1>6, <1>7 DEF FindByCorrelationKey, id
<1> QED BY <1>8 DEF id, key

LEMMA DeliveryStep ==
  ASSUME KeysFit, "event" \notin Faults, CorrelatorInv, ReflectedInv, OpeningsInv,
         [Next]_vars, NEW w \in Workers, HasEvent(w), next'[w] = next[w] + 1,
         IsDelivery(Event(w)), rows[Event(w).id].status = "pending"
  PROVE  rows'[Event(w).id].status # "pending"
<1>1. TypeOK /\ FoundInv(w) /\ next[w] \in Nat
  BY DEF CorrelatorInv, TypeOK
<1>2. CASE SetDestination(w)
  <2>1. rows[Event(w).id] \in RowType
    BY <1>1, EventFacts DEF EventType, TypeOK
  <2>2. PICK d \in [chain : Chains, time : 0..MaxTime] :
          rows'[Event(w).id] = [rows[Event(w).id] EXCEPT
                                  !.dest = {d}, !.status = FinalStatus(Event(w)),
                                  !.latency = Latency(rows[Event(w).id], d)]
    BY <1>1, <1>2, SetDestinationFacts
  <2>3. FinalStatus(Event(w)) # "pending"
    BY DEF FinalStatus
  <2> QED BY <2>1, <2>2, <2>3 DEF RowType
<1>3. ~DropEvent(w)
  BY <1>1, OwnIsFound DEF DropEvent
<1>4. ~StoreMessage(w) /\ ~SkipEvent(w)
  BY DEF StoreMessage, SkipEvent, IsSend, IsDelivery
<1>5. ~Replay(w)
  <2> SUFFICES ASSUME Replay(w) PROVE FALSE
    OBVIOUS
  <2>1. PICK k \in 1..next[w] : next'[w] = k
    BY <1>1 DEF Replay, TypeOK
  <2> QED BY <1>1, <2>1
<1>6. ASSUME NEW v \in Workers, v # w,
             StoreMessage(v) \/ DropEvent(v) \/ SetDestination(v) \/ SkipEvent(v) \/ Replay(v)
      PROVE  FALSE
  BY <1>1, <1>6 DEF StoreMessage, DropEvent, SetDestination, SkipEvent, Replay, GoOn, TypeOK
<1>7. ~UNCHANGED vars /\ ~\E v \in Workers : FindMessage(v)
  BY <1>1 DEF vars, FindMessage
<1> QED BY <1>2, <1>3, <1>4, <1>5, <1>6, <1>7 DEF Next

\* If moreover the keys fit, no destination event is passed by while its message
\* is stored and pending, whichever worker stored it, in whichever order and how
\* often (correlator.go:52-79).
THEOREM DeliveryRecordedHolds ==
  ASSUME UniqueKeys, OneReader, OneMessagePerId, KeysFit, "event" \notin Faults
  PROVE  Spec => DeliveryRecorded
<1>1. Init => OpeningsInv
  BY DEF Init, StoreInit, NoRow, OpeningsInv, OpeningInv
<1>2. CorrelatorInv /\ ReflectedInv /\ OpeningsInv /\ [Next]_vars => OpeningsInv'
  BY OpeningsNext
<1>3. Spec => []CorrelatorInv
  BY InvAlways
<1>4. Spec => []ReflectedInv
  BY ReflectedAlways
<1> DEFINE Recorded ==
  \A w \in Workers :
       HasEvent(w) /\ next'[w] = next[w] + 1 /\ IsDelivery(Event(w))
         /\ rows[Event(w).id].status = "pending" =>
       rows'[Event(w).id].status # "pending"
<1>5. CorrelatorInv /\ ReflectedInv /\ OpeningsInv /\ [Next]_vars => [Recorded]_vars
  BY DeliveryStep
<1>6. Spec => [][Recorded]_vars
  <2> HIDE DEF Recorded
  <2> QED BY <1>1, <1>2, <1>3, <1>4, <1>5, PTL DEF Spec
<1> QED BY <1>6 DEF DeliveryRecorded
=============================================================================
