---------------------------- MODULE MessageStore ----------------------------
(***************************************************************************)
(* internal/indexer/message_store_pg.go.  The rows a message has in        *)
(* messages, message_sources, message_payloads, message_metadata and       *)
(* message_destinations are written in one transaction each time, so they  *)
(* are one row here.                                                       *)
(***************************************************************************)
EXTENDS Normalizer

VARIABLE rows   \* the row of each message id; status "absent" where there is none

\* A message that has arrived nowhere has no destination row: the empty set.
RowType ==
  [protocol : Protocols,
   type     : Types,
   status   : {"absent", "pending", "executed", "failed"},
   source   : [chain : Chains \cup {UnknownChain}, time : 0..MaxTime, sender : Senders],
   nonce    : 0..MaxNonce,
   payload  : SUBSET Columns,          \* the columns that are not empty
   dest     : SUBSET [chain : Chains, time : 0..MaxTime],
   latency  : Int]

NoRow == [protocol |-> "ccip", type |-> "message", status |-> "absent",
          source |-> [chain |-> UnknownChain, time |-> 0,
                      sender |-> CHOOSE s \in Senders : TRUE],
          nonce |-> 0, payload |-> {}, dest |-> {}, latency |-> 0]

StoreInit == rows = [id \in MessageIds |-> NoRow]

\* Seeded fault: the nonce is not among the columns INSERT writes.
RowWithoutNonce(m) == [protocol |-> m.protocol, type |-> m.type, status |-> "pending",
                       source |-> m.source, nonce |-> 0, payload |-> m.payload,
                       dest |-> {}, latency |-> 0]

\* The columns INSERT gives a new message.  The metadata of a normalized message
\* is there but has no latency yet, so that column starts at 0 and not at NULL.
NewRow(m) == [protocol |-> m.protocol, type |-> m.type, status |-> "pending",
              source |-> m.source, nonce |-> m.nonce, payload |-> m.payload,
              dest |-> {}, latency |-> 0]

\* Seeded fault: the event that comes last decides the type.
MergedType(row, m) ==
  [row EXCEPT !.type = m.type, !.payload = row.payload \cup m.payload]

\* ON CONFLICT: "message" does not replace a more telling type, an empty payload
\* column replaces nothing, and everything else stays as it was first written.
Merged(row, m) ==
  [row EXCEPT !.type    = IF m.type # "message" THEN m.type ELSE row.type,
              !.payload = row.payload \cup m.payload]

UpsertMessage(m) ==
  rows' = [rows EXCEPT ![m.id] = IF @.status = "absent" THEN NewRow(m)
                                                        ELSE Merged(@, m)]

\* Seeded fault: messages of any status are found.
FoundInAnyStatus(key) ==
  {id \in MessageIds :
     /\ rows[id].status # "absent" /\ rows[id].protocol = key.protocol
     /\ IF key.byId THEN id = key.id
        ELSE /\ rows[id].nonce = key.nonce
             /\ rows[id].source.sender = key.sender
             /\ rows[id].source.chain = key.chain}

\* Seeded fault: the nonce is no part of a composite key.
FoundBySender(key) ==
  {id \in MessageIds :
     /\ rows[id].status = "pending" /\ rows[id].protocol = key.protocol
     /\ IF key.byId THEN id = key.id
        ELSE /\ rows[id].source.sender = key.sender
             /\ rows[id].source.chain = key.chain}

\* The pending messages a key fits; the query returns one of them (LIMIT 1).
FindByCorrelationKey(key) ==
  {id \in MessageIds :
     /\ rows[id].status = "pending" /\ rows[id].protocol = key.protocol
     /\ IF key.byId THEN id = key.id
        ELSE /\ rows[id].nonce = key.nonce
             /\ rows[id].source.sender = key.sender
             /\ rows[id].source.chain = key.chain}

\* Seeded fault: a latency is computed from a source time that is not known.
LatencyUnguarded(row, d) ==
  IF d.time > 0 THEN d.time - row.source.time ELSE row.latency

\* latency_seconds: without both times it stays what it was.  It may come out
\* negative, as the clocks of two chains differ.
Latency(row, d) ==
  IF d.time > 0 /\ row.source.time > 0 THEN d.time - row.source.time
                                       ELSE row.latency

\* Seeded fault: the status is left to a later statement.
DestinationOnly(id, d, status) ==
  rows' = [rows EXCEPT ![id].dest = {d}, ![id].latency = Latency(rows[id], d)]

UpdateDestination(id, d, status) ==
  rows' = [rows EXCEPT ![id] = [@ EXCEPT !.dest    = {d},
                                         !.status  = status,
                                         !.latency = Latency(rows[id], d)]]
=============================================================================
