--------------------------- MODULE MessageQuerier ---------------------------
(***************************************************************************)
(* internal/api/message_querier.go and address_trace_querier.go with their *)
(* handlers: one message, its trace, and lists that are cut into pages.    *)
(*                                                                         *)
(* Every request is one SELECT, so it is one step, or, where nothing is    *)
(* kept of the answer, an operator on the table.  A client that walks      *)
(* through a list sends the cursor of one page with the request for the    *)
(* next; the cursor's encoding loses nothing of (created_at, message_id).  *)
(***************************************************************************)
EXTENDS MessageTable

CONSTANTS
  Rank,        \* the order of message ids
  ReceiverOf,  \* the receiver a PacketReceived or TransferRedeemed of a message names
  Filters,     \* filters a client may walk with
  Limits,      \* limits a client may ask for
  MaxLimit     \* the limit of a page, whatever is asked for

FilterType == [protocol : SUBSET Protocols, status : SUBSET {"pending", "executed", "failed"},
               src : SUBSET Chains, dst : SUBSET Chains, sender : SUBSET Senders,
               receiver : SUBSET Senders, address : SUBSET Senders,
               from : SUBSET Nat, to : SUBSET Nat]

ASSUME QuerierAssumption ==
  /\ Rank \in [MessageIds -> Nat]
  /\ \A i, j \in MessageIds : Rank[i] = Rank[j] => i = j
  /\ ReceiverOf \in [MessageIds -> Senders]
  /\ Filters \subseteq FilterType
  /\ Limits \subseteq Nat \ {0}
  /\ MaxLimit \in Nat \ {0}

VARIABLE walk  \* a client's walk through the pages of a list

(***************************************************************************)
(* One message                                                             *)
(***************************************************************************)

\* GetByID: the row, with a destination if it has one.
Message(id) == [status      |-> rows[id].status,
                sent        |-> rows[id].source,
                destination |-> rows[id].dest,
                latency     |-> rows[id].latency]

\* GetTrace: the events that were seen; a latency that is not positive is left
\* out.
Trace(id) == [status  |-> Message(id).status,
              events  |-> {[type |-> "sent", at |-> Message(id).sent]}
                            \cup {[type |-> "received", at |-> d] : d \in Message(id).destination},
              latency |-> {l \in {Message(id).latency} : l > 0}]

(***************************************************************************)
(* Lists                                                                   *)
(***************************************************************************)

\* message_destinations.receiver: the other protocols' destination events name none.
Receiver(id) ==
  IF rows[id].dest # {} /\ rows[id].protocol \in {"layerzero_v2", "wormhole"}
    THEN {ReceiverOf[id]} ELSE {}

\* GetAddressHistory's UNION: the address sent or received the message.
Involves(address, id) == address \in {rows[id].source.sender} \cup Receiver(id)

\* WHERE.
Matches(f, id) ==
  /\ id \in Stored
  /\ Fits(f.protocol, rows[id].protocol)
  /\ Fits(f.status, rows[id].status)
  /\ Fits(f.src, rows[id].source.chain)
  /\ Fits(f.sender, rows[id].source.sender)
  /\ f.dst # {} => \E d \in rows[id].dest : d.chain \in f.dst
  /\ f.receiver # {} => f.receiver \cap Receiver(id) # {}
  /\ \A a \in f.address : Involves(a, id)
  /\ InWindow(f, id)

SortKey(id) == <<created[id], Rank[id]>>

\* (created_at, message_id) < (...): SQL compares rows lexicographically.
Less(k, l) == k[1] < l[1] \/ (k[1] = l[1] /\ k[2] < l[2])

Ahead(order, k, l) == IF order = "asc" THEN Less(k, l) ELSE Less(l, k)

\* ORDER BY and LIMIT n.
FirstOf(S, n, order) ==
  {id \in S : Cardinality({j \in S : Ahead(order, SortKey(j), SortKey(id))}) < n}

\* Seeded fault: the cursor is that of the extra row.
CursorOfExtra(hits, page) == {SortKey(id) : id \in hits \ page}

\* next_cursor, if one more row was found than fits: the last row of the page.
NextCursor(hits, page) ==
  IF hits = page THEN {}
  ELSE {SortKey(id) : id \in {i \in page : \A j \in page \ {i} :
                                Ahead(walk.order, SortKey(j), SortKey(i))}}

\* Seeded fault: no clamp.
Unclamped(limit) == limit

\* The handlers clamp the limit.
PageSize(limit) == IF limit > MaxLimit THEN MaxLimit ELSE limit

NoWalk == [stage |-> "none"]

WalkType ==
  {NoWalk} \cup
  [stage : {"open", "end"}, filter : Filters, order : {"asc", "desc"}, size : 1..MaxLimit,
   cursor   : SUBSET ((0..MaxClock) \X Nat),
   page     : SUBSET MessageIds,   \* the last page
   earlier  : SUBSET MessageIds,   \* the pages before it
   expected : SUBSET MessageIds]   \* what matched at the start and at every page since

QuerierTypeOK == TableTypeOK /\ walk \in WalkType

\* ListMessagesHandler or GetAddressHistoryHandler, before the first page.
StartWalk ==
  /\ walk = NoWalk
  /\ \E f \in Filters, order \in {"asc", "desc"}, limit \in Limits :
       walk' = [stage |-> "open", filter |-> f, order |-> order,
                size |-> PageSize(limit), cursor |-> {}, page |-> {}, earlier |-> {},
                expected |-> {id \in MessageIds : Matches(f, id)}]
  /\ UNCHANGED tableVars

\* List or GetAddressHistory.
NextPage ==
  /\ walk.stage = "open"
  /\ LET matching == {id \in MessageIds : Matches(walk.filter, id)}
         hits     == FirstOf({id \in matching : \A c \in walk.cursor :
                                Ahead(walk.order, c, SortKey(id))},
                             walk.size + 1, walk.order)
         page     == FirstOf(hits, walk.size, walk.order)
         cur      == NextCursor(hits, page)
     IN walk' = [walk EXCEPT !.stage    = IF cur = {} THEN "end" ELSE "open",
                             !.cursor   = cur,
                             !.page     = page,
                             !.earlier  = @ \cup walk.page,
                             !.expected = @ \cap matching]
  /\ UNCHANGED tableVars

(***************************************************************************)
(* Properties                                                              *)
(***************************************************************************)

\* No message comes twice in a walk, whatever is written, replayed or concluded
\* between two pages, and however many rows have one created_at
\* (message_querier.go:154-180).
NoRepeats == walk # NoWalk => walk.page \cap walk.earlier = {}

\* A walk that was followed to its end has shown every message that was there
\* when it started and matched as long as it lasted.  (It may miss messages that
\* are committed during the walk, also when it goes up: created_at is taken
\* before the commit.)
WalkComplete ==
  walk # NoWalk /\ walk.stage = "end" => walk.expected \subseteq walk.page \cup walk.earlier

\* A trace shows the arrival, and a latency, only of a message that is not
\* pending, and always shows the arrival then (address_trace_querier.go:208-215,
\* 234-236): readers never see half of UpdateDestination.
TraceTellsOutcome ==
  \A id \in Stored :
    /\ Trace(id).status # "pending" <=> \E e \in Trace(id).events : e.type = "received"
    /\ Trace(id).latency # {} => Trace(id).status # "pending"
=============================================================================
