----------------------------- MODULE MCQueryApi -----------------------------
(***************************************************************************)
(* Event logs, filters and requests for QueryApi.                          *)
(***************************************************************************)
EXTENDS QueryApi

E(kind, id, chain, time, nonce) ==
  [kind |-> kind, id |-> id, chain |-> chain, time |-> time, nonce |-> nonce,
   sender |-> "alice", src |-> 1, tokens |-> 0, state |-> 0]

\* Two LayerZero messages of chain 1, one of them delivered on chain 2, and an
\* Axelar call.
Logs ==
  [src |-> <<E("PacketSent", "l1", 1, 1, 1), E("PacketSent", "l2", 1, 2, 2)>>,
   dst |-> <<E("PacketReceived", "l1", 2, 2, 1)>>,
   axl |-> <<[E("ContractCallApproved", "a1", 2, 1, 0) EXCEPT !.sender = "bob"]>>]

LogWorkers == DOMAIN Logs
IdRank     == [l1 |-> 1, l2 |-> 2, a1 |-> 3]
Receivers  == [l1 |-> "bob", l2 |-> "bob", a1 |-> "alice"]

ASSUME UniqueKeys /\ OneReader

Every == [protocol |-> {}, status |-> {}, src |-> {}, dst |-> {}, sender |-> {},
        receiver |-> {}, address |-> {}, from |-> {}, to |-> {}]

\* Everything; what has not arrived; what one address sent or received.
WalkFilters == {Every, [Every EXCEPT !.status = {"pending"}], [Every EXCEPT !.address = {"bob"}]}

Layer0 == [prefix |-> "proto", protocol |-> {"layerzero_v2"}, from |-> {}, to |-> {}, limit |-> 0]
Routes == [prefix |-> "routes", protocol |-> {}, from |-> {}, to |-> {}, limit |-> 1]

\* Two requests for the same statistics, one for a window that ends earlier, and
\* one for the busiest route.
AskedStats == [same |-> Layer0, again |-> Layer0, upto1 |-> [Layer0 EXCEPT !.to = {1}],
               routes |-> Routes]

StatsRequests == DOMAIN AskedStats

\* Nothing is asked for with a bound of 0.
ASSUME BoundsTell

SomeRequests == {{}, {"same", "again"}, {"same", "upto1"}, {"routes"}}
=============================================================================
