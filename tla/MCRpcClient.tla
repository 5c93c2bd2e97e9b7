---------------------------- MODULE MCRpcClient ----------------------------
(***************************************************************************)
(* Chains, endpoints and callers for RpcClient.                            *)
(***************************************************************************)
EXTENDS RpcClient

\* One chain with more endpoints than attempts and one processor, and one that
\* two processors share.
TwoURLLists   == [eth |-> <<"e1", "e2", "e3">>, arb |-> <<"a1", "a2">>]
TwoChains     == DOMAIN TwoURLLists
FiveEndpoints == {"e1", "e2", "e3", "a1", "a2"}
OneOnEth      == [c1 |-> "eth", c2 |-> "arb", c3 |-> "arb"]

\* The shared one by itself.
OneChain     == {"arb"}
SharedURLs   == [arb |-> <<"a1", "a2">>]
ArbEndpoints == {"a1", "a2"}
TwoOnArb     == [c2 |-> "arb", c3 |-> "arb"]
=============================================================================
