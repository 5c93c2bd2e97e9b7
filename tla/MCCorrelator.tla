---------------------------- MODULE MCCorrelator ----------------------------
(***************************************************************************)
(* Event logs for Correlator.                                              *)
(***************************************************************************)
EXTENDS Correlator

E(kind, id, chain, time) ==
  [kind |-> kind, id |-> id, chain |-> chain, time |-> time, nonce |-> 0,
   sender |-> "app", src |-> UnknownChain, tokens |-> 0, state |-> 0]

Keyed(e, src, nonce)   == [e EXCEPT !.src = src, !.nonce = nonce]
Ccip(e, tokens, state) == [e EXCEPT !.src = 1, !.tokens = tokens, !.state = state]

\* Keys that are unique.  LayerZero: a token transfer from chain 1 to chain 2, a
\* message to chain 3, and a backfill over the former's first block.  CCIP: an
\* execution that is under way, fails, and is repeated with success.
Distinct ==
  [lz1 |-> <<Keyed(E("PacketSent", "g1", 1, 1), 1, 1),
             [E("OFTSent", "g1", 1, 1) EXCEPT !.sender = "user"],
             Keyed(E("PacketSent", "g2", 1, 2), 1, 2)>>,
   bf1 |-> <<Keyed(E("PacketSent", "g1", 1, 1), 1, 1)>>,
   lz2 |-> <<Keyed(E("PacketReceived", "g1", 2, 2), 1, 1)>>,
   lz3 |-> <<Keyed(E("PacketReceived", "g2", 3, 1), 1, 2)>>,
   cc1 |-> <<Ccip(E("CCIPSendRequested", "c1", 1, 1), 1, 0)>>,
   cc2 |-> <<Ccip(E("ExecutionStateChanged", "c1", 2, 2), 0, 1),
             Ccip(E("ExecutionStateChanged", "c1", 2, 2), 0, 3),
             Ccip(E("ExecutionStateChanged", "c1", 2, 3), 0, 2)>>]

DistinctWorkers == DOMAIN Distinct

ASSUME Events = Distinct => UniqueKeys /\ OneReader /\ OneMessagePerId /\ KeysFit

\* One contract's LayerZero messages to chains 2 and 3: the nonces of the two
\* paths are the same.  The message to chain 2 is not delivered.
SameNonce ==
  [lz1 |-> <<Keyed(E("PacketSent", "g1", 1, 1), 1, 1),
             Keyed(E("PacketSent", "g2", 1, 1), 1, 1)>>,
   lz3 |-> <<Keyed(E("PacketReceived", "g2", 3, 2), 1, 1)>>]

SameNonceWorkers == DOMAIN SameNonce

\* A Wormhole message other than the first of its emitter.
Sequence1 ==
  [wh1 |-> <<E("LogMessagePublished", "v1", 1, 1)>>,
   wh2 |-> <<Keyed(E("TransferRedeemed", "v1", 2, 2), 1, 1)>>]

Sequence1Workers == DOMAIN Sequence1

ASSUME Events = Sequence1 => ~KeysFit
=============================================================================
