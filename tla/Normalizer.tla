----------------------------- MODULE Normalizer -----------------------------
(***************************************************************************)
(* internal/normalizer/normalizer.go: what an event of a bridge contract   *)
(* says about a cross-chain message.  A source event carries a message to  *)
(* store; a destination event carries a key to find one with, and what     *)
(* became of it.                                                           *)
(*                                                                         *)
(* An event is a decoder.RawEvent reduced to what this decides on.  Its    *)
(* field id is the message the event is about on its own protocol (GUID,   *)
(* VAA id, payload hash, commandId or messageId), also where the code      *)
(* looks for it by other fields.                                           *)
(***************************************************************************)
EXTENDS Integers

CONSTANTS
  MessageIds,  \* identifiers of messages
  Senders,     \* source addresses
  Chains,      \* EIP-155 ids, positive
  MaxTime,     \* bound: latest block timestamp
  MaxNonce     \* bound: greatest nonce or sequence

\* decoder.RawEvent gives "unknown" for a chain its tables do not list.
UnknownChain == 0

SourceKinds == {"PacketSent", "OFTSent", "ContractCall", "ContractCallApproved",
                "LogMessagePublished", "CCIPSendRequested"}
DestinationKinds == {"PacketReceived", "Executed", "TransferRedeemed",
                     "ExecutionStateChanged"}

\* Times are unix seconds; 0 stands for a block whose timestamp was not to be
\* had (processor.go:162-170).
EventType == [kind   : SourceKinds \cup DestinationKinds,
              id     : MessageIds,
              chain  : Chains,                   \* where it was emitted
              time   : 0..MaxTime,
              nonce  : 0..MaxNonce,              \* nonce, or Wormhole's sequence
              sender : Senders,
              src    : Chains \cup {UnknownChain}, \* src_chain_id
              tokens : Nat,                      \* token_count
              state  : Nat]                      \* CCIP execution state

ProtocolOf(kind) ==
  CASE kind \in {"PacketSent", "OFTSent", "PacketReceived"} -> "layerzero_v2"
    [] kind \in {"ContractCall", "ContractCallApproved", "Executed"} -> "axelar"
    [] kind \in {"LogMessagePublished", "TransferRedeemed"} -> "wormhole"
    [] kind \in {"CCIPSendRequested", "ExecutionStateChanged"} -> "ccip"

Protocols == {"layerzero_v2", "axelar", "wormhole", "ccip"}
Types     == {"message", "token_transfer", "contract_call"}
Columns   == {"token", "amount", "data"}

IsCorrelation(e) == e.kind \in DestinationKinds

\* The events Normalize accepts: a composite key and a CCIP request need a source
\* chain that is known, and a CCIP execution state other than success and failure
\* is an error.  (Every event here has its id, sender and numbers; the errors for
\* those that lack one are left out.)
Normalizes(e) ==
  /\ e.kind \in {"PacketReceived", "TransferRedeemed", "CCIPSendRequested"} =>
       e.src # UnknownChain
  /\ e.kind = "ExecutionStateChanged" => e.state \in {2, 3}

(***************************************************************************)
(* Source events                                                           *)
(***************************************************************************)

MessageType(e) ==
  CASE e.kind \in {"PacketSent", "LogMessagePublished"} -> "message"
    [] e.kind = "OFTSent" -> "token_transfer"
    [] e.kind \in {"ContractCall", "ContractCallApproved"} -> "contract_call"
    [] e.kind = "CCIPSendRequested" ->
         IF e.tokens > 0 THEN "token_transfer" ELSE "message"

\* The payload columns a source event fills.
FilledColumns(e) ==
  CASE e.kind \in {"PacketSent", "LogMessagePublished", "ContractCall"} -> {"data"}
    [] e.kind = "OFTSent" -> {"amount"}
    [] e.kind = "ContractCallApproved" -> {}
    [] e.kind = "CCIPSendRequested" -> IF e.tokens > 0 THEN Columns ELSE {"data"}

\* Only LayerZero's and CCIP's events have their nonce stored.
StoredNonce(e) == IF e.kind \in {"PacketSent", "CCIPSendRequested"} THEN e.nonce ELSE 0

\* Result.Message of a source event.  An approval is emitted on the destination
\* chain, and names the source chain.
SourceMessage(e) ==
  [id       |-> e.id,
   protocol |-> ProtocolOf(e.kind),
   type     |-> MessageType(e),
   source   |-> [chain  |-> IF e.kind \in {"ContractCallApproved", "CCIPSendRequested"}
                              THEN e.src ELSE e.chain,
                 time   |-> e.time,
                 sender |-> e.sender],
   nonce    |-> StoredNonce(e),
   payload  |-> FilledColumns(e)]

(***************************************************************************)
(* Destination events                                                      *)
(***************************************************************************)

\* Result.CorrelationKey: a message id, or nonce, sender and source chain.
CorrelationKey(e) ==
  [protocol |-> ProtocolOf(e.kind),
   byId     |-> e.kind \in {"Executed", "ExecutionStateChanged"},
   id       |-> e.id,
   nonce    |-> e.nonce,
   sender   |-> e.sender,
   chain    |-> e.src]

\* Seeded fault: events without a status of their own leave it empty.
StatusUnset(e) ==
  IF e.kind = "ExecutionStateChanged" /\ e.state = 3 THEN "failed"
  ELSE IF e.kind = "ExecutionStateChanged" THEN "executed" ELSE ""

\* The status a destination event gives its message: executed, unless it says
\* otherwise (correlator.go:68-74).
FinalStatus(e) ==
  IF e.kind = "ExecutionStateChanged" /\ e.state = 3 THEN "failed" ELSE "executed"

\* Result.Message.Destination.
DestinationOf(e) == [chain |-> e.chain, time |-> e.time]
=============================================================================
