----------------------------- MODULE RpcClient -----------------------------
(***************************************************************************)
(* internal/chain/client.go and manager.go: one Client per chain, whose    *)
(* list of endpoints all goroutines that read the chain share.  A call is  *)
(* tried three times; after each failing attempt the caller rotates the    *)
(* list, under a lock that it does not hold while it asks the endpoint.    *)
(*                                                                         *)
(* What an endpoint answers is left to SourceChain and Processor; here it  *)
(* answers or does not.                                                    *)
(***************************************************************************)
EXTENDS Integers, Sequences, FiniteSets

CONSTANTS
  Chains,     \* configured chains
  URLs,       \* chains.<id>.rpc_urls
  Endpoints,  \* the EthClients that can be dialled, another for each entry
  Reliable,   \* endpoints that answer every request
  Callers,    \* goroutines that read a chain
  Main,       \* the goroutine that connects
  ChainOf,    \* the chain each caller reads
  MaxRetries  \* maxRetries

NoEndpoint == "none"

ASSUME RpcAssumption ==
  /\ URLs \in [Chains -> Seq(Endpoints)]
  /\ \A ch, other \in Chains : \A i \in DOMAIN URLs[ch], j \in DOMAIN URLs[other] :
       URLs[ch][i] = URLs[other][j] => ch = other /\ i = j
  /\ NoEndpoint \notin Endpoints
  /\ Reliable \subseteq Endpoints
  /\ Main \notin Callers
  /\ ChainOf \in [Callers -> Chains]
  /\ MaxRetries \in Nat \ {0}

VARIABLES
  stage,      \* of the Manager: connecting, running, failed or closed
  endpoints,  \* each Client's list; the first is the primary
  open,       \* endpoints with an open connection
  pc,         \* where each goroutine is in withRetry
  using,      \* the chain whose Client it calls
  tried,      \* the endpoints its call has asked without success, in order
  asked,      \* the endpoint it waits for
  result,     \* of its last call
  cancelled   \* the context has been cancelled

callVars == <<pc, using, tried, asked, result>>
rpcVars  == <<stage, endpoints, open, callVars, cancelled>>

Goroutines == Callers \cup {Main}

ElementsOf(s) == {s[i] : i \in DOMAIN s}

TypeOK ==
  /\ stage \in {"connecting", "running", "failed", "closed"}
  /\ endpoints \in [Chains -> Seq(Endpoints)]
  /\ open \subseteq Endpoints
  /\ pc \in [Goroutines -> {"idle", "wait", "sent", "failover", "backoff"}]
  /\ using \in [Goroutines -> Chains]
  /\ tried \in [Goroutines -> UNION {[1..n -> Endpoints] : n \in 0..MaxRetries}]
  /\ asked \in [Goroutines -> Endpoints \cup {NoEndpoint}]
  /\ result \in [Goroutines -> {"none", "ok", "error", "cancelled"}]
  /\ cancelled \in BOOLEAN

Init ==
  /\ stage = "connecting"
  /\ endpoints = [ch \in Chains |-> <<>>]
  /\ open = {}
  /\ pc = [g \in Goroutines |-> "idle"]
  /\ using \in {u \in [Goroutines -> Chains] : \A c \in Callers : u[c] = ChainOf[c]}
  /\ tried = [g \in Goroutines |-> <<>>]
  /\ asked = [g \in Goroutines |-> NoEndpoint]
  /\ result = [g \in Goroutines |-> "none"]
  /\ cancelled = FALSE

(***************************************************************************)
(* withRetry                                                               *)
(***************************************************************************)

Goto(g, label) == pc' = [pc EXCEPT ![g] = label]

Begin(g, ch) ==
  /\ Goto(g, "wait")
  /\ using' = [using EXCEPT ![g] = ch]
  /\ tried' = [tried EXCEPT ![g] = <<>>]
  /\ result' = [result EXCEPT ![g] = "none"]
  /\ UNCHANGED asked

Return(g, r) ==
  /\ Goto(g, "idle")
  /\ tried' = [tried EXCEPT ![g] = IF r = "error" THEN @ ELSE <<>>]
  /\ asked' = [asked EXCEPT ![g] = NoEndpoint]
  /\ result' = [result EXCEPT ![g] = r]
  /\ UNCHANGED using

\* LatestConfirmedBlock, FetchLogs or BlockHeader: a goroutine calls again and
\* again, whatever became of the last call.
Call(c) ==
  /\ stage = "running" /\ pc[c] = "idle" /\ ~cancelled
  /\ Begin(c, ChainOf[c])
  /\ UNCHANGED <<stage, endpoints, open, cancelled>>

\* The rate limiter lets the attempt through, and it goes to the primary.
Ask(g) ==
  /\ pc[g] = "wait" /\ ~cancelled
  /\ asked' = [asked EXCEPT ![g] = Head(endpoints[using[g]])]
  /\ Goto(g, "sent")
  /\ UNCHANGED <<stage, endpoints, open, using, tried, result, cancelled>>

Answered(g) ==
  /\ pc[g] = "sent"
  /\ Return(g, "ok")
  /\ UNCHANGED <<stage, endpoints, open, cancelled>>

\* The endpoint answers with an error, or not at all.
NotAnswered(g) ==
  /\ pc[g] = "sent" /\ ~cancelled /\ asked[g] \notin Reliable
  /\ tried' = [tried EXCEPT ![g] = Append(@, asked[g])]
  /\ asked' = [asked EXCEPT ![g] = NoEndpoint]
  /\ Goto(g, "failover")
  /\ UNCHANGED <<stage, endpoints, open, using, result, cancelled>>

\* Seeded fault: the list is cut instead of rotated.
RotateAndDrop(s) == IF Len(s) > 1 THEN Tail(s) ELSE s

\* Seeded fault: the primary changes places with the second endpoint.
SwapFirstTwo(s) ==
  [i \in DOMAIN s |-> IF Len(s) > 1 /\ i <= 2 THEN s[3 - i] ELSE s[i]]

\* failover.
Rotate(s) == IF Len(s) > 1 THEN Append(Tail(s), Head(s)) ELSE s

\* Seeded fault: the failover waits for the retries to be used up, as
\* architecture.md:62 has it.
FailoverAfterRetries(g) ==
  /\ pc[g] = "failover"
  /\ IF Len(tried[g]) < MaxRetries
       THEN /\ Goto(g, "backoff")
            /\ UNCHANGED <<endpoints, using, tried, asked, result>>
       ELSE /\ endpoints' = [endpoints EXCEPT ![using[g]] = Rotate(@)]
            /\ Return(g, "error")
  /\ UNCHANGED <<stage, open, cancelled>>

\* Seeded fault: one attempt too many.
FailoverOnceMore(g) ==
  /\ pc[g] = "failover"
  /\ endpoints' = [endpoints EXCEPT ![using[g]] = Rotate(@)]
  /\ IF Len(tried[g]) <= MaxRetries
       THEN Goto(g, "backoff") /\ UNCHANGED <<using, tried, asked, result>>
       ELSE Return(g, "error")
  /\ UNCHANGED <<stage, open, cancelled>>

\* After a failing attempt, the last one included, the list is rotated, whoever
\* has rotated it since this caller read its first element.
Failover(g) ==
  /\ pc[g] = "failover"
  /\ endpoints' = [endpoints EXCEPT ![using[g]] = Rotate(@)]
  /\ IF Len(tried[g]) < MaxRetries
       THEN Goto(g, "backoff") /\ UNCHANGED <<using, tried, asked, result>>
       ELSE Return(g, "error")
  /\ UNCHANGED <<stage, open, cancelled>>

Retry(g) ==
  /\ pc[g] = "backoff" /\ ~cancelled
  /\ Goto(g, "wait")
  /\ UNCHANGED <<stage, endpoints, open, using, tried, asked, result, cancelled>>

\* A cancelled context ends the call at the limiter, at the endpoint, or while
\* it backs off.
GiveUp(g) ==
  /\ cancelled /\ pc[g] \in {"wait", "sent", "backoff"}
  /\ Return(g, "cancelled")
  /\ UNCHANGED <<stage, endpoints, open, cancelled>>

WithRetry(g) ==
  Ask(g) \/ Answered(g) \/ NotAnswered(g) \/ Failover(g) \/ Retry(g) \/ GiveUp(g)

(***************************************************************************)
(* NewManager, NewClient and Close                                         *)
(***************************************************************************)

Dialled(ch) == ElementsOf(endpoints[ch])

\* s is what is left of t when some of its places are taken out.
IsSubsequence(s, t) ==
  \E place \in [DOMAIN s -> DOMAIN t] :
    /\ \A i, j \in DOMAIN s : i < j => place[i] < place[j]
    /\ \A i \in DOMAIN s : s[i] = t[place[i]]

\* NewClient: the URLs that can be dialled make the list, and the head of the
\* chain is asked for.
Dial(ch) ==
  /\ stage = "connecting" /\ pc[Main] = "idle" /\ endpoints[ch] = <<>>
  /\ result[Main] \in {"none", "ok"}
  /\ \E n \in 1..Len(URLs[ch]) : \E reached \in [1..n -> ElementsOf(URLs[ch])] :
       /\ IsSubsequence(reached, URLs[ch])
       /\ endpoints' = [endpoints EXCEPT ![ch] = reached]
       /\ open' = open \cup ElementsOf(reached)
  /\ Begin(Main, ch)
  /\ UNCHANGED <<stage, cancelled>>

\* Seeded fault: NewClient does not close what it dialled.
LeakingStartFails ==
  /\ stage = "connecting" /\ pc[Main] = "idle"
  /\ result[Main] \notin {"none", "ok"}
  /\ stage' = "failed"
  /\ open' = open \ UNION {Dialled(ch) : ch \in Chains \ {using[Main]}}
  /\ UNCHANGED <<endpoints, callVars, cancelled>>

\* Nothing can be dialled, or nothing that was dialled answers: NewClient closes
\* its own connections, NewManager those of the Clients it has.
StartFails ==
  /\ stage = "connecting" /\ pc[Main] = "idle"
  /\ \/ result[Main] \notin {"none", "ok"}
     \/ \E ch \in Chains : endpoints[ch] = <<>>
  /\ stage' = "failed"
  /\ open' = open \ UNION {Dialled(ch) : ch \in Chains}
  /\ UNCHANGED <<endpoints, callVars, cancelled>>

Connected ==
  /\ stage = "connecting" /\ pc[Main] = "idle" /\ result[Main] = "ok"
  /\ \A ch \in Chains : endpoints[ch] # <<>>
  /\ stage' = "running"
  /\ UNCHANGED <<endpoints, open, callVars, cancelled>>

\* main closes the Manager when Start has returned, which waits for every
\* goroutine (indexer.go:180).
Close ==
  /\ stage = "running" /\ cancelled
  /\ \A c \in Callers : pc[c] = "idle"
  /\ stage' = "closed"
  /\ open' = open \ UNION {Dialled(ch) : ch \in Chains}
  /\ UNCHANGED <<endpoints, callVars, cancelled>>

Cancel ==
  /\ ~cancelled
  /\ cancelled' = TRUE
  /\ UNCHANGED <<stage, endpoints, open, callVars>>

Next ==
  \/ \E ch \in Chains : Dial(ch)
  \/ StartFails \/ Connected \/ Close \/ Cancel
  \/ \E c \in Callers : Call(c)
  \/ \E g \in Goroutines : WithRetry(g)

Spec == Init /\ [][Next]_rpcVars

\* Goroutines that can run do, and a request comes to an answer or an error; the
\* code sets it no time limit.
FairSpec == Spec /\ \A c \in Callers : WF_rpcVars(Call(c)) /\ WF_rpcVars(WithRetry(c))

(***************************************************************************)
(* Properties                                                              *)
(***************************************************************************)

\* No other goroutine calls the same Client.
Alone(g) == g \in Callers /\ \A c \in Callers \ {g} : ChainOf[c] # ChainOf[g]

\* The list s, begun after its k-th element.
From(s, k) ==
  [i \in DOMAIN s |-> IF i + k <= Len(s) THEN s[i + k] ELSE s[i + k - Len(s)]]

\* However many goroutines rotate a Client's list, no endpoint that was dialled
\* is lost or comes twice, and all keep their cyclic order (client.go:133-143).
NoEndpointLost ==
  \A ch \in Chains : stage \in {"connecting", "running"} /\ endpoints[ch] # <<>> =>
    /\ Dialled(ch) = ElementsOf(URLs[ch]) \cap open
    /\ \E k \in 0..Len(URLs[ch]) - 1 : IsSubsequence(endpoints[ch], From(URLs[ch], k))

\* A request is never in flight on a connection that has been closed, and a
\* Manager that could not be started, or is closed, has left no connection open.
ConnectionsKept ==
  /\ \A g \in Goroutines : pc[g] = "sent" => asked[g] \in open
  /\ stage \in {"failed", "closed"} => open = {}

\* withRetry (client.go:255-256): the next attempt uses a different endpoint.
TriesAnother(g) ==
  \A i \in 1..Len(tried[g]) - 1 :
    Len(endpoints[using[g]]) > 1 => tried[g][i + 1] # tried[g][i]

\* ... which is so for a goroutine that has the Client to itself, as the one of
\* cmd/backfill has (those of cmd/indexer share their chain's): its call fails
\* only when it has asked as many endpoints as it has attempts, or all of them,
\* so that one endpoint that answers among the next MaxRetries is found.
LoneCallerTriesAll ==
  \A c \in Callers :
    Alone(c) /\ result[c] = "error" =>
      LET n == Len(endpoints[using[c]]) IN
        Cardinality(ElementsOf(tried[c])) = IF n < MaxRetries THEN n ELSE MaxRetries

\* A goroutine that has its Client to itself (cmd/backfill) is answered in the
\* end if one of the endpoints that were dialled always answers, however many do
\* not: a call that fails leaves the list where the next one goes on.
LoneCallerAnswered ==
  \A c \in Callers :
    Alone(c) /\ stage = "running" /\ Dialled(ChainOf[c]) \cap Reliable # {}
      ~> result[c] = "ok" \/ cancelled

\* With several goroutines on one Client, the next attempt need not use another
\* endpoint: both fail on the first, both rotate, and a list of two is where it
\* was (client.go:257, 282).
NextAttemptElsewhere == \A c \in Callers : TriesAnother(c)
=============================================================================
