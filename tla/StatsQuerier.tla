---------------------------- MODULE StatsQuerier ----------------------------
(***************************************************************************)
(* internal/api/stats_querier.go with its handlers: aggregates over the    *)
(* messages, kept for a while in a cache all requests share.  A count is   *)
(* the set of messages that are counted.  Two requests for the same        *)
(* statistics may compute them side by side; the last to finish has its    *)
(* answer cached.                                                          *)
(***************************************************************************)
EXTENDS MessageTable

CONSTANTS
  Requests,      \* bound: as many requests are made
  Asks,          \* the filter of each request
  TTL,           \* of a cache entry
  MaxQuery,      \* middleware.Timeout: how long a request may take
  MaxNow         \* bound: the API's clock stops here

StatsFilterType == [prefix : {"proto", "routes"}, protocol : SUBSET Protocols,
                    from : SUBSET Nat, to : SUBSET Nat, limit : Nat]

ASSUME StatsAssumption ==
  /\ Asks \in [Requests -> StatsFilterType]
  /\ \A r \in Requests :
       /\ Asks[r].prefix = "proto" => Asks[r].protocol # {}
       /\ \A s \in Asks[r].from, t \in Asks[r].to : s <= t
  /\ TTL \in Nat \ {0} /\ MaxQuery \in Nat /\ MaxNow \in Nat

StatsFilters == {Asks[r] : r \in Requests}

\* A bound that is given is one time, and not 0, which the key writes for none.
BoundsTell ==
  \A f \in StatsFilters : \A bound \in {f.from, f.to} : \A t \in bound :
    bound = {t} /\ t # 0

VARIABLES
  now,     \* the API's clock
  cache,   \* value and expiresAt of each key that has an entry
  request, \* how far each request has come
  served   \* the answer that is being given

statsVars == <<now, cache, request, served>>

Statuses == {"executed", "pending", "failed"}

\* Seeded fault: the window is no part of the key.
KeyOfProtocol(f) == <<f.prefix, f.protocol, 0, 0, f.limit>>

\* cacheKey: a bound that is not given is 0.
CacheKey(f) ==
  <<f.prefix, f.protocol, CHOOSE t \in f.from \cup {0} : f.from \subseteq {t},
    CHOOSE t \in f.to \cup {0} : f.to \subseteq {t}, f.limit>>

\* What a value of the cache holds: counted at some time, sampled for its
\* latency later.
ValueType == [filter : StatsFilters, at : 0..MaxNow,
              counts : [Statuses -> SUBSET MessageIds], sample : SUBSET MessageIds]

Idle     == [stage |-> 0]
Done     == [stage |-> 3]
NoAnswer == [time |-> NoTime]

StatsTypeOK ==
  /\ now \in 0..MaxNow
  /\ \A k \in DOMAIN cache : cache[k].value \in ValueType /\ cache[k].expires \in Nat
  /\ DOMAIN cache \subseteq {CacheKey(f) : f \in StatsFilters}
  /\ request \in [Requests -> {Idle, Done} \cup
       [stage : {1, 2}, since : 0..MaxNow, value : ValueType]]
  /\ served \in {NoAnswer} \cup
       [time : 0..MaxNow, asked : StatsFilters, value : ValueType]

StatsInit ==
  /\ now = 0
  /\ cache = << >>
  /\ request = [r \in Requests |-> Idle]
  /\ served = NoAnswer

(***************************************************************************)
(* statsCache                                                              *)
(***************************************************************************)

\* Seeded fault: an entry does not expire as long as others are used.
ValidUnchecked(e) == TRUE

Valid(e) == now < e.expires

\* evict, after each set.
Evicted(entries) ==
  [k \in {x \in DOMAIN entries : now <= entries[x].expires} |-> entries[k]]

\* set, then evict.
Cached(key, value) ==
  Evicted([k \in DOMAIN cache \cup {key} |->
             IF k = key THEN [value |-> value, expires |-> now + TTL] ELSE cache[k]])

Answer(r, value) ==
  /\ served' = [time |-> now, asked |-> Asks[r], value |-> value]
  /\ request' = [request EXCEPT ![r] = Done]

(***************************************************************************)
(* The queries                                                             *)
(***************************************************************************)

\* Messages the statistics are about; of a route, only what was delivered.
Selected(f) ==
  {id \in Stored : /\ Fits(f.protocol, rows[id].protocol)
                   /\ InWindow(f, id)
                   /\ f.prefix = "routes" => rows[id].dest # {}}

Counts(S) == [s \in Statuses |-> {id \in S : rows[id].status = s}]

\* md.latency_seconds > 0
Timed(S) == {id \in S : rows[id].latency > 0}

\* The latency query averages over executed messages.
Sample(f) == Timed({id \in Selected(f) : rows[id].status = "executed"})

\* GROUP BY source and destination chain.
RouteOf(id) == <<rows[id].source.chain, CHOOSE c \in Chains : \E d \in rows[id].dest : d.chain = c>>

OnRoute(f, route) == {id \in Selected(f) : RouteOf(id) = route}

\* ORDER BY total DESC LIMIT: the busiest routes, ties broken anyhow.
TopRoutes(f) ==
  LET routes == {RouteOf(id) : id \in Selected(f)}
      Total(route) == Cardinality(OnRoute(f, route)) IN
    {T \in SUBSET routes :
       /\ Cardinality(T) = IF Cardinality(routes) < f.limit THEN Cardinality(routes)
                                                            ELSE f.limit
       /\ \A a \in T, b \in routes \ T : Total(a) >= Total(b)}

\* A request is answered from the cache ...
AnswerFromCache(r) ==
  /\ request[r] = Idle
  /\ LET key == CacheKey(Asks[r]) IN
       /\ key \in DOMAIN cache /\ Valid(cache[key])
       /\ Answer(r, cache[key].value)
  /\ UNCHANGED <<tableVars, now, cache>>

\* ... or goes to the table.
Miss(r) ==
  /\ request[r] = Idle
  /\ LET key == CacheKey(Asks[r]) IN key \in DOMAIN cache => ~Valid(cache[key])
  /\ request' = [request EXCEPT ![r] =
       [stage |-> 1, since |-> now,
        value |-> [filter |-> Asks[r], at |-> now, counts |-> Counts({}), sample |-> {}]]]
  /\ served' = NoAnswer
  /\ UNCHANGED <<tableVars, now, cache>>

InTime(r) == now <= request[r].since + MaxQuery

\* Seeded fault: the latencies are queried first.
QueriesSwapped == <<"latency", "counts">>

\* GetProtocolStats runs two queries, and no transaction around them.
Queries == <<"counts", "latency">>

QueryProtocol(r) ==
  /\ request[r].stage \in {1, 2} /\ Asks[r].prefix = "proto"
  /\ InTime(r)
  /\ LET f     == Asks[r]
         value == IF Queries[request[r].stage] = "counts"
                    THEN [request[r].value EXCEPT !.at = now, !.counts = Counts(Selected(f))]
                    ELSE [request[r].value EXCEPT !.sample = Sample(f)] IN
       \/ /\ request[r].stage = 1
          /\ request' = [request EXCEPT ![r] = [@ EXCEPT !.stage = 2, !.value = value]]
          /\ served' = NoAnswer
          /\ UNCHANGED cache
       \/ /\ request[r].stage = 2
          /\ cache' = Cached(CacheKey(f), value)
          /\ Answer(r, value)
  /\ UNCHANGED <<tableVars, now>>

\* GetRoutesStats runs one.
QueryRoutes(r) ==
  /\ request[r].stage = 1 /\ Asks[r].prefix = "routes"
  /\ InTime(r)
  /\ LET f == Asks[r] IN
       \E T \in TopRoutes(f) :
         LET S     == UNION {OnRoute(f, route) : route \in T}
             value == [filter |-> f, at |-> now, counts |-> Counts(S), sample |-> Timed(S)]
         IN /\ cache' = Cached(CacheKey(f), value)
            /\ Answer(r, value)
  /\ UNCHANGED <<tableVars, now>>

\* A query fails, or the request has taken too long: nothing is cached.
QueryFails(r) ==
  /\ request[r].stage \in {1, 2}
  /\ request' = [request EXCEPT ![r] = Done]
  /\ served' = NoAnswer
  /\ UNCHANGED <<tableVars, now, cache>>

TimePasses ==
  /\ now < MaxNow
  /\ now' = now + 1
  /\ served' = NoAnswer
  /\ UNCHANGED <<tableVars, cache, request>>

Handle(r) ==
  AnswerFromCache(r) \/ Miss(r) \/ QueryProtocol(r) \/ QueryRoutes(r) \/ QueryFails(r)

(***************************************************************************)
(* Properties                                                              *)
(***************************************************************************)

\* What is served was counted less than a cache entry's life and one request's
\* time ago, also when a slow request replaces the entry of a later one that
\* was faster (stats_querier.go:92-94, 118-125).
ServedFresh ==
  served # NoAnswer => served.time - served.value.at < TTL + MaxQuery

\* An answer is for the window, the protocol and the limit that were asked for, if
\* no bound of 0 is asked for (stats_querier.go:143-153).
AnswersOwnFilter == served # NoAnswer => served.value.filter = served.asked

\* The two queries of GetProtocolStats see two states of the table, and yet every
\* message counted as executed is in the sample the latencies come from, unless
\* it has no positive latency.
ExecutedAreSampled ==
  served # NoAnswer =>
    \A id \in served.value.counts["executed"] :
      id \in served.value.sample \/ rows[id].latency <= 0

\* A route counts only messages that have come to an end (stats_querier.go:352).
RoutesConcluded ==
  served # NoAnswer /\ served.asked.prefix = "routes" =>
    served.value.counts["pending"] = {}
=============================================================================
