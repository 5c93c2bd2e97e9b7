--------------------------- MODULE QueryApiProofs ---------------------------
(***************************************************************************)
(* For any number of requests and filters, any messages and any lengths of *)
(* the cache's and a request's life: statistics are served fresh, for the  *)
(* filter that was asked for, and of one piece.                            *)
(***************************************************************************)
EXTENDS MessageQuerierProofs

RequestType == {Idle, Done} \cup
  [stage : {1, 2}, since : 0..MaxNow, value : ValueType]

\* A request that has come to the table started no later than now, and counted
\* no earlier than it started.
Counted(q, t) == q.stage \in {1, 2} => q.since <= t /\ q.since <= q.value.at

\* An entry expires within its life and one request's time of its counting.
Timely(e) == e.expires <= e.value.at + TTL + MaxQuery

FreshInv ==
  /\ workload \in Workloads
  /\ StatsTypeOK
  /\ \A r \in Requests : Counted(request[r], now)
  /\ \A k \in DOMAIN cache : Timely(cache[k])
  /\ ServedFresh

(***************************************************************************)
(* The values                                                              *)
(***************************************************************************)

LEMMA SelectedMessages == \A f : Selected(f) \subseteq MessageIds /\ Sample(f) \subseteq MessageIds
  BY DEF Selected, Sample, Timed, Stored

LEMMA CountsType ==
  ASSUME NEW S \in SUBSET MessageIds
  PROVE  Counts(S) \in [Statuses -> SUBSET MessageIds]
  BY DEF Counts

LEMMA ValueShape ==
  ASSUME NEW v \in ValueType
  PROVE  v.at \in 0..MaxNow
  BY DEF ValueType

(***************************************************************************)
(* The cache                                                               *)
(***************************************************************************)

\* Setting and evicting keeps what is known of entries, if it holds of the new
\* one.
LEMMA CachedEntries ==
  ASSUME StatsTypeOK, \A k \in DOMAIN cache : Timely(cache[k]),
         NEW f \in StatsFilters, NEW value \in ValueType,
         now <= value.at + MaxQuery
  PROVE  LET new == Cached(CacheKey(f), value) IN
           /\ DOMAIN new \subseteq {CacheKey(g) : g \in StatsFilters}
           /\ \A k \in DOMAIN new :
                /\ new[k].value \in ValueType /\ new[k].expires \in Nat
                /\ Timely(new[k])
<1> DEFINE key == CacheKey(f)
           entry == [value |-> value, expires |-> now + TTL]
           entries == [k \in DOMAIN cache \cup {key} |-> IF k = key THEN entry ELSE cache[k]]
           new == Cached(key, value)
<1>1. entry.value \in ValueType /\ entry.expires \in Nat /\ Timely(entry)
  BY StatsAssumption, ValueShape DEF Timely, StatsTypeOK
<1>2. \A k \in DOMAIN entries :
        /\ entries[k].value \in ValueType /\ entries[k].expires \in Nat
        /\ Timely(entries[k])
  <2> SUFFICES ASSUME NEW k \in DOMAIN cache \cup {key}
               PROVE  /\ entries[k].value \in ValueType /\ entries[k].expires \in Nat
                      /\ Timely(entries[k])
    OBVIOUS
  <2> HIDE DEF entry
  <2>1. CASE k = key
    <3>1. entries[k] = entry
      BY <2>1
    <3> QED
      BY <3>1, <1>1
  <2>2. CASE k # key
    <3>1. k \in DOMAIN cache /\ entries[k] = cache[k]
      BY <2>2
    <3> QED
      BY <3>1 DEF StatsTypeOK
  <2> QED
    BY <2>1, <2>2
<1>3. new = [k \in {x \in DOMAIN entries : now <= entries[x].expires} |-> entries[k]]
  BY DEF Cached, Evicted
<1>4. DOMAIN entries \subseteq {CacheKey(g) : g \in StatsFilters}
  BY DEF StatsTypeOK
<1> HIDE DEF entries, new
<1> QED
  BY <1>2, <1>3, <1>4 DEF new

(***************************************************************************)
(* The steps                                                               *)
(***************************************************************************)

\* A request that moves on disturbs only itself.
LEMMA RequestMoves ==
  ASSUME NEW t, NEW r \in Requests, NEW q \in RequestType,
         request \in [Requests -> RequestType],
         \A s \in Requests : Counted(request[s], t), Counted(q, t),
         request' = [request EXCEPT ![r] = q]
  PROVE  /\ request' \in [Requests -> RequestType]
         /\ \A s \in Requests : Counted(request'[s], t)
<1>1. \A s \in Requests : request'[s] = IF s = r THEN q ELSE request[s]
  OBVIOUS
<1> QED
  BY <1>1

LEMMA FreshInit == ApiInit => FreshInv
<1> SUFFICES ASSUME ApiInit
             PROVE  FreshInv
  OBVIOUS
<1>1. StatsTypeOK
  BY StatsAssumption DEF ApiInit, StatsInit, StatsTypeOK
<1> QED
  BY <1>1 DEF ApiInit, StatsInit, FreshInv, Counted, ServedFresh, Idle

LEMMA FreshStep == FreshInv /\ [ApiNext]_apiVars => FreshInv'
<1> SUFFICES ASSUME FreshInv, [ApiNext]_apiVars
             PROVE  FreshInv'
  OBVIOUS
<1> USE StatsAssumption
<1>a. request \in [Requests -> RequestType] /\ now \in 0..MaxNow
  BY DEF FreshInv, StatsTypeOK, RequestType
<1>b. \A s \in Requests : Counted(request[s], now)
  BY DEF FreshInv
<1>c. workload' \in Workloads
  BY DEF FreshInv, ApiNext, WalkPages, AskStats, apiVars
\* A step that leaves the cache as it is and gives no answer.
<1>d. ASSUME UNCHANGED <<now, cache>>, served' \in {served, NoAnswer},
             request' \in [Requests -> RequestType],
             \A s \in Requests : Counted(request'[s], now)
      PROVE  FreshInv'
  <2>1. StatsTypeOK'
    BY <1>d DEF FreshInv, StatsTypeOK, RequestType, ValueType
  <2>2. ServedFresh'
    BY <1>d DEF FreshInv, ServedFresh, NoAnswer
  <2>3. \A k \in DOMAIN cache' : Timely(cache'[k])
    BY <1>d DEF FreshInv
  <2> QED
    BY <1>c, <1>d, <2>1, <2>2, <2>3 DEF FreshInv
<1>1. CASE WalkPages \/ UNCHANGED apiVars
  <2>1. UNCHANGED statsVars
    BY <1>1 DEF WalkPages, apiVars
  <2> QED
    BY <2>1, <1>a, <1>b, <1>d DEF statsVars
<1>2. ASSUME served' = NoAnswer, UNCHANGED <<now, cache, request>>
      PROVE  FreshInv'
  BY <1>2, <1>a, <1>b, <1>d
<1>3. CASE TimePasses
  <2>1. /\ now' = now + 1 /\ now' \in 0..MaxNow /\ served' = NoAnswer
        /\ UNCHANGED <<cache, request>>
    BY <1>3, <1>a DEF TimePasses
  <2>2. StatsTypeOK'
    BY <2>1 DEF FreshInv, StatsTypeOK, ValueType
  <2>3. \A s \in Requests : Counted(request'[s], now')
    <3> SUFFICES ASSUME NEW s \in Requests, request[s].stage \in {1, 2}
                 PROVE  request[s].since <= now + 1 /\ request[s].since <= request[s].value.at
      BY <2>1 DEF Counted
    <3>1. request[s].since \in 0..MaxNow
      BY <1>a DEF RequestType, Idle, Done
    <3> QED
      BY <3>1, <1>a, <1>b DEF Counted
  <2> QED
    BY <1>c, <2>1, <2>2, <2>3 DEF FreshInv, ServedFresh
<1>4. ASSUME NEW r \in Requests, NEW v \in ValueType, NEW c,
             Answer(r, v), UNCHANGED now, now - v.at < TTL + MaxQuery,
             cache' = c,
             DOMAIN c \subseteq {CacheKey(g) : g \in StatsFilters},
             \A k \in DOMAIN c : /\ c[k].value \in ValueType /\ c[k].expires \in Nat
                                  /\ Timely(c[k])
      PROVE  FreshInv'
  <2>1. served' = [time |-> now, asked |-> Asks[r], value |-> v]
    BY <1>4 DEF Answer
  <2>2. request' = [request EXCEPT ![r] = Done]
    BY <1>4 DEF Answer
  <2>3. Done \in RequestType /\ Counted(Done, now)
    BY DEF RequestType, Counted, Done
  <2>4. request' \in [Requests -> RequestType] /\ \A s \in Requests : Counted(request'[s], now)
    BY <2>2, <2>3, <1>a, <1>b, RequestMoves
  <2>5. served' \in [time : 0..MaxNow, asked : StatsFilters, value : ValueType]
    BY <2>1, <1>4, <1>a DEF StatsFilters
  <2>6. StatsTypeOK'
    BY <2>4, <2>5, <1>4, <1>a DEF StatsTypeOK, RequestType, ValueType
  <2>7. ServedFresh'
    BY <2>1, <1>4, <1>a, ValueShape DEF ServedFresh
  <2> QED
    BY <2>4, <2>6, <2>7, <1>c, <1>4 DEF FreshInv
<1>5. ASSUME NEW r \in Requests, AnswerFromCache(r)
      PROVE  FreshInv'
  <2> DEFINE key == CacheKey(Asks[r])
  <2>1. /\ key \in DOMAIN cache /\ now < cache[key].expires
        /\ Answer(r, cache[key].value)
        /\ UNCHANGED <<now, cache>>
    BY <1>5 DEF AnswerFromCache, Valid
  <2>2. /\ cache[key].value \in ValueType /\ cache[key].expires \in Nat
        /\ Timely(cache[key])
    BY <2>1 DEF FreshInv, StatsTypeOK
  <2>3. now - cache[key].value.at < TTL + MaxQuery
    BY <2>1, <2>2, <1>a, ValueShape DEF Timely
  <2>4. /\ DOMAIN cache \subseteq {CacheKey(g) : g \in StatsFilters}
        /\ \A k \in DOMAIN cache :
             /\ cache[k].value \in ValueType /\ cache[k].expires \in Nat
             /\ Timely(cache[k])
    BY DEF FreshInv, StatsTypeOK
  <2> QED
    BY <2>1, <2>2, <2>3, <2>4, <1>4
<1>6. ASSUME NEW r \in Requests, Miss(r)
      PROVE  FreshInv'
  <2> DEFINE v == [filter |-> Asks[r], at |-> now, counts |-> Counts({}), sample |-> {}]
             q == [stage |-> 1, since |-> now, value |-> v]
  <2>1. v \in ValueType
    BY <1>a, CountsType DEF ValueType, StatsFilters
  <2>2. q \in RequestType /\ Counted(q, now)
    BY <2>1, <1>a DEF RequestType, Counted
  <2>3. /\ request' = [request EXCEPT ![r] = q] /\ served' = NoAnswer
        /\ UNCHANGED <<now, cache>>
    BY <1>6 DEF Miss
  <2> HIDE DEF q
  <2>4. request' \in [Requests -> RequestType] /\ \A s \in Requests : Counted(request'[s], now)
    BY <2>2, <2>3, <1>a, <1>b, RequestMoves
  <2> QED
    BY <2>3, <2>4, <1>d
<1>7. ASSUME NEW r \in Requests, NEW v \in ValueType,
             request[r].since <= v.at, request[r].since \in 0..MaxNow, InTime(r),
             Answer(r, v), UNCHANGED now,
             cache' = Cached(CacheKey(Asks[r]), v)
      PROVE  FreshInv'
  <2>1. now <= v.at + MaxQuery /\ now - v.at < TTL + MaxQuery
    BY <1>7, <1>a, ValueShape DEF InTime
  <2>2. Asks[r] \in StatsFilters
    BY DEF StatsFilters
  <2>3. StatsTypeOK /\ \A k \in DOMAIN cache : Timely(cache[k])
    BY DEF FreshInv
  <2>4. LET new == Cached(CacheKey(Asks[r]), v) IN
          /\ DOMAIN new \subseteq {CacheKey(g) : g \in StatsFilters}
          /\ \A k \in DOMAIN new :
               /\ new[k].value \in ValueType /\ new[k].expires \in Nat
               /\ Timely(new[k])
    BY <2>1, <2>2, <2>3, CachedEntries
  <2> QED
    BY <1>7, <1>4, <2>1, <2>4
<1>8. ASSUME NEW r \in Requests, QueryProtocol(r)
      PROVE  FreshInv'
  <2> DEFINE f == Asks[r]
             old == request[r].value
             v == IF Queries[request[r].stage] = "counts"
                    THEN [old EXCEPT !.at = now, !.counts = Counts(Selected(f))]
                    ELSE [old EXCEPT !.sample = Sample(f)]
  <2>1. request[r].stage \in {1, 2} /\ InTime(r) /\ UNCHANGED now
    BY <1>8 DEF QueryProtocol
  <2>2. request[r] \in [stage : {1, 2}, since : 0..MaxNow, value : ValueType]
    BY <2>1, <1>a DEF RequestType, Idle, Done
  <2>3. request[r].since <= old.at
    BY <2>1, <1>b DEF Counted
  <2>4. v \in ValueType /\ request[r].since <= v.at
    <3>1. Counts(Selected(f)) \in [Statuses -> SUBSET MessageIds] /\ Sample(f) \subseteq MessageIds
      BY SelectedMessages, CountsType
    <3>2. request[r].since <= now
      BY <2>1, <1>b DEF Counted
    <3> QED
      BY <2>2, <2>3, <3>1, <3>2, <1>a DEF ValueType
  <2>5. CASE request[r].stage = 1 /\ ~Answer(r, v)
    <3> DEFINE q == [request[r] EXCEPT !.stage = 2, !.value = v]
    <3>1. /\ request' = [request EXCEPT ![r] = q] /\ served' = NoAnswer
          /\ UNCHANGED <<now, cache>>
      BY <1>8, <2>5, <1>a DEF QueryProtocol
    <3>2. q \in RequestType /\ q.since = request[r].since /\ q.value = v
      BY <2>2, <2>4 DEF RequestType
    <3>3. Counted(q, now)
      BY <3>2, <2>1, <2>4, <1>b DEF Counted
    <3> HIDE DEF q
    <3>4. /\ request' \in [Requests -> RequestType]
          /\ \A s \in Requests : Counted(request'[s], now)
      BY <3>1, <3>2, <3>3, <1>a, <1>b, RequestMoves
    <3> QED
      BY <3>1, <3>4, <1>d
  <2>6. CASE Answer(r, v) /\ cache' = Cached(CacheKey(f), v)
    BY <2>1, <2>2, <2>4, <2>6, <1>7
  <2>7. \/ request[r].stage = 1 /\ ~Answer(r, v)
        \/ Answer(r, v) /\ cache' = Cached(CacheKey(f), v)
    <3>1. CASE request[r].stage = 1
      <4>1. Answer(r, v) => cache' = Cached(CacheKey(f), v)
        <5> SUFFICES ASSUME Answer(r, v)
                     PROVE  cache' = Cached(CacheKey(f), v)
          OBVIOUS
        <5>1. served' # NoAnswer
          BY DEF Answer, NoAnswer
        <5> QED
          BY <1>8, <5>1 DEF QueryProtocol
      <4> QED
        BY <3>1, <4>1
    <3>2. CASE request[r].stage # 1
      BY <1>8, <3>2 DEF QueryProtocol
    <3> QED
      BY <3>1, <3>2
  <2> QED
    BY <2>5, <2>6, <2>7
<1>9. ASSUME NEW r \in Requests, QueryRoutes(r)
      PROVE  FreshInv'
  <2> DEFINE f == Asks[r]
             V(S) == [filter |-> f, at |-> now, counts |-> Counts(S), sample |-> Timed(S)]
  <2>1. request[r].stage = 1 /\ InTime(r) /\ UNCHANGED now
    BY <1>9 DEF QueryRoutes
  <2>2. PICK T \in TopRoutes(f) :
          /\ cache' = Cached(CacheKey(f), V(UNION {OnRoute(f, route) : route \in T}))
          /\ Answer(r, V(UNION {OnRoute(f, route) : route \in T}))
    BY <1>9 DEF QueryRoutes
  <2> DEFINE S == UNION {OnRoute(f, route) : route \in T}
             v == V(S)
  <2>3. S \in SUBSET MessageIds
    BY SelectedMessages DEF OnRoute
  <2>4. request[r] \in [stage : {1, 2}, since : 0..MaxNow, value : ValueType]
    BY <2>1, <1>a DEF RequestType, Idle, Done
  <2>5. v \in ValueType /\ v.at = now
    BY <2>3, <1>a, CountsType DEF ValueType, StatsFilters, Timed
  <2>6. request[r].since <= v.at
    BY <2>1, <2>5, <1>b DEF Counted
  <2>7. cache' = Cached(CacheKey(Asks[r]), v) /\ Answer(r, v)
    BY <2>2
  <2> HIDE DEF v
  <2> QED
    BY <2>1, <2>4, <2>5, <2>6, <2>7, <1>7
<1>10. ASSUME NEW r \in Requests, QueryFails(r)
       PROVE  FreshInv'
  <2>1. /\ request' = [request EXCEPT ![r] = Done] /\ served' = NoAnswer
        /\ UNCHANGED <<now, cache>>
    BY <1>10 DEF QueryFails
  <2>2. Done \in RequestType /\ Counted(Done, now)
    BY DEF RequestType, Counted, Done
  <2>3. request' \in [Requests -> RequestType] /\ \A s \in Requests : Counted(request'[s], now)
    BY <2>1, <2>2, <1>a, <1>b, RequestMoves
  <2> QED
    BY <2>1, <2>3, <1>d
<1>11. CASE AskStats
  <2>1. CASE Next /\ served' = NoAnswer /\ UNCHANGED <<now, cache, request>>
    BY <2>1, <1>2
  <2>2. CASE \E r \in workload : Handle(r)
    <3>1. PICK r \in Requests : Handle(r)
      BY <2>2, WorkloadAssumption DEF FreshInv
    <3> QED
      BY <3>1, <1>5, <1>6, <1>8, <1>9, <1>10 DEF Handle
  <2> QED
    BY <1>11, <1>3, <2>1, <2>2 DEF AskStats
<1> QED
  BY <1>1, <1>11 DEF ApiNext

\* Whatever requests overlap, fail or replace one another's cache entries, and
\* however long entries live and requests take, an answer was counted less than
\* TTL + MaxQuery before it is given (stats_querier.go:92-94, 118-125).
THEOREM ServedFreshHolds == ApiSpec => []ServedFresh
<1>1. FreshInv => ServedFresh
  BY DEF FreshInv
<1> QED
  BY FreshInit, FreshStep, <1>1, PTL DEF ApiSpec

\* The variables of the API's process keep their types.
THEOREM ApiTypeCorrect == ApiSpec => []ApiTypeOK
<1>1. ApiSpec => []FreshInv
  BY FreshInit, FreshStep, PTL DEF ApiSpec
<1>2. WalkInv /\ FreshInv => ApiTypeOK
  BY DEF WalkInv, FreshInv, ApiTypeOK
<1> QED
  BY <1>1, <1>2, WalkAlways, PTL

(***************************************************************************)
(* What requests do with values                                            *)
(***************************************************************************)

\* The cache stays, no other answer is given, and a request ends at most.
Unanswered ==
  /\ UNCHANGED cache /\ served' \in {served, NoAnswer}
  /\ \/ UNCHANGED request
     \/ \E r \in Requests : request' = [request EXCEPT ![r] = Done]

\* The first query of protocol statistics.
CountsQueried(r) ==
  /\ Asks[r].prefix = "proto" /\ request[r].stage = 1
  /\ LET v == [request[r].value EXCEPT !.at = now, !.counts = Counts(Selected(Asks[r]))] IN
       request' = [request EXCEPT ![r] = [@ EXCEPT !.stage = 2, !.value = v]]
  /\ served' = NoAnswer
  /\ UNCHANGED <<tableVars, cache>>

\* The value a request comes to.
Finished(r, v) ==
  \/ /\ Asks[r].prefix = "proto" /\ request[r].stage = 2
     /\ v = [request[r].value EXCEPT !.sample = Sample(Asks[r])]
  \/ /\ Asks[r].prefix = "routes"
     /\ \E S \in SUBSET Selected(Asks[r]) :
          v = [filter |-> Asks[r], at |-> now, counts |-> Counts(S), sample |-> Timed(S)]

Finishes(r, v) ==
  /\ Finished(r, v)
  /\ cache' = Cached(CacheKey(Asks[r]), v)
  /\ Answer(r, v)
  /\ UNCHANGED <<tableVars, now>>

LEMMA StatsMoves ==
  ASSUME FreshInv, [ApiNext]_apiVars
  PROVE  \/ Unanswered
         \/ \E r \in Requests :
              AnswerFromCache(r) \/ Miss(r) \/ CountsQueried(r) \/ \E v : Finishes(r, v)
<1>1. CASE WalkPages \/ UNCHANGED apiVars
  BY <1>1 DEF WalkPages, apiVars, statsVars, Unanswered
<1>2. CASE Next /\ served' = NoAnswer /\ UNCHANGED <<cache, request>>
  BY <1>2 DEF Unanswered
<1>3. CASE TimePasses
  BY <1>3 DEF TimePasses, Unanswered
<1>4. ASSUME NEW r \in Requests, QueryFails(r)
      PROVE  Unanswered
  BY <1>4 DEF QueryFails, Unanswered
<1>5. ASSUME NEW r \in Requests, QueryRoutes(r)
      PROVE  \E v : Finishes(r, v)
  <2> DEFINE V(S) == [filter |-> Asks[r], at |-> now, counts |-> Counts(S), sample |-> Timed(S)]
             S(T) == UNION {OnRoute(Asks[r], route) : route \in T}
  <2>1. PICK T \in TopRoutes(Asks[r]) :
          cache' = Cached(CacheKey(Asks[r]), V(S(T))) /\ Answer(r, V(S(T)))
    BY <1>5 DEF QueryRoutes
  <2>2. S(T) \in SUBSET Selected(Asks[r])
    BY DEF OnRoute
  <2>3. Finished(r, V(S(T)))
    BY <1>5, <2>2 DEF QueryRoutes, Finished
  <2> QED
    BY <1>5, <2>1, <2>3 DEF QueryRoutes, Finishes
<1>6. ASSUME NEW r \in Requests, QueryProtocol(r)
      PROVE  CountsQueried(r) \/ \E v : Finishes(r, v)
  <2>1. CASE request[r].stage = 1
    <3>1. Queries[request[r].stage] = "counts"
      BY <2>1 DEF Queries
    <3> QED
      BY <1>6, <2>1, <3>1 DEF QueryProtocol, CountsQueried
  <2>2. CASE request[r].stage = 2
    <3>1. Queries[request[r].stage] # "counts"
      BY <2>2 DEF Queries
    <3> QED
      BY <1>6, <2>2, <3>1 DEF QueryProtocol, Finishes, Finished
  <2> QED
    BY <1>6, <2>1, <2>2 DEF QueryProtocol
<1>7. CASE \E r \in workload : Handle(r)
  <2>1. PICK r \in Requests : Handle(r)
    BY <1>7, WorkloadAssumption DEF FreshInv
  <2> QED
    BY <2>1, <1>4, <1>5, <1>6 DEF Handle
<1> QED
  BY <1>1, <1>2, <1>3, <1>7 DEF ApiNext, AskStats

\* The cache holds what it held, or the new value under its key.
LEMMA CachedValues ==
  ASSUME NEW key, NEW v, NEW k \in DOMAIN Cached(key, v)
  PROVE  \/ k = key /\ Cached(key, v)[k].value = v
         \/ k \in DOMAIN cache /\ Cached(key, v)[k].value = cache[k].value
<1> DEFINE entries == [x \in DOMAIN cache \cup {key} |->
                         IF x = key THEN [value |-> v, expires |-> now + TTL] ELSE cache[x]]
<1>1. Cached(key, v) = [x \in {y \in DOMAIN entries : now <= entries[y].expires} |-> entries[x]]
  BY DEF Cached, Evicted
<1>2. k \in DOMAIN cache \cup {key} /\ Cached(key, v)[k] = entries[k]
  BY <1>1
<1> HIDE DEF entries
<1>3. k = key => entries[k] = [value |-> v, expires |-> now + TTL]
  BY <1>2 DEF entries
<1>4. k # key => entries[k] = cache[k]
  BY <1>2 DEF entries
<1> QED
  BY <1>2, <1>3, <1>4

\* A request that has gone to the table keeps a value of its own filter.
Waiting(r) == request[r].stage \in {1, 2}

LEMMA WaitingShape ==
  ASSUME FreshInv, NEW r \in Requests, Waiting(r)
  PROVE  request[r] \in [stage : {1, 2}, since : 0..MaxNow, value : ValueType]
  BY DEF FreshInv, StatsTypeOK, Waiting, Idle, Done

LEMMA FinishedValue ==
  ASSUME FreshInv, NEW r \in Requests, NEW v, Finished(r, v),
         \A q \in Requests : Waiting(q) => request[q].value.filter = Asks[q]
  PROVE  /\ v.filter = Asks[r]
         /\ Asks[r].prefix = "routes" =>
              \E S \in SUBSET Selected(Asks[r]) :
                v.counts = Counts(S) /\ v.sample = Timed(S)
<1>1. CASE Asks[r].prefix = "proto"
  <2>1. Waiting(r) /\ v = [request[r].value EXCEPT !.sample = Sample(Asks[r])]
    BY <1>1 DEF Finished, Waiting
  <2>2. request[r].value \in ValueType /\ request[r].value.filter = Asks[r]
    BY <2>1, WaitingShape
  <2> QED
    BY <1>1, <2>1, <2>2 DEF ValueType
<1>2. CASE Asks[r].prefix # "proto"
  BY <1>2 DEF Finished
<1> QED
  BY <1>1, <1>2

(***************************************************************************)
(* Filters and routes                                                      *)
(***************************************************************************)

Concluding(v) == v.filter.prefix = "routes" => v.counts["pending"] = {}

Fitting(v, key) == CacheKey(v.filter) = key /\ Concluding(v)

AnswersInv ==
  /\ FreshInv /\ OutcomesInv
  /\ \A k \in DOMAIN cache : Fitting(cache[k].value, k)
  /\ \A r \in Requests : Waiting(r) => request[r].value.filter = Asks[r]
  /\ served # NoAnswer => Fitting(served.value, CacheKey(served.asked))

LEMMA AnswersInit == ApiInit => AnswersInv
<1> SUFFICES ASSUME ApiInit
             PROVE  AnswersInv
  OBVIOUS
<1>1. FreshInv /\ OutcomesInv
  BY FreshInit, OutcomesInit DEF ApiInit, TableInit
<1> QED
  BY <1>1 DEF ApiInit, StatsInit, AnswersInv, Waiting, Idle

LEMMA AnswersNext == AnswersInv /\ [ApiNext]_apiVars => AnswersInv'
<1> SUFFICES ASSUME AnswersInv, [ApiNext]_apiVars
             PROVE  AnswersInv'
  OBVIOUS
<1>1. /\ FreshInv /\ OutcomesInv
      /\ \A k \in DOMAIN cache : Fitting(cache[k].value, k)
      /\ \A r \in Requests : Waiting(r) => request[r].value.filter = Asks[r]
      /\ served # NoAnswer => Fitting(served.value, CacheKey(served.asked))
  BY DEF AnswersInv
<1>2. FreshInv' /\ OutcomesInv'
  BY <1>1, FreshStep, ApiMoves, OutcomesNext
<1>3. request \in [Requests -> RequestType] /\ request' \in [Requests -> RequestType]
  BY <1>1, <1>2 DEF FreshInv, StatsTypeOK, RequestType, ValueType
<1> DEFINE Cache == \A k \in DOMAIN cache' : Fitting(cache'[k].value, k)
           Asked == \A r \in Requests : Waiting(r)' => request'[r].value.filter = Asks[r]
           Given == served' # NoAnswer => Fitting(served'.value, CacheKey(served'.asked))
<1>4. ASSUME NEW r \in Requests, request' = [request EXCEPT ![r] = Done]
      PROVE  Asked
  BY <1>1, <1>3, <1>4 DEF Waiting, Done
<1>5. CASE Unanswered
  <2>1. Cache /\ Given
    BY <1>1, <1>5 DEF Unanswered, NoAnswer
  <2>2. Asked
    BY <1>1, <1>4, <1>5 DEF Unanswered, Waiting
  <2> QED
    BY <1>2, <2>1, <2>2 DEF AnswersInv, Fitting, Concluding
<1>6. ASSUME NEW r \in Requests, AnswerFromCache(r)
      PROVE  Cache /\ Asked /\ Given
  <2> DEFINE key == CacheKey(Asks[r])
  <2>1. /\ key \in DOMAIN cache /\ UNCHANGED cache
        /\ served' = [time |-> now, asked |-> Asks[r], value |-> cache[key].value]
        /\ request' = [request EXCEPT ![r] = Done]
    BY <1>6 DEF AnswerFromCache, Answer
  <2>2. Fitting(cache[key].value, key)
    BY <2>1, <1>1
  <2> QED
    BY <2>1, <2>2, <1>1, <1>4
<1>7. ASSUME NEW r \in Requests, Miss(r)
      PROVE  Cache /\ Asked /\ Given
  <2>1. request'[r].value.filter = Asks[r] /\ \A q \in Requests \ {r} : request'[q] = request[q]
    BY <1>3, <1>7 DEF Miss
  <2>2. UNCHANGED cache /\ served' = NoAnswer
    BY <1>7 DEF Miss
  <2> QED
    BY <2>1, <2>2, <1>1 DEF Waiting
<1>8. ASSUME NEW r \in Requests, CountsQueried(r)
      PROVE  Cache /\ Asked /\ Given
  <2> DEFINE v == [request[r].value EXCEPT !.at = now, !.counts = Counts(Selected(Asks[r]))]
  <2>1. /\ request' = [request EXCEPT ![r] = [@ EXCEPT !.stage = 2, !.value = v]]
        /\ UNCHANGED cache /\ served' = NoAnswer /\ Waiting(r)
    BY <1>8 DEF CountsQueried, Waiting
  <2>2. /\ request[r] \in [stage : {1, 2}, since : 0..MaxNow, value : ValueType]
        /\ request[r].value.filter = Asks[r]
    BY <2>1, <1>1, WaitingShape
  <2>3. v.filter = Asks[r]
    BY <2>2 DEF ValueType
  <2> HIDE DEF v
  <2>4. request'[r].value = v /\ \A q \in Requests \ {r} : request'[q] = request[q]
    BY <2>1, <2>2, <1>3
  <2> QED
    BY <2>1, <2>3, <2>4, <1>1 DEF Waiting
<1>9. ASSUME NEW r \in Requests, NEW v, Finishes(r, v)
      PROVE  Cache /\ Asked /\ Given
  <2>1. /\ Finished(r, v) /\ cache' = Cached(CacheKey(Asks[r]), v)
        /\ served' = [time |-> now, asked |-> Asks[r], value |-> v]
        /\ request' = [request EXCEPT ![r] = Done]
    BY <1>9 DEF Finishes, Answer
  <2>2. /\ v.filter = Asks[r]
        /\ Asks[r].prefix = "routes" => \E S \in SUBSET Selected(Asks[r]) : v.counts = Counts(S)
    BY <2>1, <1>1, FinishedValue
  <2>3. Concluding(v)
    <3> SUFFICES ASSUME Asks[r].prefix = "routes"
                 PROVE  v.counts["pending"] = {}
      BY <2>2 DEF Concluding
    <3>1. PICK S \in SUBSET Selected(Asks[r]) : v.counts = Counts(S)
      BY <2>2
    <3>2. \A id \in S : rows[id].dest # {} /\ id \in MessageIds
      BY DEF Selected, Stored
    <3>3. \A id \in S : rows[id].status # "pending"
      BY <3>2, <1>1 DEF OutcomesInv, OutcomeInv
    <3> QED
      BY <3>1, <3>3 DEF Counts, Statuses
  <2>4. Fitting(v, CacheKey(Asks[r]))
    BY <2>2, <2>3 DEF Fitting
  <2>5. Cache
    BY <2>1, <2>4, <1>1, CachedValues
  <2> QED
    BY <2>1, <2>4, <2>5, <1>1, <1>4
<1> QED
  BY <1>1, <1>2, <1>5, <1>6, <1>7, <1>8, <1>9, StatsMoves DEF AnswersInv, Fitting, Concluding

LEMMA AnswersAlways == ApiSpec => []AnswersInv
  BY AnswersInit, AnswersNext, PTL DEF ApiSpec

\* Routes count only messages that have come to an end, also where the answer is
\* one of the cache's (stats_querier.go:352).
THEOREM RoutesConcludedHolds == ApiSpec => []RoutesConcluded
<1>1. AnswersInv => RoutesConcluded
  <2> SUFFICES ASSUME AnswersInv, served # NoAnswer, served.asked.prefix = "routes"
               PROVE  served.value.counts["pending"] = {}
    BY DEF RoutesConcluded
  <2>1. CacheKey(served.value.filter) = CacheKey(served.asked) /\ Concluding(served.value)
    BY DEF AnswersInv, Fitting
  <2>2. served.value.filter.prefix = served.asked.prefix
    BY <2>1 DEF CacheKey
  <2> QED
    BY <2>1, <2>2 DEF Concluding
<1> QED
  BY <1>1, AnswersAlways, PTL

\* A key's bound tells what was asked for.
KeyBound(b) == CHOOSE t \in b \cup {0} : b \subseteq {t}

LEMMA BoundOfKey ==
  ASSUME NEW b, \A t \in b : b = {t} /\ t # 0
  PROVE  b = IF KeyBound(b) = 0 THEN {} ELSE {KeyBound(b)}
<1>1. CASE b = {}
  <2>1. KeyBound(b) \in b \cup {0}
    BY <1>1 DEF KeyBound
  <2> QED
    BY <1>1, <2>1
<1>2. ASSUME NEW t \in b
      PROVE  KeyBound(b) = t
  <2>1. \E x \in b \cup {0} : b \subseteq {x}
    BY <1>2
  <2>2. b \subseteq {KeyBound(b)}
    BY <2>1 DEF KeyBound
  <2> QED
    BY <1>2, <2>2
<1> QED
  BY <1>1, <1>2

LEMMA KeysTell ==
  ASSUME BoundsTell, NEW f \in StatsFilters, NEW g \in StatsFilters, CacheKey(f) = CacheKey(g)
  PROVE  f = g
<1>1. f \in StatsFilterType /\ g \in StatsFilterType
  BY StatsAssumption DEF StatsFilters
<1>2. /\ f.prefix = g.prefix /\ f.protocol = g.protocol /\ f.limit = g.limit
      /\ KeyBound(f.from) = KeyBound(g.from) /\ KeyBound(f.to) = KeyBound(g.to)
  BY DEF CacheKey, KeyBound
<1>3. \A h \in {f, g} : \A b \in {h.from, h.to} : \A t \in b : b = {t} /\ t # 0
  BY DEF BoundsTell
<1>4. f.from = g.from
  BY <1>2, <1>3, BoundOfKey
<1>5. f.to = g.to
  BY <1>2, <1>3, BoundOfKey
<1> QED
  BY <1>1, <1>2, <1>4, <1>5 DEF StatsFilterType

\* If no bound of 0 is asked for, an answer is for the filter that was asked for,
\* whichever request left it in the cache (stats_querier.go:143-153).
THEOREM AnswersOwnFilterHolds ==
  ASSUME BoundsTell
  PROVE  ApiSpec => []AnswersOwnFilter
<1>1. AnswersInv => AnswersOwnFilter
  <2> SUFFICES ASSUME AnswersInv, served # NoAnswer
               PROVE  served.value.filter = served.asked
    BY DEF AnswersOwnFilter
  <2>1. served \in [time : 0..MaxNow, asked : StatsFilters, value : ValueType]
    BY DEF AnswersInv, FreshInv, StatsTypeOK
  <2>2. served.asked \in StatsFilters /\ served.value.filter \in StatsFilters
    BY <2>1 DEF ValueType
  <2>3. CacheKey(served.value.filter) = CacheKey(served.asked)
    BY DEF AnswersInv, Fitting
  <2> QED
    BY <2>2, <2>3, KeysTell
<1> QED
  BY <1>1, AnswersAlways, PTL

(***************************************************************************)
(* Counts and latencies                                                    *)
(***************************************************************************)

Executed(id) == id \in Stored /\ rows[id].status = "executed"

\* What a row has of a message that was executed.
Told(id) == <<rows[id].protocol, rows[id].source, rows[id].dest, rows[id].latency>>

\* Nothing changes what is told of an executed message.
LEMMA ExecutedStays ==
  ASSUME CorrelatorInv, [Next]_vars, NEW id, Executed(id)
  PROVE  Executed(id)' /\ Told(id)' = Told(id)
<1>1. TypeOK /\ \A w \in Workers : FoundInv(w)
  BY DEF CorrelatorInv
<1>2. id \in MessageIds /\ rows[id].status = "executed"
  BY DEF Executed, Stored
<1>3. ASSUME rows'[id] = rows[id]
      PROVE  Executed(id)' /\ Told(id)' = Told(id)
  BY <1>2, <1>3 DEF Executed, Told, Stored
<1>4. ASSUME NEW w \in Workers, StoreMessage(w)
      PROVE  Executed(id)' /\ Told(id)' = Told(id)
  <2>1. PICK m \in MessageRecord : UpsertMessage(m)
    BY <1>1, <1>4, StoreFacts
  <2>2. CASE id # m.id
    BY <2>1, <2>2, <1>1, <1>2, <1>3, UpsertFacts
  <2>3. CASE id = m.id
    <3>1. /\ rows'[id].protocol = rows[id].protocol /\ rows'[id].status = rows[id].status
          /\ rows'[id].source = rows[id].source /\ rows'[id].dest = rows[id].dest
          /\ rows'[id].latency = rows[id].latency
      BY <2>1, <2>3, <1>1, <1>2, UpsertFacts
    <3> QED
      BY <3>1, <1>2 DEF Executed, Told, Stored
  <2> QED
    BY <2>2, <2>3
<1>5. ASSUME NEW w \in Workers, SetDestination(w)
      PROVE  rows'[id] = rows[id]
  <2>1. /\ rows[Event(w).id].status = "pending"
        /\ \A other \in MessageIds \ {Event(w).id} : rows'[other] = rows[other]
    BY <1>1, <1>5, SetDestinationFacts
  <2> QED
    BY <2>1, <1>2
<1>6. CASE \E w \in Workers : FindMessage(w) \/ DropEvent(w) \/ SkipEvent(w) \/ Replay(w)
  BY <1>3, <1>6 DEF FindMessage, DropEvent, SkipEvent, Replay
<1>7. CASE UNCHANGED vars
  BY <1>3, <1>7 DEF vars
<1> QED
  BY <1>3, <1>4, <1>5, <1>6, <1>7 DEF Next

\* Every message that is counted as executed is in the sample, or has no positive
\* latency.
Sampled(v) ==
  \A id \in v.counts["executed"] :
    Executed(id) /\ (id \in v.sample \/ rows[id].latency <= 0)

\* Between its two queries a request has counted what the second will find.
HalfWay(r) ==
  request[r].stage = 2 =>
    \A id \in request[r].value.counts["executed"] : Executed(id) /\ id \in Selected(Asks[r])

SampledInv ==
  /\ AnswersInv /\ CorrelatorInv
  /\ \A k \in DOMAIN cache : Sampled(cache[k].value)
  /\ \A r \in Requests : HalfWay(r)
  /\ served # NoAnswer => Sampled(served.value)

LEMMA SampledInit == ApiInit => SampledInv
<1> SUFFICES ASSUME ApiInit
             PROVE  SampledInv
  OBVIOUS
<1>1. AnswersInv /\ CorrelatorInv
  BY AnswersInit, InvInit DEF ApiInit, TableInit
<1> QED
  BY <1>1 DEF ApiInit, StatsInit, SampledInv, HalfWay, Idle

LEMMA SampledNext ==
  ASSUME UniqueKeys, OneReader
  PROVE  SampledInv /\ [ApiNext]_apiVars => SampledInv'
<1> SUFFICES ASSUME SampledInv, [ApiNext]_apiVars
             PROVE  SampledInv'
  OBVIOUS
<1>1. /\ AnswersInv /\ CorrelatorInv /\ FreshInv
      /\ \A k \in DOMAIN cache : Sampled(cache[k].value)
      /\ \A r \in Requests : HalfWay(r)
      /\ served # NoAnswer => Sampled(served.value)
      /\ \A r \in Requests : Waiting(r) => request[r].value.filter = Asks[r]
  BY DEF SampledInv, AnswersInv
<1>2. AnswersInv' /\ CorrelatorInv'
  BY <1>1, AnswersNext, ApiMoves, InvNext
<1>3. request \in [Requests -> RequestType]
  BY <1>1 DEF FreshInv, StatsTypeOK, RequestType, ValueType
<1>4. \A id : Executed(id) => Executed(id)' /\ Told(id)' = Told(id)
  BY <1>1, ApiMoves, ExecutedStays
\* What was sampled stays sampled, and what was half-way found would be found still.
<1>5. ASSUME NEW v, Sampled(v)
      PROVE  \A id \in v.counts["executed"] :
               Executed(id)' /\ (id \in v.sample \/ rows'[id].latency <= 0)
  BY <1>4, <1>5 DEF Sampled, Told
<1>6. ASSUME NEW r \in Requests, NEW id, Executed(id), id \in Selected(Asks[r])
      PROVE  id \in Selected(Asks[r])'
  <2>1. Executed(id)' /\ Told(id)' = Told(id)
    BY <1>4, <1>6
  <2>2. /\ id \in Stored' /\ rows'[id].protocol = rows[id].protocol
        /\ rows'[id].source = rows[id].source /\ rows'[id].dest = rows[id].dest
    BY <2>1 DEF Executed, Told
  <2> QED
    BY <1>6, <2>2 DEF Selected, InWindow
<1>7. ASSUME NEW r \in Requests, request'[r] = request[r]
      PROVE  HalfWay(r)'
  <2> SUFFICES ASSUME request[r].stage = 2, NEW id \in request[r].value.counts["executed"]
               PROVE  Executed(id)' /\ id \in Selected(Asks[r])'
    BY <1>7 DEF HalfWay
  <2>1. Executed(id) /\ id \in Selected(Asks[r])
    BY <1>1 DEF HalfWay
  <2> QED
    BY <2>1, <1>4, <1>6
<1> DEFINE Cache == \A k \in DOMAIN cache' : Sampled(cache[k].value)'
           Half  == \A r \in Requests : HalfWay(r)'
           Given == served' # NoAnswer => Sampled(served.value)'
<1>8. UNCHANGED cache => Cache
  BY <1>1, <1>5 DEF Sampled
<1>9. served' \in {served, NoAnswer} => Given
  BY <1>1, <1>5 DEF Sampled
<1>10. ASSUME NEW r \in Requests, request' = [request EXCEPT ![r] = Done]
       PROVE  Half
  <2>1. ASSUME NEW q \in Requests
        PROVE  HalfWay(q)'
    <3>1. CASE q = r
      BY <3>1, <1>3, <1>10 DEF HalfWay, Done
    <3>2. CASE q # r
      BY <3>2, <1>3, <1>7, <1>10
    <3> QED
      BY <3>1, <3>2
  <2> QED
    BY <2>1
<1>11. CASE Unanswered
  <2>1. Cache /\ Given
    BY <1>8, <1>9, <1>11 DEF Unanswered
  <2>2. Half
    BY <1>7, <1>10, <1>11 DEF Unanswered
  <2> QED
    BY <1>2, <2>1, <2>2 DEF SampledInv
<1>12. ASSUME NEW r \in Requests, AnswerFromCache(r)
       PROVE  Cache /\ Half /\ Given
  <2> DEFINE key == CacheKey(Asks[r])
  <2>1. /\ key \in DOMAIN cache /\ UNCHANGED cache
        /\ served' = [time |-> now, asked |-> Asks[r], value |-> cache[key].value]
        /\ request' = [request EXCEPT ![r] = Done]
    BY <1>12 DEF AnswerFromCache, Answer
  <2>2. Sampled(cache[key].value) /\ served'.value = cache[key].value
    BY <2>1, <1>1
  <2>3. Given
    BY <2>2, <1>5 DEF Sampled
  <2> QED
    BY <2>1, <2>3, <1>8, <1>10
<1>13. ASSUME NEW r \in Requests, Miss(r)
       PROVE  Cache /\ Half /\ Given
  <2>1. /\ request'[r].stage = 1 /\ \A q \in Requests \ {r} : request'[q] = request[q]
        /\ UNCHANGED cache /\ served' = NoAnswer
    BY <1>3, <1>13 DEF Miss
  <2>2. Half
    BY <2>1, <1>7 DEF HalfWay
  <2> QED
    BY <2>1, <2>2, <1>8, <1>9
<1>14. ASSUME NEW r \in Requests, CountsQueried(r)
       PROVE  Cache /\ Half /\ Given
  <2> DEFINE v == [request[r].value EXCEPT !.at = now, !.counts = Counts(Selected(Asks[r]))]
  <2>1. /\ request' = [request EXCEPT ![r] = [@ EXCEPT !.stage = 2, !.value = v]]
        /\ UNCHANGED cache /\ served' = NoAnswer /\ Waiting(r)
    BY <1>14 DEF CountsQueried, Waiting
  <2>2. request[r] \in [stage : {1, 2}, since : 0..MaxNow, value : ValueType]
    BY <2>1, <1>1, WaitingShape
  <2>3. v.counts = Counts(Selected(Asks[r]))
    BY <2>2 DEF ValueType
  <2> HIDE DEF v
  <2>4. request'[r].value = v /\ \A q \in Requests \ {r} : request'[q] = request[q]
    BY <2>1, <2>2, <1>3
  <2>5. \A id \in v.counts["executed"] : Executed(id) /\ id \in Selected(Asks[r])
    BY <2>3 DEF Counts, Statuses, Executed, Selected
  <2>6. HalfWay(r)'
    BY <2>4, <2>5, <1>4, <1>6 DEF HalfWay
  <2>7. Half
    BY <2>4, <2>6, <1>7
  <2> QED
    BY <2>1, <2>7, <1>8, <1>9
<1>15. ASSUME NEW r \in Requests, NEW v, Finishes(r, v)
       PROVE  Cache /\ Half /\ Given
  <2>1. /\ Finished(r, v) /\ cache' = Cached(CacheKey(Asks[r]), v)
        /\ served' = [time |-> now, asked |-> Asks[r], value |-> v]
        /\ request' = [request EXCEPT ![r] = Done]
    BY <1>15 DEF Finishes, Answer
  <2>2. ASSUME Asks[r].prefix = "proto"
        PROVE  Sampled(v)
    <3>1. /\ Waiting(r) /\ request[r].stage = 2
          /\ v = [request[r].value EXCEPT !.sample = Sample(Asks[r])]
      BY <2>1, <2>2 DEF Finished, Waiting
    <3>2. request[r].value \in ValueType
      BY <3>1, <1>1, WaitingShape
    <3>3. v.counts = request[r].value.counts /\ v.sample = Sample(Asks[r])
      BY <3>1, <3>2 DEF ValueType
    <3>4. ASSUME NEW id \in v.counts["executed"], id \notin v.sample
          PROVE  rows[id].latency <= 0
      <4>1. Executed(id) /\ id \in Selected(Asks[r])
        BY <3>1, <3>3, <3>4, <1>1 DEF HalfWay
      <4>2. rows[id].latency \in Int
        BY <4>1, <1>1 DEF CorrelatorInv, TypeOK, Executed, Stored, RowType
      <4>3. ~(rows[id].latency > 0)
        BY <4>1, <3>3, <3>4 DEF Sample, Timed, Executed
      <4> QED
        BY <4>2, <4>3
    <3> QED
      BY <3>1, <3>3, <3>4, <1>1 DEF HalfWay, Sampled
  <2>3. ASSUME Asks[r].prefix # "proto"
        PROVE  Sampled(v)
    <3>1. PICK S \in SUBSET Selected(Asks[r]) : v.counts = Counts(S) /\ v.sample = Timed(S)
      BY <2>1, <2>3 DEF Finished
    <3>2. ASSUME NEW id \in v.counts["executed"]
          PROVE  id \in S /\ Executed(id)
      BY <3>1, <3>2 DEF Counts, Statuses, Executed, Selected
    <3>3. ASSUME NEW id \in v.counts["executed"], id \notin v.sample
          PROVE  rows[id].latency <= 0
      <4>1. rows[id].latency \in Int
        BY <3>2, <3>3, <1>1 DEF CorrelatorInv, TypeOK, Executed, Stored, RowType
      <4> QED
        BY <4>1, <3>1, <3>2, <3>3 DEF Timed
    <3> QED
      BY <3>2, <3>3 DEF Sampled
  <2>4. Sampled(v)
    BY <2>2, <2>3
  <2>5. Given
    BY <2>1, <2>4, <1>5 DEF Sampled
  <2>6. Cache
    <3> SUFFICES ASSUME NEW k \in DOMAIN cache'
                 PROVE  Sampled(cache[k].value)'
      OBVIOUS
    <3>1. PICK x : x = cache'[k].value /\ Sampled(x)
      BY <2>1, <2>4, <1>1, CachedValues
    <3> QED
      BY <3>1, <1>5 DEF Sampled
  <2> QED
    BY <2>1, <2>5, <2>6, <1>10
<1> QED
  BY <1>1, <1>2, <1>11, <1>12, <1>13, <1>14, <1>15, StatsMoves DEF SampledInv

\* Whatever is concluded between the two queries, and also where an answer is one
\* of the cache's, the sample holds every message that is counted as executed, if
\* it has a latency that is positive (stats_querier.go:232-285).
THEOREM ExecutedAreSampledHolds ==
  ASSUME UniqueKeys, OneReader
  PROVE  ApiSpec => []ExecutedAreSampled
<1>1. SampledInv => ExecutedAreSampled
  BY DEF SampledInv, Sampled, ExecutedAreSampled
<1> QED
  BY <1>1, SampledInit, SampledNext, PTL DEF ApiSpec
=============================================================================
