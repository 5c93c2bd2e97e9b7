-------------------------- MODULE RpcClientProofs --------------------------
(***************************************************************************)
(* Theorems about the connections of the chains' Clients and the rotation  *)
(* of their lists, for any chains, lists, callers and number of retries    *)
(* (RpcAssumption).                                                        *)
(*                                                                         *)
(* ListsInv says what the rotations leave of a list, CallsInv where the    *)
(* goroutines can be at each stage, and LoneInv what a goroutine that has  *)
(* its Client to itself has asked: with R failing attempts behind it, the  *)
(* last R endpoints of the list as it now stands, in that order.           *)
(***************************************************************************)
EXTENDS RpcClient, FiniteSetTheorems, TLAPS

ListsInv ==
  /\ \A ch \in Chains : endpoints[ch] # <<>> =>
       \E k \in 0..Len(URLs[ch]) - 1 : IsSubsequence(endpoints[ch], From(URLs[ch], k))
  /\ open = IF stage \in {"connecting", "running"}
              THEN UNION {Dialled(ch) : ch \in Chains} ELSE {}

CallInv(g) ==
  /\ g \in Callers => using[g] = ChainOf[g]
  /\ pc[g] # "idle" =>
       /\ stage = IF g = Main THEN "connecting" ELSE "running"
       /\ endpoints[using[g]] # <<>>
       /\ result[g] # "error"
       /\ Len(tried[g]) < MaxRetries \/ pc[g] = "failover"
  /\ pc[g] = "failover" => tried[g] # <<>>
  /\ pc[g] = "sent" => asked[g] \in Dialled(using[g])

CallsInv ==
  /\ stage = "running" => \A ch \in Chains : endpoints[ch] # <<>>
  /\ \A g \in Goroutines : CallInv(g)

\* tr are attempts at one endpoint after another, and s the list they leave.
AskedInOrder(tr, s) ==
  \A i \in 1..Len(tr) : Len(tr) - i < Len(s) => tr[i] = s[Len(s) - Len(tr) + i]

LoneInv(c) ==
  LET list == endpoints[ChainOf[c]] IN
    /\ stage = "connecting" => tried[c] = <<>> /\ result[c] # "error"
    /\ pc[c] = "sent" => asked[c] = Head(list)
    /\ ElementsOf(tried[c]) \subseteq ElementsOf(list)
    /\ AskedInOrder(tried[c], IF pc[c] = "failover" THEN Rotate(list) ELSE list)
    /\ result[c] = "error" => Len(tried[c]) = MaxRetries

RpcInv == TypeOK /\ ListsInv /\ CallsInv
LonesInv == \A c \in Callers : Alone(c) => LoneInv(c)

(***************************************************************************)
(* Lists                                                                   *)
(***************************************************************************)

LEMMA TriedSequences ==
  ASSUME NEW s
  PROVE  s \in UNION {[1..n -> Endpoints] : n \in 0..MaxRetries}
           <=> s \in Seq(Endpoints) /\ Len(s) <= MaxRetries
<1> USE RpcAssumption
<1>1. ASSUME NEW n \in 0..MaxRetries, s \in [1..n -> Endpoints]
      PROVE  s \in Seq(Endpoints) /\ Len(s) <= MaxRetries
  BY <1>1
<1>2. ASSUME s \in Seq(Endpoints), Len(s) <= MaxRetries
      PROVE  Len(s) \in 0..MaxRetries /\ s \in [1..Len(s) -> Endpoints]
  BY <1>2
<1> QED BY <1>1, <1>2

\* failover (client.go:133-143).
LEMMA RotateFacts ==
  ASSUME NEW S, NEW s \in Seq(S), s # <<>>
  PROVE  /\ Rotate(s) \in Seq(S)
         /\ Rotate(s) # <<>>
         /\ Len(Rotate(s)) = Len(s)
         /\ \A i \in 1..Len(s) : Rotate(s)[i] = IF i = Len(s) THEN s[1] ELSE s[i + 1]
         /\ ElementsOf(Rotate(s)) = ElementsOf(s)
<1>1. Len(s) \in Nat \ {0}
  OBVIOUS
<1>2. Rotate(s) \in Seq(S) /\ Len(Rotate(s)) = Len(s)
  BY <1>1 DEF Rotate
<1>3. ASSUME NEW i \in 1..Len(s)
      PROVE  Rotate(s)[i] = IF i = Len(s) THEN s[1] ELSE s[i + 1]
  BY <1>1, <1>3 DEF Rotate
<1>4. ASSUME NEW i \in 1..Len(s) PROVE s[i] \in ElementsOf(Rotate(s))
  <2>1. CASE i = 1
    <3>1. Rotate(s)[Len(s)] = s[i] /\ Len(s) \in DOMAIN Rotate(s)
      BY <1>1, <1>2, <1>3, <2>1
    <3> QED BY <3>1 DEF ElementsOf
  <2>2. CASE i # 1
    <3>1. Rotate(s)[i - 1] = s[i] /\ i - 1 \in DOMAIN Rotate(s)
      BY <1>1, <1>2, <1>3, <2>2
    <3> QED BY <3>1 DEF ElementsOf
  <2> QED BY <2>1, <2>2
<1>5. ASSUME NEW i \in 1..Len(s) PROVE Rotate(s)[i] \in ElementsOf(s)
  BY <1>1, <1>3 DEF ElementsOf
<1>6. DOMAIN s = 1..Len(s) /\ DOMAIN Rotate(s) = 1..Len(s)
  BY <1>2
<1>7. ElementsOf(Rotate(s)) = ElementsOf(s)
  BY <1>4, <1>5, <1>6 DEF ElementsOf
<1> QED BY <1>1, <1>2, <1>3, <1>7

\* The place that the list begun after the k-th of n elements shows at p.
Place(k, n, p) == IF p + k <= n THEN p + k ELSE p + k - n

LEMMA FromFacts ==
  ASSUME NEW S, NEW t \in Seq(S), NEW k \in 0..Len(t) - 1
  PROVE  /\ From(t, k) \in Seq(S)
         /\ Len(From(t, k)) = Len(t)
         /\ DOMAIN From(t, k) = 1..Len(t)
         /\ \A p \in 1..Len(t) :
              Place(k, Len(t), p) \in 1..Len(t) /\ From(t, k)[p] = t[Place(k, Len(t), p)]
<1>1. Len(t) \in Nat /\ DOMAIN t = 1..Len(t) /\ t \in [1..Len(t) -> S] /\ k \in Nat /\ k < Len(t)
  OBVIOUS
<1>2. ASSUME NEW p \in 1..Len(t) PROVE Place(k, Len(t), p) \in 1..Len(t)
  BY <1>1 DEF Place
<1>3. From(t, k) = [p \in 1..Len(t) |-> t[Place(k, Len(t), p)]]
  BY <1>1 DEF From, Place
<1>4. From(t, k) \in [1..Len(t) -> S]
  BY <1>1, <1>2, <1>3
<1>5. From(t, k) \in Seq(S) /\ Len(From(t, k)) = Len(t) /\ DOMAIN From(t, k) = 1..Len(t)
  BY <1>1, <1>4
<1> QED BY <1>2, <1>3, <1>5

LEMMA PlacesDiffer ==
  ASSUME NEW n \in Nat, NEW k \in 0..n - 1, NEW p \in 1..n, NEW q \in 1..n,
         Place(k, n, p) = Place(k, n, q)
  PROVE  p = q
BY DEF Place

\* After a rotation that sends the element shown at f to the end, what was shown
\* at p is shown f places earlier.
Start(k, n, f) == IF k + f < n THEN k + f ELSE k + f - n

LEMMA PlacesMove ==
  ASSUME NEW n \in Nat, NEW k \in 0..n - 1, NEW f \in 1..n
  PROVE  /\ Start(k, n, f) \in 0..n - 1
         /\ Place(Start(k, n, f), n, n) = Place(k, n, f)
         /\ \A p \in 1..n : f < p =>
              p - f \in 1..n /\ Place(Start(k, n, f), n, p - f) = Place(k, n, p)
<1>1. Start(k, n, f) \in 0..n - 1
  BY DEF Start
<1>2. Place(Start(k, n, f), n, n) = Place(k, n, f)
  BY DEF Place, Start
<1>3. ASSUME NEW p \in 1..n, f < p
      PROVE  p - f \in 1..n /\ Place(Start(k, n, f), n, p - f) = Place(k, n, p)
  <2>1. CASE k + f < n
    BY <1>3, <2>1 DEF Place, Start
  <2>2. CASE ~(k + f < n)
    BY <1>3, <2>2 DEF Place, Start
  <2> QED BY <2>1, <2>2
<1> QED BY <1>1, <1>2, <1>3

\* What is left of a list is still in order after a rotation, seen from the
\* place of the element that went to the end.
LEMMA OrderSurvives ==
  ASSUME NEW S, NEW t \in Seq(S), NEW k \in 0..Len(t) - 1,
         NEW s \in Seq(S), s # <<>>, IsSubsequence(s, From(t, k))
  PROVE  \E m \in 0..Len(t) - 1 : IsSubsequence(Rotate(s), From(t, m))
<1> DEFINE n == Len(s)
           len == Len(t)
<1>1. n \in Nat \ {0} /\ DOMAIN s = 1..n /\ len \in Nat /\ k \in 0..len - 1
  <2>1. s \in Seq(S) /\ s # <<>> => Len(s) \in Nat \ {0} /\ DOMAIN s = 1..Len(s)
    OBVIOUS
  <2>2. Len(t) \in Nat
    OBVIOUS
  <2> QED BY <2>1, <2>2
<1>2. PICK place \in [1..n -> 1..len] :
        /\ \A i, j \in 1..n : i < j => place[i] < place[j]
        /\ \A i \in 1..n : s[i] = From(t, k)[place[i]]
  <2> DEFINE r == From(t, k)
  <2>1. DOMAIN r = 1..len
    BY FromFacts
  <2> HIDE DEF n, len, r
  <2> QED BY <1>1, <2>1 DEF IsSubsequence, r
<1> DEFINE first == place[1]
           m     == Start(k, len, first)
           moved == [i \in 1..n |-> IF i = n THEN len ELSE place[i + 1] - first]
<1>3. first \in 1..len
  BY <1>1, <1>2
<1>4. /\ m \in 0..len - 1
      /\ Place(m, len, len) = Place(k, len, first)
      /\ \A p \in 1..len : first < p =>
           p - first \in 1..len /\ Place(m, len, p - first) = Place(k, len, p)
  <2> HIDE DEF first, len
  <2> QED BY <1>1, <1>3, PlacesMove
<1>5. ASSUME NEW i \in 1..n, i # n
      PROVE  /\ i + 1 \in 1..n
             /\ place[i + 1] \in 1..len
             /\ first < place[i + 1]
  <2> HIDE DEF n, len
  <2>1. i + 1 \in 1..n /\ 1 \in 1..n /\ 1 < i + 1
    BY <1>1, <1>5
  <2> QED BY <1>2, <2>1
<1> HIDE DEF n, len, first, m
<1>6. ASSUME NEW i \in 1..n PROVE moved[i] \in 1..len
  BY <1>1, <1>3, <1>4, <1>5
<1>7. ASSUME NEW i \in 1..n, NEW j \in 1..n, i < j PROVE moved[i] < moved[j]
  <2>1. i # n /\ moved[i] = place[i + 1] - first
    BY <1>7, <1>1
  <2>2. CASE j = n
    BY <2>1, <2>2, <1>1, <1>3, <1>5
  <2>3. CASE j # n
    <3>1. moved[j] = place[j + 1] - first
      BY <2>3
    <3>2. i + 1 \in 1..n /\ j + 1 \in 1..n /\ i + 1 < j + 1
      BY <1>1, <1>5, <1>7, <2>1, <2>3
    <3>3. place[i + 1] < place[j + 1]
      BY <1>2, <3>2
    <3> QED BY <2>1, <2>3, <3>1, <3>3, <1>1, <1>3, <1>5
  <2> QED BY <2>2, <2>3
<1>8. ASSUME NEW i \in 1..n PROVE Rotate(s)[i] = From(t, m)[moved[i]]
  <2>1. From(t, m)[moved[i]] = t[Place(m, len, moved[i])]
    BY <1>4, <1>6, FromFacts DEF len
  <2>2. CASE i = n
    <3>1. Rotate(s)[i] = From(t, k)[first]
      BY <1>1, <1>2, <2>2, RotateFacts DEF n, first
    <3>2. From(t, k)[first] = t[Place(k, len, first)]
      BY <1>1, <1>3, FromFacts DEF len
    <3>3. moved[i] = len
      BY <2>2
    <3> QED BY <1>4, <2>1, <3>1, <3>2, <3>3
  <2>3. CASE i # n
    <3>1. Rotate(s)[i] = From(t, k)[place[i + 1]]
      BY <1>1, <1>2, <1>5, <2>3, RotateFacts DEF n
    <3>2. From(t, k)[place[i + 1]] = t[Place(k, len, place[i + 1])]
      BY <1>1, <1>5, <2>3, FromFacts DEF len
    <3>3. moved[i] = place[i + 1] - first
      BY <2>3
    <3> QED BY <1>4, <1>5, <2>1, <2>3, <3>1, <3>2, <3>3
  <2> QED BY <2>2, <2>3
<1>9. DOMAIN Rotate(s) = 1..n /\ DOMAIN From(t, m) = 1..len
  BY <1>1, <1>4, RotateFacts, FromFacts DEF n, len
<1>10. moved \in [1..n -> 1..len]
  BY <1>6
<1>11. IsSubsequence(Rotate(s), From(t, m))
  <2> HIDE DEF moved
  <2> QED BY <1>7, <1>8, <1>9, <1>10 DEF IsSubsequence
<1> QED BY <1>4, <1>11 DEF len

\* What a Client has dialled is of its own URLs, each at most once.
LEMMA DialledOnce ==
  ASSUME NEW ch \in Chains, NEW k \in 0..Len(URLs[ch]) - 1,
         NEW s \in Seq(Endpoints), IsSubsequence(s, From(URLs[ch], k))
  PROVE  /\ ElementsOf(s) \subseteq ElementsOf(URLs[ch])
         /\ \A i, j \in DOMAIN s : s[i] = s[j] => i = j
<1> DEFINE t == URLs[ch]
<1>1. t \in Seq(Endpoints) /\ DOMAIN t = 1..Len(t)
  BY RpcAssumption
<1>2. \A i, j \in 1..Len(t) : t[i] = t[j] => i = j
  BY <1>1, RpcAssumption
<1>3. PICK place \in [DOMAIN s -> 1..Len(t)] :
        /\ \A i, j \in DOMAIN s : i < j => place[i] < place[j]
        /\ \A i \in DOMAIN s : s[i] = From(t, k)[place[i]]
  BY <1>1, FromFacts DEF IsSubsequence
<1> HIDE DEF t
<1>4. ASSUME NEW p \in 1..Len(t) PROVE From(t, k)[p] \in ElementsOf(t)
  <2>1. Place(k, Len(t), p) \in DOMAIN t /\ From(t, k)[p] = t[Place(k, Len(t), p)]
    BY <1>1, FromFacts DEF t
  <2> QED BY <2>1 DEF ElementsOf
<1>5. ASSUME NEW p \in 1..Len(t), NEW q \in 1..Len(t), From(t, k)[p] = From(t, k)[q]
      PROVE  p = q
  <2>1. /\ Place(k, Len(t), p) \in 1..Len(t) /\ From(t, k)[p] = t[Place(k, Len(t), p)]
        /\ Place(k, Len(t), q) \in 1..Len(t) /\ From(t, k)[q] = t[Place(k, Len(t), q)]
    BY <1>1, FromFacts DEF t
  <2>2. Place(k, Len(t), p) = Place(k, Len(t), q)
    BY <1>2, <1>5, <2>1
  <2> QED BY <1>1, <2>2, PlacesDiffer DEF t
<1>6. ASSUME NEW i \in DOMAIN s, NEW j \in DOMAIN s, s[i] = s[j] PROVE i = j
  <2>1. place[i] = place[j]
    BY <1>3, <1>5, <1>6
  <2> QED BY <1>3, <2>1
<1> QED BY <1>3, <1>4, <1>6 DEF ElementsOf, t

\* A list without repetitions has as many elements as it is long.
LEMMA ElementsCounted ==
  ASSUME NEW S, NEW s \in Seq(S), \A i, j \in DOMAIN s : s[i] = s[j] => i = j
  PROVE  IsFiniteSet(ElementsOf(s)) /\ Cardinality(ElementsOf(s)) = Len(s)
<1>1. Len(s) \in Nat /\ DOMAIN s = 1..Len(s)
  OBVIOUS
<1>2. IsFiniteSet(1..Len(s)) /\ Cardinality(1..Len(s)) = Len(s)
  BY <1>1, FS_Interval
<1>3. s \in Bijection(1..Len(s), ElementsOf(s))
  BY <1>1 DEF Bijection, Injection, IsInjective, Surjection, ElementsOf
<1>4. ExistsBijection(1..Len(s), ElementsOf(s))
  BY <1>3 DEF ExistsBijection
<1> QED BY <1>2, <1>4, FS_Bijection

(***************************************************************************)
(* Types                                                                   *)
(***************************************************************************)

CallTypes ==
  /\ pc \in [Goroutines -> {"idle", "wait", "sent", "failover", "backoff"}]
  /\ using \in [Goroutines -> Chains]
  /\ tried \in [Goroutines -> UNION {[1..n -> Endpoints] : n \in 0..MaxRetries}]
  /\ asked \in [Goroutines -> Endpoints \cup {NoEndpoint}]
  /\ result \in [Goroutines -> {"none", "ok", "error", "cancelled"}]

LEMMA NothingTried == <<>> \in UNION {[1..n -> Endpoints] : n \in 0..MaxRetries}
<1>1. <<>> \in Seq(Endpoints) /\ Len(<<>>) <= MaxRetries
  BY RpcAssumption
<1> QED BY <1>1, TriedSequences

LEMMA BeginTypes ==
  ASSUME TypeOK, NEW g \in Goroutines, NEW ch \in Chains, Begin(g, ch)
  PROVE  CallTypes'
BY NothingTried DEF TypeOK, CallTypes, Begin, Goto

LEMMA ReturnTypes ==
  ASSUME TypeOK, NEW g \in Goroutines, NEW r \in {"ok", "error", "cancelled"}, Return(g, r)
  PROVE  CallTypes'
<1>1. tried' \in [Goroutines -> UNION {[1..n -> Endpoints] : n \in 0..MaxRetries}]
  BY NothingTried DEF TypeOK, Return
<1> QED BY <1>1 DEF TypeOK, CallTypes, Return, Goto

\* The list of the Client a goroutine is calling, and its first endpoint.
LEMMA ListCalled ==
  ASSUME TypeOK, CallsInv, NEW g \in Goroutines, pc[g] # "idle"
  PROVE  /\ using[g] \in Chains
         /\ endpoints[using[g]] \in Seq(Endpoints)
         /\ endpoints[using[g]] # <<>>
         /\ Head(endpoints[using[g]]) \in Dialled(using[g])
         /\ Dialled(using[g]) \subseteq Endpoints
<1>1. using[g] \in Chains /\ endpoints[using[g]] \in Seq(Endpoints) /\ endpoints[using[g]] # <<>>
  BY DEF TypeOK, CallsInv, CallInv
<1> DEFINE s == endpoints[using[g]]
<1>2. Dialled(using[g]) = {s[i] : i \in DOMAIN s}
  BY DEF Dialled, ElementsOf
<1> HIDE DEF s
<1>3. s \in Seq(Endpoints) /\ s # <<>>
  BY <1>1 DEF s
<1>4. Head(s) = s[1] /\ 1 \in DOMAIN s /\ \A i \in DOMAIN s : s[i] \in Endpoints
  BY <1>3
<1> QED BY <1>1, <1>2, <1>4 DEF s

\* A failing attempt is one of at most MaxRetries.
LEMMA AttemptCounted ==
  ASSUME TypeOK, CallsInv, NEW g \in Goroutines, NotAnswered(g)
  PROVE  /\ asked[g] \in Endpoints
         /\ tried[g] \in Seq(Endpoints)
         /\ tried' = [tried EXCEPT ![g] = Append(tried[g], asked[g])]
         /\ Append(tried[g], asked[g]) \in UNION {[1..n -> Endpoints] : n \in 0..MaxRetries}
<1>1. pc[g] = "sent" /\ tried' = [tried EXCEPT ![g] = Append(tried[g], asked[g])]
  BY DEF NotAnswered
<1>2. asked[g] \in Endpoints /\ Len(tried[g]) < MaxRetries
  BY <1>1, ListCalled DEF CallsInv, CallInv
<1>3. tried[g] \in Seq(Endpoints)
  BY TriedSequences DEF TypeOK
<1>4. Append(tried[g], asked[g]) \in Seq(Endpoints)
      /\ Len(Append(tried[g], asked[g])) <= MaxRetries
  BY <1>2, <1>3, RpcAssumption
<1> QED BY <1>1, <1>2, <1>3, <1>4, TriedSequences

\* What NewClient can dial (client.go:59-67).
LEMMA ReachedFacts ==
  ASSUME NEW ch \in Chains, NEW n \in 1..Len(URLs[ch]), NEW reached \in [1..n -> ElementsOf(URLs[ch])]
  PROVE  /\ reached \in Seq(Endpoints)
         /\ reached # <<>>
         /\ ElementsOf(reached) \subseteq Endpoints
<1>1. ElementsOf(URLs[ch]) \subseteq Endpoints
  BY RpcAssumption DEF ElementsOf
<1>2. n \in Nat \ {0} /\ reached \in [1..n -> Endpoints]
  BY <1>1, RpcAssumption
<1>3. reached \in Seq(Endpoints) /\ Len(reached) = n
  BY <1>2
<1>4. ElementsOf(reached) \subseteq Endpoints
  BY <1>2 DEF ElementsOf
<1> QED BY <1>2, <1>3, <1>4

LEMMA TypeInit == Init => TypeOK
<1> SUFFICES ASSUME Init PROVE TypeOK
  OBVIOUS
<1>1. endpoints \in [Chains -> Seq(Endpoints)]
  BY DEF Init
<1>2. tried \in [Goroutines -> UNION {[1..n -> Endpoints] : n \in 0..MaxRetries}]
  BY NothingTried DEF Init
<1> QED BY <1>1, <1>2 DEF Init, TypeOK

LEMMA TypeNext ==
  ASSUME TypeOK, CallsInv, Next
  PROVE  TypeOK'
<1> USE DEF CallTypes
<1>1. ASSUME NEW ch \in Chains, Dial(ch) PROVE TypeOK'
  <2>1. PICK n \in 1..Len(URLs[ch]) : \E reached \in [1..n -> ElementsOf(URLs[ch])] :
          /\ endpoints' = [endpoints EXCEPT ![ch] = reached]
          /\ open' = open \cup ElementsOf(reached)
    BY <1>1 DEF Dial
  <2>2. PICK reached \in [1..n -> ElementsOf(URLs[ch])] :
          /\ endpoints' = [endpoints EXCEPT ![ch] = reached]
          /\ open' = open \cup ElementsOf(reached)
    BY <2>1
  <2>3. CallTypes'
    BY <1>1, BeginTypes DEF Dial, Goroutines
  <2> QED BY <1>1, <2>2, <2>3, ReachedFacts DEF TypeOK, Dial
<1>2. CASE StartFails \/ Connected \/ Close \/ Cancel
  BY <1>2 DEF TypeOK, StartFails, Connected, Close, Cancel, callVars
<1>3. ASSUME NEW c \in Callers, Call(c) PROVE TypeOK'
  <2>1. CallTypes'
    BY <1>3, BeginTypes, RpcAssumption DEF Call, Goroutines
  <2> QED BY <1>3, <2>1 DEF TypeOK, Call
<1>4. ASSUME NEW g \in Goroutines, Ask(g) PROVE TypeOK'
  <2>1. Head(endpoints[using[g]]) \in Endpoints
    BY <1>4, ListCalled DEF Ask
  <2> QED BY <1>4, <2>1 DEF TypeOK, Ask, Goto
<1>5. ASSUME NEW g \in Goroutines, Answered(g) PROVE TypeOK'
  <2>1. CallTypes'
    BY <1>5, ReturnTypes DEF Answered
  <2> QED BY <1>5, <2>1 DEF TypeOK, Answered
<1>6. ASSUME NEW g \in Goroutines, NotAnswered(g) PROVE TypeOK'
  <2>1. tried' \in [Goroutines -> UNION {[1..n -> Endpoints] : n \in 0..MaxRetries}]
    BY <1>6, AttemptCounted DEF TypeOK
  <2> QED BY <1>6, <2>1 DEF TypeOK, NotAnswered, Goto
<1>7. ASSUME NEW g \in Goroutines, Failover(g) PROVE TypeOK'
  <2>1. Rotate(endpoints[using[g]]) \in Seq(Endpoints)
    BY <1>7, ListCalled, RotateFacts DEF Failover
  <2>2. endpoints' \in [Chains -> Seq(Endpoints)]
    BY <1>7, <2>1 DEF TypeOK, Failover
  <2>3. CallTypes'
    <3>1. CASE Goto(g, "backoff") /\ UNCHANGED <<using, tried, asked, result>>
      BY <3>1 DEF TypeOK, Goto
    <3>2. CASE Return(g, "error")
      BY <3>2, ReturnTypes
    <3> QED BY <1>7, <3>1, <3>2 DEF Failover
  <2> QED BY <1>7, <2>2, <2>3 DEF TypeOK, Failover
<1>8. ASSUME NEW g \in Goroutines, Retry(g) PROVE TypeOK'
  BY <1>8 DEF TypeOK, Retry, Goto
<1>9. ASSUME NEW g \in Goroutines, GiveUp(g) PROVE TypeOK'
  <2>1. CallTypes'
    BY <1>9, ReturnTypes DEF GiveUp
  <2> QED BY <1>9, <2>1 DEF TypeOK, GiveUp
<1> QED BY <1>1, <1>2, <1>3, <1>4, <1>5, <1>6, <1>7, <1>8, <1>9 DEF Next, WithRetry

(***************************************************************************)
(* Lists and goroutines                                                    *)
(***************************************************************************)

\* A list that has been dialled only turns.
LEMMA ListsTurn ==
  ASSUME TypeOK, CallsInv, Next, NEW ch \in Chains, endpoints[ch] # <<>>
  PROVE  /\ endpoints'[ch] # <<>>
         /\ Len(endpoints'[ch]) = Len(endpoints[ch])
         /\ ElementsOf(endpoints'[ch]) = ElementsOf(endpoints[ch])
<1>1. ASSUME NEW other \in Chains, Dial(other) PROVE endpoints'[ch] = endpoints[ch]
  BY <1>1 DEF Dial, TypeOK
<1>2. ASSUME NEW g \in Goroutines, Failover(g)
      PROVE  endpoints'[ch] = IF ch = using[g] THEN Rotate(endpoints[ch]) ELSE endpoints[ch]
  BY <1>2 DEF Failover, TypeOK
<1>3. endpoints[ch] \in Seq(Endpoints)
  BY DEF TypeOK
<1>4. CASE endpoints' = endpoints
  BY <1>4
<1>5. CASE \E g \in Goroutines : Failover(g)
  BY <1>2, <1>3, <1>5, RotateFacts
<1> QED
  BY <1>1, <1>4, <1>5 DEF Next, WithRetry, StartFails, Connected, Close, Cancel, Call,
     Ask, Answered, NotAnswered, Retry, GiveUp

LEMMA ListsNext ==
  ASSUME TypeOK, ListsInv, CallsInv, Next
  PROVE  ListsInv'
<1> DEFINE InOrder(ch, s) == s # <<>> =>
             \E k \in 0..Len(URLs[ch]) - 1 : IsSubsequence(s, From(URLs[ch], k))
           AllOf(lists) == UNION {ElementsOf(lists[ch]) : ch \in Chains}
<1>1. /\ \A ch \in Chains : InOrder(ch, endpoints[ch])
      /\ open = IF stage \in {"connecting", "running"} THEN AllOf(endpoints) ELSE {}
  BY DEF ListsInv, Dialled
<1>2. SUFFICES /\ \A ch \in Chains : InOrder(ch, endpoints'[ch])
               /\ open' = IF stage' \in {"connecting", "running"} THEN AllOf(endpoints') ELSE {}
  BY DEF ListsInv, Dialled
<1> HIDE DEF InOrder
<1>3. ASSUME NEW ch \in Chains, Dial(ch)
      PROVE  /\ \A c \in Chains : InOrder(c, endpoints'[c])
             /\ open' = AllOf(endpoints')
  <2>1. PICK n \in 1..Len(URLs[ch]) : \E reached \in [1..n -> ElementsOf(URLs[ch])] :
          /\ IsSubsequence(reached, URLs[ch])
          /\ endpoints' = [endpoints EXCEPT ![ch] = reached]
          /\ open' = open \cup ElementsOf(reached)
    BY <1>3 DEF Dial
  <2>2. PICK reached \in [1..n -> ElementsOf(URLs[ch])] :
          /\ IsSubsequence(reached, URLs[ch])
          /\ endpoints' = [endpoints EXCEPT ![ch] = reached]
          /\ open' = open \cup ElementsOf(reached)
    BY <2>1
  <2>3. \A c \in Chains : endpoints'[c] = IF c = ch THEN reached ELSE endpoints[c]
    BY <2>2 DEF TypeOK
  <2>4. URLs[ch] \in Seq(Endpoints)
    BY RpcAssumption
  <2>5. 0 \in 0..Len(URLs[ch]) - 1
    BY <2>4
  <2>6. From(URLs[ch], 0) = URLs[ch]
    <3>1. From(URLs[ch], 0) = [i \in DOMAIN URLs[ch] |-> URLs[ch][i]]
      BY <2>4 DEF From
    <3> QED BY <2>4, <3>1
  <2>7. InOrder(ch, reached)
    BY <2>2, <2>5, <2>6 DEF InOrder
  <2>8. ElementsOf(endpoints[ch]) = {}
    BY <1>3 DEF Dial, ElementsOf
  <2>9. AllOf(endpoints') = AllOf(endpoints) \cup ElementsOf(reached)
    BY <2>3, <2>8
  <2> QED BY <1>1, <1>3, <2>2, <2>3, <2>7, <2>9 DEF Dial
<1>4. ASSUME NEW g \in Goroutines, Failover(g)
      PROVE  /\ \A c \in Chains : InOrder(c, endpoints'[c])
             /\ AllOf(endpoints') = AllOf(endpoints)
  <2>1. /\ using[g] \in Chains
        /\ endpoints[using[g]] \in Seq(Endpoints)
        /\ endpoints[using[g]] # <<>>
    BY <1>4, ListCalled DEF Failover
  <2>2. \A c \in Chains :
          endpoints'[c] = IF c = using[g] THEN Rotate(endpoints[c]) ELSE endpoints[c]
    BY <1>4 DEF TypeOK, Failover
  <2>3. \A c \in Chains : ElementsOf(endpoints'[c]) = ElementsOf(endpoints[c])
    BY <2>1, <2>2, RotateFacts
  <2>4. InOrder(using[g], Rotate(endpoints[using[g]]))
    <3>1. PICK k \in 0..Len(URLs[using[g]]) - 1 :
            IsSubsequence(endpoints[using[g]], From(URLs[using[g]], k))
      BY <1>1, <2>1 DEF InOrder
    <3>2. URLs[using[g]] \in Seq(Endpoints)
      BY <2>1, RpcAssumption
    <3> QED BY <2>1, <3>1, <3>2, OrderSurvives DEF InOrder
  <2> QED BY <1>1, <2>2, <2>3, <2>4
<1>5. CASE \E ch \in Chains : Dial(ch)
  BY <1>3, <1>5 DEF Dial
<1>6. CASE \E g \in Goroutines : Failover(g)
  BY <1>1, <1>4, <1>6 DEF Failover
<1>7. CASE StartFails \/ Close
  <2>1. endpoints' = endpoints /\ stage' \notin {"connecting", "running"}
        /\ open' = open \ AllOf(endpoints) /\ stage \in {"connecting", "running"}
    BY <1>7 DEF StartFails, Close, Dialled
  <2> HIDE DEF AllOf
  <2> QED BY <1>1, <2>1
<1>8. CASE Connected
  BY <1>1, <1>8 DEF Connected
<1>9. CASE endpoints' = endpoints /\ open' = open /\ stage' = stage
  BY <1>1, <1>9
<1> QED
  BY <1>5, <1>6, <1>7, <1>8, <1>9 DEF Next, WithRetry, Cancel, Call, Ask, Answered,
     NotAnswered, Retry, GiveUp

\* A goroutine that does not move keeps its place while others turn the lists.
LEMMA OthersStay ==
  ASSUME TypeOK, CallsInv, Next, NEW g \in Goroutines, stage' = stage,
         pc'[g] = pc[g], using'[g] = using[g], tried'[g] = tried[g],
         asked'[g] = asked[g], result'[g] = result[g]
  PROVE  CallInv(g)'
<1>1. CallInv(g) /\ using[g] \in Chains
  BY DEF CallsInv, TypeOK
<1>2. pc[g] # "idle" => endpoints'[using[g]] # <<>>
        /\ ElementsOf(endpoints'[using[g]]) = ElementsOf(endpoints[using[g]])
  BY <1>1, ListsTurn DEF CallInv
<1> QED BY <1>1, <1>2 DEF CallInv, Dialled

LEMMA CallsInit == Init => CallsInv
BY RpcAssumption DEF Init, CallsInv, CallInv

LEMMA CallsNext ==
  ASSUME TypeOK, CallsInv, Next
  PROVE  CallsInv'
<1>1. ASSUME stage' = "running", NEW ch \in Chains PROVE endpoints'[ch] # <<>>
  <2>1. CASE Connected
    BY <1>1, <2>1 DEF Connected
  <2>2. CASE stage = "running"
    BY <2>2, ListsTurn DEF CallsInv
  <2>3. CASE ~Connected /\ stage # "running"
    BY <1>1, <2>3 DEF Next, WithRetry, Dial, StartFails, Close, Cancel, Call, Ask,
       Answered, NotAnswered, Failover, Retry, GiveUp
  <2> QED BY <2>1, <2>2, <2>3
<1> SUFFICES ASSUME NEW g \in Goroutines PROVE CallInv(g)'
  BY <1>1 DEF CallsInv
<1>2. CallInv(g) /\ TypeOK'
  BY TypeNext DEF CallsInv
<1>3. ASSUME NEW ch \in Chains, Dial(ch) PROVE CallInv(g)'
  <2>1. CASE g = Main
    <3>1. Main \notin Callers /\ Main \in Goroutines /\ Len(<<>>) < MaxRetries
      BY RpcAssumption DEF Goroutines
    <3>2. endpoints'[ch] # <<>>
      BY <1>3, ReachedFacts DEF TypeOK, Dial
    <3> QED
      BY <1>3, <2>1, <3>1, <3>2 DEF TypeOK, Dial, Begin, Goto, CallInv
  <2>2. CASE g # Main
    BY <1>3, <2>2, OthersStay DEF TypeOK, Dial, Begin, Goto
  <2> QED BY <2>1, <2>2
<1>4. CASE StartFails \/ Connected \/ Close
  <2>1. pc[g] = "idle"
    BY <1>2, <1>4 DEF StartFails, Connected, Close, CallInv, Goroutines
  <2> QED
    BY <1>2, <1>4, <2>1 DEF StartFails, Connected, Close, CallInv, callVars
<1>5. CASE Cancel
  BY <1>5, OthersStay DEF Cancel, callVars
<1>6. ASSUME NEW c \in Callers, Call(c) PROVE CallInv(g)'
  <2>1. CASE g = c
    <3>1. endpoints[ChainOf[c]] # <<>> /\ g # Main /\ Len(<<>>) < MaxRetries
      BY <1>6, <2>1, RpcAssumption DEF Call, CallsInv
    <3> QED
      BY <1>6, <2>1, <3>1 DEF TypeOK, Call, Begin, Goto, CallInv
  <2>2. CASE g # c
    BY <1>6, <2>2, OthersStay DEF TypeOK, Call, Begin, Goto
  <2> QED BY <2>1, <2>2
<1>7. ASSUME NEW a \in Goroutines, Ask(a) PROVE CallInv(g)'
  <2>1. CASE g = a
    <3>1. Head(endpoints[using[a]]) \in Dialled(using[a])
      BY <1>7, ListCalled DEF Ask
    <3> QED
      BY <1>2, <1>7, <2>1, <3>1 DEF TypeOK, Ask, Goto, CallInv, Dialled
  <2>2. CASE g # a
    BY <1>7, <2>2, OthersStay DEF TypeOK, Ask, Goto
  <2> QED BY <2>1, <2>2
<1>8. ASSUME NEW a \in Goroutines, NEW r, Return(a, r), endpoints' = endpoints \/ Failover(a),
             stage' = stage
      PROVE  CallInv(g)'
  <2>1. CASE g = a
    BY <1>2, <1>8, <2>1 DEF TypeOK, Return, Goto, CallInv
  <2>2. CASE g # a
    BY <1>8, <2>2, OthersStay DEF TypeOK, Return, Goto
  <2> QED BY <2>1, <2>2
<1>9. ASSUME NEW a \in Goroutines, NotAnswered(a) PROVE CallInv(g)'
  <2>1. CASE g = a
    <3>1. tried'[a] # <<>>
      BY <1>9, AttemptCounted DEF TypeOK
    <3> QED
      BY <1>2, <1>9, <2>1, <3>1 DEF TypeOK, NotAnswered, Goto, CallInv
  <2>2. CASE g # a
    BY <1>9, <2>2, OthersStay DEF TypeOK, NotAnswered, Goto
  <2> QED BY <2>1, <2>2
<1>10. ASSUME NEW a \in Goroutines, Failover(a), ~Return(a, "error") PROVE CallInv(g)'
  <2>1. /\ Len(tried[a]) < MaxRetries /\ pc[a] = "failover"
        /\ Goto(a, "backoff") /\ UNCHANGED <<using, tried, asked, result, stage>>
    BY <1>10 DEF Failover
  <2>2. CASE g = a
    <3>1. endpoints'[using[a]] # <<>>
      BY <1>2, <2>1, <2>2, ListsTurn DEF CallInv, TypeOK
    <3> QED
      BY <1>2, <2>1, <2>2, <3>1 DEF TypeOK, Goto, CallInv
  <2>3. CASE g # a
    BY <2>1, <2>3, OthersStay DEF TypeOK, Goto
  <2> QED BY <2>2, <2>3
<1>11. ASSUME NEW a \in Goroutines, Retry(a) PROVE CallInv(g)'
  <2>1. CASE g = a
    BY <1>2, <1>11, <2>1 DEF TypeOK, Retry, Goto, CallInv
  <2>2. CASE g # a
    BY <1>11, <2>2, OthersStay DEF TypeOK, Retry, Goto
  <2> QED BY <2>1, <2>2
<1>12. ASSUME NEW a \in Goroutines, WithRetry(a) PROVE CallInv(g)'
  BY <1>7, <1>8, <1>9, <1>10, <1>11, <1>12
  DEF WithRetry, Answered, GiveUp, Failover
<1> QED BY <1>3, <1>4, <1>5, <1>6, <1>12 DEF Next

(***************************************************************************)
(* A goroutine that has its Client to itself                               *)
(***************************************************************************)

\* An attempt at the first of a list, and the list that its failover leaves.
LEMMA AskedOneMore ==
  ASSUME NEW S, NEW s \in Seq(S), s # <<>>, NEW tr \in Seq(S), AskedInOrder(tr, s)
  PROVE  AskedInOrder(Append(tr, Head(s)), Rotate(s))
<1> DEFINE n == Len(s)
           m == Len(tr)
           more == Append(tr, Head(s))
<1>1. n \in Nat \ {0} /\ m \in Nat /\ Head(s) = s[1]
  OBVIOUS
<1>2. Len(more) = m + 1 /\ \A i \in 1..m + 1 : more[i] = IF i = m + 1 THEN s[1] ELSE tr[i]
  OBVIOUS
<1>3. Len(Rotate(s)) = n /\ \A i \in 1..n : Rotate(s)[i] = IF i = n THEN s[1] ELSE s[i + 1]
  BY RotateFacts
<1>4. \A i \in 1..m : m - i < n => tr[i] = s[n - m + i]
  BY DEF AskedInOrder
<1> HIDE DEF n, m, more
<1>5. ASSUME NEW i \in 1..m + 1, m + 1 - i < n PROVE more[i] = Rotate(s)[n - (m + 1) + i]
  <2>1. n - (m + 1) + i \in 1..n
    BY <1>1, <1>5
  <2>2. CASE i = m + 1
    <3>1. n - (m + 1) + i = n /\ n \in 1..n
      BY <1>1, <2>2
    <3>2. Rotate(s)[n] = s[1]
      BY <1>3, <3>1
    <3>3. more[i] = s[1]
      BY <1>2, <2>2
    <3> QED BY <3>1, <3>2, <3>3
  <2>3. CASE i # m + 1
    <3>1. i \in 1..m /\ m - i < n /\ n - (m + 1) + i # n
          /\ n - (m + 1) + i + 1 = n - m + i
      BY <1>1, <1>5, <2>3
    <3>2. Rotate(s)[n - (m + 1) + i] = s[n - (m + 1) + i + 1]
      BY <1>3, <2>1, <3>1
    <3> QED BY <1>2, <1>4, <2>3, <3>1, <3>2
  <2> QED BY <2>2, <2>3
<1>6. AskedInOrder(more, Rotate(s))
  <2>1. Len(more) = m + 1 /\ Len(Rotate(s)) = n
    BY <1>2, <1>3
  <2> DEFINE rotated == Rotate(s)
  <2>2. \A i \in 1..m + 1 : m + 1 - i < n => more[i] = rotated[n - (m + 1) + i]
    BY <1>5
  <2>3. Len(rotated) = n
    BY <2>1
  <2> HIDE DEF rotated
  <2>4. AskedInOrder(more, rotated)
    <3> SUFFICES ASSUME NEW i \in 1..Len(more), Len(more) - i < Len(rotated)
                 PROVE  more[i] = rotated[Len(rotated) - Len(more) + i]
      BY DEF AskedInOrder
    <3>1. i \in 1..m + 1 /\ m + 1 - i < n
      BY <1>1, <2>1, <2>3
    <3>2. more[i] = rotated[n - (m + 1) + i]
      BY <2>2, <3>1
    <3> QED BY <2>1, <2>3, <3>2
  <2> QED BY <2>4 DEF rotated
<1> QED BY <1>6 DEF more

\* Nobody else turns the list of a goroutine that has it to itself.
LEMMA LoneListStays ==
  ASSUME TypeOK, CallsInv, Next, NEW c \in Callers, Alone(c), ~Failover(c),
         stage # "connecting"
  PROVE  endpoints'[ChainOf[c]] = endpoints[ChainOf[c]]
<1>1. CASE endpoints' = endpoints
  BY <1>1
<1>2. ASSUME NEW g \in Goroutines, Failover(g)
      PROVE  endpoints'[ChainOf[c]] = endpoints[ChainOf[c]]
  <2>1. g \in Callers \ {c}
    BY <1>2 DEF Failover, CallsInv, CallInv, Goroutines
  <2>2. using[g] # ChainOf[c] /\ using[g] \in Chains /\ ChainOf[c] \in Chains
    BY <2>1, RpcAssumption DEF CallsInv, CallInv, Alone, Goroutines
  <2> QED BY <1>2, <2>2 DEF Failover, TypeOK
<1>3. ~\E ch \in Chains : Dial(ch)
  BY DEF Dial
<1> QED
  BY <1>1, <1>2, <1>3 DEF Next, WithRetry, StartFails, Connected, Close, Cancel, Call,
     Ask, Answered, NotAnswered, Retry, GiveUp

LEMMA LoneNext ==
  ASSUME TypeOK, CallsInv, Next, NEW c \in Callers, Alone(c), LoneInv(c)
  PROVE  LoneInv(c)'
<1> DEFINE list == endpoints[ChainOf[c]]
<1>1. /\ c \in Goroutines /\ c # Main /\ ChainOf[c] \in Chains
      /\ using[c] = ChainOf[c]
      /\ tried[c] \in Seq(Endpoints) /\ Len(tried[c]) <= MaxRetries
      /\ list \in Seq(Endpoints)
  BY TriedSequences, RpcAssumption DEF TypeOK, CallsInv, CallInv, Goroutines
<1>2. pc[c] # "idle" => stage = "running" /\ list # <<>> /\ result[c] # "error"
  BY <1>1 DEF CallsInv, CallInv
<1>3. ASSUME tried'[c] = <<>>, result'[c] # "error", pc'[c] # "sent" PROVE LoneInv(c)'
  <2>1. ElementsOf(<<>>) = {} /\ \A s : AskedInOrder(<<>>, s)
    BY DEF ElementsOf, AskedInOrder
  <2> QED BY <1>3, <2>1 DEF LoneInv
<1>4. CASE Call(c)
  BY <1>1, <1>3, <1>4 DEF Call, Begin, Goto, TypeOK
<1>5. CASE Answered(c) \/ GiveUp(c)
  BY <1>1, <1>3, <1>5 DEF Answered, GiveUp, Return, Goto, TypeOK
<1>6. CASE Ask(c)
  <2>1. /\ pc'[c] = "sent" /\ asked'[c] = Head(list) /\ endpoints' = endpoints
        /\ tried' = tried /\ result' = result /\ stage' = stage /\ pc[c] = "wait"
    BY <1>1, <1>6 DEF Ask, Goto, TypeOK
  <2> QED BY <2>1 DEF LoneInv
<1>7. CASE NotAnswered(c)
  <2>1. /\ pc'[c] = "failover" /\ pc[c] = "sent" /\ endpoints' = endpoints
        /\ result' = result /\ stage' = stage
        /\ tried'[c] = Append(tried[c], asked[c])
    BY <1>1, <1>7 DEF NotAnswered, Goto, TypeOK
  <2>2. asked[c] = Head(list) /\ AskedInOrder(tried[c], list) /\ list # <<>>
        /\ ElementsOf(tried[c]) \subseteq ElementsOf(list)
    BY <1>2, <2>1 DEF LoneInv
  <2>3. AskedInOrder(tried'[c], Rotate(list))
    BY <1>1, <2>1, <2>2, AskedOneMore
  <2>4. Head(list) \in ElementsOf(list)
    BY <1>1, <2>2 DEF ElementsOf
  <2>5. ElementsOf(tried'[c]) \subseteq ElementsOf(list)
    <3>1. Head(list) \in Endpoints
      BY <1>1, <2>2
    <3>2. ElementsOf(Append(tried[c], Head(list))) \subseteq ElementsOf(tried[c]) \cup {Head(list)}
      BY <1>1, <3>1 DEF ElementsOf
    <3> QED BY <2>1, <2>2, <2>4, <3>2
  <2> QED BY <1>2, <2>1, <2>3, <2>5 DEF LoneInv
<1>8. CASE Failover(c)
  <2>1. /\ pc[c] = "failover" /\ stage' = stage
        /\ endpoints'[ChainOf[c]] = Rotate(list)
    BY <1>1, <1>8 DEF Failover, TypeOK
  <2>2. pc'[c] # "failover" /\ pc'[c] # "sent" /\ tried'[c] = tried[c]
        /\ result'[c] = "error" => Len(tried[c]) = MaxRetries
    <3>1. CASE Len(tried[c]) < MaxRetries
      BY <1>1, <1>2, <1>8, <2>1, <3>1 DEF Failover, Goto, TypeOK
    <3>2. CASE ~(Len(tried[c]) < MaxRetries)
      BY <1>1, <1>8, <3>2, RpcAssumption DEF Failover, Return, Goto, TypeOK
    <3> QED BY <3>1, <3>2
  <2>3. pc'[c] # "failover" /\ pc'[c] # "sent" /\ tried'[c] = tried[c]
    BY <1>1, <1>8 DEF Failover, Return, Goto, TypeOK
  <2>4. ElementsOf(Rotate(list)) = ElementsOf(list)
    BY <1>1, <1>2, <2>1, RotateFacts
  <2>5. stage # "connecting"
    BY <1>2, <2>1
  <2> QED BY <2>1, <2>2, <2>3, <2>4, <2>5 DEF LoneInv
<1>9. CASE Retry(c)
  <2>1. pc[c] = "backoff" /\ pc'[c] = "wait" /\ UNCHANGED <<stage, endpoints, tried, asked, result>>
    BY <1>1, <1>9 DEF Retry, Goto, TypeOK
  <2> QED BY <2>1 DEF LoneInv
<1>10. CASE ~(Call(c) \/ WithRetry(c))
  <2>1. /\ pc'[c] = pc[c] /\ tried'[c] = tried[c] /\ asked'[c] = asked[c]
        /\ result'[c] = result[c]
        /\ stage' = "connecting" => stage = "connecting"
    <3>1. ASSUME NEW ch \in Chains, Dial(ch)
          PROVE  pc'[c] = pc[c] /\ tried'[c] = tried[c] /\ asked'[c] = asked[c]
                 /\ result'[c] = result[c] /\ stage' = stage
      BY <1>1, <3>1 DEF Dial, Begin, Goto, TypeOK
    <3>2. ASSUME NEW g \in Callers, g # c, Call(g)
          PROVE  pc'[c] = pc[c] /\ tried'[c] = tried[c] /\ asked'[c] = asked[c]
                 /\ result'[c] = result[c] /\ stage' = stage
      BY <1>1, <3>2 DEF Call, Begin, Goto, TypeOK
    <3>3. ASSUME NEW g \in Goroutines, g # c, WithRetry(g)
          PROVE  pc'[c] = pc[c] /\ tried'[c] = tried[c] /\ asked'[c] = asked[c]
                 /\ result'[c] = result[c] /\ stage' = stage
      BY <1>1, <3>3
      DEF WithRetry, Ask, Answered, NotAnswered, Failover, Retry, GiveUp, Return, Goto, TypeOK
    <3>4. CASE StartFails \/ Connected \/ Close \/ Cancel
      BY <3>4 DEF StartFails, Connected, Close, Cancel, callVars
    <3> QED BY <1>10, <3>1, <3>2, <3>3, <3>4 DEF Next
  <2>2. CASE stage = "connecting"
    BY <1>2, <1>3, <2>1, <2>2 DEF LoneInv
  <2>3. CASE stage # "connecting"
    <3>1. endpoints'[ChainOf[c]] = list
      BY <1>10, <2>3, LoneListStays DEF WithRetry
    <3> QED BY <2>1, <2>3, <3>1 DEF LoneInv
  <2> QED BY <2>2, <2>3
<1> QED BY <1>4, <1>5, <1>6, <1>7, <1>8, <1>9, <1>10 DEF WithRetry

LEMMA RpcInit == Init => RpcInv /\ LonesInv
<1> SUFFICES ASSUME Init PROVE RpcInv /\ LonesInv
  OBVIOUS
<1>1. ListsInv
  <2>1. \A ch \in Chains : Dialled(ch) = {}
    BY DEF Init, Dialled, ElementsOf
  <2> QED BY <2>1 DEF Init, ListsInv
<1>2. ASSUME NEW c \in Callers PROVE LoneInv(c)
  <2>1. ElementsOf(<<>>) = {} /\ \A s : AskedInOrder(<<>>, s)
    BY DEF ElementsOf, AskedInOrder
  <2> QED BY <2>1 DEF Init, LoneInv, Goroutines
<1> QED BY <1>1, <1>2, TypeInit, CallsInit DEF RpcInv, LonesInv

LEMMA RpcNext == RpcInv /\ LonesInv /\ [Next]_rpcVars => RpcInv' /\ LonesInv'
<1> SUFFICES ASSUME RpcInv, LonesInv, [Next]_rpcVars PROVE RpcInv' /\ LonesInv'
  OBVIOUS
<1>1. CASE Next
  BY <1>1, TypeNext, ListsNext, CallsNext, LoneNext DEF RpcInv, LonesInv, Alone
<1>2. CASE UNCHANGED rpcVars
  <2>1. TypeOK' /\ ListsInv' /\ CallsInv'
    BY <1>2 DEF RpcInv, TypeOK, ListsInv, CallsInv, CallInv, Dialled, rpcVars, callVars
  <2>2. LonesInv'
    BY <1>2 DEF LonesInv, LoneInv, rpcVars, callVars
  <2> QED BY <2>1, <2>2 DEF RpcInv
<1> QED BY <1>1, <1>2

LEMMA RpcAlways == Spec => [](RpcInv /\ LonesInv)
BY RpcInit, RpcNext, PTL DEF Spec

(***************************************************************************)
(* Theorems                                                                *)
(***************************************************************************)

\* No call makes more attempts than it has, or asks anything but an endpoint of
\* its chain's Client (client.go:258-297).
THEOREM RpcTypeOKHolds == Spec => []TypeOK
<1>1. RpcInv => TypeOK
  BY DEF RpcInv
<1> QED BY <1>1, RpcAlways, PTL

\* However many goroutines rotate a Client's list, it remains what was dialled,
\* each endpoint once and in the order of the configuration (client.go:133-143).
THEOREM NoEndpointLostHolds == Spec => []NoEndpointLost
<1>1. ASSUME RpcInv, NEW ch \in Chains, stage \in {"connecting", "running"}, endpoints[ch] # <<>>
      PROVE  Dialled(ch) = ElementsOf(URLs[ch]) \cap open
  <2>1. ASSUME NEW c \in Chains PROVE Dialled(c) \subseteq ElementsOf(URLs[c])
    <3>1. CASE endpoints[c] = <<>>
      BY <3>1 DEF Dialled, ElementsOf
    <3>2. CASE endpoints[c] # <<>>
      <4>1. PICK k \in 0..Len(URLs[c]) - 1 : IsSubsequence(endpoints[c], From(URLs[c], k))
        BY <1>1, <3>2 DEF RpcInv, ListsInv
      <4>2. endpoints[c] \in Seq(Endpoints)
        BY <1>1 DEF RpcInv, TypeOK
      <4> QED BY <4>1, <4>2, DialledOnce DEF Dialled
    <3> QED BY <3>1, <3>2
  <2>2. \A c \in Chains : c # ch => ElementsOf(URLs[c]) \cap ElementsOf(URLs[ch]) = {}
    BY RpcAssumption DEF ElementsOf
  <2>3. open = UNION {Dialled(c) : c \in Chains}
    BY <1>1 DEF RpcInv, ListsInv
  <2> HIDE DEF Dialled
  <2> QED BY <2>1, <2>2, <2>3
<1>2. RpcInv => NoEndpointLost
  BY <1>1 DEF RpcInv, ListsInv, NoEndpointLost
<1> QED BY <1>2, RpcAlways, PTL

\* A request in flight has an open connection, and a Manager that failed or was
\* closed has none (client.go:95-98, manager.go).
THEOREM ConnectionsKeptHolds == Spec => []ConnectionsKept
<1>1. ASSUME RpcInv, NEW g \in Goroutines, pc[g] = "sent" PROVE asked[g] \in open
  <2>1. asked[g] \in Dialled(using[g]) /\ using[g] \in Chains
        /\ stage \in {"connecting", "running"}
    BY <1>1 DEF RpcInv, TypeOK, CallsInv, CallInv
  <2> QED BY <1>1, <2>1 DEF RpcInv, ListsInv
<1>2. RpcInv => ConnectionsKept
  BY <1>1 DEF RpcInv, ListsInv, ConnectionsKept
<1> QED BY <1>2, RpcAlways, PTL

\* The call of a goroutine that has its Client to itself, as in cmd/backfill,
\* fails only when it has asked as many endpoints as it has attempts, or all of them (client.go:258-297).
THEOREM LoneCallerTriesAllHolds == Spec => []LoneCallerTriesAll
<1>1. ASSUME RpcInv, LonesInv, NEW c \in Callers, Alone(c), result[c] = "error"
      PROVE  LET n == Len(endpoints[using[c]]) IN
               Cardinality(ElementsOf(tried[c])) = IF n < MaxRetries THEN n ELSE MaxRetries
  <2> DEFINE s == endpoints[ChainOf[c]]
             n == Len(s)
             tr == tried[c]
  <2>1. /\ c \in Goroutines /\ using[c] = ChainOf[c] /\ ChainOf[c] \in Chains
        /\ tr \in Seq(Endpoints) /\ s \in Seq(Endpoints) /\ MaxRetries \in Nat \ {0}
    BY <1>1, TriedSequences, RpcAssumption DEF RpcInv, TypeOK, CallsInv, CallInv, Goroutines
  <2>2. pc[c] = "idle"
    BY <1>1, <2>1 DEF RpcInv, CallsInv, CallInv
  <2>3. /\ Len(tr) = MaxRetries
        /\ ElementsOf(tr) \subseteq ElementsOf(s)
        /\ \A i \in 1..MaxRetries : MaxRetries - i < n => tr[i] = s[n - MaxRetries + i]
    <3>1. Len(tr) = MaxRetries /\ ElementsOf(tr) \subseteq ElementsOf(s) /\ AskedInOrder(tr, s)
      BY <1>1, <2>2 DEF LonesInv, LoneInv
    <3> HIDE DEF s, tr
    <3> QED BY <3>1 DEF AskedInOrder
  <2>4. s # <<>>
    <3> HIDE DEF s, tr
    <3>1. 1 \in DOMAIN tr
      BY <2>1, <2>3
    <3>2. tr[1] \in ElementsOf(s)
      BY <2>3, <3>1 DEF ElementsOf
    <3> QED BY <2>1, <3>2 DEF ElementsOf
  <2>5. \A i, j \in DOMAIN s : s[i] = s[j] => i = j
    <3>1. PICK k \in 0..Len(URLs[ChainOf[c]]) - 1 :
            IsSubsequence(s, From(URLs[ChainOf[c]], k))
      BY <1>1, <2>1, <2>4 DEF RpcInv, ListsInv
    <3> QED BY <2>1, <3>1, DialledOnce
  <2> HIDE DEF s, tr
  <2>6. n \in Nat /\ DOMAIN s = 1..n /\ DOMAIN tr = 1..MaxRetries
    BY <2>1, <2>3
  <2>7. CASE n < MaxRetries
    <3>1. ASSUME NEW j \in 1..n PROVE s[j] \in ElementsOf(tr)
      <4>1. j - n + MaxRetries \in 1..MaxRetries
            /\ MaxRetries - (j - n + MaxRetries) < n
            /\ n - MaxRetries + (j - n + MaxRetries) = j
        BY <2>1, <2>6, <2>7
      <4>2. tr[j - n + MaxRetries] = s[j]
        BY <2>3, <4>1
      <4> QED BY <2>6, <4>1, <4>2 DEF ElementsOf
    <3>2. ElementsOf(tr) = ElementsOf(s)
      BY <2>3, <2>6, <3>1 DEF ElementsOf
    <3>3. Cardinality(ElementsOf(s)) = n
      BY <2>1, <2>5, ElementsCounted
    <3> QED BY <2>1, <2>7, <3>2, <3>3 DEF s, tr
  <2>8. CASE ~(n < MaxRetries)
    <3>1. ASSUME NEW i \in 1..MaxRetries
          PROVE  n - MaxRetries + i \in 1..n /\ tr[i] = s[n - MaxRetries + i]
      <4>1. n - MaxRetries + i \in 1..n /\ MaxRetries - i < n
        BY <2>1, <2>6, <2>8
      <4> QED BY <2>3, <4>1
    <3>2. ASSUME NEW i \in DOMAIN tr, NEW j \in DOMAIN tr, tr[i] = tr[j] PROVE i = j
      <4>1. n - MaxRetries + i = n - MaxRetries + j
        BY <2>5, <2>6, <3>1, <3>2
      <4> QED BY <2>1, <2>6, <3>2, <4>1
    <3>3. Cardinality(ElementsOf(tr)) = Len(tr)
      BY <2>1, <3>2, ElementsCounted
    <3> QED BY <2>1, <2>3, <2>8, <3>3 DEF s, tr
  <2> QED BY <2>7, <2>8
<1>2. RpcInv /\ LonesInv => LoneCallerTriesAll
  BY <1>1 DEF LoneCallerTriesAll
<1> QED BY <1>2, RpcAlways, PTL
=============================================================================
