------------------------ MODULE MessageQuerierProofs ------------------------
(***************************************************************************)
(* For any messages, logs, filters and page sizes: traces tell a message's *)
(* outcome, and a walk through the pages of a list neither repeats nor     *)
(* misses a message.                                                       *)
(***************************************************************************)
EXTENDS QueryApi, CorrelatorProofs, FiniteSetTheorems, WellFoundedInduction

(***************************************************************************)
(* Finite orders                                                           *)
(***************************************************************************)

StrictOrder(S, R) ==
  /\ \A x \in S : <<x, x>> \notin R
  /\ \A x, y, z \in S : <<x, y>> \in R /\ <<y, z>> \in R => <<x, z>> \in R
  /\ \A x, y \in S : x # y => <<x, y>> \in R \/ <<y, x>> \in R

Before(S, R, x) == {y \in S : <<y, x>> \in R}

\* What comes before y and everything before that comes before x, if y does.
LEMMA BeforeShrinks ==
  ASSUME NEW S, NEW R, StrictOrder(S, R), NEW x \in S, NEW y \in Before(S, R, x)
  PROVE  /\ Before(S, R, y) \subseteq Before(S, R, x)
         /\ y \notin Before(S, R, y)
  BY DEF StrictOrder, Before

\* Some element of a set has, of those with a property, nothing of the property
\* before it.
LEMMA LeastExists ==
  ASSUME NEW S, IsFiniteSet(S), NEW R, StrictOrder(S, R), NEW T \in SUBSET S, T # {}
  PROVE  \E m \in T : \A x \in T : <<x, m>> \notin R
<1> DEFINE Sets == {Before(S, R, x) : x \in T}
<1>1. Sets \subseteq FiniteSubsetsOf(S)
  BY FS_Subset DEF FiniteSubsetsOf, Before
<1>2. Sets # {}
  OBVIOUS
<1>3. IsWellFoundedOn(StrictSubsetOrdering(S), FiniteSubsetsOf(S))
  BY FS_StrictSubsetOrderingWellFounded
<1> HIDE DEF Sets
<1>4. \E X \in Sets : \A Y \in Sets : ~ (<<Y, X>> \in StrictSubsetOrdering(S))
  BY <1>1, <1>2, <1>3, WFMin
<1>5. PICK m \in T : \A Y \in Sets : <<Y, Before(S, R, m)>> \notin StrictSubsetOrdering(S)
  BY <1>4 DEF Sets
<1>6. ASSUME NEW x \in T, <<x, m>> \in R
      PROVE  FALSE
  <2>1. x \in Before(S, R, m)
    BY <1>6 DEF Before
  <2>2. /\ Before(S, R, x) \subseteq Before(S, R, m)
        /\ x \notin Before(S, R, x)
    BY <2>1, BeforeShrinks
  <2>3. <<Before(S, R, x), Before(S, R, m)>> \in StrictSubsetOrdering(S)
    BY <2>1, <2>2 DEF StrictSubsetOrdering, Before
  <2>4. Before(S, R, x) \in Sets
    BY DEF Sets
  <2> QED
    BY <2>3, <2>4, <1>5
<1> QED
  BY <1>6

Reversed(S, R) == {p \in S \X S : <<p[2], p[1]>> \in R}

\* ... and some element has nothing of the property behind it.
LEMMA GreatestExists ==
  ASSUME NEW S, IsFiniteSet(S), NEW R, StrictOrder(S, R), NEW T \in SUBSET S, T # {}
  PROVE  \E m \in T : \A x \in T : <<m, x>> \notin R
<1> DEFINE V == Reversed(S, R)
<1>1. \A x, y \in S : <<x, y>> \in V <=> <<y, x>> \in R
  BY DEF Reversed
<1> HIDE DEF V
<1>2. StrictOrder(S, V)
  BY <1>1 DEF StrictOrder
<1>3. PICK m \in T : \A x \in T : <<x, m>> \notin V
  BY <1>2, LeastExists
<1> QED
  BY <1>1, <1>3

\* An element of any place that is not beyond another's.
LEMMA PlaceTaken ==
  ASSUME NEW S, IsFiniteSet(S), NEW R, StrictOrder(S, R), NEW n \in Nat,
         NEW z \in S, Cardinality(Before(S, R, z)) >= n
  PROVE  \E x \in S : Cardinality(Before(S, R, x)) = n
<1> DEFINE T == {x \in S : Cardinality(Before(S, R, x)) >= n}
<1>1. PICK x \in T : \A y \in T : <<y, x>> \notin R
  BY LeastExists
<1> DEFINE P == Before(S, R, x)
<1>2. P \in SUBSET S /\ IsFiniteSet(P) /\ Cardinality(P) \in Nat
  BY FS_Subset, FS_CardinalityType DEF Before
<1>3. CASE P = {}
  <2>1. Cardinality(P) = 0
    BY <1>3, FS_EmptySet
  <2> QED
    BY <1>1, <2>1
<1>4. CASE P # {}
  <2>1. PICK y \in P : \A v \in P : <<y, v>> \notin R
    BY <1>2, <1>4, GreatestExists
  <2>2. y \in S /\ x \in S
    BY DEF Before
  <2>3. Before(S, R, y) = P \ {y}
    <3>1. Before(S, R, y) \subseteq P \ {y}
      BY <2>2, BeforeShrinks
    <3>2. \A v \in P \ {y} : v \in Before(S, R, y)
      BY <2>1, <2>2 DEF StrictOrder, Before
    <3> QED
      BY <3>1, <3>2
  <2>4. Cardinality(Before(S, R, y)) = Cardinality(P) - 1
    <3>1. Cardinality(P \ {y}) = IF y \in P THEN Cardinality(P) - 1 ELSE Cardinality(P)
      BY <1>2, FS_RemoveElement
    <3> QED
      BY <2>1, <2>3, <3>1
  <2>5. ~ (Cardinality(P) - 1 >= n)
    BY <1>1, <2>1, <2>2, <2>4 DEF Before
  <2> QED
    BY <1>1, <1>2, <2>5
<1> QED
  BY <1>3, <1>4

(***************************************************************************)
(* Pages                                                                   *)
(***************************************************************************)

\* The n foremost elements.
Foremost(S, R, n) == {x \in S : Cardinality(Before(S, R, x)) < n}

Lasts(P, R) == {i \in P : \A j \in P \ {i} : <<j, i>> \in R}

\* The foremost have all that comes before them among them.
LEMMA ForemostClosed ==
  ASSUME NEW S, IsFiniteSet(S), NEW R, StrictOrder(S, R), NEW n \in Nat,
         NEW x \in Foremost(S, R, n)
  PROVE  Before(Foremost(S, R, n), R, x) = Before(S, R, x)
<1> SUFFICES ASSUME NEW y \in Before(S, R, x)
             PROVE  y \in Foremost(S, R, n)
  BY DEF Before, Foremost
<1>1. Before(S, R, y) \subseteq Before(S, R, x) /\ y \in S /\ x \in S
  BY BeforeShrinks DEF Foremost, Before
<1>2. IsFiniteSet(Before(S, R, x))
  BY FS_Subset DEF Before
<1>3. /\ Cardinality(Before(S, R, y)) <= Cardinality(Before(S, R, x))
      /\ IsFiniteSet(Before(S, R, y))
  BY <1>1, <1>2, FS_Subset
<1>4. Cardinality(Before(S, R, y)) \in Nat /\ Cardinality(Before(S, R, x)) \in Nat
  BY <1>2, <1>3, FS_CardinalityType
<1> QED
  BY <1>1, <1>3, <1>4 DEF Foremost

\* One more row than fits is asked for.  If none is left over the page is all
\* there is; else it has a last row, and what is not on it comes after that.
LEMMA PageFacts ==
  ASSUME NEW S, IsFiniteSet(S), NEW R, StrictOrder(S, R), NEW n \in Nat \ {0}
  PROVE  LET hits == Foremost(S, R, n + 1)
             page == Foremost(hits, R, n) IN
           /\ page \subseteq S
           /\ hits = page => page = S
           /\ hits # page => Lasts(page, R) # {}
           /\ \A l \in Lasts(page, R) : \A x \in S \ page : <<l, x>> \in R
<1> DEFINE hits == Foremost(S, R, n + 1)
           page == Foremost(hits, R, n)
<1>1. page \subseteq hits /\ hits \subseteq S
  BY DEF Foremost
<1>2. IsFiniteSet(hits) /\ IsFiniteSet(page)
  <2>1. IsFiniteSet(hits)
    BY <1>1, FS_Subset
  <2> QED
    BY <2>1, <1>1, FS_Subset
<1>3. StrictOrder(hits, R) /\ StrictOrder(page, R)
  BY <1>1 DEF StrictOrder
<1>4. \A x \in hits : Before(hits, R, x) = Before(S, R, x)
  BY ForemostClosed
<1>5. \A x \in page : Before(page, R, x) = Before(hits, R, x)
  BY <1>2, <1>3, ForemostClosed
<1>6. \A x \in hits : x \in page <=> Cardinality(Before(hits, R, x)) < n
  BY DEF Foremost
<1>7. \A x \in S : x \in hits <=> Cardinality(Before(S, R, x)) < n + 1
  BY DEF Foremost
<1> HIDE DEF hits, page
<1>8. hits = page => page = S
  <2> SUFFICES ASSUME hits = page, NEW z \in S, z \notin hits
               PROVE  FALSE
    BY <1>1
  <2>1. Cardinality(Before(S, R, z)) \in Nat
    BY FS_Subset, FS_CardinalityType DEF Before
  <2>2. Cardinality(Before(S, R, z)) >= n
    BY <2>1, <1>7
  <2>3. PICK x \in S : Cardinality(Before(S, R, x)) = n
    BY <2>2, PlaceTaken
  <2>4. x \in hits
    BY <2>3, <1>7
  <2> QED
    BY <2>3, <2>4, <1>4, <1>6
<1>9. hits # page => Lasts(page, R) # {}
  <2> SUFFICES ASSUME hits # page
               PROVE  Lasts(page, R) # {}
    OBVIOUS
  <2>1. hits # {}
    BY <1>1
  <2>2. PICK m \in hits : \A x \in hits : <<x, m>> \notin R
    BY <2>1, <1>2, <1>3, LeastExists
  <2>3. Before(hits, R, m) = {}
    BY <2>2 DEF Before
  <2>4. m \in page
    BY <2>3, <1>6, FS_EmptySet
  <2>5. PICK l \in page : \A x \in page : <<l, x>> \notin R
    BY <2>4, <1>2, <1>3, GreatestExists
  <2>6. l \in Lasts(page, R)
    BY <2>5, <1>3 DEF StrictOrder, Lasts
  <2> QED
    BY <2>6
<1>10. ASSUME NEW l \in Lasts(page, R), NEW x \in S \ page
       PROVE  <<l, x>> \in R
  <2>1. l \in page /\ l \in hits /\ l \in S /\ x \in S /\ x # l
    BY <1>1 DEF Lasts
  <2> SUFFICES ASSUME <<x, l>> \in R
               PROVE  FALSE
    BY <2>1 DEF StrictOrder
  <2>2. x \in Before(S, R, l)
    BY <2>1 DEF Before
  <2>3. x \in Before(hits, R, l)
    BY <2>1, <2>2, <1>4
  <2>4. x \in Before(page, R, l)
    BY <2>1, <2>3, <1>5
  <2> QED
    BY <2>4 DEF Before
<1> QED
  BY <1>1, <1>8, <1>9, <1>10 DEF hits, page

(***************************************************************************)
(* The table the API reads                                                 *)
(***************************************************************************)

\* The API's steps are steps of the correlator, or not seen by it.
LEMMA ApiMoves == [ApiNext]_apiVars => [Next]_vars
<1> SUFFICES ASSUME [ApiNext]_apiVars
             PROVE  [Next]_vars
  OBVIOUS
<1>1. CASE TableNext
  BY <1>1 DEF TableNext, Tick, Normalize, Store, Correlate, Next
<1>2. CASE StartWalk \/ NextPage
  BY <1>2 DEF StartWalk, NextPage, tableVars
<1>3. CASE AskStats
  BY <1>3 DEF AskStats, TimePasses, Handle, AnswerFromCache, Miss, QueryProtocol, QueryRoutes,
              QueryFails, tableVars
<1>4. CASE UNCHANGED apiVars
  BY <1>4 DEF apiVars, tableVars
<1> QED
  BY <1>1, <1>2, <1>3, <1>4 DEF ApiNext, WalkPages

\* A row has a destination exactly if its status is final, and a latency
\* other than 0 only then.
OutcomeInv(id) ==
  /\ rows[id].status \in {"absent", "pending"} <=> rows[id].dest = {}
  /\ rows[id].status \in {"absent", "pending"} => rows[id].latency = 0

OutcomesInv == TypeOK /\ \A id \in MessageIds : OutcomeInv(id)

LEMMA OutcomesInit == Init => OutcomesInv
  BY TypeInit DEF OutcomesInv, OutcomeInv, Init, StoreInit, NoRow

\* Destination and status are written by one call.
LEMMA OutcomesNext == OutcomesInv /\ [Next]_vars => OutcomesInv'
<1> SUFFICES ASSUME OutcomesInv, [Next]_vars
             PROVE  OutcomesInv'
  OBVIOUS
<1>1. TypeOK /\ TypeOK'
  BY TypeNext DEF OutcomesInv
<1>2. \A id \in MessageIds : OutcomeInv(id)
  BY DEF OutcomesInv
<1>3. ASSUME rows' = rows
      PROVE  \A id \in MessageIds : OutcomeInv(id)'
  BY <1>2, <1>3 DEF OutcomeInv
<1>4. ASSUME NEW w \in Workers, StoreMessage(w), NEW id \in MessageIds
      PROVE  OutcomeInv(id)'
  <2>1. PICK m \in MessageRecord : UpsertMessage(m)
    BY <1>1, <1>4, StoreFacts
  <2>2. CASE id # m.id
    BY <2>1, <2>2, <1>1, <1>2, UpsertFacts DEF OutcomeInv
  <2>3. CASE id = m.id /\ rows[id].status = "absent"
    <3>1. rows'[id] = NewRow(m)
      BY <2>1, <2>3, <1>1, UpsertFacts
    <3> QED
      BY <3>1 DEF NewRow, OutcomeInv
  <2>4. CASE id = m.id /\ rows[id].status # "absent"
    <3>1. /\ rows'[id].status = rows[id].status
          /\ rows'[id].dest = rows[id].dest /\ rows'[id].latency = rows[id].latency
      BY <2>1, <2>4, <1>1, UpsertFacts
    <3> QED
      BY <3>1, <1>2 DEF OutcomeInv
  <2> QED
    BY <2>2, <2>3, <2>4
<1>5. ASSUME NEW w \in Workers, SetDestination(w), NEW id \in MessageIds
      PROVE  OutcomeInv(id)'
  <2>1. PICK x \in found[w] : \E e \in Stamped(w) :
          UpdateDestination(x, DestinationOf(e), FinalStatus(e))
    BY <1>5 DEF SetDestination
  <2>2. PICK e \in Stamped(w) : UpdateDestination(x, DestinationOf(e), FinalStatus(e))
    BY <2>1
  <2>3. x \in MessageIds
    BY <2>1, <1>1 DEF TypeOK
  <2>4. rows[x] \in RowType
    BY <2>3, <1>1 DEF TypeOK
  <2>5. /\ \A y \in MessageIds \ {x} : rows'[y] = rows[y]
        /\ rows'[x] = [rows[x] EXCEPT !.dest = {DestinationOf(e)}, !.status = FinalStatus(e),
                                      !.latency = Latency(rows[x], DestinationOf(e))]
    BY <2>2, <2>3, <1>1 DEF UpdateDestination, TypeOK
  <2>6. rows'[x].dest = {DestinationOf(e)} /\ rows'[x].status = FinalStatus(e)
    BY <2>4, <2>5 DEF RowType
  <2>7. FinalStatus(e) \in {"executed", "failed"}
    BY DEF FinalStatus
  <2> QED
    BY <2>5, <2>6, <2>7, <1>2 DEF OutcomeInv
<1>6. \A id \in MessageIds : OutcomeInv(id)'
  <2>1. CASE \E w \in Workers : StoreMessage(w)
    BY <2>1, <1>4
  <2>2. CASE \E w \in Workers : SetDestination(w)
    BY <2>2, <1>5
  <2>3. CASE \E w \in Workers : FindMessage(w) \/ DropEvent(w) \/ SkipEvent(w) \/ Replay(w)
    BY <2>3, <1>3 DEF FindMessage, DropEvent, SkipEvent, Replay
  <2>4. CASE UNCHANGED vars
    BY <2>4, <1>3 DEF vars
  <2> QED
    BY <2>1, <2>2, <2>3, <2>4 DEF Next
<1> QED
  BY <1>1, <1>6 DEF OutcomesInv

LEMMA OutcomesShown == OutcomesInv => TraceTellsOutcome
<1> SUFFICES ASSUME OutcomesInv, NEW id \in Stored
             PROVE  /\ Trace(id).status # "pending" <=>
                         \E e \in Trace(id).events : e.type = "received"
                    /\ Trace(id).latency # {} => Trace(id).status # "pending"
  BY DEF TraceTellsOutcome
<1>1. OutcomeInv(id) /\ rows[id].status # "absent"
  BY DEF OutcomesInv, Stored
<1>2. /\ Trace(id).status = rows[id].status
      /\ Trace(id).events = {[type |-> "sent", at |-> rows[id].source]}
                              \cup {[type |-> "received", at |-> d] : d \in rows[id].dest}
      /\ Trace(id).latency = {l \in {rows[id].latency} : l > 0}
  BY DEF Trace, Message
<1>3. (\E e \in Trace(id).events : e.type = "received") <=> rows[id].dest # {}
  <2>1. ASSUME NEW d \in rows[id].dest
        PROVE  \E e \in Trace(id).events : e.type = "received"
    <3>1. [type |-> "received", at |-> d] \in Trace(id).events
      BY <1>2
    <3> QED
      BY <3>1
  <2>2. ASSUME NEW e \in Trace(id).events, e.type = "received"
        PROVE  rows[id].dest # {}
    BY <2>2, <1>2
  <2> QED
    BY <2>1, <2>2
<1> QED
  BY <1>1, <1>2, <1>3 DEF OutcomeInv

\* Whatever is replayed, found twice or skipped, a reader sees the arrival exactly
\* of messages that are not pending any more, and a latency only of those
\* (address_trace_querier.go:208-215, 234-236).
THEOREM TraceTellsOutcomeHolds == ApiSpec => []TraceTellsOutcome
<1>1. ApiInit => OutcomesInv
  BY OutcomesInit DEF ApiInit, TableInit
<1>2. OutcomesInv /\ [ApiNext]_apiVars => OutcomesInv'
  BY ApiMoves, OutcomesNext
<1> QED
  BY <1>1, <1>2, OutcomesShown, PTL DEF ApiSpec

(***************************************************************************)
(* The order of a list                                                     *)
(***************************************************************************)

Keys == (0..MaxClock) \X Nat

KeyOrder(order) ==
  {p \in MessageIds \X MessageIds : Ahead(order, SortKey(p[1]), SortKey(p[2]))}

LEMMA AheadTransitive ==
  ASSUME NEW order, NEW k \in Keys, NEW l \in Keys, NEW m \in Keys,
         Ahead(order, k, l), Ahead(order, l, m)
  PROVE  Ahead(order, k, m)
<1>1. /\ k[1] \in Int /\ k[2] \in Int /\ l[1] \in Int /\ l[2] \in Int
      /\ m[1] \in Int /\ m[2] \in Int
  BY ClockAssumption DEF Keys
<1> QED
  BY <1>1 DEF Ahead, Less

LEMMA AheadStrict ==
  ASSUME NEW order, NEW k \in Keys, NEW l \in Keys
  PROVE  /\ ~Ahead(order, k, k)
         /\ ~(Ahead(order, k, l) /\ Ahead(order, l, k))
         /\ k[2] # l[2] => Ahead(order, k, l) \/ Ahead(order, l, k)
<1>1. k[1] \in Int /\ k[2] \in Int /\ l[1] \in Int /\ l[2] \in Int
  BY ClockAssumption DEF Keys
<1> QED
  BY <1>1 DEF Ahead, Less

LEMMA SortKeyType ==
  ASSUME TableTypeOK, NEW id \in MessageIds
  PROVE  SortKey(id) \in Keys
  BY QuerierAssumption DEF TableTypeOK, SortKey, Keys

\* No two messages have one place.
LEMMA KeyOrderStrict ==
  ASSUME TableTypeOK, NEW order, NEW S \in SUBSET MessageIds
  PROVE  StrictOrder(S, KeyOrder(order))
<1> DEFINE R == KeyOrder(order)
<1>1. \A x, y \in MessageIds : <<x, y>> \in R <=> Ahead(order, SortKey(x), SortKey(y))
  BY DEF KeyOrder
<1>2. \A x \in MessageIds : SortKey(x) \in Keys
  BY SortKeyType
<1> HIDE DEF R
<1>3. ASSUME NEW x \in S
      PROVE  <<x, x>> \notin R
  BY <1>1, <1>2, AheadStrict
<1>4. ASSUME NEW x \in S, NEW y \in S, NEW z \in S, <<x, y>> \in R, <<y, z>> \in R
      PROVE  <<x, z>> \in R
  <2>1. /\ SortKey(x) \in Keys /\ SortKey(y) \in Keys /\ SortKey(z) \in Keys
        /\ Ahead(order, SortKey(x), SortKey(y)) /\ Ahead(order, SortKey(y), SortKey(z))
    BY <1>1, <1>2, <1>4
  <2>2. Ahead(order, SortKey(x), SortKey(z))
    BY <2>1, AheadTransitive
  <2> QED
    BY <2>2, <1>1
<1>5. ASSUME NEW x \in S, NEW y \in S, x # y
      PROVE  <<x, y>> \in R \/ <<y, x>> \in R
  <2>1. Rank[x] # Rank[y]
    BY <1>5, QuerierAssumption
  <2>2. SortKey(x)[2] # SortKey(y)[2]
    BY <2>1 DEF SortKey
  <2>3. Ahead(order, SortKey(x), SortKey(y)) \/ Ahead(order, SortKey(y), SortKey(x))
    BY <2>2, <1>2, AheadStrict
  <2> QED
    BY <2>3, <1>1
<1> QED
  BY <1>3, <1>4, <1>5 DEF StrictOrder, R

LEMMA FirstOfIsForemost ==
  ASSUME NEW order, NEW S \in SUBSET MessageIds, NEW n
  PROVE  FirstOf(S, n, order) = Foremost(S, KeyOrder(order), n)
<1>1. \A id \in S : {j \in S : Ahead(order, SortKey(j), SortKey(id))}
                      = Before(S, KeyOrder(order), id)
  BY DEF KeyOrder, Before
<1> QED
  BY <1>1 DEF FirstOf, Foremost

(***************************************************************************)
(* What writers do to the order                                            *)
(***************************************************************************)

\* A step adds one message at most.
LEMMA StoredGrows ==
  ASSUME TypeOK, [Next]_vars
  PROVE  Stored \subseteq Stored' /\ \E id : Stored' \subseteq Stored \cup {id}
<1>1. ASSUME NEW x \in MessageIds, \A id \in MessageIds \ {x} : rows'[id] = rows[id],
             rows[x].status # "absent" => rows'[x].status # "absent"
      PROVE  Stored \subseteq Stored' /\ Stored' \subseteq Stored \cup {x}
  BY <1>1 DEF Stored
<1>2. ASSUME NEW w \in Workers, StoreMessage(w)
      PROVE  Stored \subseteq Stored' /\ \E id : Stored' \subseteq Stored \cup {id}
  <2>1. PICK m \in MessageRecord : UpsertMessage(m)
    BY <1>2, StoreFacts
  <2>2. /\ \A id \in MessageIds \ {m.id} : rows'[id] = rows[id]
        /\ rows[m.id].status # "absent" => rows'[m.id].status = rows[m.id].status
    BY <2>1, UpsertFacts
  <2>3. m.id \in MessageIds
    BY DEF MessageRecord
  <2> QED
    BY <2>2, <2>3, <1>1
<1>3. ASSUME NEW w \in Workers, SetDestination(w)
      PROVE  Stored \subseteq Stored' /\ \E id : Stored' \subseteq Stored \cup {id}
  <2>1. PICK x \in found[w] : \E e \in Stamped(w) :
          UpdateDestination(x, DestinationOf(e), FinalStatus(e))
    BY <1>3 DEF SetDestination
  <2>2. PICK e \in Stamped(w) : UpdateDestination(x, DestinationOf(e), FinalStatus(e))
    BY <2>1
  <2>3. x \in MessageIds /\ rows[x] \in RowType
    BY <2>1 DEF TypeOK
  <2>4. /\ \A id \in MessageIds \ {x} : rows'[id] = rows[id]
        /\ rows'[x].status = FinalStatus(e)
    BY <2>2, <2>3 DEF UpdateDestination, TypeOK, RowType
  <2>5. FinalStatus(e) # "absent"
    BY DEF FinalStatus
  <2> QED
    BY <2>3, <2>4, <2>5, <1>1
<1>4. ASSUME rows' = rows
      PROVE  Stored' = Stored
  BY <1>4 DEF Stored
<1>5. CASE UNCHANGED vars
  BY <1>4, <1>5 DEF vars
<1>6. CASE \E w \in Workers : FindMessage(w) \/ DropEvent(w) \/ SkipEvent(w) \/ Replay(w)
  BY <1>4, <1>6 DEF FindMessage, DropEvent, SkipEvent, Replay
<1> QED
  BY <1>2, <1>3, <1>5, <1>6 DEF Next

\* No step moves a message in the order.
LEMMA WritersKeepOrder ==
  ASSUME TableTypeOK, [ApiNext]_apiVars
  PROVE  /\ TableTypeOK'
         /\ \A id \in Stored : created'[id] = created[id]
<1>1. TypeOK /\ TypeOK'
  BY ApiMoves, TypeNext DEF TableTypeOK
<1>2. /\ clock \in 0..MaxClock
      /\ stamp \in [Workers -> 0..MaxClock \cup {NoTime}]
      /\ created \in [MessageIds -> 0..MaxClock]
  BY DEF TableTypeOK
<1>3. CASE UNCHANGED <<clock, stamp, created>>
  BY <1>1, <1>2, <1>3 DEF TableTypeOK
<1>4. CASE Tick
  BY <1>1, <1>2, <1>4, ClockAssumption DEF Tick, TableTypeOK
<1>5. ASSUME NEW w \in Workers, Normalize(w)
      PROVE  TableTypeOK' /\ UNCHANGED created
  BY <1>1, <1>2, <1>5 DEF Normalize, TableTypeOK
<1>6. ASSUME NEW w \in Workers, Store(w)
      PROVE  TableTypeOK' /\ \A id \in Stored : created'[id] = created[id]
  <2> DEFINE x == Event(w).id
  <2>1. HasEvent(w)
    BY <1>6 DEF Store, StoreMessage
  <2>2. x \in MessageIds
    BY <2>1, <1>1, EventFacts DEF EventType
  <2>3. /\ created' = [created EXCEPT ![x] = CreatedAt(x, stamp[w])]
        /\ stamp' = [stamp EXCEPT ![w] = NoTime] /\ clock' = clock
        /\ stamp[w] \in 0..MaxClock
    BY <1>6, <1>2 DEF Store
  <2> HIDE DEF x
  <2>4. CreatedAt(x, stamp[w]) \in 0..MaxClock
    BY <2>2, <2>3, <1>2 DEF CreatedAt
  <2>5. TableTypeOK'
    BY <2>2, <2>3, <2>4, <1>1, <1>2 DEF TableTypeOK
  <2>6. \A id \in Stored : created'[id] = created[id]
    BY <2>2, <2>3, <1>2 DEF Stored, CreatedAt
  <2> QED
    BY <2>5, <2>6
<1>7. ASSUME NEW w \in Workers, Correlate(w)
      PROVE  TableTypeOK' /\ UNCHANGED created
  BY <1>1, <1>2, <1>7 DEF Correlate, TableTypeOK
<1>8. CASE WalkPages \/ UNCHANGED apiVars
  <2>1. TableNext \/ UNCHANGED <<clock, stamp, created>>
    BY <1>8 DEF WalkPages, StartWalk, NextPage, apiVars, tableVars
  <2> QED
    BY <2>1, <1>3, <1>4, <1>5, <1>6, <1>7 DEF TableNext
<1>9. CASE AskStats
  <2>1. UNCHANGED <<clock, stamp, created>>
    BY <1>9 DEF AskStats, TimePasses, Handle, AnswerFromCache, Miss, QueryProtocol, QueryRoutes,
                QueryFails, tableVars
  <2> QED
    BY <2>1, <1>3
<1> QED
  BY <1>8, <1>9 DEF ApiNext

(***************************************************************************)
(* A walk                                                                  *)
(***************************************************************************)

Seen == walk.page \cup walk.earlier

\* The cursor parts what was seen from what is still to come.
WalkPlace ==
  /\ Seen \subseteq Stored /\ walk.expected \subseteq Stored
  /\ walk.page \cap walk.earlier = {}
  /\ walk.stage = "open" /\ walk.cursor = {} => Seen = {}
  /\ \A c \in walk.cursor : \A id \in Seen : ~Ahead(walk.order, c, SortKey(id))
  /\ walk.stage = "open" =>
       \A c \in walk.cursor : \A id \in walk.expected \ Seen : Ahead(walk.order, c, SortKey(id))
  /\ walk.stage = "end" => walk.expected \subseteq Seen

WalkInv ==
  /\ QuerierTypeOK
  /\ IsFiniteSet(Stored)
  /\ walk # NoWalk => WalkPlace

LEMMA WalkInit == ApiInit => WalkInv
<1> SUFFICES ASSUME ApiInit
             PROVE  WalkInv
  OBVIOUS
<1>1. /\ Init /\ clock = 0 /\ stamp = [w \in Workers |-> NoTime]
      /\ created = [id \in MessageIds |-> 0] /\ walk = NoWalk
  BY DEF ApiInit, TableInit
<1>2. TableTypeOK
  BY <1>1, TypeInit, ClockAssumption DEF TableTypeOK
<1>3. Stored = {}
  BY <1>1 DEF Init, StoreInit, NoRow, Stored
<1> QED
  BY <1>1, <1>2, <1>3, FS_EmptySet DEF WalkInv, QuerierTypeOK, WalkType

\* What a walk that has begun looks like.
LEMMA WalkShape ==
  ASSUME walk \in WalkType, walk # NoWalk
  PROVE  walk \in [stage : {"open", "end"}, filter : Filters, order : {"asc", "desc"},
                   size : 1..MaxLimit, cursor : SUBSET ((0..MaxClock) \X Nat),
                   page : SUBSET MessageIds, earlier : SUBSET MessageIds,
                   expected : SUBSET MessageIds]
  BY DEF WalkType

\* Writers leave a walk its place.
LEMMA WalkKept ==
  ASSUME WalkInv, [ApiNext]_apiVars, UNCHANGED walk
  PROVE  WalkInv'
<1>1. /\ TableTypeOK' /\ Stored \subseteq Stored'
      /\ \A id \in Stored : created'[id] = created[id]
  BY ApiMoves, StoredGrows, WritersKeepOrder DEF WalkInv, QuerierTypeOK, TableTypeOK
<1>2. IsFiniteSet(Stored')
  <2>1. PICK id : Stored' \subseteq Stored \cup {id}
    BY ApiMoves, StoredGrows DEF WalkInv, QuerierTypeOK, TableTypeOK
  <2>2. IsFiniteSet(Stored \cup {id})
    BY FS_AddElement DEF WalkInv
  <2> QED
    BY <2>1, <2>2, FS_Subset
<1>3. \A id \in Stored : SortKey(id)' = SortKey(id)
  BY <1>1 DEF SortKey
<1>4. walk # NoWalk => WalkPlace'
  <2> SUFFICES ASSUME walk # NoWalk
               PROVE  WalkPlace'
    OBVIOUS
  <2>1. WalkPlace /\ walk' = walk /\ Seen' = Seen
    BY DEF WalkInv, Seen
  <2>2. Seen \subseteq Stored' /\ walk.expected \subseteq Stored'
    BY <2>1, <1>1 DEF WalkPlace
  <2>3. \A c \in walk.cursor : \A id \in Seen : ~Ahead(walk.order, c, SortKey(id)')
    BY <2>1, <1>3 DEF WalkPlace
  <2>4. walk.stage = "open" =>
          \A c \in walk.cursor : \A id \in walk.expected \ Seen :
            Ahead(walk.order, c, SortKey(id)')
    BY <2>1, <1>3 DEF WalkPlace
  <2> QED
    BY <2>1, <2>2, <2>3, <2>4 DEF WalkPlace
<1> QED
  BY <1>1, <1>2, <1>4 DEF WalkInv, QuerierTypeOK

LEMMA WalkStarts ==
  ASSUME WalkInv, StartWalk
  PROVE  WalkInv'
<1>1. PICK f \in Filters, order \in {"asc", "desc"}, limit \in Limits :
        walk' = [stage |-> "open", filter |-> f, order |-> order,
                 size |-> PageSize(limit), cursor |-> {}, page |-> {}, earlier |-> {},
                 expected |-> {id \in MessageIds : Matches(f, id)}]
  BY DEF StartWalk
<1>2. UNCHANGED tableVars
  BY DEF StartWalk
<1>3. TableTypeOK' /\ Stored' = Stored
  BY <1>2 DEF WalkInv, QuerierTypeOK, TableTypeOK, TypeOK, tableVars, vars, Stored
<1>4. PageSize(limit) \in 1..MaxLimit
  BY QuerierAssumption DEF PageSize
<1>5. walk' \in WalkType
  BY <1>1, <1>4 DEF WalkType
<1>6. {id \in MessageIds : Matches(f, id)} \subseteq Stored
  BY DEF Matches
<1>7. WalkPlace'
  BY <1>1, <1>3, <1>6 DEF WalkPlace, Seen
<1> QED
  BY <1>3, <1>5, <1>7 DEF WalkInv, QuerierTypeOK

\* A page comes after the cursor, and all that matches and is not on it comes
\* after its last row.
LEMMA WalkGoesOn ==
  ASSUME WalkInv, NextPage
  PROVE  WalkInv'
<1> DEFINE matching == {id \in MessageIds : Matches(walk.filter, id)}
           S == {id \in matching : \A c \in walk.cursor : Ahead(walk.order, c, SortKey(id))}
           R == KeyOrder(walk.order)
           hits == FirstOf(S, walk.size + 1, walk.order)
           page == FirstOf(hits, walk.size, walk.order)
           cur == NextCursor(hits, page)
<1>1. walk' = [walk EXCEPT !.stage = IF cur = {} THEN "end" ELSE "open", !.cursor = cur,
                           !.page = page, !.earlier = @ \cup walk.page,
                           !.expected = @ \cap matching]
      /\ walk.stage = "open" /\ UNCHANGED tableVars
  BY DEF NextPage
<1>2. walk # NoWalk
  BY <1>1 DEF NoWalk
<1>3. TableTypeOK /\ walk \in WalkType /\ WalkPlace /\ IsFiniteSet(Stored)
  BY <1>2 DEF WalkInv, QuerierTypeOK
<1>4. /\ walk.size \in Nat \ {0} /\ walk.cursor \subseteq Keys
      /\ walk.page \subseteq MessageIds /\ walk.earlier \subseteq MessageIds
      /\ walk.expected \subseteq MessageIds
  BY <1>2, <1>3, WalkShape, QuerierAssumption DEF Keys
<1>5. matching \subseteq Stored /\ S \subseteq matching /\ Stored \subseteq MessageIds
  BY DEF Matches, Stored
<1> HIDE DEF matching
<1>6. S \in SUBSET MessageIds /\ IsFiniteSet(S) /\ StrictOrder(S, R)
  BY <1>3, <1>5, FS_Subset, KeyOrderStrict
<1>7. hits = Foremost(S, R, walk.size + 1) /\ hits \subseteq S
  BY <1>6, FirstOfIsForemost DEF FirstOf
<1>8. page = Foremost(hits, R, walk.size) /\ page \subseteq hits
  BY <1>6, <1>7, FirstOfIsForemost DEF FirstOf
<1>9. \A id \in S : \A c \in walk.cursor : Ahead(walk.order, c, SortKey(id))
  OBVIOUS
<1> HIDE DEF hits, page, S
<1>10. /\ page \subseteq S
       /\ hits = page => page = S
       /\ hits # page => Lasts(page, R) # {}
       /\ \A l \in Lasts(page, R) : \A x \in S \ page : <<l, x>> \in R
  BY <1>4, <1>6, <1>7, <1>8, PageFacts
<1>11. \A x, y \in MessageIds : <<x, y>> \in R <=> Ahead(walk.order, SortKey(x), SortKey(y))
  BY DEF KeyOrder
<1>12. \A x \in MessageIds : SortKey(x) \in Keys
  BY <1>3, SortKeyType
<1> HIDE DEF R
<1>13. cur = IF hits = page THEN {} ELSE {SortKey(l) : l \in Lasts(page, R)}
  <2>1. {i \in page : \A j \in page \ {i} : Ahead(walk.order, SortKey(j), SortKey(i))}
          = Lasts(page, R)
    BY <1>6, <1>10, <1>11 DEF Lasts
  <2> QED
    BY <2>1 DEF NextCursor
<1>14. cur = {} <=> hits = page
  BY <1>10, <1>13
<1> HIDE DEF cur
<1>15. /\ walk'.stage = IF cur = {} THEN "end" ELSE "open"
       /\ walk'.cursor = cur /\ walk'.page = page /\ walk'.order = walk.order
       /\ walk'.earlier = Seen /\ walk'.expected = walk.expected \cap matching
       /\ Seen' = page \cup Seen
  BY <1>1, <1>2, <1>3, WalkShape DEF Seen
<1>16. walk' \in WalkType
  <2>1. cur \subseteq Keys
    BY <1>6, <1>10, <1>12, <1>13 DEF Lasts
  <2> QED
    BY <2>1, <1>1, <1>2, <1>3, <1>5, <1>6, <1>10, WalkShape DEF WalkType, Keys
<1>17. TableTypeOK' /\ Stored' = Stored /\ \A id : SortKey(id)' = SortKey(id)
  BY <1>1, <1>3 DEF TableTypeOK, TypeOK, tableVars, vars, Stored, SortKey
\* Nothing comes twice.
<1>18. page \cap Seen = {}
  <2>1. CASE walk.cursor = {}
    BY <2>1, <1>1, <1>3 DEF WalkPlace
  <2>2. CASE walk.cursor # {}
    BY <2>2, <1>3, <1>9, <1>10 DEF WalkPlace
  <2> QED
    BY <2>1, <2>2
\* Nothing seen comes after the new cursor.
<1>19. ASSUME NEW l \in Lasts(page, R), NEW id \in page \cup Seen
       PROVE  ~Ahead(walk.order, SortKey(l), SortKey(id))
  <2>1. l \in page /\ l \in S /\ l \in MessageIds
    BY <1>6, <1>10 DEF Lasts
  <2>2. id \in MessageIds
    BY <1>4, <1>6, <1>10 DEF Seen
  <2>3. SortKey(l) \in Keys /\ SortKey(id) \in Keys
    BY <2>1, <2>2, <1>12
  <2>4. CASE id \in page
    <3>1. CASE id = l
      BY <3>1, <2>3, AheadStrict
    <3>2. CASE id # l
      <4>1. <<id, l>> \in R
        BY <3>2, <2>4 DEF Lasts
      <4>2. Ahead(walk.order, SortKey(id), SortKey(l))
        BY <4>1, <2>1, <2>2, <1>11
      <4> QED
        BY <4>2, <2>3, AheadStrict
    <3> QED
      BY <3>1, <3>2
  <2>5. CASE id \in Seen
    <3>1. PICK c \in walk.cursor : TRUE
      BY <2>5, <1>1, <1>3 DEF WalkPlace
    <3>2. /\ Ahead(walk.order, c, SortKey(l)) /\ ~Ahead(walk.order, c, SortKey(id))
          /\ c \in Keys
      BY <3>1, <2>1, <2>5, <1>3, <1>4, <1>9 DEF WalkPlace
    <3> QED
      BY <3>2, <2>3, AheadTransitive
  <2> QED
    BY <2>4, <2>5
\* What is expected and not on the page comes after it.
<1>20. walk.expected \cap matching \subseteq Seen \cup S
  <2>1. ASSUME NEW id \in walk.expected \cap matching, id \notin Seen
        PROVE  id \in S
    <3>1. \A c \in walk.cursor : Ahead(walk.order, c, SortKey(id))
      BY <2>1, <1>1, <1>3 DEF WalkPlace
    <3> QED
      BY <3>1, <2>1 DEF S
  <2> QED
    BY <2>1
<1>21. ASSUME NEW l \in Lasts(page, R), NEW id \in (walk.expected \cap matching) \ (page \cup Seen)
       PROVE  Ahead(walk.order, SortKey(l), SortKey(id))
  <2>1. id \in S \ page /\ l \in page
    BY <1>20 DEF Lasts
  <2>2. <<l, id>> \in R
    BY <2>1, <1>10
  <2> QED
    BY <2>1, <2>2, <1>6, <1>10, <1>11
<1>22. /\ Seen' \subseteq Stored' /\ walk'.expected \subseteq Stored'
       /\ walk'.page \cap walk'.earlier = {}
  BY <1>3, <1>5, <1>10, <1>15, <1>17, <1>18 DEF WalkPlace
<1>23. ASSUME NEW c \in cur
       PROVE  /\ \A id \in page \cup Seen : ~Ahead(walk.order, c, SortKey(id))
              /\ \A id \in (walk.expected \cap matching) \ (page \cup Seen) :
                   Ahead(walk.order, c, SortKey(id))
  <2>1. PICK l \in Lasts(page, R) : c = SortKey(l)
    BY <1>13, <1>23
  <2> QED
    BY <2>1, <1>19, <1>21
<1>24. cur = {} => walk.expected \cap matching \subseteq page \cup Seen
  BY <1>10, <1>14, <1>20
<1>25. WalkPlace'
  <2>1. \A c \in cur : \A id \in Seen' : ~Ahead(walk'.order, c, SortKey(id)')
    BY <1>15, <1>17, <1>23
  <2>2. \A c \in cur : \A id \in walk'.expected \ Seen' : Ahead(walk'.order, c, SortKey(id)')
    BY <1>15, <1>17, <1>23
  <2>3. walk'.stage = "end" => walk'.expected \subseteq Seen'
    BY <1>15, <1>24
  <2>4. ~(walk'.stage = "open" /\ walk'.cursor = {})
    BY <1>15
  <2> QED
    BY <1>15, <1>22, <2>1, <2>2, <2>3, <2>4 DEF WalkPlace
<1> QED
  BY <1>3, <1>16, <1>17, <1>25 DEF WalkInv, QuerierTypeOK

LEMMA WalkNext == WalkInv /\ [ApiNext]_apiVars => WalkInv'
<1> SUFFICES ASSUME WalkInv, [ApiNext]_apiVars
             PROVE  WalkInv'
  OBVIOUS
<1>1. StartWalk \/ NextPage \/ UNCHANGED walk
  BY DEF ApiNext, WalkPages, AskStats, apiVars
<1> QED
  BY <1>1, WalkKept, WalkStarts, WalkGoesOn

LEMMA WalkAlways == ApiSpec => []WalkInv
  BY WalkInit, WalkNext, PTL DEF ApiSpec

\* However many messages have one created_at, whatever the size of a page and
\* whatever is written meanwhile, no message comes twice in a walk
\* (message_querier.go:154-180).
THEOREM NoRepeatsHolds == ApiSpec => []NoRepeats
<1>1. WalkInv => NoRepeats
  BY DEF WalkInv, WalkPlace, NoRepeats
<1> QED
  BY <1>1, WalkAlways, PTL

\* ... and none is missed that was there at the start and matched all along
\* (message_querier.go:154-180).
THEOREM WalkCompleteHolds == ApiSpec => []WalkComplete
<1>1. WalkInv => WalkComplete
  BY DEF WalkInv, WalkPlace, WalkComplete, Seen
<1> QED
  BY <1>1, WalkAlways, PTL
=============================================================================
