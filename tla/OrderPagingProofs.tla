-------------------------- MODULE OrderPagingProofs --------------------------
(***************************************************************************)
(* Proofs about OrderPaging, for every set of orders, every number of      *)
(* shards, every page size and any number of inserts and failing queries.  *)
(***************************************************************************)
EXTENDS OrderPaging, Induction

-----------------------------------------------------------------------------
(* The inductive invariants. *)

\* Orders of a set that were there when the request was sent.
InSince(S) == since \cap S

\* An answer was computed from a state of the shard that had all it had when the
\* request was sent.
Snapshot(s, X) ==
    /\ InSince(OnShard(s)) \subseteq X /\ X \subseteq OnShard(s)
    /\ answer[s] = IF kind = "page" THEN PageQuery(X) ELSE Matching(X)

\* Answers are there only while a request waits, from the shards it was sent to.
Answers ==
    \A s \in Shards : answer[s] \notin {NoAnswer, Failure} =>
        /\ walk = "waiting" /\ s \in Asked
        /\ \E X \in SUBSET OnShard(s) : Snapshot(s, X)

\* What the client has asked so far.
Asking ==
    /\ walk = "idle" => kind = "page" /\ cursor = NoCursor
    /\ kind = "page" => cursor \in Orders \cup {NoCursor}
    /\ kind = "id" => cursor \in Orders
    /\ kind = "user" => cursor \in Users

IInv == TypeOK /\ Answers /\ Asking

\* Of the orders that the cursors treat well: the walk was given nothing from behind its
\* cursor, and what existed at its beginning was given to it or is still behind the cursor.
WalkInv ==
    /\ kind # "page" \/ walk = "idle" => \A o \in Orders : seen[o] = 0
    /\ kind = "page" /\ walk # "done" =>
          /\ \A o \in Orders : ~ MayRepeat(o) =>
                seen[o] \in {0, 1} /\ (seen[o] = 1 => o \notin Behind(Orders))
          /\ walk = "waiting" =>
                \A o \in base : MayMiss(o) \/ seen[o] >= 1 \/ o \in Behind(Orders)
    /\ OnceUnlessDisturbed

-----------------------------------------------------------------------------
(* Sorting and truncating, for any order of the order ids. *)

\* A strict total order.
IsOrder(R) ==
    /\ \A x \in Orders : <<x, x>> \notin R
    /\ \A x, y \in Orders : x = y \/ <<x, y>> \in R \/ <<y, x>> \in R
    /\ \A x, y, z \in Orders : <<x, y>> \in R /\ <<y, z>> \in R => <<x, z>> \in R

Before(R, S, o) == {v \in S : <<v, o>> \in R}

\* The first n elements of S.
Front(R, S, n) == {o \in S : Cardinality(Before(R, S, o)) < n}

\* Sets of orders are finite.
LEMMA SetsOfOrders ==
    ASSUME NEW S \in SUBSET Orders
    PROVE  IsFiniteSet(S) /\ Cardinality(S) \in Nat
BY OrdersAssumption, FS_Subset, FS_CardinalityType

\* A part of a set of orders is not larger, and a proper part is smaller.
LEMMA PartsOfOrders ==
    ASSUME NEW S \in SUBSET Orders, NEW T \in SUBSET S
    PROVE  /\ Cardinality(T) \in Nat /\ Cardinality(S) \in Nat
           /\ Cardinality(T) <= Cardinality(S)
           /\ T # S => Cardinality(T) < Cardinality(S)
<1>1. IsFiniteSet(S) /\ Cardinality(S) \in Nat /\ Cardinality(T) \in Nat
  BY SetsOfOrders
<1>2. Cardinality(T) <= Cardinality(S) /\ (Cardinality(S) = Cardinality(T) => S = T)
  BY <1>1, FS_Subset
<1> QED
  BY <1>1, <1>2

\* With an element, the front has all that come before it.
LEMMA FrontIsClosed ==
    ASSUME NEW R, IsOrder(R), NEW S \in SUBSET Orders, NEW n \in Nat,
           NEW o \in Front(R, S, n), NEW v \in S, <<v, o>> \in R
    PROVE  v \in Front(R, S, n)
<1>1. Before(R, S, v) \subseteq Before(R, S, o)
  BY DEF Before, Front, IsOrder
<1>2. Before(R, S, o) \in SUBSET Orders
  BY DEF Before
<1>3. /\ Cardinality(Before(R, S, v)) \in Nat /\ Cardinality(Before(R, S, o)) \in Nat
      /\ Cardinality(Before(R, S, v)) <= Cardinality(Before(R, S, o))
  BY <1>1, <1>2, PartsOfOrders
<1>4. Cardinality(Before(R, S, o)) < n
  BY DEF Front
<1> QED
  BY <1>3, <1>4 DEF Front

\* A front has no more elements than asked for.
LEMMA FrontIsBounded ==
    ASSUME NEW R, IsOrder(R), NEW S \in SUBSET Orders, NEW n \in Nat
    PROVE  Cardinality(Front(R, S, n)) <= n
<1> DEFINE F == Front(R, S, n)
           f == [o \in F |-> Cardinality(Before(R, S, o))]
<1>1. F \in SUBSET Orders
  BY DEF Front
<1>2. \A o \in F : Before(R, S, o) \in SUBSET Orders
  BY DEF Before
<1>3. \A o \in F : Cardinality(Before(R, S, o)) \in 0 .. n - 1
  <2> SUFFICES ASSUME NEW o \in F PROVE Cardinality(Before(R, S, o)) \in 0 .. n - 1
    OBVIOUS
  <2>1. Cardinality(Before(R, S, o)) \in Nat
    BY <1>2, SetsOfOrders
  <2>2. Cardinality(Before(R, S, o)) < n
    BY DEF Front
  <2> QED
    BY <2>1, <2>2
<1>4. \A u, v \in F : <<u, v>> \in R =>
         Cardinality(Before(R, S, u)) < Cardinality(Before(R, S, v))
  <2> SUFFICES ASSUME NEW u \in F, NEW v \in F, <<u, v>> \in R
               PROVE  Cardinality(Before(R, S, u)) < Cardinality(Before(R, S, v))
    OBVIOUS
  <2>1. u \in S /\ u \in Orders /\ v \in Orders
    BY <1>1 DEF Front
  <2>2. Before(R, S, u) \subseteq Before(R, S, v)
    BY <2>1 DEF Before, IsOrder
  <2>3. u \in Before(R, S, v) /\ u \notin Before(R, S, u)
    BY <2>1 DEF Before, IsOrder
  <2> QED
    BY <1>2, <2>2, <2>3, PartsOfOrders
<1>5. f \in Injection(F, 0 .. n - 1)
  <2>1. f \in [F -> 0 .. n - 1]
    BY <1>3
  <2>2. \A u, v \in F : f[u] = f[v] => u = v
    <3> SUFFICES ASSUME NEW u \in F, NEW v \in F, u # v PROVE f[u] # f[v]
      OBVIOUS
    <3>1. <<u, v>> \in R \/ <<v, u>> \in R
      BY <1>1 DEF IsOrder
    <3>2. f[u] < f[v] \/ f[v] < f[u]
      BY <1>4, <3>1
    <3>3. f[u] \in Int /\ f[v] \in Int
      BY <2>1
    <3> HIDE DEF f
    <3> QED
      BY <3>2, <3>3
  <2> HIDE DEF f
  <2> QED
    BY <2>1, <2>2 DEF Injection, IsInjective
<1>6. IsFiniteSet(0 .. n - 1) /\ Cardinality(0 .. n - 1) = n
  <2>1. Cardinality(0 .. n - 1) = IF 0 > n - 1 THEN 0 ELSE n - 1 - 0 + 1
    BY FS_Interval
  <2>2. IsFiniteSet(0 .. n - 1)
    BY FS_Interval
  <2> QED
    BY <2>1, <2>2
<1> HIDE DEF f, F
<1>7. Cardinality(F) <= Cardinality(0 .. n - 1)
  BY <1>5, <1>6, FS_Injection
<1> QED
  BY <1>6, <1>7 DEF F

\* A set that is not empty has a first and a last element.
LEMMA FirstAndLast ==
    ASSUME NEW R, IsOrder(R), NEW S \in SUBSET Orders, S # {}
    PROVE  /\ \E m \in S : \A o \in S : o = m \/ <<m, o>> \in R
           /\ \E m \in S : \A o \in S : o = m \/ <<o, m>> \in R
<1> DEFINE Q == {p \in Orders \X Orders : <<p[2], p[1]>> \in R}
<1>1. IsFiniteSet(S)
  BY SetsOfOrders
<1>2. \A x, y \in Orders : <<x, y>> \in Q <=> <<y, x>> \in R
  OBVIOUS
<1> HIDE DEF Q
<1>3. \E m \in S : \A o \in S : o = m \/ <<o, m>> \in R
  <2>1. \A u, v \in S : u = v \/ <<u, v>> \in R \/ <<v, u>> \in R
    BY DEF IsOrder
  <2>2. \A u, v, w \in S : <<u, v>> \in R /\ <<v, w>> \in R => <<u, w>> \in R
    BY DEF IsOrder
  <2> QED
    BY <1>1, <2>1, <2>2, LastElement
<1>4. \E m \in S : \A o \in S : o = m \/ <<o, m>> \in Q
  <2>1. \A u, v \in S : u = v \/ <<u, v>> \in Q \/ <<v, u>> \in Q
    BY <1>2 DEF IsOrder
  <2>2. \A u, v, w \in S : <<u, v>> \in Q /\ <<v, w>> \in Q => <<u, w>> \in Q
    BY <1>2 DEF IsOrder
  <2> QED
    BY <1>1, <2>1, <2>2, LastElement
<1> QED
  BY <1>2, <1>3, <1>4

\* A front that is not full is the whole set.
LEMMA ShortFrontIsAll ==
    ASSUME NEW R, IsOrder(R), NEW S \in SUBSET Orders, NEW n \in Nat,
           Cardinality(Front(R, S, n)) < n
    PROVE  Front(R, S, n) = S
<1> DEFINE F == Front(R, S, n)
<1>1. F \subseteq S
  BY DEF Front
<1> SUFFICES ASSUME S \ F # {} PROVE FALSE
  BY <1>1
<1>2. PICK m \in S \ F : \A o \in S \ F : o = m \/ <<m, o>> \in R
  <2>1. S \ F \in SUBSET Orders
    OBVIOUS
  <2> HIDE DEF F
  <2> QED
    BY <2>1, FirstAndLast
<1>3. Before(R, S, m) \subseteq F
  <2> SUFFICES ASSUME NEW v \in S, <<v, m>> \in R, v \notin F PROVE FALSE
    BY DEF Before
  <2>1. v = m \/ <<m, v>> \in R
    BY <1>2
  <2> QED
    BY <2>1 DEF IsOrder
<1>4. /\ Cardinality(Before(R, S, m)) \in Nat /\ Cardinality(F) \in Nat
      /\ Cardinality(Before(R, S, m)) <= Cardinality(F)
  BY <1>1, <1>3, PartsOfOrders
<1>5. m \in F
  BY <1>4 DEF Front
<1> QED
  BY <1>2, <1>5

\* Merging is exact: of a set in parts, the front of the parts' fronts together is
\* the front of the whole.
LEMMA MergeIsExact ==
    ASSUME NEW R, IsOrder(R), NEW S \in SUBSET Orders, NEW n \in Nat,
           NEW I, NEW part \in [I -> SUBSET S], NEW U,
           \A o \in S : \E i \in I : o \in part[i],
           \A o : o \in U <=> \E i \in I : o \in Front(R, part[i], n)
    PROVE  Front(R, U, n) = Front(R, S, n)
<1>1. U \subseteq S
  BY DEF Front
<1>2. \A T \in SUBSET S : \A o : Before(R, T, o) \subseteq Before(R, S, o)
  BY DEF Before
<1>3. \A o : Before(R, S, o) \in SUBSET Orders
  BY DEF Before
<1>4. \A T \in SUBSET S : \A o \in T :
         Cardinality(Before(R, S, o)) < n => o \in Front(R, T, n)
  <2> SUFFICES ASSUME NEW T \in SUBSET S, NEW o \in T, Cardinality(Before(R, S, o)) < n
               PROVE  o \in Front(R, T, n)
    OBVIOUS
  <2>1. /\ Cardinality(Before(R, T, o)) \in Nat /\ Cardinality(Before(R, S, o)) \in Nat
        /\ Cardinality(Before(R, T, o)) <= Cardinality(Before(R, S, o))
    BY <1>2, <1>3, PartsOfOrders
  <2> QED
    BY <2>1 DEF Front
<1>5. Front(R, S, n) \subseteq U
  <2> SUFFICES ASSUME NEW o \in Front(R, S, n) PROVE o \in U
    OBVIOUS
  <2>1. o \in S /\ Cardinality(Before(R, S, o)) < n
    BY DEF Front
  <2>2. PICK i \in I : o \in part[i]
    BY <2>1
  <2>3. o \in Front(R, part[i], n)
    BY <1>4, <2>1, <2>2
  <2> QED
    BY <2>3
<1>6. Front(R, S, n) \subseteq Front(R, U, n)
  <2> SUFFICES ASSUME NEW o \in Front(R, S, n) PROVE o \in Front(R, U, n)
    OBVIOUS
  <2>1. o \in U /\ Cardinality(Before(R, S, o)) < n
    BY <1>5 DEF Front
  <2> QED
    BY <1>1, <1>4, <2>1
<1>7. Front(R, U, n) \subseteq Front(R, S, n)
  <2> DEFINE F == Front(R, S, n)
  <2> SUFFICES ASSUME NEW o \in Front(R, U, n), o \notin F PROVE FALSE
    OBVIOUS
  <2>1. o \in U /\ o \in S /\ Cardinality(Before(R, U, o)) < n
    BY <1>1 DEF Front
  <2>2. F \subseteq Before(R, U, o)
    <3> SUFFICES ASSUME NEW v \in F PROVE <<v, o>> \in R /\ v \in U
      BY DEF Before
    <3>1. v \in S /\ v \in U /\ v # o
      BY <1>5 DEF Front
    <3>2. <<o, v>> \notin R
      BY <2>1, FrontIsClosed
    <3> QED
      BY <2>1, <3>1, <3>2 DEF IsOrder
  <2>3. F \in SUBSET S /\ F # S /\ Cardinality(F) \in Nat
    BY <2>1, SetsOfOrders DEF Front
  <2>4. ~ (Cardinality(F) < n)
    BY <2>3, ShortFrontIsAll
  <2>5. /\ Cardinality(F) <= Cardinality(Before(R, U, o))
        /\ Cardinality(Before(R, U, o)) \in Nat
    <3>1. Before(R, U, o) \in SUBSET Orders
      BY <1>1 DEF Before
    <3> QED
      BY <2>2, <3>1, PartsOfOrders
  <2> QED
    BY <2>1, <2>3, <2>4, <2>5
<1> QED
  BY <1>6, <1>7

-----------------------------------------------------------------------------
(* The two orders of the code. *)

NewerPairs   == {p \in Orders \X Orders : Newer(p[1], p[2])}
ContentPairs == {p \in Orders \X Orders : ContentBefore(p[1], p[2])}

\* Order ids and dates are natural numbers, signed ids are integers.
LEMMA OrderTypes ==
    /\ \A o \in Orders : o \in Nat /\ Date[o] \in Nat /\ Signed(o) \in Int
    /\ \A o, v \in Orders : Signed(o) = Signed(v) => o = v
<1>1. 2 ^ IdBits \in Int /\ 2 ^ (IdBits - 1) \in Int
  BY OrdersAssumption
<1> DEFINE p == 2 ^ IdBits
           h == 2 ^ (IdBits - 1)
<1>2. \A o \in Orders : o \in Nat /\ o <= p - 1 /\ Date[o] \in Nat
  BY <1>1, OrdersAssumption
<1>3. \A o : Signed(o) = IF o >= h THEN o - p ELSE o
  BY DEF Signed
<1> HIDE DEF p, h
<1>4. p \in Int /\ h \in Int
  BY <1>1 DEF p, h
<1> QED
  BY <1>2, <1>3, <1>4

\* PostgreSQL's order is a strict total order.
LEMMA NewerIsOrder == IsOrder(NewerPairs)
<1>1. \A v, o \in Orders : <<v, o>> \in NewerPairs <=> Newer(v, o)
  BY DEF NewerPairs
<1> QED
  BY <1>1, OrderTypes DEF IsOrder, Newer

\* And so is the order of the content.
LEMMA ContentIsOrder == IsOrder(ContentPairs)
<1>1. \A v, o \in Orders : <<v, o>> \in ContentPairs <=> ContentBefore(v, o)
  BY DEF ContentPairs
<1>2. CASE Merged
  <2>1. \A v, o \in Orders : ContentBefore(v, o) <=>
           \/ Date[v] > Date[o]
           \/ Date[v] = Date[o] /\ Signed(v) > Signed(o)
    BY <1>2 DEF ContentBefore, MergesBefore
  <2>2. \A o \in Orders : <<o, o>> \notin ContentPairs
    BY <1>1, <2>1, OrderTypes
  <2>3. \A v, o \in Orders :
           v = o \/ <<v, o>> \in ContentPairs \/ <<o, v>> \in ContentPairs
    <3> SUFFICES ASSUME NEW v \in Orders, NEW o \in Orders, v # o
                 PROVE  ContentBefore(v, o) \/ ContentBefore(o, v)
      BY <1>1
    <3>1. /\ Date[v] \in Nat /\ Date[o] \in Nat /\ Signed(v) \in Int /\ Signed(o) \in Int
          /\ Signed(v) # Signed(o)
      BY OrderTypes
    <3> QED
      BY <2>1, <3>1
  <2>4. \A u, v, o \in Orders :
           <<u, v>> \in ContentPairs /\ <<v, o>> \in ContentPairs => <<u, o>> \in ContentPairs
    BY <1>1, <2>1, OrderTypes
  <2> QED
    BY <2>2, <2>3, <2>4 DEF IsOrder
<1>3. CASE ~ Merged
  <2>1. ContentPairs = NewerPairs
    BY <1>3 DEF ContentPairs, NewerPairs, ContentBefore
  <2> QED
    BY <2>1, NewerIsOrder
<1> QED
  BY <1>2, <1>3

\* ORDER BY ... LIMIT, and sort and subList, are fronts.
LEMMA PagesAreFronts ==
    ASSUME NEW S \in SUBSET Orders
    PROVE  /\ \A n : TopRows(S, n) = Front(NewerPairs, S, n)
           /\ Merge(S) = Front(ContentPairs, S, Size)
<1>1. \A o \in S : {v \in S : Newer(v, o)} = Before(NewerPairs, S, o)
  BY DEF Before, NewerPairs
<1>2. \A o \in S : {v \in S : ContentBefore(v, o)} = Before(ContentPairs, S, o)
  BY DEF Before, ContentPairs
<1> QED
  BY <1>1, <1>2 DEF TopRows, Merge, Front

\* The rows of a response are those that a shard answered with.
LEMMA RowsAreAnswered ==
    \A o : o \in Rows <=> o \in Orders /\ \E s \in Shards : o \in answer[s]
BY Zenon DEF Rows

\* What a page holds, and its last order, which becomes the cursor.
LEMMA ContentType ==
    /\ Content \in SUBSET Rows /\ Rows \in SUBSET Orders
    /\ Cardinality(Content) \in Nat /\ Cardinality(Content) <= Size
    /\ Cardinality(Content) = Size =>
          LET last == CHOOSE o \in Content : \A v \in Content : v = o \/ ContentBefore(v, o)
          IN  last \in Content /\ \A v \in Content : v = last \/ ContentBefore(v, last)
<1>1. Rows \in SUBSET Orders
  BY RowsAreAnswered
<1>2. Content = Front(ContentPairs, Rows, Size) /\ Content \in SUBSET Rows
  BY <1>1, PagesAreFronts DEF Content, Front
<1>3. Cardinality(Content) \in Nat /\ Cardinality(Content) <= Size
  BY <1>1, <1>2, SizesAssumption, ContentIsOrder, FrontIsBounded, SetsOfOrders
<1>4. ASSUME Cardinality(Content) = Size
      PROVE  \E o \in Content : \A v \in Content : v = o \/ ContentBefore(v, o)
  <2>1. Content # {}
    BY <1>4, SizesAssumption, FS_EmptySet
  <2>2. \E o \in Content : \A v \in Content : v = o \/ <<v, o>> \in ContentPairs
    BY <1>1, <1>2, <2>1, ContentIsOrder, FirstAndLast
  <2> QED
    BY <2>2 DEF ContentPairs
<1> QED
  BY <1>1, <1>2, <1>3, <1>4

\* Orders are on their shards.
LEMMA ShardsOfOrders ==
    ASSUME TypeOK
    PROVE  /\ \A s : OnShard(s) \subseteq db
           /\ \A o \in db : Home[Buyer[o]] \in Shards /\ o \in OnShard(Home[Buyer[o]])
           /\ \A X : PageQuery(X) \subseteq X /\ Behind(X) \subseteq X /\ Matching(X) \subseteq X
<1>1. \A o \in db : Buyer[o] \in Users
  BY DEF TypeOK, Users
<1> QED
  BY <1>1, ShardsAssumption DEF OnShard, PageQuery, TopRows, Behind, Matching

-----------------------------------------------------------------------------
(* Types, and what the answers are. *)

\* What a shard can have answered, "not yet" and "failed" included.
LEMMA AnswerTypes ==
    ASSUME NEW s
    PROVE  /\ [t \in Shards |-> NoAnswer] \in [Shards -> (SUBSET Orders) \cup {NoAnswer, Failure}]
           /\ \A f \in [Shards -> (SUBSET Orders) \cup {NoAnswer, Failure}] :
                 [f EXCEPT ![s] = Failure] \in [Shards -> (SUBSET Orders) \cup {NoAnswer, Failure}]
<1> DEFINE A == (SUBSET Orders) \cup {NoAnswer, Failure}
<1>1. NoAnswer \in A /\ Failure \in A
  OBVIOUS
<1> HIDE DEF A
<1>2. /\ [t \in Shards |-> NoAnswer] \in [Shards -> A]
      /\ \A f \in [Shards -> A] : [f EXCEPT ![s] = Failure] \in [Shards -> A]
  BY <1>1
<1> QED
  BY <1>2 DEF A

LEMMA InitIInv == Init => IInv
<1> SUFFICES ASSUME Init PROVE IInv
  OBVIOUS
<1>1. TypeOK
  <2>1. Cardinality({}) = 0 /\ Size >= 0
    BY FS_EmptySet, SizesAssumption
  <2>2. inserts \in 0 .. MaxInserts /\ failures \in 0 .. MaxFailures
    BY SizesAssumption DEF Init
  <2> QED
    BY <2>1, <2>2, AnswerTypes DEF Init, TypeOK, Kinds
<1> QED
  BY <1>1 DEF Init, IInv, Answers, Asking

LEMMA TypeStep == IInv /\ [Next]_vars => TypeOK'
<1> SUFFICES ASSUME IInv, [Next]_vars PROVE TypeOK'
  OBVIOUS
<1> USE DEF client
<1>a. TypeOK
  BY DEF IInv
<1>1. ASSUME NEW o \in Orders, Insert(o) PROVE TypeOK'
  <2>1. inserts' \in 0 .. MaxInserts
    BY <1>a, <1>1, SizesAssumption DEF Insert, TypeOK
  <2> QED
    BY <1>a, <1>1, <2>1 DEF Insert, TypeOK
<1>2. ASSUME NEW k \in Kinds, NEW c \in Orders \cup Users \cup {NoCursor}, Ask(k, c) PROVE TypeOK'
  <2>1. Cardinality(page) <= Size
    BY <1>a, <1>2 DEF Ask, IInv, Asking, TypeOK
  <2> QED
    BY <1>a, <1>2, <2>1 DEF Ask, TypeOK
<1>3. ASSUME NEW s \in Shards, Query(s) PROVE TypeOK'
  <2>1. (IF kind = "page" THEN PageQuery(OnShard(s)) ELSE Matching(OnShard(s))) \in SUBSET Orders
    BY <1>a, ShardsOfOrders DEF TypeOK
  <2> QED
    BY <1>a, <1>3, <2>1 DEF Query, TypeOK
<1>4. ASSUME NEW s \in Shards, FailQuery(s) PROVE TypeOK'
  <2>1. failures' \in 0 .. MaxFailures
    BY <1>a, <1>4, SizesAssumption DEF FailQuery, TypeOK
  <2> QED
    BY <1>a, <1>4, <2>1, AnswerTypes DEF FailQuery, TypeOK
<1>5. CASE Respond
  <2>1. page' = Content /\ Content \in SUBSET Orders /\ Cardinality(Content) <= Size
    BY <1>5, ContentType DEF Respond
  <2>2. seen' \in [Orders -> Nat]
    BY <1>a, <1>5 DEF Respond, TypeOK
  <2>3. /\ cursor' \in Orders \cup Users \cup {NoCursor}
        /\ walk' \in {"waiting", "done"}
    BY <1>a, <1>5, ContentType DEF Respond, Joined, TypeOK
  <2> QED
    BY <1>a, <1>5, <2>1, <2>2, <2>3, AnswerTypes DEF Respond, TypeOK
<1>6. CASE RespondRead
  <2>1. page' \in SUBSET Orders /\ kind' # "page"
    BY <1>6, ContentType DEF RespondRead
  <2> QED
    BY <1>a, <1>6, <2>1, AnswerTypes DEF RespondRead, TypeOK
<1>7. CASE RespondError
  BY <1>a, <1>7, AnswerTypes DEF RespondError, TypeOK
<1>8. CASE UNCHANGED vars
  BY <1>a, <1>8 DEF vars, TypeOK
<1> QED
  BY <1>1, <1>2, <1>3, <1>4, <1>5, <1>6, <1>7, <1>8 DEF Next, Start, Serve, Kinds

LEMMA AskingStep == IInv /\ [Next]_vars => Asking'
<1> SUFFICES ASSUME IInv, [Next]_vars PROVE Asking'
  OBVIOUS
<1> USE DEF client
<1>1. CASE Start
  BY <1>1 DEF Start, Ask, Asking
<1>2. CASE Respond
  <2>1. /\ kind = "page" /\ kind' = "page" /\ walk' \in {"waiting", "done"}
        /\ cursor \in Orders \cup {NoCursor}
    BY <1>2 DEF Respond, Joined, IInv, Asking
  <2>2. cursor' \in Orders \cup {NoCursor}
    BY <1>2, <2>1, ContentType DEF Respond
  <2> QED
    BY <2>1, <2>2 DEF Asking
<1>3. CASE UNCHANGED <<kind, cursor>> /\ (walk' = "idle" => walk = "idle")
  BY <1>3 DEF IInv, Asking
<1> QED
  BY <1>1, <1>2, <1>3
  DEF Next, Serve, Insert, Query, FailQuery, RespondRead, RespondError, vars

LEMMA AnswersStep == IInv /\ [Next]_vars => Answers'
<1> SUFFICES ASSUME IInv, [Next]_vars, NEW s \in Shards, answer'[s] \notin {NoAnswer, Failure}
             PROVE  /\ walk' = "waiting" /\ s \in Asked'
                    /\ \E X \in SUBSET OnShard(s)' : Snapshot(s, X)'
  BY DEF Answers
<1> USE DEF client
<1>a. TypeOK /\ Answers
  BY DEF IInv
<1>1. ASSUME NEW o \in Orders, Insert(o)
      PROVE  /\ walk' = "waiting" /\ s \in Asked'
             /\ \E X \in SUBSET OnShard(s)' : Snapshot(s, X)'
  <2>1. /\ UNCHANGED <<kind, walk, cursor, answer, since>>
        /\ db' = db \cup {o} /\ o \notin db
    BY <1>1 DEF Insert
  <2>2. walk = "waiting" /\ s \in Asked /\ \E X \in SUBSET OnShard(s) : Snapshot(s, X)
    BY <1>a, <2>1 DEF Answers
  <2>3. PICK X \in SUBSET OnShard(s) : Snapshot(s, X)
    BY <2>2
  <2>4. OnShard(s) \subseteq OnShard(s)' /\ InSince(OnShard(s))' = InSince(OnShard(s))
    BY <1>a, <2>1 DEF OnShard, InSince, TypeOK
  <2>5. PageQuery(X)' = PageQuery(X) /\ Matching(X)' = Matching(X) /\ Asked' = Asked
    BY <2>1 DEF PageQuery, TopRows, Behind, CursorDate, Matching, Asked
  <2>6. X \in SUBSET OnShard(s)' /\ Snapshot(s, X)'
    BY <2>1, <2>3, <2>4, <2>5 DEF Snapshot
  <2> QED
    BY <2>1, <2>2, <2>5, <2>6
<1>2. CASE Start
  <2>1. walk = "idle" /\ answer' = answer
    BY <1>2 DEF Start, Ask
  <2> QED
    BY <1>a, <2>1 DEF Answers
<1>3. ASSUME NEW t \in Shards, Query(t) \/ FailQuery(t)
      PROVE  /\ walk' = "waiting" /\ s \in Asked'
             /\ \E X \in SUBSET OnShard(s)' : Snapshot(s, X)'
  <2>1. /\ walk = "waiting" /\ t \in Asked /\ UNCHANGED <<db, kind, walk, cursor, since>>
        /\ answer' = [answer EXCEPT ![t] = answer'[t]]
        /\ DOMAIN answer = Shards
    BY <1>a, <1>3 DEF Query, FailQuery, TypeOK
  <2>2. /\ Asked' = Asked /\ OnShard(s)' = OnShard(s)
        /\ \A X : PageQuery(X)' = PageQuery(X) /\ Matching(X)' = Matching(X)
        /\ InSince(OnShard(s))' = InSince(OnShard(s))
    BY <2>1 DEF PageQuery, TopRows, Behind, CursorDate, Matching, Asked, OnShard, InSince
  <2>3. CASE s = t
    <3>1. answer'[s] = IF kind = "page" THEN PageQuery(OnShard(s)) ELSE Matching(OnShard(s))
      BY <1>3, <2>1, <2>3 DEF Query, FailQuery
    <3>2. \E X : X = OnShard(s)
      OBVIOUS
    <3>3. PICK X : X = OnShard(s)
      BY <3>2
    <3>4. X \in SUBSET OnShard(s)'
      BY <2>2, <3>3
    <3>5. InSince(OnShard(s))' \subseteq X
      BY <2>2, <3>3 DEF InSince
    <3>6. answer'[s] = IF kind = "page" THEN PageQuery(X)' ELSE Matching(X)'
      BY <2>2, <3>1, <3>3
    <3>7. Snapshot(s, X)'
      BY <2>1, <2>2, <3>3, <3>5, <3>6 DEF Snapshot
    <3> QED
      BY <2>1, <2>2, <2>3, <3>4, <3>7
  <2>4. CASE s # t
    <3>1. answer'[s] = answer[s]
      BY <2>1, <2>4
    <3>2. PICK X \in SUBSET OnShard(s) : Snapshot(s, X)
      BY <1>a, <3>1 DEF Answers
    <3>3. s \in Asked
      BY <1>a, <3>1 DEF Answers
    <3>4. X \in SUBSET OnShard(s)' /\ Snapshot(s, X)'
      BY <2>1, <2>2, <3>1, <3>2 DEF Snapshot
    <3> QED
      BY <2>1, <2>2, <3>3, <3>4
  <2> QED
    BY <2>3, <2>4
<1>4. CASE Respond \/ RespondRead \/ RespondError
  BY <1>4 DEF Respond, RespondRead, RespondError
<1>5. CASE UNCHANGED vars
  <2>1. UNCHANGED <<db, kind, walk, cursor, since, answer>>
    BY <1>5 DEF vars
  <2>2. PICK X \in SUBSET OnShard(s) : Snapshot(s, X)
    BY <1>a, <2>1 DEF Answers
  <2>3. walk = "waiting" /\ s \in Asked
    BY <1>a, <2>1 DEF Answers
  <2>4. /\ Asked' = Asked /\ OnShard(s)' = OnShard(s)
        /\ PageQuery(X)' = PageQuery(X) /\ Matching(X)' = Matching(X)
        /\ InSince(OnShard(s))' = InSince(OnShard(s))
    BY <2>1 DEF PageQuery, TopRows, Behind, CursorDate, Matching, Asked, OnShard, InSince
  <2>5. X \in SUBSET OnShard(s)' /\ Snapshot(s, X)'
    BY <2>1, <2>2, <2>4 DEF Snapshot
  <2> QED
    BY <2>1, <2>3, <2>4, <2>5
<1> QED
  BY <1>1, <1>2, <1>3, <1>4, <1>5 DEF Next, Serve

\* IInv holds in every reachable state.
THEOREM Inductive == Spec => []IInv
<1>1. IInv /\ [Next]_vars => IInv'
  BY TypeStep, AskingStep, AnswersStep DEF IInv
<1> QED
  BY <1>1, InitIInv, PTL DEF Spec

\* The variables keep their types; in particular a page never holds more orders
\* than were asked for.
THEOREM TypeCorrect == Spec => []TypeOK
<1>1. IInv => TypeOK
  BY DEF IInv
<1> QED
  BY <1>1, Inductive, PTL

(***************************************************************************)
(* Reads by id, by user and of everything are of the time of the request:  *)
(* what was stored when it was sent is in the answer, also after a 500 and *)
(* a retry, and nothing is in it that is not stored or does not match.     *)
(***************************************************************************)
THEOREM ReadsAreCurrent == Spec => ReadIsCurrent
<1>1. IInv /\ RespondRead => Matching(since) \subseteq page' /\ page' \subseteq Matching(db)
  <2> SUFFICES ASSUME IInv, RespondRead
               PROVE  Matching(since) \subseteq Rows /\ Rows \subseteq Matching(db)
    BY DEF RespondRead
  <2>a. TypeOK /\ Answers
    BY DEF IInv
  <2>b. kind # "page" /\ \A s \in Asked : answer[s] \notin {NoAnswer, Failure}
    BY DEF RespondRead, Joined, NoneFailed
  <2>1. ASSUME NEW o \in Matching(since) PROVE o \in Rows
    <3>1. o \in since /\ o \in db /\ o \in Orders
      BY <2>a DEF Matching, TypeOK
    <3> DEFINE s == Home[Buyer[o]]
    <3>2. s \in Shards /\ o \in OnShard(s)
      BY <2>a, <3>1, ShardsOfOrders
    <3>3. s \in Asked
      BY <3>2 DEF Asked, Matching
    <3> HIDE DEF s
    <3>4. PICK X \in SUBSET OnShard(s) : Snapshot(s, X)
      BY <2>a, <2>b, <3>2, <3>3 DEF Answers
    <3>5. o \in X /\ answer[s] = Matching(X)
      BY <2>b, <3>1, <3>2, <3>4 DEF Snapshot, InSince
    <3>6. o \in answer[s]
      BY <3>5 DEF Matching
    <3> QED
      BY <3>1, <3>2, <3>6, RowsAreAnswered
  <2>2. ASSUME NEW o \in Rows PROVE o \in Matching(db)
    <3>1. o \in Orders /\ \E s \in Shards : o \in answer[s]
      BY RowsAreAnswered
    <3>2. PICK s \in Shards : o \in answer[s]
      BY <3>1
    <3>3. answer[s] \notin {NoAnswer, Failure}
      BY <3>1, <3>2, OrderTypes DEF NoAnswer, Failure, NoCursor
    <3>4. PICK X \in SUBSET OnShard(s) : Snapshot(s, X)
      BY <2>a, <3>3 DEF Answers
    <3>5. o \in Matching(X) /\ X \subseteq db
      BY <2>a, <2>b, <3>2, <3>4, ShardsOfOrders DEF Snapshot
    <3> QED
      BY <3>5 DEF Matching
  <2> QED
    BY <2>1, <2>2
<1> QED
  BY <1>1, Inductive, PTL DEF Spec, ReadIsCurrent

-----------------------------------------------------------------------------
(* Pages, and the walk. *)

\* Ids on one side of the sign bit are in one order, signed or not.
LEMMA SameSign ==
    ASSUME NEW v \in Orders, NEW o \in Orders, Signed(v) < 0 <=> Signed(o) < 0
    PROVE  Signed(v) > Signed(o) <=> v > o
<1> DEFINE p == 2 ^ IdBits
           h == 2 ^ (IdBits - 1)
<1>1. \A x : Signed(x) = IF x >= h THEN x - p ELSE x
  BY DEF Signed
<1>2. p \in Int /\ h \in Int
  BY OrdersAssumption
<1>3. v \in Nat /\ o \in Nat /\ v <= p - 1 /\ o <= p - 1
  BY <1>2, OrdersAssumption
<1> HIDE DEF p, h
<1> QED
  BY <1>1, <1>2, <1>3

\* Where the shards sort two orders of one date as the coordinator does not, their ids
\* are on both sides of the sign bit.
LEMMA OrdersAgree ==
    ASSUME NEW v \in Orders, NEW o \in Orders, Newer(v, o),
           Date[v] # Date[o] \/ ~ Merged \/ (Signed(v) < 0 <=> Signed(o) < 0)
    PROVE  ContentBefore(v, o)
<1>1. CASE ~ Merged
  BY <1>1 DEF ContentBefore
<1>2. CASE Merged /\ Date[v] > Date[o]
  BY <1>2 DEF ContentBefore, MergesBefore
<1>3. CASE Merged /\ Date[v] = Date[o] /\ v > o
  <2>1. Signed(v) > Signed(o)
    BY <1>3, SameSign
  <2> QED
    BY <1>3, <2>1 DEF ContentBefore, MergesBefore
<1> QED
  BY <1>1, <1>2, <1>3 DEF Newer

\* The rows of a page are the first ones of the parts of one database that holds
\* everything the client may rely on.
LEMMA RowsOfOneDb ==
    ASSUME IInv, Respond
    PROVE  \E D \in SUBSET db : \E part \in [Shards -> SUBSET Behind(D)] :
              /\ since \subseteq D
              /\ \A o \in Behind(D) : \E s \in Shards : o \in part[s]
              /\ \A o : o \in Rows <=> \E s \in Shards : o \in Front(NewerPairs, part[s], Size)
<1>a. TypeOK /\ Answers
  BY DEF IInv
<1>b. kind = "page" /\ \A s \in Shards : answer[s] \notin {NoAnswer, Failure}
  BY DEF Respond, Joined, NoneFailed, Asked
<1>1. \A s \in Shards : \E X \in SUBSET OnShard(s) : Snapshot(s, X)
  BY <1>a, <1>b DEF Answers
<1> DEFINE snap == [s \in Shards |-> CHOOSE X \in SUBSET OnShard(s) : Snapshot(s, X)]
           D    == {o \in db : \E s \in Shards : o \in snap[s]}
           part == [s \in Shards |-> Behind(snap[s])]
<1>2. \A s \in Shards : snap[s] \in SUBSET OnShard(s) /\ Snapshot(s, snap[s])
  BY <1>1
<1>3. \A s \in Shards : part[s] = Behind(snap[s])
  OBVIOUS
<1>4. DOMAIN part = Shards /\ part = [s \in Shards |-> part[s]]
  OBVIOUS
<1> HIDE DEF snap, part
<1>5. since \subseteq D
  <2> SUFFICES ASSUME NEW o \in since PROVE o \in D
    OBVIOUS
  <2>1. o \in db /\ Home[Buyer[o]] \in Shards /\ o \in OnShard(Home[Buyer[o]])
    BY <1>a, ShardsOfOrders DEF TypeOK
  <2>2. o \in snap[Home[Buyer[o]]]
    BY <1>2, <2>1 DEF Snapshot, InSince
  <2> QED
    BY <2>1, <2>2
<1>6. \A s \in Shards : snap[s] \subseteq D
  BY <1>a, <1>2, ShardsOfOrders
<1>7. D \in SUBSET db /\ D \in SUBSET Orders
  BY <1>a DEF TypeOK
<1>8. \A s \in Shards : part[s] \subseteq Behind(D)
  BY <1>3, <1>6 DEF Behind
<1>9. \A o \in Behind(D) : \E s \in Shards : o \in part[s]
  <2> SUFFICES ASSUME NEW o \in Behind(D) PROVE \E s \in Shards : o \in part[s]
    OBVIOUS
  <2>1. PICK s \in Shards : o \in snap[s]
    BY DEF Behind
  <2>2. o \in Behind(snap[s])
    BY <2>1 DEF Behind
  <2> QED
    BY <1>3, <2>2
<1>10. Behind(D) \in SUBSET Orders
  BY <1>7 DEF Behind
<1>11. \A s \in Shards : answer[s] = Front(NewerPairs, part[s], Size)
  <2> SUFFICES ASSUME NEW s \in Shards PROVE answer[s] = Front(NewerPairs, part[s], Size)
    OBVIOUS
  <2>1. answer[s] = TopRows(part[s], Size)
    BY <1>b, <1>2, <1>3 DEF Snapshot, PageQuery
  <2>2. part[s] \in SUBSET Orders
    BY <1>8, <1>10
  <2> QED
    BY <2>1, <2>2, PagesAreFronts
<1> HIDE DEF D
<1>12. \A o : o \in Rows <=> \E s \in Shards : o \in Front(NewerPairs, part[s], Size)
  <2>1. \A s \in Shards : Front(NewerPairs, part[s], Size) \subseteq Orders
    BY <1>8, <1>10 DEF Front
  <2> QED
    BY <1>11, <2>1, RowsAreAnswered
<1>13. part \in [Shards -> SUBSET Behind(D)]
  BY <1>4, <1>8
<1> QED
  BY <1>5, <1>7, <1>9, <1>12, <1>13

\* The same, with what follows from it: the rows hold the single database's page.
LEMMA PageAndRows ==
    ASSUME IInv, Respond
    PROVE  \E D \in SUBSET db :
              LET all == Behind(D)
              IN  /\ since \subseteq D /\ all \in SUBSET Orders
                  /\ Rows \subseteq all
                  /\ Front(NewerPairs, all, Size) \subseteq Rows
                  /\ PageQuery(D) = Front(NewerPairs, all, Size)
                  /\ Content = Front(ContentPairs, Rows, Size)
<1>0. PICK D \in SUBSET db : \E part \in [Shards -> SUBSET Behind(D)] :
         /\ since \subseteq D
         /\ \A o \in Behind(D) : \E s \in Shards : o \in part[s]
         /\ \A o : o \in Rows <=> \E s \in Shards : o \in Front(NewerPairs, part[s], Size)
  BY RowsOfOneDb
<1>1. PICK part \in [Shards -> SUBSET Behind(D)] :
         /\ since \subseteq D
         /\ \A o \in Behind(D) : \E s \in Shards : o \in part[s]
         /\ \A o : o \in Rows <=> \E s \in Shards : o \in Front(NewerPairs, part[s], Size)
  BY <1>0
<1> DEFINE all == Behind(D)
<1>2. all \in SUBSET Orders
  BY DEF IInv, TypeOK, Behind
<1>3. PageQuery(D) = Front(NewerPairs, all, Size)
  BY <1>2, PagesAreFronts DEF PageQuery
<1>4. Content = Front(ContentPairs, Rows, Size)
  BY ContentType, PagesAreFronts DEF Content
<1>5. Size \in Nat /\ part \in [Shards -> SUBSET all]
  BY SizesAssumption
<1>6. \A o \in all : \E s \in Shards : o \in part[s]
  BY <1>1
<1> HIDE DEF all
<1>7. Rows \subseteq all
  BY <1>1, <1>5 DEF Front
<1>8. Front(NewerPairs, Rows, Size) = Front(NewerPairs, all, Size)
  BY <1>1, <1>2, <1>5, <1>6, NewerIsOrder, MergeIsExact
<1>9. Front(NewerPairs, all, Size) \subseteq Rows
  BY <1>8 DEF Front
<1> QED
  BY <1>1, <1>2, <1>3, <1>4, <1>7, <1>9 DEF all

(***************************************************************************)
(* On any dates and ids, with any inserts and failures: a page has as many *)
(* rows as the page of one database that holds all orders stored when it   *)
(* was asked for; where it has others instead, they are of the same        *)
(* instant and the two orders of UUIDs disagree about them.                *)
(***************************************************************************)
THEOREM PagesAgreeButForTies == Spec => PageButForTies
<1>1. ASSUME IInv, Respond
      PROVE  \E D \in SUBSET db :
                /\ since \subseteq D /\ Content \subseteq Behind(D)
                /\ Cardinality(Content) = Cardinality(PageQuery(D))
                /\ \A o \in Content \ PageQuery(D), v \in PageQuery(D) \ Content :
                      Date[o] = Date[v] /\ o < v /\ Signed(v) < Signed(o)
  <2>1. PICK D \in SUBSET db :
           /\ since \subseteq D /\ Behind(D) \in SUBSET Orders
           /\ Rows \subseteq Behind(D)
           /\ Front(NewerPairs, Behind(D), Size) \subseteq Rows
           /\ PageQuery(D) = Front(NewerPairs, Behind(D), Size)
           /\ Content = Front(ContentPairs, Rows, Size)
    BY <1>1, PageAndRows
  <2> DEFINE all    == Behind(D)
             single == Front(NewerPairs, all, Size)
  <2>2. Size \in Nat /\ Rows \in SUBSET Orders /\ all \in SUBSET Orders
    BY <2>1, SizesAssumption
  <2>3. Content \subseteq Rows /\ single \subseteq all /\ Content \subseteq all
    BY <2>1 DEF Front
  <2>4. single \subseteq Rows /\ Rows \subseteq all
    BY <2>1
  <2> HIDE DEF all
  <2>5. Cardinality(Content) <= Size /\ Cardinality(single) <= Size
    BY <2>1, <2>2, ContentIsOrder, NewerIsOrder, FrontIsBounded
  <2>6. /\ Cardinality(Content) < Size => Content = Rows
        /\ Cardinality(single) < Size => single = all
    BY <2>1, <2>2, ContentIsOrder, NewerIsOrder, ShortFrontIsAll
  <2>7. ASSUME NEW o \in Content \ single, NEW v \in single \ Content
        PROVE  Date[o] = Date[v] /\ o < v /\ Signed(v) < Signed(o)
    <3>1. o \in Orders /\ v \in Orders /\ o # v /\ o \in all /\ v \in Rows
      BY <2>2, <2>3, <2>4
    <3>2. <<o, v>> \notin NewerPairs
      BY <2>2, <3>1, NewerIsOrder, FrontIsClosed
    <3>3. <<v, o>> \notin ContentPairs
      BY <2>1, <2>2, <3>1, ContentIsOrder, FrontIsClosed
    <3>4. Newer(v, o)
      BY <3>1, <3>2, NewerIsOrder DEF IsOrder, NewerPairs
    <3>5. ContentBefore(o, v)
      BY <3>1, <3>3, ContentIsOrder DEF IsOrder, ContentPairs
    <3>6. Merged
      BY <3>1, <3>3, <3>4 DEF ContentBefore, ContentPairs
    <3> QED
      BY <3>1, <3>4, <3>5, <3>6, OrderTypes DEF Newer, ContentBefore, MergesBefore
  <2>8. Cardinality(Content) = Cardinality(single)
    <3> DEFINE m == Cardinality(Content)
               n == Cardinality(single)
    <3>1. m \in Nat /\ n \in Nat /\ m <= Size /\ n <= Size /\ Size \in Nat
      BY <2>2, <2>3, <2>5, SetsOfOrders
    <3>2. m < Size => n <= m
      BY <2>2, <2>4, <2>6, PartsOfOrders
    <3>3. n < Size => m <= n
      BY <2>2, <2>3, <2>4, <2>6, PartsOfOrders
    <3> HIDE DEF m, n
    <3>4. m = n
      BY <3>1, <3>2, <3>3
    <3> QED
      BY <3>4 DEF m, n
  <2> QED
    BY <2>1, <2>3, <2>7, <2>8 DEF all
<1>2. IInv => [Respond => \E D \in SUBSET db :
                  LET single == PageQuery(D)
                  IN  /\ since \subseteq D /\ page' \subseteq Behind(D)
                      /\ Cardinality(page') = Cardinality(single)
                      /\ \A o \in page' \ single, v \in single \ page' :
                            Date[o] = Date[v] /\ o < v /\ Signed(v) < Signed(o)]_vars
  <2> SUFFICES ASSUME IInv, Respond
               PROVE  \E D \in SUBSET db :
                        /\ since \subseteq D /\ page' \subseteq Behind(D)
                        /\ Cardinality(page') = Cardinality(PageQuery(D))
                        /\ \A o \in page' \ PageQuery(D), v \in PageQuery(D) \ page' :
                              Date[o] = Date[v] /\ o < v /\ Signed(v) < Signed(o)
    OBVIOUS
  <2>1. page' = Content
    BY DEF Respond
  <2> QED
    BY <1>1, <2>1
<1> QED
  BY <1>2, Inductive, PTL DEF PageButForTies

-----------------------------------------------------------------------------
(* The walk. *)

\* What the page query finds behind a cursor.
Past(c) ==
    {o \in Orders : \/ c = NoCursor
                    \/ Date[o] < Date[c] - ZoneShift
                    \/ Date[o] = Date[c] - ZoneShift /\ o < c}

LEMMA BehindIsPast ==
    ASSUME NEW c
    PROVE  /\ cursor = c => Behind(Orders) = Past(c)
           /\ cursor' = c => Behind(Orders)' = Past(c)
BY DEF Behind, CursorDate, Past

\* Cursors that do not move back in time: behind a later cursor is nothing that was not
\* behind an earlier one.
LEMMA PastShrinks ==
    ASSUME ZoneShift >= 0, NEW c \in Orders \cup {NoCursor}, NEW d \in Orders, d \in Past(c)
    PROVE  Past(d) \subseteq Past(c)
<1> SUFFICES ASSUME NEW o \in Past(d), c # NoCursor
             PROVE  \/ Date[o] < Date[c] - ZoneShift
                    \/ Date[o] = Date[c] - ZoneShift /\ o < c
  BY DEF Past
<1>1. /\ o \in Orders /\ d # NoCursor /\ c \in Orders
  BY OrderTypes DEF Past, NoCursor
<1>2. /\ Date[o] \in Nat /\ Date[c] \in Nat /\ Date[d] \in Nat
      /\ o \in Nat /\ c \in Nat /\ d \in Nat /\ ZoneShift \in Int
  BY <1>1, OrderTypes, OrdersAssumption
<1>3. Date[o] < Date[d] - ZoneShift \/ (Date[o] = Date[d] - ZoneShift /\ o < d)
  BY <1>1 DEF Past
<1>4. Date[d] < Date[c] - ZoneShift \/ (Date[d] = Date[c] - ZoneShift /\ d < c)
  BY <1>1 DEF Past
<1> QED
  BY <1>2, <1>3, <1>4

\* No order of a page is behind the page's last one, if it is of those that are not
\* repeated.
LEMMA PageIsBehindNothing ==
    ASSUME NEW o \in Orders, NEW last \in Orders, ~ MayRepeat(o),
           o = last \/ ContentBefore(o, last)
    PROVE  o \notin Past(last)
<1>1. /\ o \in Nat /\ last \in Nat /\ last # NoCursor
      /\ Date[o] \in Nat /\ Date[last] \in Nat /\ ZoneShift \in Int
      /\ Signed(o) \in Int /\ Signed(last) \in Int
  BY OrderTypes, OrdersAssumption DEF NoCursor
<1>2. ZoneShift > 0 \/ (ZoneShift = 0 /\ ~ TiedAcross(o))
  BY <1>1 DEF MayRepeat
<1>3. Date[o] >= Date[last]
  BY <1>1 DEF ContentBefore, MergesBefore, Newer
<1>4. CASE ZoneShift > 0
  BY <1>1, <1>3, <1>4 DEF Past
<1>5. CASE ZoneShift = 0 /\ ~ TiedAcross(o)
  <2> SUFFICES ASSUME Date[o] = Date[last], o < last PROVE FALSE
    BY <1>1, <1>3, <1>5 DEF Past
  <2>1. Newer(last, o)
    BY <1>1 DEF Newer
  <2>2. ~ Merged \/ (Signed(last) < 0 <=> Signed(o) < 0)
    BY <1>1, <1>5 DEF TiedAcross
  <2>3. ContentBefore(last, o)
    BY <2>1, <2>2, OrdersAgree
  <2>4. ContentBefore(o, last)
    BY <1>1
  <2> QED
    BY <2>3, <2>4, ContentIsOrder DEF IsOrder, ContentPairs
<1> QED
  BY <1>2, <1>4, <1>5

\* What a full page leaves out is not newer than its last order and, ties across the
\* sign bit aside, of a smaller id if it is as new.
LEMMA LeftOut ==
    ASSUME IInv, Respond, NEW D \in SUBSET db, NEW part \in [Shards -> SUBSET Behind(D)],
           \A o \in Behind(D) : \E s \in Shards : o \in part[s],
           \A o : o \in Rows <=> \E s \in Shards : o \in Front(NewerPairs, part[s], Size),
           NEW o \in Behind(D), o \notin Content, NEW last \in Content
    PROVE  /\ Date[o] <= Date[last]
           /\ Date[o] = Date[last] /\ ~ TiedAcross(o) => o < last
<1> DEFINE Bad == Date[o] > Date[last] \/ (Date[o] = Date[last] /\ ~ TiedAcross(o) /\ o > last)
<1>1. /\ Size \in Nat /\ Rows \in SUBSET Orders /\ Content \in SUBSET Rows
      /\ Behind(D) \in SUBSET Orders /\ o \in Orders /\ last \in Orders /\ last \in Rows
  BY SizesAssumption, ContentType DEF IInv, TypeOK, Behind
<1>2. Content = Front(ContentPairs, Rows, Size)
  BY ContentType, PagesAreFronts DEF Content
<1>3. /\ o \in Nat /\ last \in Nat /\ o # last /\ Date[o] \in Nat /\ Date[last] \in Nat
  BY <1>1, OrderTypes
<1>4. \A v \in Orders : /\ v \in Nat /\ Date[v] \in Nat /\ Signed(v) \in Int
  BY OrderTypes
<1> SUFFICES ASSUME Bad PROVE FALSE
  BY <1>3
<1>5. ASSUME NEW v \in Orders, v = o \/ Newer(v, o) PROVE ContentBefore(v, last)
  <2>1. Newer(v, last)
    BY <1>3, <1>4, <1>5 DEF Newer
  <2>2. Date[v] = Date[last] => Date[o] = Date[last] /\ Date[v] = Date[o] /\ ~ TiedAcross(o)
    BY <1>3, <1>4, <1>5 DEF Newer
  <2>3. Date[v] = Date[last] /\ Merged => (Signed(v) < 0 <=> Signed(last) < 0)
    <3>1. ASSUME NEW x \in Orders, Date[x] = Date[o], Merged, ~ TiedAcross(o)
          PROVE  Signed(x) < 0 <=> Signed(o) < 0
      BY <1>1, <1>4, <3>1 DEF TiedAcross
    <3> QED
      BY <1>1, <2>2, <3>1
  <2> QED
    BY <1>1, <2>1, <2>3, OrdersAgree
<1>6. last \in Front(ContentPairs, Rows, Size)
  BY <1>2
<1>7. CASE o \in Rows
  <2>1. <<o, last>> \in ContentPairs
    BY <1>1, <1>5 DEF ContentPairs
  <2> QED
    BY <1>1, <1>2, <1>6, <1>7, <2>1, ContentIsOrder, FrontIsClosed
<1>8. CASE o \notin Rows
  <2>1. PICK s \in Shards : o \in part[s]
    OBVIOUS
  <2> DEFINE all == part[s]
             F == Front(NewerPairs, all, Size)
  <2>2. all \in SUBSET Orders /\ o \in all /\ o \notin F /\ F \subseteq Rows
    BY <1>1, <1>8, <2>1
  <2> HIDE DEF all
  <2>3. F \subseteq all /\ F # all
    BY <2>2 DEF Front
  <2>4. ~ (Cardinality(F) < Size)
    BY <1>1, <2>2, <2>3, NewerIsOrder, ShortFrontIsAll
  <2>5. ASSUME NEW v \in F PROVE v \in Before(ContentPairs, Rows, last)
    <3>1. v \in Orders /\ v \in Rows /\ v # o
      BY <1>1, <2>2
    <3>2. <<o, v>> \notin NewerPairs
      BY <1>1, <2>2, NewerIsOrder, FrontIsClosed
    <3>3. Newer(v, o)
      BY <1>1, <3>1, <3>2, NewerIsOrder DEF IsOrder, NewerPairs
    <3>4. ContentBefore(v, last)
      BY <1>5, <3>1, <3>3
    <3> QED
      BY <1>1, <3>1, <3>4 DEF Before, ContentPairs
  <2>6. Before(ContentPairs, Rows, last) \in SUBSET Orders
    BY <1>1 DEF Before
  <2>7. F \in SUBSET Before(ContentPairs, Rows, last)
    BY <2>5
  <2>8. Cardinality(Before(ContentPairs, Rows, last)) < Size
    BY <1>6 DEF Front
  <2> HIDE DEF F
  <2>9. /\ Cardinality(F) <= Cardinality(Before(ContentPairs, Rows, last))
        /\ Cardinality(F) \in Nat /\ Cardinality(Before(ContentPairs, Rows, last)) \in Nat
    BY <2>6, <2>7, PartsOfOrders
  <2> QED
    BY <1>1, <2>4, <2>8, <2>9
<1> QED
  BY <1>7, <1>8

\* What is left out by a full page and is not one of those that may be missed is still
\* behind the new cursor; a page that is not full leaves nothing out.
LEMMA NothingLeftOut ==
    ASSUME IInv, Respond, NEW o \in since, o \in Behind(Orders), o \notin Content,
           ~ MayMiss(o)
    PROVE  /\ Cardinality(Content) = Size
           /\ \A last \in Content : o \in Past(last)
<1>0. PICK D \in SUBSET db : \E part \in [Shards -> SUBSET Behind(D)] :
         /\ since \subseteq D
         /\ \A x \in Behind(D) : \E s \in Shards : x \in part[s]
         /\ \A x : x \in Rows <=> \E s \in Shards : x \in Front(NewerPairs, part[s], Size)
  BY RowsOfOneDb
<1>1. PICK part \in [Shards -> SUBSET Behind(D)] :
         /\ since \subseteq D
         /\ \A x \in Behind(D) : \E s \in Shards : x \in part[s]
         /\ \A x : x \in Rows <=> \E s \in Shards : x \in Front(NewerPairs, part[s], Size)
  BY <1>0
<1>2. o \in Behind(D) /\ Behind(D) \in SUBSET Orders /\ o \in Orders
  BY <1>1 DEF Behind, IInv, TypeOK
<1>3. /\ Rows \in SUBSET Orders /\ Content \in SUBSET Rows /\ Size \in Nat
      /\ Content = Front(ContentPairs, Rows, Size)
  BY ContentType, PagesAreFronts, SizesAssumption DEF Content
<1>4. Cardinality(Content) = Size
  <2> SUFFICES ASSUME Cardinality(Content) # Size PROVE FALSE
    OBVIOUS
  <2>1. Cardinality(Content) \in Nat /\ Cardinality(Content) < Size
    BY <1>3, ContentType
  <2>2. Content = Rows
    BY <1>3, <2>1, ContentIsOrder, ShortFrontIsAll
  <2>3. PICK s \in Shards : o \in part[s]
    BY <1>1, <1>2
  <2> DEFINE all == part[s]
             F == Front(NewerPairs, all, Size)
  <2>4. all \in SUBSET Orders /\ o \in all /\ F \subseteq Rows
    BY <1>1, <1>2, <2>3
  <2> HIDE DEF all
  <2>5. Cardinality(F) \in Nat /\ Cardinality(F) <= Cardinality(Rows)
    BY <1>3, <2>4, PartsOfOrders
  <2>6. F = all
    <3>1. Cardinality(F) < Size
      BY <1>3, <2>1, <2>2, <2>5
    <3> QED
      BY <1>3, <2>4, <3>1, NewerIsOrder, ShortFrontIsAll
  <2> QED
    BY <2>2, <2>4, <2>6
<1>5. ASSUME NEW last \in Content PROVE o \in Past(last)
  <2>1. /\ last \in Orders /\ o # last /\ o \in Nat /\ last \in Nat
        /\ Date[o] \in Nat /\ Date[last] \in Nat /\ ZoneShift \in Int
    BY <1>2, <1>3, OrderTypes, OrdersAssumption
  <2>2. /\ Date[o] <= Date[last]
        /\ Date[o] = Date[last] /\ ~ TiedAcross(o) => o < last
    BY <1>1, <1>2, LeftOut
  <2>3. CASE ZoneShift < 0
    BY <1>2, <2>1, <2>2, <2>3 DEF Past
  <2>4. CASE ZoneShift = 0
    <3>1. ~ TiedAcross(o)
      BY <2>4 DEF MayMiss
    <3> QED
      BY <1>2, <2>1, <2>2, <2>4, <3>1 DEF Past
  <2>5. CASE ZoneShift > 0
    <3>1. Date[last] \notin Date[o] .. Date[o] + ZoneShift
      BY <2>1, <2>5 DEF MayMiss
    <3>2. Date[last] > Date[o] + ZoneShift
      BY <2>1, <2>2, <3>1
    <3> QED
      BY <1>2, <2>1, <3>2 DEF Past
  <2> QED
    BY <2>1, <2>3, <2>4, <2>5
<1> QED
  BY <1>4, <1>5

\* A full page moves the cursor to its last order, a short one is all there was left.
LEMMA WalkStep == IInv /\ WalkInv /\ [Next]_vars => WalkInv'
<1> SUFFICES ASSUME IInv, WalkInv, [Next]_vars PROVE WalkInv'
  OBVIOUS
<1> USE DEF client
<1>a. TypeOK /\ Asking
  BY DEF IInv
<1>1. CASE UNCHANGED client /\ base' = base
  <2>1. Behind(Orders)' = Behind(Orders)
    BY <1>1 DEF Behind, CursorDate
  <2>2. OnceUnlessDisturbed'
    BY <1>1 DEF WalkInv, OnceUnlessDisturbed
  <2> QED
    BY <1>1, <2>1, <2>2 DEF WalkInv
<1>2. ASSUME NEW k \in Kinds, NEW c, Ask(k, c), k = "page" => c = NoCursor
      PROVE  WalkInv'
  <2>1. \A o \in Orders : seen[o] = 0
    BY <1>2 DEF Ask, WalkInv
  <2>2. UNCHANGED seen /\ walk' = "waiting" /\ kind' = k /\ cursor' = c /\ base' = db
    BY <1>2 DEF Ask
  <2>3. kind' = "page" => Behind(Orders)' = Orders
    BY <1>2, <2>2 DEF Behind
  <2>4. db \subseteq Orders
    BY <1>a DEF TypeOK
  <2>5. OnceUnlessDisturbed'
    BY <2>1, <2>2 DEF OnceUnlessDisturbed
  <2> QED
    BY <2>1, <2>2, <2>3, <2>4, <2>5 DEF WalkInv
<1>3. CASE Respond
  <2>1. /\ kind = "page" /\ walk = "waiting" /\ UNCHANGED <<kind, base>>
        /\ seen' = [o \in Orders |-> IF o \in Content THEN seen[o] + 1 ELSE seen[o]]
        /\ walk' \in {"waiting", "done"}
    BY <1>3 DEF Respond, Joined
  <2>2. /\ Content \subseteq Behind(Orders) /\ Content \subseteq Orders
    <3>1. PICK D \in SUBSET db : Rows \subseteq Behind(D)
      BY <1>3, PageAndRows
    <3>2. Behind(D) \subseteq Behind(Orders) /\ Content \subseteq Rows /\ Rows \subseteq Orders
      BY <1>a, ContentType DEF Behind, TypeOK
    <3> QED
      BY <3>1, <3>2
  <2>3. cursor \in Orders \cup {NoCursor} /\ Behind(Orders) = Past(cursor)
    BY <1>a, <2>1, BehindIsPast DEF Asking
  <2>4. /\ \A o \in Orders : seen[o] \in Nat
        /\ base \subseteq Orders /\ base \subseteq since
    BY <1>a DEF TypeOK
  <2>5. /\ \A o \in Orders : ~ MayRepeat(o) =>
              seen[o] \in {0, 1} /\ (seen[o] = 1 => o \notin Past(cursor))
        /\ \A o \in base : MayMiss(o) \/ seen[o] >= 1 \/ o \in Past(cursor)
    BY <2>1, <2>3 DEF WalkInv
  <2>6. \A o \in Orders : /\ seen'[o] >= seen[o] /\ seen'[o] \in Nat
                          /\ o \in Content => seen'[o] = seen[o] + 1
                          /\ o \notin Content => seen'[o] = seen[o]
    BY <2>1, <2>4
  <2>7. \A o \in Orders : ~ MayRepeat(o) => seen'[o] \in {0, 1}
    <3> SUFFICES ASSUME NEW o \in Orders, ~ MayRepeat(o) PROVE seen'[o] \in {0, 1}
      OBVIOUS
    <3>1. o \in Content => seen[o] = 0
      BY <2>2, <2>3, <2>5
    <3> QED
      BY <2>5, <2>6, <3>1
  <2>8. CASE Cardinality(Content) = Size
    <3> DEFINE last == CHOOSE o \in Content : \A v \in Content : v = o \/ ContentBefore(v, o)
    <3>1. last \in Content /\ \A v \in Content : v = last \/ ContentBefore(v, last)
      BY <2>8, ContentType
    <3>2. cursor' = last /\ walk' = "waiting"
      BY <1>3, <2>1, <2>8 DEF Respond
    <3> HIDE DEF last
    <3>3. last \in Orders /\ Behind(Orders)' = Past(last) /\ last \in Past(cursor)
      BY <2>2, <2>3, <3>1, <3>2, BehindIsPast
    <3>4. ASSUME NEW o \in Orders, ~ MayRepeat(o), seen'[o] = 1 PROVE o \notin Past(last)
      <4>1. CASE o \in Content
        BY <3>1, <3>3, <3>4, <4>1, PageIsBehindNothing
      <4>2. CASE o \notin Content
        <5>1. o \notin Past(cursor)
          BY <2>5, <2>6, <3>4, <4>2
        <5>2. ZoneShift >= 0
          BY <3>4, OrdersAssumption DEF MayRepeat
        <5> QED
          BY <2>3, <3>3, <5>1, <5>2, PastShrinks
      <4> QED
        BY <4>1, <4>2
    <3>5. ASSUME NEW o \in base, ~ MayMiss(o), o \notin Past(last) PROVE seen'[o] >= 1
      <4>1. o \in Orders /\ o \in since /\ seen[o] \in Nat
        BY <2>4
      <4>2. CASE seen[o] >= 1
        BY <2>6, <4>1, <4>2
      <4>3. CASE o \in Past(cursor)
        <5>1. o \in Content
          BY <1>3, <2>3, <3>1, <3>5, <4>1, <4>3, NothingLeftOut
        <5> QED
          BY <2>6, <4>1, <5>1
      <4> QED
        BY <2>5, <3>5, <4>2, <4>3
    <3>6. OnceUnlessDisturbed'
      BY <2>6, <2>7, <3>2 DEF OnceUnlessDisturbed
    <3> QED
      BY <2>1, <2>7, <3>2, <3>3, <3>4, <3>5, <3>6 DEF WalkInv
  <2>9. CASE Cardinality(Content) # Size
    <3>1. walk' = "done"
      BY <1>3, <2>9 DEF Respond
    <3>2. ASSUME NEW o \in base, ~ MayMiss(o) PROVE seen'[o] >= 1
      <4>1. o \in Orders /\ o \in since /\ seen[o] \in Nat
        BY <2>4
      <4>2. CASE seen[o] >= 1
        BY <2>6, <4>1, <4>2
      <4>3. CASE o \in Past(cursor)
        <5>1. o \in Content
          BY <1>3, <2>3, <2>9, <3>2, <4>1, <4>3, NothingLeftOut
        <5> QED
          BY <2>6, <4>1, <5>1
      <4> QED
        BY <2>5, <3>2, <4>2, <4>3
    <3>3. OnceUnlessDisturbed'
      BY <2>1, <2>6, <2>7, <3>2 DEF OnceUnlessDisturbed
    <3> QED
      BY <2>1, <3>1, <3>3 DEF WalkInv
  <2> QED
    BY <2>8, <2>9
<1>4. CASE RespondRead
  <2>1. kind # "page" /\ UNCHANGED <<kind, seen, base>>
    BY <1>4 DEF RespondRead
  <2>2. \A o \in Orders : seen'[o] = 0
    BY <2>1 DEF WalkInv
  <2>3. OnceUnlessDisturbed'
    BY <2>1, <2>2 DEF OnceUnlessDisturbed
  <2> QED
    BY <2>1, <2>2, <2>3 DEF WalkInv
<1>5. CASE Start
  BY <1>2, <1>5 DEF Start, Kinds
<1> QED
  BY <1>1, <1>3, <1>4, <1>5 DEF Next, Serve, Insert, Query, FailQuery, RespondError, vars

(***************************************************************************)
(* In any time zone, on any dates and ids, with any inserts, failures and  *)
(* retries: a walk shows an order twice only if its cursors move back in   *)
(* time or the order shares its instant with one across the sign bit, and  *)
(* by its end misses one that existed when it began only if the order is   *)
(* tied like that or another is at most the zone's offset newer.           *)
(***************************************************************************)
THEOREM WalksDisturbNoOther == Spec => []OnceUnlessDisturbed
<1>1. Init => WalkInv
  BY DEF Init, WalkInv, OnceUnlessDisturbed
<1>2. WalkInv => OnceUnlessDisturbed
  BY DEF WalkInv
<1> QED
  BY <1>1, <1>2, WalkStep, Inductive, PTL DEF Spec
=============================================================================
