------------------------- MODULE OrderSeedingProofs -------------------------
(***************************************************************************)
(* Proofs about OrderSeeding, for every set of users, every order and      *)
(* every tie of created_at, every number of shards, threads, products and  *)
(* runs, and every size of pages.                                          *)
(***************************************************************************)
EXTENDS OrderSeeding, Induction

-----------------------------------------------------------------------------
(* The inductive invariant. *)

\* The users the walk has left behind: on the shards before the current one, and
\* up to the cursor on the current one.
Behind(u) == Home[u] < shard \/ (Home[u] = shard /\ ~ AfterCursor(u))

Visited(u) == IF u \in stored /\ Behind(u) THEN 1 ELSE 0

\* Where the main thread is says what the loops and the pool hold.
ByPhase ==
    /\ pc # "exited" => exit = "none" /\ runs > 0
    /\ pc \in {"products", "orders"} =>
          cursor = NoCursor /\ \A u \in Users : visits[u] = 0
    /\ pc = "orders" => shard = 0
    /\ pc \notin {"collect", "drain"} => \A i \in ChunkIds : task[i] \in {"none", "done"}

\* Between two pages exactly the users behind were visited.
Between == pc = "page" => \A u \in Users : visits[u] = Visited(u)

\* While a page is worked on, the cursor has passed it; each of its users is in a
\* chunk, and was visited if the chunk is done, not if it never ran to its end.
Within ==
    pc \in {"collect", "drain"} =>
        /\ \A u \in Users \ page : visits[u] = Visited(u)
        /\ \A u \in page :
              /\ Behind(u)
              /\ ChunkOf(page, u) \in Given
              /\ task[ChunkOf(page, u)] = "done" => visits[u] = 1
              /\ task[ChunkOf(page, u)] \in {"queued", "running", "cancelled"} => visits[u] = 0

\* The replication loop has added this run's products to the shards before the
\* current one.
Replicating ==
    clean /\ pc = "products" =>
        \A s, t \in Shards :
            /\ (s < shard <=> t < shard) => catalog[s] = catalog[t]
            /\ s < shard /\ t >= shard => catalog[s] = catalog[t] \cup NewProducts

\* The sampled products are on the first shard.
Sampled == pc \in {"page", "collect", "drain"} => fetched \subseteq catalog[0]

IInv ==
    /\ TypeOK /\ ByPhase
    /\ ExactlyOnce /\ Between /\ Within
    /\ CatalogsAgree /\ Replicating /\ Sampled

-----------------------------------------------------------------------------
(* The keyset order. *)

\* (created_at, user_id) is a strict total order, ties of created_at or not.
LEMMA BeforeIsTotalOrder ==
    /\ \A u \in Users : ~ Before(u, u)
    /\ \A u, v \in Users : u = v \/ Before(u, v) \/ Before(v, u)
    /\ \A u, v, w \in Users : Before(u, v) /\ Before(v, w) => Before(u, w)
<1>1. \A u \in Users : u \in Nat /\ CreatedAt[u] \in Nat
  BY UsersAssumption, ShardsAssumption
<1> QED
  BY <1>1 DEF Before

\* A set of users that is not empty has a first and a last user.
LEMMA FirstAndLast ==
    ASSUME NEW S \in SUBSET Users, S # {}
    PROVE  /\ \E m \in S : \A u \in S : u = m \/ Before(m, u)
           /\ \E m \in S : \A u \in S : u = m \/ Before(u, m)
<1> DEFINE Up   == {p \in Users \X Users : Before(p[1], p[2])}
           Down == {p \in Users \X Users : Before(p[2], p[1])}
<1>1. IsFiniteSet(S)
  BY UsersAssumption, FS_Subset
<1>2. \A u, v \in Users : (<<u, v>> \in Up <=> Before(u, v)) /\ (<<u, v>> \in Down <=> Before(v, u))
  OBVIOUS
<1> HIDE DEF Up, Down
<1>3. \E m \in S : \A u \in S : u = m \/ <<u, m>> \in Up
  <2>1. \A u, v \in S : u = v \/ <<u, v>> \in Up \/ <<v, u>> \in Up
    BY <1>2, BeforeIsTotalOrder
  <2>2. \A u, v, w \in S : <<u, v>> \in Up /\ <<v, w>> \in Up => <<u, w>> \in Up
    BY <1>2, BeforeIsTotalOrder
  <2> QED
    BY <1>1, <2>1, <2>2, LastElement
<1>4. \E m \in S : \A u \in S : u = m \/ <<u, m>> \in Down
  <2>1. \A u, v \in S : u = v \/ <<u, v>> \in Down \/ <<v, u>> \in Down
    BY <1>2, BeforeIsTotalOrder
  <2>2. \A u, v, w \in S : <<u, v>> \in Down /\ <<v, w>> \in Down => <<u, w>> \in Down
    BY <1>2, BeforeIsTotalOrder
  <2> QED
    BY <1>1, <2>1, <2>2, LastElement
<1> QED
  BY <1>2, <1>3, <1>4

\* Places count from 0 and follow the order.
LEMMA PlaceType ==
    ASSUME NEW S \in SUBSET Users, NEW u \in S
    PROVE  /\ Cardinality(S) \in Nat
           /\ Place(S, u) \in Nat /\ Place(S, u) < Cardinality(S)
           /\ \A v \in S : Before(u, v) => Place(S, u) <= Place(S, v)
<1>1. \A T \in SUBSET S : IsFiniteSet(T) /\ Cardinality(T) \in Nat
  BY UsersAssumption, FS_Subset, FS_CardinalityType
<1> DEFINE Smaller(w) == {v \in S : Before(v, w)}
<1>2. \A w : Place(S, w) = Cardinality(Smaller(w)) /\ Smaller(w) \in SUBSET S
  BY DEF Place
<1>3. u \notin Smaller(u)
  BY BeforeIsTotalOrder
<1>4. \A v \in S : Before(u, v) => Smaller(u) \subseteq Smaller(v)
  BY BeforeIsTotalOrder
<1> HIDE DEF Smaller
<1>5. Cardinality(Smaller(u)) < Cardinality(S)
  <2>1. Smaller(u) \subseteq S /\ Smaller(u) # S /\ IsFiniteSet(S)
    BY <1>1, <1>2, <1>3
  <2>2. Cardinality(Smaller(u)) <= Cardinality(S) /\ Cardinality(Smaller(u)) # Cardinality(S)
    BY <2>1, FS_Subset
  <2> QED
    BY <1>1, <1>2, <2>2
<1>6. ASSUME NEW v \in S, Before(u, v) PROVE Cardinality(Smaller(u)) <= Cardinality(Smaller(v))
  BY <1>1, <1>2, <1>4, <1>6, FS_Subset
<1> QED
  BY <1>1, <1>2, <1>5, <1>6

\* A quotient of natural numbers is one, and not above the dividend.
LEMMA Quotient ==
    ASSUME NEW a \in Nat, NEW n \in Nat \ {0}
    PROVE  a \div n \in Nat /\ a \div n <= a
<1>1. a = n * (a \div n) + (a % n) /\ a % n \in Nat /\ a \div n \in Int
  OBVIOUS
<1>2. a \div n >= 0
  <2> SUFFICES ASSUME a \div n <= -1 PROVE FALSE
    BY <1>1
  <2>1. n * (a \div n) <= -n /\ a % n < n
    BY <1>1
  <2> QED
    BY <1>1, <2>1
<1> DEFINE q == a \div n
<1>3. n * q >= q
  <2>1. q \in Nat
    BY <1>1, <1>2
  <2> HIDE DEF q
  <2> QED
    BY <2>1
<1> QED
  BY <1>1, <1>2, <1>3

\* Every user of a page falls into one of the chunks there may be.
LEMMA ChunkType ==
    ASSUME NEW S \in SUBSET Users, NEW u \in S
    PROVE  ChunkOf(S, u) \in ChunkIds
<1>1. Cardinality(S) \in Nat /\ Place(S, u) \in Nat /\ Place(S, u) < Cardinality(S)
  BY PlaceType
<1>2. Cardinality(S) <= Cardinality(Users) /\ Cardinality(Users) \in Nat
  BY UsersAssumption, FS_Subset, FS_CardinalityType
<1>3. ChunkLength(S) \in Nat \ {0}
  <2>1. Cardinality(S) \div Threads \in Nat
    BY <1>1, SizesAssumption, Quotient
  <2> QED
    BY <2>1 DEF ChunkLength
<1>4. ChunkOf(S, u) \in Nat /\ ChunkOf(S, u) <= Place(S, u)
  BY <1>1, <1>3, Quotient DEF ChunkOf
<1> QED
  BY <1>1, <1>2, <1>4 DEF ChunkIds

\* A page is the front of what is ahead.
LEMMA PageIsFront ==
    ASSUME TypeOK, NEW u \in NextPage, NEW v \in Ahead, Before(v, u)
    PROVE  v \in NextPage
<1>1. Ahead \in SUBSET Users /\ u \in Ahead
  BY DEF TypeOK, Ahead, NextPage
<1>2. /\ Place(Ahead, v) \in Nat /\ Place(Ahead, u) \in Nat
      /\ Place(Ahead, v) <= Place(Ahead, u)
  <2> HIDE DEF Ahead
  <2> QED
    BY <1>1, PlaceType
<1>3. Place(Ahead, u) < PageSize
  BY DEF NextPage
<1>4. Place(Ahead, v) < PageSize
  BY <1>2, <1>3, SizesAssumption
<1> QED
  BY <1>4 DEF NextPage

\* A page is empty only when nothing is ahead.
LEMMA EmptyPage ==
    ASSUME TypeOK, NextPage = {}
    PROVE  Ahead = {}
<1> SUFFICES ASSUME Ahead # {} PROVE FALSE
  OBVIOUS
<1>1. Ahead \in SUBSET Users
  BY DEF TypeOK, Ahead
<1>2. PICK m \in Ahead : \A u \in Ahead : u = m \/ Before(m, u)
  <2> HIDE DEF Ahead
  <2> QED
    BY <1>1, FirstAndLast
<1>3. {v \in Ahead : Before(v, m)} = {}
  BY <1>1, <1>2, BeforeIsTotalOrder
<1>4. Place(Ahead, m) = 0
  BY <1>3, FS_EmptySet DEF Place
<1> QED
  BY <1>4, SizesAssumption DEF NextPage

\* The cursor of the next page is its last user.
LEMMA CursorIsLast ==
    ASSUME TypeOK, FetchPage
    PROVE  /\ cursor' \in NextPage /\ NextPage \subseteq stored
           /\ \A v \in NextPage : v = cursor' \/ Before(v, cursor')
<1>1. NextPage \in SUBSET Users /\ NextPage \subseteq stored /\ NextPage # {}
  BY DEF FetchPage, NextPage, Ahead, TypeOK
<1>2. \E m \in NextPage : \A v \in NextPage : v = m \/ Before(v, m)
  <2> HIDE DEF NextPage
  <2> QED
    BY <1>1, FirstAndLast
<1>3. cursor' = CHOOSE u \in NextPage : \A v \in NextPage : v = u \/ Before(v, u)
  BY DEF FetchPage
<1> HIDE DEF NextPage
<1> QED
  BY <1>1, <1>2, <1>3

\* Whom the new cursor has passed: who was behind before, and the page.
LEMMA PassedByPage ==
    ASSUME TypeOK, FetchPage
    PROVE  /\ \A u \in NextPage : ~ Behind(u) /\ Behind(u)'
           /\ \A u \in stored \ NextPage : Behind(u)' <=> Behind(u)
<1>1. /\ cursor' \in NextPage /\ NextPage \subseteq stored
      /\ \A v \in NextPage : v = cursor' \/ Before(v, cursor')
  BY CursorIsLast
<1>2. shard' = shard /\ stored' = stored
  BY DEF FetchPage
<1>3. cursor' \in Users /\ cursor' # NoCursor /\ cursor' \in Ahead
  BY <1>1, UsersAssumption DEF TypeOK, NextPage
<1>4. \A u : AfterCursor(u)' <=> Before(cursor', u)
  BY <1>3 DEF AfterCursor, Before
<1>5. \A u : Behind(u)' <=> Home[u] < shard \/ (Home[u] = shard /\ ~ Before(cursor', u))
  BY <1>2, <1>4 DEF Behind
<1>6. Home[cursor'] = shard /\ AfterCursor(cursor')
  BY <1>3 DEF Ahead
<1>7. \A u \in Users : Home[u] \in Int /\ shard \in Int
  BY ShardsAssumption DEF TypeOK, Shards
<1>8. \A u \in stored : u \in Users
  BY DEF TypeOK
<1>9. ASSUME NEW u \in NextPage PROVE ~ Behind(u) /\ Behind(u)'
  <2>1. Home[u] = shard /\ AfterCursor(u) /\ u \in Users
    BY <1>1, <1>8 DEF NextPage, Ahead
  <2>2. ~ Before(cursor', u)
    BY <1>1, <1>3, <2>1, BeforeIsTotalOrder
  <2> QED
    BY <1>5, <1>7, <2>1, <2>2 DEF Behind
<1>10. ASSUME NEW u \in stored \ NextPage PROVE Behind(u)' <=> Behind(u)
  <2> SUFFICES ASSUME Home[u] = shard PROVE Before(cursor', u) <=> AfterCursor(u)
    BY <1>5, <1>7, <1>8 DEF Behind
  <2>1. ASSUME Before(cursor', u) PROVE AfterCursor(u)
    <3>1. CASE cursor = NoCursor
      BY <3>1 DEF AfterCursor
    <3>2. CASE cursor \in Users
      <4>1. cursor # NoCursor
        BY <3>2, UsersAssumption
      <4>2. Before(cursor, cursor')
        BY <1>6, <4>1 DEF AfterCursor
      <4>3. Before(cursor, u)
        BY <1>3, <1>8, <2>1, <3>2, <4>2, BeforeIsTotalOrder
      <4> QED
        BY <4>3 DEF AfterCursor
    <3> QED
      BY <3>1, <3>2 DEF TypeOK
  <2>2. ASSUME AfterCursor(u), ~ Before(cursor', u) PROVE FALSE
    <3>1. u \in Ahead
      BY <2>2 DEF Ahead
    <3>2. u # cursor'
      BY <1>1
    <3>3. Before(u, cursor')
      BY <1>3, <1>8, <2>2, <3>2, BeforeIsTotalOrder
    <3>4. u \in NextPage
      BY <1>1, <3>1, <3>3, PageIsFront
    <3> QED
      BY <3>4
  <2> QED
    BY <2>1, <2>2
<1> QED
  BY <1>9, <1>10

-----------------------------------------------------------------------------
(* Types and phases. *)

\* The states of a chunk.
States == {"none", "queued", "running", "done", "failed", "cancelled"}

\* Every way out leaves the main thread at rest, and no chunk.
LEMMA LeaveFacts ==
    ASSUME NEW how \in {"success", "failure", "killed"}, Leave(how)
    PROVE  /\ pc' = "exited" /\ exit' = how /\ task' = NoTasks
           /\ clean' = (clean /\ how = "success")
           /\ NoTasks \in [ChunkIds -> States] /\ \A i \in ChunkIds : NoTasks[i] = "none"
BY DEF Leave, NoTasks, States

LEMMA VisitFacts ==
    ASSUME TypeOK, NEW S
    PROVE  /\ Visit(S) \in [Users -> Nat]
           /\ \A u \in Users : Visit(S)[u] = IF u \in S THEN visits[u] + 1 ELSE visits[u]
<1>1. \A u \in Users : visits[u] \in Nat
  BY DEF TypeOK
<1> QED
  BY <1>1 DEF Visit

LEMMA NewProductsType ==
    ASSUME TypeOK, ByPhase, pc # "exited"
    PROVE  NewProducts \subseteq Products
<1>1. runs \in 1 .. MaxRuns
  BY SizesAssumption DEF TypeOK, ByPhase
<1> QED
  BY <1>1 DEF NewProducts, Products

LEMMA InitInv == Init => IInv
<1> SUFFICES ASSUME Init PROVE IInv
  OBVIOUS
<1>1. TypeOK
  <2>1. 0 \in Shards /\ 0 \in 0 .. MaxRuns
    BY ShardsAssumption, SizesAssumption DEF Shards
  <2> QED
    BY <2>1 DEF Init, TypeOK, NoTasks
<1>2. ByPhase /\ ExactlyOnce /\ Between /\ Within /\ CatalogsAgree /\ Replicating /\ Sampled
  <2>1. \A u \in Users : visits[u] = 0
    BY DEF Init
  <2>2. \A i \in ChunkIds : task[i] = "none"
    BY DEF Init, NoTasks
  <2> QED
    BY <2>1, <2>2 DEF Init, ByPhase, ExactlyOnce, Between, Within, CatalogsAgree, Replicating, Sampled
<1> QED
  BY <1>1, <1>2 DEF IInv

LEMMA TypeStep == IInv /\ [Next]_vars => TypeOK'
<1> SUFFICES ASSUME IInv, [Next]_vars PROVE TypeOK'
  OBVIOUS
<1> USE DEF main, work, hist, IInv
<1>0. 0 \in Shards /\ shard \in 0 .. NumShards - 1 /\ NumShards \in Nat /\ MaxRuns \in Nat /\ runs \in Nat
  BY ShardsAssumption, SizesAssumption DEF TypeOK, Shards
<1>1. ASSUME NEW S \in SUBSET (Users \ stored), StartRun(S) PROVE TypeOK'
  <2>1. runs' \in 0 .. MaxRuns
    BY <1>0, <1>1 DEF StartRun
  <2>2. task' \in [ChunkIds -> States]
    BY <1>1 DEF StartRun, NoTasks, States
  <2> QED
    BY <1>0, <1>1, <2>1, <2>2 DEF StartRun, TypeOK, States
<1>2. CASE ReplicateProducts
  <2>1. NewProducts \subseteq Products
    BY <1>2, NewProductsType DEF ReplicateProducts
  <2>2. shard' \in Shards
    BY <1>0, <1>2 DEF ReplicateProducts, Shards
  <2>3. catalog' \in [Shards -> SUBSET Products]
    BY <1>2, <2>1 DEF ReplicateProducts, TypeOK
  <2> QED
    BY <1>2, <2>2, <2>3 DEF ReplicateProducts, TypeOK
<1>3. CASE FailProducts
  <2>1. NewProducts \subseteq Products
    BY <1>3, NewProductsType DEF FailProducts
  <2>3. catalog' \in [Shards -> SUBSET Products]
    BY <1>3, <2>1 DEF FailProducts, TypeOK
  <2> QED
    BY <1>3, <2>3, LeaveFacts DEF FailProducts, TypeOK, States
<1>4. CASE OpenOrders
  <2>1. catalog[0] \subseteq Products
    BY <1>0 DEF TypeOK
  <2> QED
    BY <1>4, <2>1 DEF OpenOrders, TypeOK
<1>5. CASE FailOrders
  BY <1>5, LeaveFacts DEF FailOrders, TypeOK, States
<1>6. CASE FetchPage
  <2>1. cursor' \in NextPage /\ NextPage \subseteq stored
    BY <1>6, CursorIsLast
  <2>2. task' \in [ChunkIds -> States]
    BY <1>6 DEF FetchPage, States
  <2> HIDE DEF NextPage
  <2> QED
    BY <1>6, <2>1, <2>2 DEF FetchPage, TypeOK, States
<1>7. CASE FinishShard
  <2>1. CASE shard < NumShards - 1
    <3>1. shard' \in Shards
      BY <1>0, <1>7, <2>1 DEF FinishShard, Shards
    <3> QED
      BY <1>7, <2>1, <3>1 DEF FinishShard, TypeOK
  <2>2. CASE ~ (shard < NumShards - 1)
    <3>1. Leave("success") /\ shard' = shard
      BY <1>7, <2>2 DEF FinishShard
    <3> QED
      BY <1>7, <3>1, LeaveFacts DEF FinishShard, TypeOK, States
  <2> QED
    BY <2>1, <2>2
<1>8. CASE FailPage
  BY <1>8, LeaveFacts DEF FailPage, TypeOK, States
<1>9. CASE CollectPage
  BY <1>9 DEF CollectPage, TypeOK
<1>10. CASE AbortPage
  <2>1. task' \in [ChunkIds -> States]
    BY <1>10 DEF AbortPage, TypeOK, States
  <2> QED
    BY <1>10, <2>1 DEF AbortPage, TypeOK, States
<1>11. CASE ExitFailure
  BY <1>11, LeaveFacts DEF ExitFailure, TypeOK, States
<1>12. CASE Kill
  BY <1>12, LeaveFacts DEF Kill, TypeOK, States
<1>13. ASSUME NEW i \in ChunkIds, BeginChunk(i) PROVE TypeOK'
  BY <1>13 DEF BeginChunk, TypeOK
<1>14. ASSUME NEW i \in ChunkIds, FailChunk(i) PROVE TypeOK'
  <2>1. visits' \in [Users -> Nat]
    BY <1>14, VisitFacts DEF FailChunk, TypeOK
  <2> QED
    BY <1>14, <2>1 DEF FailChunk, TypeOK
<1>15. ASSUME NEW i \in ChunkIds, NEW refs, CommitChunk(i, refs) PROVE TypeOK'
  <2>1. visits' \in [Users -> Nat]
    BY <1>15, VisitFacts DEF CommitChunk, TypeOK
  <2> QED
    BY <1>15, <2>1 DEF CommitChunk, TypeOK
<1>16. ASSUME NEW i \in ChunkIds, NEW refs, RejectChunk(i, refs) PROVE TypeOK'
  BY <1>16 DEF RejectChunk, TypeOK
<1>17. CASE UNCHANGED vars
  BY <1>17 DEF vars, TypeOK
<1> QED
  BY <1>1, <1>2, <1>3, <1>4, <1>5, <1>6, <1>7, <1>8, <1>9, <1>10, <1>11, <1>12, <1>13,
     <1>14, <1>15, <1>16, <1>17 DEF Next, MainStep, ChunkStep

\* A running chunk belongs to a page being worked on.
LEMMA RunningPhase ==
    ASSUME IInv, NEW i \in ChunkIds, task[i] \in {"queued", "running"}
    PROVE  pc \in {"collect", "drain"} /\ exit = "none"
BY DEF IInv, ByPhase

LEMMA ByPhaseStep == IInv /\ [Next]_vars => ByPhase'
<1> SUFFICES ASSUME IInv, [Next]_vars PROVE ByPhase'
  OBVIOUS
<1> USE DEF main, work, hist, IInv
<1>0. runs \in Nat
  BY DEF TypeOK
<1>1. ASSUME NEW S \in SUBSET (Users \ stored), StartRun(S) PROVE ByPhase'
  <2>1. runs' > 0
    BY <1>0, <1>1 DEF StartRun
  <2>2. \A u \in Users : visits'[u] = 0
    BY <1>1 DEF StartRun
  <2>3. \A i \in ChunkIds : task'[i] = "none"
    BY <1>1 DEF StartRun, NoTasks
  <2> QED
    BY <1>1, <2>1, <2>2, <2>3 DEF StartRun, ByPhase
<1>2. CASE ReplicateProducts
  BY <1>2 DEF ReplicateProducts, ByPhase
<1>3. CASE OpenOrders
  BY <1>3 DEF OpenOrders, ByPhase
<1>4. CASE FailProducts \/ FailOrders \/ FailPage \/ ExitFailure \/ Kill
  <2>1. PICK how \in {"success", "failure", "killed"} : Leave(how)
    BY <1>4 DEF FailProducts, FailOrders, FailPage, ExitFailure, Kill
  <2>2. pc' = "exited" /\ \A i \in ChunkIds : task'[i] = "none"
    BY <2>1, LeaveFacts
  <2> QED
    BY <2>2 DEF ByPhase
<1>5. CASE FetchPage
  BY <1>5 DEF FetchPage, ByPhase
<1>6. CASE FinishShard
  <2>1. CASE UNCHANGED <<pc, exit, task, runs>>
    BY <1>6, <2>1 DEF FinishShard, ByPhase
  <2>2. CASE Leave("success")
    <3>1. pc' = "exited" /\ \A i \in ChunkIds : task'[i] = "none"
      BY <2>2, LeaveFacts
    <3> QED
      BY <3>1 DEF ByPhase
  <2> QED
    BY <1>6, <2>1, <2>2 DEF FinishShard
<1>7. CASE CollectPage
  <2>1. \A i \in ChunkIds : task'[i] \in {"none", "done"}
    BY <1>7 DEF CollectPage, Given
  <2> QED
    BY <1>7, <2>1 DEF CollectPage, ByPhase
<1>8. CASE AbortPage
  BY <1>8 DEF AbortPage, ByPhase
<1>9. ASSUME NEW i \in ChunkIds, ChunkStep(i) PROVE ByPhase'
  <2>1. pc \in {"collect", "drain"} /\ UNCHANGED <<pc, exit, runs>>
    BY <1>9, RunningPhase DEF ChunkStep, BeginChunk, FailChunk, CommitChunk, RejectChunk
  <2> QED
    BY <2>1 DEF ByPhase
<1>10. CASE UNCHANGED vars
  BY <1>10 DEF vars, ByPhase
<1> QED
  BY <1>1, <1>2, <1>3, <1>4, <1>5, <1>6, <1>7, <1>8, <1>9, <1>10 DEF Next, MainStep

-----------------------------------------------------------------------------
(* The walk. *)

\* A page hands out every one of its users, in queued chunks.
LEMMA FetchStep ==
    ASSUME IInv, FetchPage
    PROVE  ExactlyOnce' /\ Between' /\ Within'
<1> USE DEF IInv
<1>1. /\ pc = "page" /\ pc' = "collect" /\ page' = NextPage
      /\ UNCHANGED <<stored, visits, exit, shard>>
  BY DEF FetchPage
<1>2. NextPage \subseteq stored /\ stored \subseteq Users
  BY CursorIsLast DEF TypeOK
<1>3. \A u \in Users : visits[u] = Visited(u)
  BY <1>1 DEF Between
<1>4. /\ \A u \in NextPage : ~ Behind(u) /\ Behind(u)'
      /\ \A u \in stored \ NextPage : Behind(u)' <=> Behind(u)
  BY PassedByPage
<1>5. ExactlyOnce' /\ Between'
  BY <1>1 DEF ExactlyOnce, Between
<1>6. ASSUME NEW u \in Users \ NextPage PROVE visits'[u] = Visited(u)'
  BY <1>1, <1>3, <1>4 DEF Visited
<1>7. ASSUME NEW u \in NextPage
      PROVE  /\ ChunkOf(NextPage, u) \in ChunkIds
             /\ task'[ChunkOf(NextPage, u)] = "queued"
             /\ visits'[u] = 0
  <2>1. NextPage \in SUBSET Users
    BY <1>2
  <2>2. ChunkOf(NextPage, u) \in ChunkIds
    <3> HIDE DEF NextPage
    <3> QED
      BY <2>1, ChunkType
  <2>3. task'[ChunkOf(NextPage, u)] = "queued"
    <3> HIDE DEF NextPage
    <3> QED
      BY <2>2 DEF FetchPage
  <2>4. visits[u] = 0
    BY <1>2, <1>3, <1>4 DEF Visited
  <2> QED
    BY <1>1, <2>2, <2>3, <2>4
<1>8. \A u : ChunkOf(page, u)' = ChunkOf(NextPage, u)
  BY <1>1 DEF ChunkOf, Place, ChunkLength, Before
<1>9. Within'
  <2> HIDE DEF NextPage
  <2> QED
    BY <1>1, <1>4, <1>6, <1>7, <1>8 DEF Within, Given
<1> QED
  BY <1>5, <1>9

\* A shard whose next page is empty is behind.
LEMMA FinishStep ==
    ASSUME IInv, FinishShard
    PROVE  ExactlyOnce' /\ Between' /\ Within'
<1> USE DEF IInv
<1>1. pc = "page" /\ NextPage = {} /\ cursor' = NoCursor /\ UNCHANGED <<stored, visits>>
  BY DEF FinishShard
<1>2. \A u \in Users : visits[u] = Visited(u) /\ visits[u] <= 1
  BY <1>1 DEF Between, ExactlyOnce
<1>3. \A u \in stored : Home[u] = shard => Behind(u)
  <2>1. Ahead = {}
    BY <1>1, EmptyPage
  <2> QED
    BY <2>1 DEF Ahead, Behind
<1>4. stored \subseteq Users /\ shard \in Int /\ \A u \in Users : Home[u] \in 0 .. NumShards - 1
  BY ShardsAssumption DEF TypeOK, Shards
<1>5. \A u \in stored : Home[u] <= shard <=> Behind(u)
  BY <1>3, <1>4 DEF Behind
<1>6. CASE shard < NumShards - 1
  <2>1. shard' = shard + 1 /\ pc' = pc /\ exit' = exit
    BY <1>6 DEF FinishShard
  <2>2. \A u : Behind(u)' <=> Home[u] < shard + 1
    BY <1>1, <2>1 DEF Behind, AfterCursor
  <2>3. \A u \in stored : Behind(u)' <=> Behind(u)
    BY <1>4, <1>5, <2>2
  <2>4. Between'
    BY <1>1, <1>2, <2>3 DEF Between, Visited
  <2>5. ExactlyOnce'
    BY <1>1, <2>1 DEF ExactlyOnce
  <2>6. Within'
    BY <1>1, <2>1 DEF Within
  <2> QED
    BY <2>4, <2>5, <2>6
<1>7. CASE ~ (shard < NumShards - 1)
  <2>1. pc' = "exited"
    BY <1>7, LeaveFacts DEF FinishShard
  <2>2. \A u \in stored : Home[u] <= shard
    BY <1>4, <1>7, ShardsAssumption
  <2>3. \A u \in stored : visits[u] = 1
    BY <1>2, <1>4, <1>5, <2>2 DEF Visited
  <2> QED
    BY <1>1, <1>2, <2>1, <2>3 DEF ExactlyOnce, Between, Within
<1> QED
  BY <1>6, <1>7

\* A chunk visits each of its users once, or not at all.
LEMMA ChunkWalkStep ==
    ASSUME IInv, NEW i \in ChunkIds, ChunkStep(i)
    PROVE  ExactlyOnce' /\ Between' /\ Within'
<1> USE DEF IInv, main, hist
<1>1. /\ pc \in {"collect", "drain"} /\ exit = "none"
      /\ UNCHANGED <<pc, exit, shard, cursor, page, stored>>
  BY RunningPhase DEF ChunkStep, BeginChunk, FailChunk, CommitChunk, RejectChunk
<1>2. \A u : Behind(u)' <=> Behind(u)
  BY <1>1 DEF Behind, AfterCursor, Before
<1>3. \A u : ChunkOf(page, u)' = ChunkOf(page, u)
  BY <1>1 DEF ChunkOf, Place, ChunkLength, Before
<1>4. \A u \in Users : visits[u] <= 1 /\ visits[u] \in Nat
  BY DEF ExactlyOnce, TypeOK
<1>5. /\ task[i] \in {"queued", "running"}
      /\ task'[i] \in {"running", "done", "failed"}
      /\ \A j \in ChunkIds \ {i} : task'[j] = task[j]
      /\ visits' # visits => task[i] = "running" /\ visits' = Visit(Chunk(i))
      /\ task'[i] = "done" => task[i] = "running" /\ visits' = Visit(Chunk(i))
      /\ task'[i] = "running" => visits' = visits
  BY DEF ChunkStep, BeginChunk, FailChunk, CommitChunk, RejectChunk, TypeOK
<1>6. page \subseteq Users
  BY DEF TypeOK
<1>7. ASSUME NEW u \in Users \ page PROVE visits'[u] = Visited(u)'
  <2>1. u \notin Chunk(i)
    BY DEF Chunk
  <2>2. visits'[u] = visits[u]
    BY <1>5, <2>1, VisitFacts
  <2> QED
    BY <1>1, <1>2, <2>2 DEF Within, Visited
<1>8. ASSUME NEW u \in page
      PROVE  /\ ChunkOf(page, u) \in Given'
             /\ task'[ChunkOf(page, u)] = "done" => visits'[u] = 1
             /\ task'[ChunkOf(page, u)] \in {"queued", "running", "cancelled"} => visits'[u] = 0
             /\ visits'[u] <= 1
  <2> DEFINE c == ChunkOf(page, u)
  <2>1. /\ c \in Given
        /\ task[c] = "done" => visits[u] = 1
        /\ task[c] \in {"queued", "running", "cancelled"} => visits[u] = 0
    BY <1>1 DEF Within
  <2>2. u \in Chunk(i) <=> c = i
    BY DEF Chunk
  <2>3. c \in ChunkIds /\ task[c] # "none" /\ u \in Users
    BY <1>6, <2>1 DEF Given
  <2>4. visits[u] <= 1
    BY <1>4, <2>3
  <2> HIDE DEF c
  <2>5. CASE c = i
    <3>1. visits[u] = 0
      BY <1>5, <2>1, <2>5
    <3>2. Visit(Chunk(i))[u] = 1
      BY <2>2, <2>3, <2>5, <3>1, VisitFacts
    <3> QED
      BY <1>5, <2>3, <2>5, <3>1, <3>2 DEF Given, c
  <2>6. CASE c # i
    <3>1. task'[c] = task[c]
      BY <1>5, <2>3, <2>6
    <3>2. visits'[u] = visits[u]
      BY <1>5, <2>2, <2>3, <2>6, VisitFacts
    <3> QED
      BY <2>1, <2>3, <2>4, <3>1, <3>2 DEF Given, c
  <2> QED
    BY <2>5, <2>6
<1>9. Within'
  BY <1>1, <1>2, <1>3, <1>7, <1>8 DEF Within
<1>10. ExactlyOnce' /\ Between'
  <2>1. \A u \in Users : visits'[u] <= 1
    BY <1>7, <1>8 DEF Visited
  <2> QED
    BY <1>1, <2>1 DEF ExactlyOnce, Between
<1> QED
  BY <1>9, <1>10

\* The other steps neither visit anyone nor move the cursor, but for a new run.
LEMMA WalkStep == IInv /\ [Next]_vars => ExactlyOnce' /\ Between' /\ Within'
<1> SUFFICES ASSUME IInv, [Next]_vars PROVE ExactlyOnce' /\ Between' /\ Within'
  OBVIOUS
<1> USE DEF IInv, main, work, hist
<1>1. ASSUME NEW S \in SUBSET (Users \ stored), StartRun(S)
      PROVE  ExactlyOnce' /\ Between' /\ Within'
  <2>1. \A u \in Users : visits'[u] = 0
    BY <1>1 DEF StartRun
  <2> QED
    BY <1>1, <2>1 DEF StartRun, ExactlyOnce, Between, Within
<1>2. CASE ReplicateProducts
  <2>1. pc = "products" /\ pc' \in {"products", "orders"} /\ UNCHANGED <<exit, stored, visits>>
    BY <1>2 DEF ReplicateProducts
  <2> QED
    BY <2>1 DEF ExactlyOnce, Between, Within
<1>3. CASE OpenOrders
  <2>1. /\ pc = "orders" /\ pc' = "page" /\ shard = 0 /\ cursor = NoCursor
        /\ UNCHANGED <<exit, stored, visits, shard, cursor>>
        /\ \A u \in Users : visits[u] = 0
    BY <1>3 DEF OpenOrders, ByPhase
  <2>2. \A u \in Users : Home[u] \in Nat
    BY ShardsAssumption DEF Shards
  <2>3. \A u \in Users : ~ Behind(u)'
    BY <2>1, <2>2 DEF Behind, AfterCursor
  <2> QED
    BY <2>1, <2>3 DEF ExactlyOnce, Between, Within, Visited
<1>4. CASE FailProducts \/ FailOrders \/ FailPage \/ ExitFailure \/ Kill
  <2>1. PICK how \in {"failure", "killed"} : Leave(how)
    BY <1>4 DEF FailProducts, FailOrders, FailPage, ExitFailure, Kill
  <2>2. pc' = "exited" /\ exit' = how
    BY <2>1, LeaveFacts
  <2>3. visits' = visits
    BY <1>4 DEF FailProducts, FailOrders, FailPage, ExitFailure, Kill
  <2> QED
    BY <2>2, <2>3 DEF ExactlyOnce, Between, Within
<1>5. CASE FetchPage
  BY <1>5, FetchStep
<1>6. CASE FinishShard
  BY <1>6, FinishStep
<1>7. CASE CollectPage
  <2>1. /\ pc = "collect" /\ pc' = "page" /\ \A i \in Given : task[i] = "done"
        /\ UNCHANGED <<exit, stored, visits, shard, cursor, page>>
    BY <1>7 DEF CollectPage
  <2>2. \A u : Visited(u)' = Visited(u)
    BY <2>1 DEF Visited, Behind, AfterCursor, Before
  <2>3. \A u \in page : visits[u] = 1 /\ Behind(u) /\ u \in stored
    BY <2>1 DEF Within, TypeOK
  <2>4. \A u \in Users : visits[u] = Visited(u)
    BY <2>1, <2>3 DEF Within, Visited
  <2> QED
    BY <2>1, <2>2, <2>4 DEF ExactlyOnce, Between, Within
<1>8. CASE AbortPage
  <2>1. /\ pc = "collect" /\ pc' = "drain"
        /\ UNCHANGED <<exit, stored, visits, shard, cursor, page>>
        /\ \A i \in ChunkIds : task'[i] = IF task[i] = "queued" THEN "cancelled" ELSE task[i]
    BY <1>8 DEF AbortPage
  <2>2. \A u : (Behind(u)' <=> Behind(u)) /\ Visited(u)' = Visited(u)
    BY <2>1 DEF Visited, Behind, AfterCursor, Before
  <2>3. \A u : ChunkOf(page, u)' = ChunkOf(page, u)
    BY <2>1 DEF ChunkOf, Place, ChunkLength, Before
  <2>4. Given' = Given
    BY <2>1 DEF Given
  <2>5. Within'
    BY <2>1, <2>2, <2>3, <2>4 DEF Within, Given
  <2> QED
    BY <2>1, <2>5 DEF ExactlyOnce, Between
<1>9. ASSUME NEW i \in ChunkIds, ChunkStep(i) PROVE ExactlyOnce' /\ Between' /\ Within'
  BY <1>9, ChunkWalkStep
<1>10. CASE UNCHANGED vars
  <2>1. UNCHANGED <<pc, exit, stored, visits, shard, cursor, page, task>>
    BY <1>10 DEF vars
  <2>2. \A u : (Behind(u)' <=> Behind(u)) /\ Visited(u)' = Visited(u)
    BY <2>1 DEF Visited, Behind, AfterCursor, Before
  <2>3. \A u : ChunkOf(page, u)' = ChunkOf(page, u)
    BY <2>1 DEF ChunkOf, Place, ChunkLength, Before
  <2>4. Given' = Given
    BY <2>1 DEF Given
  <2> QED
    BY <2>1, <2>2, <2>3, <2>4 DEF ExactlyOnce, Between, Within
<1> QED
  BY <1>1, <1>2, <1>3, <1>4, <1>5, <1>6, <1>7, <1>8, <1>9, <1>10 DEF Next, MainStep

-----------------------------------------------------------------------------
(* The catalogs. *)

Catalogs == CatalogsAgree /\ Replicating /\ Sampled

\* A run ending badly is not clean any more; nothing is promised.
LEMMA BadEnd ==
    ASSUME NEW how \in {"failure", "killed"}, Leave(how)
    PROVE  Catalogs'
<1>1. pc' = "exited" /\ clean' = FALSE
  BY LeaveFacts
<1> QED
  BY <1>1 DEF Catalogs, CatalogsAgree, Replicating, Sampled

LEMMA ReplicateStep ==
    ASSUME IInv, ReplicateProducts
    PROVE  Catalogs'
<1> USE DEF IInv
<1>1. /\ pc = "products" /\ catalog' = [catalog EXCEPT ![shard] = @ \cup NewProducts]
      /\ UNCHANGED <<runs, fetched, clean, rejected>>
  BY DEF ReplicateProducts, hist
<1>2. shard \in Shards /\ NumShards \in Nat /\ Shards = 0 .. NumShards - 1
  BY ShardsAssumption DEF TypeOK, Shards
<1>3. /\ catalog'[shard] = catalog[shard] \cup NewProducts
      /\ \A t \in Shards \ {shard} : catalog'[t] = catalog[t]
  BY <1>1 DEF TypeOK
<1>4. NewProducts' = NewProducts
  BY <1>1 DEF NewProducts
<1>5. clean => ~ rejected
  BY DEF CatalogsAgree
<1>6. ASSUME clean, NEW s \in Shards, NEW t \in Shards
      PROVE  /\ (s <= shard <=> t <= shard) => catalog'[s] = catalog'[t]
             /\ s <= shard /\ t > shard => catalog'[s] = catalog'[t] \cup NewProducts
  <2>1. /\ (s < shard <=> t < shard) => catalog[s] = catalog[t]
        /\ s < shard /\ t >= shard => catalog[s] = catalog[t] \cup NewProducts
        /\ s < shard => catalog[s] = catalog[shard] \cup NewProducts
        /\ t < shard => catalog[t] = catalog[shard] \cup NewProducts
        /\ t >= shard => catalog[t] = catalog[shard]
    BY <1>1, <1>2, <1>6 DEF Replicating
  <2>2. s \in Int /\ t \in Int /\ shard \in Int
    BY <1>2
  <2>3. /\ s < shard => catalog'[s] = catalog[shard] \cup NewProducts
        /\ s = shard => catalog'[s] = catalog[shard] \cup NewProducts
        /\ t < shard => catalog'[t] = catalog[shard] \cup NewProducts
        /\ t = shard => catalog'[t] = catalog[shard] \cup NewProducts
        /\ t > shard => catalog'[t] = catalog[shard]
    BY <1>3, <2>1, <2>2
  <2>4. s > shard /\ t > shard => catalog'[s] = catalog'[t]
    BY <1>3, <2>1, <2>2
  <2> QED
    BY <2>2, <2>3, <2>4
<1>7. CASE shard < NumShards - 1
  <2>1. shard' = shard + 1 /\ pc' = "products"
    BY <1>1, <1>7 DEF ReplicateProducts
  <2>2. ASSUME clean PROVE Replicating'
    <3>1. \A s \in Shards : (s < shard' <=> s <= shard) /\ (s >= shard' <=> s > shard)
      BY <1>2, <2>1
    <3> QED
      BY <1>4, <1>6, <2>1, <2>2, <3>1 DEF Replicating
  <2>3. Replicating' /\ Sampled' /\ CatalogsAgree'
    BY <1>1, <1>5, <2>1, <2>2 DEF CatalogsAgree, Sampled, Replicating
  <2> QED
    BY <2>3 DEF Catalogs
<1>8. CASE ~ (shard < NumShards - 1)
  <2>1. pc' = "orders"
    BY <1>8 DEF ReplicateProducts
  <2>2. \A s \in Shards : s <= shard
    BY <1>2, <1>8
  <2>3. clean => \A s, t \in Shards : catalog'[s] = catalog'[t]
    BY <1>6, <2>2
  <2> QED
    BY <1>1, <1>5, <2>1, <2>3 DEF Catalogs, CatalogsAgree, Replicating, Sampled
<1> QED
  BY <1>7, <1>8

LEMMA CatalogStep == IInv /\ [Next]_vars => Catalogs'
<1> SUFFICES ASSUME IInv, [Next]_vars PROVE Catalogs'
  OBVIOUS
<1> USE DEF IInv, main, work, hist
<1>1. ASSUME NEW S \in SUBSET (Users \ stored), StartRun(S) PROVE Catalogs'
  <2>1. /\ pc = "exited" /\ pc' = "products" /\ shard' = 0
        /\ UNCHANGED <<catalog, clean, rejected>>
    BY <1>1 DEF StartRun
  <2>2. \A s \in Shards : ~ (s < 0)
    BY DEF Shards
  <2> QED
    BY <2>1, <2>2 DEF Catalogs, CatalogsAgree, Replicating, Sampled
<1>2. CASE ReplicateProducts
  BY <1>2, ReplicateStep
<1>3. CASE OpenOrders
  <2>1. /\ pc = "orders" /\ pc' = "page" /\ fetched' \subseteq catalog[0]
        /\ UNCHANGED <<catalog, clean, rejected>>
    BY <1>3 DEF OpenOrders
  <2> QED
    BY <2>1 DEF Catalogs, CatalogsAgree, Replicating, Sampled
<1>4. CASE FailProducts \/ FailOrders \/ FailPage \/ ExitFailure \/ Kill
  <2>1. PICK how \in {"failure", "killed"} : Leave(how)
    BY <1>4 DEF FailProducts, FailOrders, FailPage, ExitFailure, Kill
  <2> QED
    BY <2>1, BadEnd
<1>5. CASE FetchPage \/ CollectPage \/ AbortPage
  <2>1. /\ pc \in {"page", "collect"} /\ pc' \in {"page", "collect", "drain"}
        /\ UNCHANGED <<catalog, clean, rejected, fetched>>
    BY <1>5 DEF FetchPage, CollectPage, AbortPage
  <2> QED
    BY <2>1 DEF Catalogs, CatalogsAgree, Replicating, Sampled
<1>6. CASE FinishShard
  <2>1. /\ pc = "page" /\ pc' \in {"page", "exited"}
        /\ UNCHANGED <<catalog, rejected, fetched>> /\ clean' = clean
    BY <1>6, LeaveFacts DEF FinishShard, TypeOK
  <2> QED
    BY <2>1 DEF Catalogs, CatalogsAgree, Replicating, Sampled
<1>7. ASSUME NEW i \in ChunkIds, ChunkStep(i) PROVE Catalogs'
  <2>1. pc \in {"collect", "drain"} /\ UNCHANGED <<pc, catalog, clean, fetched>>
    BY <1>7, RunningPhase DEF ChunkStep, BeginChunk, FailChunk, CommitChunk, RejectChunk
  <2>2. ASSUME clean PROVE rejected' = rejected
    <3>1. ASSUME NEW refs \in SUBSET fetched, RejectChunk(i, refs) PROVE FALSE
      <4>1. refs \subseteq catalog[0]
        BY <2>1, <3>1 DEF Sampled
      <4>2. 0 \in Shards /\ shard \in Shards
        BY ShardsAssumption DEF TypeOK, Shards
      <4>3. catalog[shard] = catalog[0]
        BY <2>1, <2>2, <4>2 DEF CatalogsAgree
      <4> QED
        BY <3>1, <4>1, <4>3 DEF RejectChunk
    <3> QED
      BY <1>7, <3>1 DEF ChunkStep, BeginChunk, FailChunk, CommitChunk
  <2> QED
    BY <2>1, <2>2 DEF Catalogs, CatalogsAgree, Replicating, Sampled
<1>8. CASE UNCHANGED vars
  <2>1. UNCHANGED <<pc, catalog, clean, fetched, rejected, shard, runs>>
    BY <1>8 DEF vars
  <2>2. NewProducts' = NewProducts
    BY <2>1 DEF NewProducts
  <2> QED
    BY <2>1, <2>2 DEF Catalogs, CatalogsAgree, Replicating, Sampled
<1> QED
  BY <1>1, <1>2, <1>3, <1>4, <1>5, <1>6, <1>7, <1>8 DEF Next, MainStep

-----------------------------------------------------------------------------
(* Theorems. *)

\* The inductive invariant holds in every reachable state.
THEOREM Inductive == Spec => []IInv
<1>1. IInv /\ [Next]_vars => IInv'
  BY TypeStep, ByPhaseStep, WalkStep, CatalogStep DEF IInv, Catalogs
<1> QED
  BY <1>1, InitInv, PTL DEF Spec

(***************************************************************************)
(* Type correctness.                                                       *)
(***************************************************************************)
THEOREM TypeCorrect == Spec => []TypeOK
<1>1. IInv => TypeOK
  BY DEF IInv
<1> QED
  BY <1>1, Inductive, PTL

(***************************************************************************)
(* The keyset walk of generate_orders, cut into pages and the pages into   *)
(* chunks, commits the orders of no user twice, and of every stored user   *)
(* once when the run succeeds - ties of created_at across a page boundary  *)
(* and the remainder of a page that the threads do not divide included.    *)
(***************************************************************************)
THEOREM WalkIsExact == Spec => []ExactlyOnce
<1>1. IInv => ExactlyOnce
  BY DEF IInv
<1> QED
  BY <1>1, Inductive, PTL

(***************************************************************************)
(* While no run failed, the replicated catalogs of the shards are equal    *)
(* after the product phase, and no shard refuses an order item: the sample *)
(* of the first shard's products is known to all.                          *)
(***************************************************************************)
THEOREM CatalogsStayEqual == Spec => []CatalogsAgree
<1>1. IInv => CatalogsAgree
  BY DEF IInv
<1> QED
  BY <1>1, Inductive, PTL
=============================================================================
