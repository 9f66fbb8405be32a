------------------------ MODULE SingleSeedingProofs ------------------------
(***************************************************************************)
(* Proofs about SingleSeeding, for every number of users, threads, runs    *)
(* and faults, every size of batches and pages, and every pool of at least *)
(* two connections.                                                        *)
(***************************************************************************)
EXTENDS SingleSeeding, SequenceTheorems, Induction

-----------------------------------------------------------------------------
(* The inductive invariant. *)

\* Every connection in use is a writing chunk's or the walk's.
Held ==
    /\ IsFiniteSet(DOMAIN jobs)
    /\ inUse = Cardinality(In({"writing"})) + (IF walking THEN 1 ELSE 0)

\* What the main thread's place says of the pools and of the DDL.
ByPhase ==
    /\ pc \notin {"collect", "drain"} => jobs = <<>>
    /\ walking => pc \in {"page", "collect"}
    /\ pc = "schema" => step <= Len(Statements)
    /\ pc \notin {"exited", "schema"} => step = Len(Statements) + 1

\* The statements this run is past have had their effect.
Progress ==
    pc # "exited" => \A k \in 1 .. step - 1 : Statements[k] \in schema

\* CitusSeedsOnce, and what it rests on: a run that gets past the statement that
\* cannot be repeated began with an empty volume.
Citus ==
    mode = "single-shard" =>
        /\ users # {} \/ products => ToSet(Distribute) \subseteq schema
        /\ base \in {{}, users}
        /\ pc # "exited" /\ step > 6 => base = {}

IInv == TypeOK /\ Held /\ ByPhase /\ Progress /\ Citus

-----------------------------------------------------------------------------
(* Lemmas about the operators. *)

\* A minimum of two numbers is one of them, and not above the other.
LEMMA MinOfTwo ==
    ASSUME NEW a \in Nat, NEW b \in Nat
    PROVE  Min({a, b}) \in Nat /\ Min({a, b}) <= a
<1>1. \E m \in {a, b} : \A y \in {a, b} : m <= y
  OBVIOUS
<1>2. Min({a, b}) \in {a, b} /\ \A y \in {a, b} : Min({a, b}) <= y
  BY <1>1 DEF Min
<1> QED
  BY <1>2

\* There are finitely many slices of a finite set, and they are subsets of it.
LEMMA SlicesType ==
    ASSUME NEW S, IsFiniteSet(S), NEW first, NEW each
    PROVE  /\ IsFiniteSet(DOMAIN Slices(S, first, each))
           /\ \A i \in DOMAIN Slices(S, first, each) :
                 Slices(S, first, each)[i] \in SUBSET S
<1> DEFINE slice(u) == IF Place(S, u) < first THEN 1
                       ELSE 2 + (Place(S, u) - first) \div each
           T == {slice(u) : u \in S}
           f == [u \in S |-> slice(u)]
<1>1. f \in Surjection(S, T)
  BY DEF Surjection
<1>2. IsFiniteSet(T)
  <2> HIDE DEF f, T
  <2> QED BY <1>1, FS_Surjection
<1>3. Slices(S, first, each) = [i \in T |-> {u \in S : slice(u) = i}]
  BY DEF Slices
<1> QED
  <2> HIDE DEF slice, T
  <2> QED BY <1>2, <1>3

\* What a chunk is.
Job == [kind : {"users", "orders"}, rows : SUBSET Keys,
        state : {"queued", "waiting", "writing", "done", "failed", "cancelled"}]

\* New chunks are all queued.
LEMMA JobsType ==
    ASSUME NEW kind \in {"users", "orders"}, NEW S \in SUBSET Keys, IsFiniteSet(S),
           NEW first, NEW each, jobs' = Jobs(kind, Slices(S, first, each))
    PROVE  /\ IsFiniteSet(DOMAIN jobs')
           /\ \A i \in DOMAIN jobs' : jobs'[i] \in Job /\ jobs'[i].state = "queued"
<1> DEFINE s == Slices(S, first, each)
<1>1. jobs' = [i \in DOMAIN s |-> [kind |-> kind, rows |-> s[i], state |-> "queued"]]
  BY DEF Jobs
<1>2. IsFiniteSet(DOMAIN s) /\ \A i \in DOMAIN s : s[i] \in SUBSET Keys
  BY SlicesType
<1> QED
  <2> HIDE DEF s
  <2> QED BY <1>1, <1>2 DEF Job

\* Moving a chunk changes its state and nothing else.
LEMMA MoveType ==
    ASSUME \A j \in DOMAIN jobs : jobs[j] \in Job,
           NEW i \in DOMAIN jobs,
           NEW to \in {"queued", "waiting", "writing", "done", "failed", "cancelled"},
           Move(i, to)
    PROVE  /\ DOMAIN jobs' = DOMAIN jobs
           /\ \A j \in DOMAIN jobs :
                 /\ jobs'[j] \in Job
                 /\ jobs'[j].state = IF j = i THEN to ELSE jobs[j].state
BY DEF Move, Job

\* There are finitely many users, and a page is some of them.
LEMMA FiniteParts ==
    ASSUME TypeOK
    PROVE  IsFiniteSet(users) /\ IsFiniteSet(NextPage) /\ NextPage \subseteq Keys
<1>1. users \subseteq Keys /\ NextPage \subseteq users
  BY DEF TypeOK, NextPage, Ahead
<1> QED
  BY <1>1, KeysAssumption, FS_Subset

\* The names of all statements.
Names == {"extension", "users", "products", "orders", "order_items",
          "drop fkey", "reference users", "reference products",
          "distribute orders", "distribute order_items"}

\* The statements by their numbers.
LEMMA StatementsAre ==
    /\ Create \in Seq(Names) /\ Len(Create) = 5
    /\ Distribute \in Seq(Names) /\ Len(Distribute) = 5
    /\ Len(Create \o Distribute) = 10
    /\ \A k \in 1 .. 10 : (Create \o Distribute)[k] =
          IF k <= 5 THEN Create[k] ELSE Distribute[k - 5]
<1>1. Create \in Seq(Names) /\ Len(Create) = 5
  BY DEF Create, Names
<1>2. Distribute \in Seq(Names) /\ Len(Distribute) = 5
  BY DEF Distribute, Names
<1>3. Len(Create \o Distribute) = Len(Create) + Len(Distribute)
  BY <1>1, <1>2, ConcatProperties, Zenon
<1>4. \A k \in 1 .. Len(Create) + Len(Distribute) : (Create \o Distribute)[k] =
         IF k <= Len(Create) THEN Create[k] ELSE Distribute[k - Len(Create)]
  BY <1>1, <1>2, ConcatProperties, Zenon
<1>5. 5 + 5 = 10
  OBVIOUS
<1> QED
  BY <1>1, <1>2, <1>3, <1>4, <1>5, Zenon

\* The statements are as many as a counter of them assumes, whatever the mode.
LEMMA StatementsType ==
    /\ Len(Statements) \in {5, 10}
    /\ \A k \in 1 .. Len(Statements) : Statements[k] \in ToSet(Statements)
<1>1. Statements \in Seq(Names) /\ Len(Statements) \in {5, 10}
  BY StatementsAre, ConcatProperties DEF Statements
<1> QED
  BY <1>1 DEF ToSet

\* In the Citus mode the sixth of ten statements is the one that cannot be repeated.
LEMMA CitusStatements ==
    ASSUME mode = "single-shard"
    PROVE  /\ Len(Statements) = 10
           /\ Statements[6] = "drop fkey"
           /\ Statements[6] \in ToSet(Distribute)
           /\ \A x \in ToSet(Distribute) : \E k \in 1 .. 10 : Statements[k] = x
<1>1. Statements = Create \o Distribute
  BY DEF Statements
<1>2. Len(Statements) = 10 /\ \A k \in 1 .. 5 : Statements[k + 5] = Distribute[k]
  BY <1>1, StatementsAre
<1>3. Distribute[1] = "drop fkey" /\ DOMAIN Distribute = 1 .. 5
  BY DEF Distribute
<1>4. Statements[6] = Distribute[1]
  BY <1>2
<1>5. ASSUME NEW x \in ToSet(Distribute) PROVE \E k \in 1 .. 10 : Statements[k] = x
  <2>1. PICK k \in 1 .. 5 : x = Distribute[k]
    BY <1>3 DEF ToSet
  <2> WITNESS k + 5 \in 1 .. 10
  <2> QED
    BY <1>2, <2>1
<1>6. Distribute[1] \in ToSet(Distribute)
  <2>1. 1 \in 1 .. 5
    OBVIOUS
  <2> QED
    BY <1>3, <2>1, Zenon DEF ToSet
<1> QED
  BY <1>2, <1>3, <1>4, <1>5, <1>6

-----------------------------------------------------------------------------
(* Types. *)

\* The chunks have their types.
LEMMA JobsAreTyped ==
    ASSUME TypeOK
    PROVE  \A j \in DOMAIN jobs : jobs[j] \in Job
BY DEF TypeOK, Job

\* The writing chunks can be counted, and a chunk that writes is counted.
LEMMA WritingFinite ==
    ASSUME Held
    PROVE  /\ IsFiniteSet(In({"writing"})) /\ Cardinality(In({"writing"})) \in Nat
           /\ \A i \in DOMAIN jobs :
                 jobs[i].state = "writing" => Cardinality(In({"writing"})) >= 1
<1>1. IsFiniteSet(In({"writing"}))
  BY FS_Subset DEF Held, In
<1>2. Cardinality(In({"writing"})) \in Nat
  BY <1>1, FS_CardinalityType
<1>3. \A i \in DOMAIN jobs : jobs[i].state = "writing" => In({"writing"}) # {}
  BY DEF In
<1> QED
  BY <1>1, <1>2, <1>3, FS_EmptySet

\* The rows of a chunk are written.
LEMMA WriteType ==
    ASSUME TypeOK, NEW i \in DOMAIN jobs, Write(i)
    PROVE  /\ users \subseteq users' /\ users' \subseteq Keys
           /\ orders' \in [Keys -> Nat]
<1>1. jobs[i].rows \subseteq Keys
  BY DEF TypeOK
<1> QED
  BY <1>1 DEF TypeOK, Write

\* The initial states are typed.
LEMMA InitType == Init => TypeOK
<1> SUFFICES ASSUME Init PROVE TypeOK
  OBVIOUS
<1>1. 1 \in 1 .. Len(Statements) + 1
  BY StatementsType
<1>2. 0 \in 0 .. MaxRuns /\ 0 \in 0 .. MaxFaults /\ 0 \in 0 .. Count /\ 0 \in 0 .. PoolSize
  BY SizesAssumption, PoolAssumption
<1>3. ask \in [products : BOOLEAN, orders : BOOLEAN] /\ orders \in [Keys -> Nat]
  BY DEF Init
<1>4. jobs = <<>> /\ DOMAIN jobs = {}
  BY DEF Init
<1> QED
  BY <1>1, <1>2, <1>3, <1>4 DEF Init, TypeOK

\* Every step keeps the types.
LEMMA TypeStep == IInv /\ [Next]_vars => TypeOK'
<1> SUFFICES ASSUME IInv, [Next]_vars PROVE TypeOK'
  OBVIOUS
<1> USE DEF db, run, pool
<1>a. TypeOK /\ Held /\ ByPhase
  BY DEF IInv
<1>b. mode' = mode => Statements' = Statements
  BY DEF Statements
<1>c. Len(Statements) \in Nat /\ Len(Statements) > 0
  BY StatementsType
<1>d. PoolSize \in Nat /\ PoolSize >= 2
  BY PoolAssumption
<1>e. ASSUME NEW how \in {"success", "failure", "killed"}, Leave(how)
      PROVE  /\ pc' = "exited" /\ exit' \in {"none", "success", "failure", "killed"}
             /\ inUse' \in 0 .. PoolSize /\ walking' \in BOOLEAN
             /\ DOMAIN jobs' = {}
  <2>1. jobs' = <<>> /\ DOMAIN jobs' = {}
    BY <1>e DEF Leave
  <2>2. 0 \in 0 .. PoolSize
    BY <1>d
  <2>3. pc' = "exited" /\ exit' = how /\ inUse' = 0 /\ walking' = FALSE
    BY <1>e DEF Leave
  <2> QED
    BY <2>1, <2>2, <2>3
<1>f. Fault => faults' \in 0 .. MaxFaults
  BY <1>a, SizesAssumption DEF Fault, TypeOK
<1>1. ASSUME NEW a \in [products : BOOLEAN, orders : BOOLEAN], StartRun(a) PROVE TypeOK'
  BY <1>1, <1>a, <1>b, <1>c, SizesAssumption DEF StartRun, TypeOK
<1>2. CASE RunStatement
  BY <1>2, <1>a, <1>b, <1>c, StatementsType DEF RunStatement, TypeOK, ByPhase
<1>3. CASE RefuseStatement
  BY <1>3, <1>a, <1>b, <1>e DEF RefuseStatement, TypeOK
<1>4. CASE FailStatement
  BY <1>4, <1>a, <1>b, <1>c, <1>e, <1>f, StatementsType DEF FailStatement, TypeOK, ByPhase
<1>5. CASE SubmitUsers
  <2>1. Min({remaining, BatchSize}) \in Nat /\ Min({remaining, BatchSize}) <= remaining
    BY <1>a, SizesAssumption, MinOfTwo DEF TypeOK
  <2>2. remaining' \in 0 .. Count
    BY <1>5, <1>a, <2>1, SizesAssumption DEF SubmitUsers, TypeOK
  <2>3. \A i \in DOMAIN jobs' : jobs'[i] \in Job
    <3>1. PICK S \in kSubset(Min({remaining, BatchSize}), Keys \ users) :
             jobs' = Jobs("users", UserChunks(S))
      BY <1>5 DEF SubmitUsers
    <3>2. S \in SUBSET Keys /\ IsFiniteSet(S)
      BY KeysAssumption, FS_Subset DEF kSubset
    <3>3. \E first, each : jobs' = Jobs("users", Slices(S, first, each))
      BY <3>1 DEF UserChunks
    <3> QED
      BY <3>2, <3>3, JobsType
  <2> QED
    BY <1>5, <1>a, <1>b, <2>2, <2>3 DEF SubmitUsers, TypeOK, Job
<1>6. CASE FinishUsers
  BY <1>6, <1>a, <1>b DEF FinishUsers, TypeOK
<1>7. CASE StoreProducts
  BY <1>7, <1>a, <1>b DEF StoreProducts, TypeOK
<1>8. CASE FailProducts
  <2>1. products' \in BOOLEAN
    <3>1. ask.products \in BOOLEAN
      BY <1>a DEF TypeOK
    <3> QED
      BY <1>8, <1>a, <3>1 DEF FailProducts, TypeOK
  <2> QED
    BY <1>8, <1>a, <1>b, <1>e, <1>f, <2>1 DEF FailProducts, TypeOK
<1>9. CASE OpenWalk
  <2>1. inUse = 0
    BY <1>9, <1>a, FS_EmptySet DEF OpenWalk, ByPhase, Held, In
  <2> QED
    BY <1>9, <1>a, <1>b, <1>d, <2>1 DEF OpenWalk, TypeOK
<1>10. CASE NoProducts
  BY <1>10, <1>a, <1>b, <1>e DEF NoProducts, TypeOK
<1>11. CASE FetchPage
  <2>1. cursor' \in Keys
    BY <1>11, <1>a, FiniteParts DEF FetchPage
  <2>2. \A i \in DOMAIN jobs' : jobs'[i] \in Job
    <3>1. \E first, each : jobs' = Jobs("orders", Slices(NextPage, first, each))
      BY <1>11 DEF FetchPage, PageChunks
    <3> QED
      BY <1>a, <3>1, FiniteParts, JobsType
  <2> QED
    BY <1>11, <1>a, <1>b, <2>1, <2>2 DEF FetchPage, TypeOK, Job
<1>12. CASE FinishWalk
  BY <1>12, <1>a, <1>b, <1>e DEF FinishWalk, TypeOK
<1>13. CASE FailQuery
  BY <1>13, <1>a, <1>b, <1>e, <1>f DEF FailQuery, TypeOK
<1>14. CASE Collect
  BY <1>14, <1>a, <1>b DEF Collect, TypeOK
<1>15. CASE Abort
  <2>1. \A i \in DOMAIN jobs' : jobs'[i] \in Job
    BY <1>15, <1>a, JobsAreTyped DEF Abort, Job
  <2>2. inUse' \in 0 .. PoolSize
    BY <1>15, <1>a, <1>d, WritingFinite DEF Abort, TypeOK, Held, PutBack
  <2> QED
    BY <1>15, <1>a, <1>b, <2>1, <2>2 DEF Abort, TypeOK, Job
<1>16. CASE ExitFailure
  BY <1>16, <1>a, <1>b, <1>e DEF ExitFailure, TypeOK
<1>17. CASE Kill
  BY <1>17, <1>a, <1>b, <1>e DEF Kill, TypeOK
<1>18. ASSUME NEW i \in DOMAIN jobs, Begin(i) PROVE TypeOK'
  <2>1. \A j \in DOMAIN jobs' : jobs'[j] \in Job
    BY <1>18, <1>a, JobsAreTyped, MoveType DEF Begin
  <2> QED
    BY <1>18, <1>a, <1>b, <2>1 DEF Begin, TypeOK, Job
<1>19. ASSUME NEW i \in DOMAIN jobs, Take(i) PROVE TypeOK'
  <2>1. \A j \in DOMAIN jobs' : jobs'[j] \in Job
    BY <1>19, <1>a, JobsAreTyped, MoveType DEF Take
  <2> QED
    BY <1>19, <1>a, <1>b, <1>d, <2>1 DEF Take, TypeOK, Job
<1>20. ASSUME NEW i \in DOMAIN jobs, TimeOut(i) PROVE TypeOK'
  <2>1. \A j \in DOMAIN jobs' : jobs'[j] \in Job
    BY <1>20, <1>a, JobsAreTyped, MoveType DEF TimeOut
  <2> QED
    BY <1>20, <1>a, <1>b, <1>f, <2>1 DEF TimeOut, TypeOK, Job
<1>21. ASSUME NEW i \in DOMAIN jobs, Commit(i) \/ Fail(i) PROVE TypeOK'
  <2>1. \A j \in DOMAIN jobs' : jobs'[j] \in Job
    BY <1>21, <1>a, JobsAreTyped, MoveType DEF Commit, Fail
  <2>2. /\ users \subseteq users' /\ users' \subseteq Keys
        /\ orders' \in [Keys -> Nat]
    BY <1>21, <1>a, WriteType DEF Commit, Fail, TypeOK
  <2>3. inUse' \in 0 .. PoolSize
    BY <1>21, <1>a, <1>d, WritingFinite DEF Commit, Fail, TypeOK, Held, PutBack
  <2>4. faults' \in 0 .. MaxFaults
    BY <1>21, <1>a, <1>f DEF Commit, Fail, TypeOK
  <2>5. UNCHANGED <<schema, products, run, pc, exit, step, remaining, cursor, walking>>
    BY <1>21 DEF Commit, Fail
  <2> QED
    BY <1>a, <1>b, <2>1, <2>2, <2>3, <2>4, <2>5 DEF TypeOK, Job
<1>22. CASE UNCHANGED vars
  BY <1>22, <1>a, <1>b DEF vars, TypeOK
<1> QED
  BY <1>1, <1>2, <1>3, <1>4, <1>5, <1>6, <1>7, <1>8, <1>9, <1>10, <1>11, <1>12, <1>13,
     <1>14, <1>15, <1>16, <1>17, <1>18, <1>19, <1>20, <1>21, <1>22
     DEF Next, MainStep, ChunkStep, Trouble

-----------------------------------------------------------------------------
(* Connections. *)

\* With no chunk and no walk left, no connection is taken.
LEMMA ClearedHeld ==
    ASSUME DOMAIN jobs' = {}, inUse' = IF walking' THEN 1 ELSE 0
    PROVE  Held'
<1>1. In({"writing"})' = {}
  BY DEF In
<1> QED
  BY <1>1, FS_EmptySet DEF Held

\* Between two rounds of chunks only the walk can hold a connection.
LEMMA IdleCount ==
    ASSUME Held, ByPhase, pc \notin {"collect", "drain"}
    PROVE  inUse = (IF walking THEN 1 ELSE 0) /\ DOMAIN jobs = {}
<1>1. DOMAIN jobs = {}
  BY DEF ByPhase
<1>2. In({"writing"}) = {}
  BY <1>1 DEF In
<1> QED
  BY <1>1, <1>2, FS_EmptySet DEF Held

\* A round of chunks begins with the connections as they were.
LEMMA QueuedHeld ==
    ASSUME Held, ByPhase, pc \notin {"collect", "drain"},
           IsFiniteSet(DOMAIN jobs'),
           \A i \in DOMAIN jobs' : jobs'[i].state = "queued",
           inUse' = inUse, walking' = walking
    PROVE  Held'
<1>1. In({"writing"})' = {}
  BY DEF In
<1> QED
  <2>1. inUse = IF walking THEN 1 ELSE 0
    BY IdleCount
  <2>2. Cardinality(In({"writing"})') = 0
    BY <1>1, FS_EmptySet
  <2> QED
    BY <2>1, <2>2 DEF Held

\* Every step keeps the count of the connections.
LEMMA HeldStep == IInv /\ [Next]_vars => Held'
<1> SUFFICES ASSUME IInv, [Next]_vars PROVE Held'
  OBVIOUS
<1> USE DEF db, run, pool
<1>a. TypeOK /\ Held /\ ByPhase
  BY DEF IInv
<1>b. ASSUME NEW how, Leave(how) PROVE Held'
  <2>1. DOMAIN jobs' = {} /\ inUse' = 0 /\ walking' = FALSE
    BY <1>b DEF Leave
  <2> QED
    BY <2>1, ClearedHeld
<1>c. ASSUME UNCHANGED <<jobs, inUse, walking>> PROVE Held'
  BY <1>a, <1>c DEF Held, In
<1>1. ASSUME NEW a, StartRun(a) PROVE Held'
  BY <1>1, <1>c DEF StartRun
<1>2. CASE RunStatement \/ FinishUsers \/ StoreProducts \/ UNCHANGED vars
  BY <1>2, <1>c DEF RunStatement, FinishUsers, StoreProducts, vars
<1>3. CASE \/ RefuseStatement \/ FailStatement \/ FailProducts \/ NoProducts
           \/ FinishWalk \/ FailQuery \/ ExitFailure \/ Kill
  BY <1>3, <1>b DEF RefuseStatement, FailStatement, FailProducts, NoProducts,
                    FinishWalk, FailQuery, ExitFailure, Kill
<1>4. CASE SubmitUsers
  <2>1. PICK S \in kSubset(Min({remaining, BatchSize}), Keys \ users) :
           jobs' = Jobs("users", UserChunks(S))
    BY <1>4 DEF SubmitUsers
  <2>2. S \in SUBSET Keys /\ IsFiniteSet(S)
    BY KeysAssumption, FS_Subset DEF kSubset
  <2>3. \E first, each : jobs' = Jobs("users", Slices(S, first, each))
    BY <2>1 DEF UserChunks
  <2>4. /\ IsFiniteSet(DOMAIN jobs')
        /\ \A i \in DOMAIN jobs' : jobs'[i].state = "queued"
    BY <2>2, <2>3, JobsType
  <2> QED
    BY <1>4, <1>a, <2>4, QueuedHeld DEF SubmitUsers
<1>5. CASE FetchPage
  <2>1. \E first, each : jobs' = Jobs("orders", Slices(NextPage, first, each))
    BY <1>5 DEF FetchPage, PageChunks
  <2>2. /\ IsFiniteSet(DOMAIN jobs')
        /\ \A i \in DOMAIN jobs' : jobs'[i].state = "queued"
    BY <1>a, <2>1, FiniteParts, JobsType
  <2> QED
    BY <1>5, <1>a, <2>2, QueuedHeld DEF FetchPage
<1>6. CASE OpenWalk
  <2>1. inUse = 0 /\ DOMAIN jobs = {}
    BY <1>6, <1>a, IdleCount DEF OpenWalk, ByPhase
  <2>2. DOMAIN jobs' = {} /\ inUse' = 1 /\ walking' = TRUE
    BY <1>6, <2>1 DEF OpenWalk
  <2> QED
    BY <2>2, ClearedHeld
<1>7. CASE Collect
  <2>1. In({"writing"}) = {}
    BY <1>7 DEF Collect, In
  <2>2. inUse = IF walking THEN 1 ELSE 0
    BY <1>a, <2>1, FS_EmptySet DEF Held
  <2>3. DOMAIN jobs' = {} /\ inUse' = inUse /\ walking' = walking
    BY <1>7 DEF Collect
  <2> QED
    BY <2>2, <2>3, ClearedHeld
<1>8. CASE Abort
  <2>1. DOMAIN jobs' = DOMAIN jobs
    BY <1>8 DEF Abort
  <2>2. \A i \in DOMAIN jobs : jobs'[i].state = "writing" <=> jobs[i].state = "writing"
    BY <1>8, <1>a, JobsAreTyped DEF Abort, Job
  <2>3. In({"writing"})' = In({"writing"})
    BY <2>1, <2>2 DEF In
  <2>4. inUse' = (IF walking THEN inUse - 1 ELSE inUse) /\ walking' = FALSE
    BY <1>8 DEF Abort, PutBack
  <2> QED
    BY <1>a, <2>1, <2>3, <2>4, WritingFinite DEF Held
<1>9. ASSUME NEW i \in DOMAIN jobs, Begin(i) \/ TimeOut(i) PROVE Held'
  <2>1. PICK to \in {"waiting", "done", "failed"} : Move(i, to)
    BY <1>9 DEF Begin, TimeOut
  <2>2. jobs[i].state # "writing" /\ UNCHANGED pool
    BY <1>9 DEF Begin, TimeOut
  <2>3. /\ DOMAIN jobs' = DOMAIN jobs
        /\ \A j \in DOMAIN jobs :
              jobs'[j].state = IF j = i THEN to ELSE jobs[j].state
    BY <1>a, <2>1, JobsAreTyped, MoveType
  <2>4. In({"writing"})' = In({"writing"})
    BY <2>2, <2>3 DEF In
  <2> QED
    BY <1>a, <2>2, <2>3, <2>4 DEF Held
<1>10. ASSUME NEW i \in DOMAIN jobs, Take(i) PROVE Held'
  <2>1. /\ DOMAIN jobs' = DOMAIN jobs
        /\ \A j \in DOMAIN jobs :
              jobs'[j].state = IF j = i THEN "writing" ELSE jobs[j].state
    BY <1>10, <1>a, JobsAreTyped, MoveType DEF Take
  <2>2. jobs[i].state = "waiting" /\ inUse' = inUse + 1 /\ walking' = walking
    BY <1>10 DEF Take
  <2>3. In({"writing"})' = In({"writing"}) \cup {i} /\ i \notin In({"writing"})
    BY <2>1, <2>2 DEF In
  <2>4. Cardinality(In({"writing"})') = Cardinality(In({"writing"})) + 1
    BY <1>a, <2>3, WritingFinite, FS_AddElement
  <2> QED
    BY <1>a, <2>1, <2>2, <2>4, WritingFinite DEF Held
<1>11. ASSUME NEW i \in DOMAIN jobs, Commit(i) \/ Fail(i) PROVE Held'
  <2>1. PICK to \in {"done", "failed"} : Move(i, to)
    BY <1>11 DEF Commit, Fail
  <2>2. jobs[i].state = "writing" /\ inUse' = inUse - 1 /\ walking' = walking
    BY <1>11 DEF Commit, Fail, PutBack
  <2>3. /\ DOMAIN jobs' = DOMAIN jobs
        /\ \A j \in DOMAIN jobs :
              jobs'[j].state = IF j = i THEN to ELSE jobs[j].state
    BY <1>a, <2>1, JobsAreTyped, MoveType
  <2>4. In({"writing"})' = In({"writing"}) \ {i} /\ i \in In({"writing"})
    BY <2>2, <2>3 DEF In
  <2>5. Cardinality(In({"writing"})') = Cardinality(In({"writing"})) - 1
    BY <1>a, <2>4, WritingFinite, FS_RemoveElement
  <2> QED
    BY <1>a, <2>2, <2>3, <2>5, WritingFinite DEF Held
<1> QED
  BY <1>1, <1>2, <1>3, <1>4, <1>5, <1>6, <1>7, <1>8, <1>9, <1>10, <1>11
     DEF Next, MainStep, ChunkStep, Trouble

-----------------------------------------------------------------------------
(* The main thread's phases, and the statements it is past. *)

\* Every step keeps what the main thread's place says.
LEMMA ByPhaseStep == IInv /\ [Next]_vars => ByPhase'
<1> SUFFICES ASSUME IInv, [Next]_vars PROVE ByPhase'
  OBVIOUS
<1> USE DEF db, run, pool
<1>a. TypeOK /\ ByPhase
  BY DEF IInv
<1>b. mode' = mode => Statements' = Statements
  BY DEF Statements
<1>c. Len(Statements) \in Nat /\ Len(Statements) > 0
  BY StatementsType
<1>d. step \in 1 .. Len(Statements) + 1
  BY <1>a DEF TypeOK
<1>e. ASSUME NEW how, Leave(how) PROVE ByPhase'
  BY <1>e DEF Leave, ByPhase
<1>1. ASSUME NEW a, StartRun(a) PROVE ByPhase'
  BY <1>1, <1>a, <1>b, <1>c DEF StartRun, ByPhase
<1>2. CASE RunStatement
  BY <1>2, <1>a, <1>b, <1>c, <1>d DEF RunStatement, ByPhase
<1>3. CASE \/ RefuseStatement \/ FailStatement \/ FailProducts \/ NoProducts
           \/ FinishWalk \/ FailQuery \/ ExitFailure \/ Kill
  BY <1>3, <1>e DEF RefuseStatement, FailStatement, FailProducts, NoProducts,
                    FinishWalk, FailQuery, ExitFailure, Kill
<1>4. CASE SubmitUsers
  BY <1>4, <1>a, <1>b DEF SubmitUsers, ByPhase
<1>5. CASE FinishUsers \/ StoreProducts
  BY <1>5, <1>a, <1>b DEF FinishUsers, StoreProducts, ByPhase
<1>6. CASE OpenWalk
  BY <1>6, <1>a, <1>b DEF OpenWalk, ByPhase
<1>7. CASE FetchPage
  BY <1>7, <1>a, <1>b DEF FetchPage, ByPhase
<1>8. CASE Collect
  BY <1>8, <1>a, <1>b DEF Collect, ByPhase
<1>9. CASE Abort
  BY <1>9, <1>a, <1>b DEF Abort, ByPhase
<1>10. ASSUME NEW i \in DOMAIN jobs,
              Begin(i) \/ Take(i) \/ TimeOut(i) \/ Commit(i) \/ Fail(i)
       PROVE  ByPhase'
  <2>1. pc \in {"collect", "drain"}
    BY <1>a DEF ByPhase
  <2>2. UNCHANGED <<mode, pc, step, walking>>
    BY <1>10 DEF Begin, Take, TimeOut, Commit, Fail
  <2> QED
    BY <1>a, <1>b, <2>1, <2>2 DEF ByPhase
<1>11. CASE UNCHANGED vars
  BY <1>11, <1>a, <1>b DEF vars, ByPhase
<1> QED
  BY <1>1, <1>2, <1>3, <1>4, <1>5, <1>6, <1>7, <1>8, <1>9, <1>10, <1>11
     DEF Next, MainStep, ChunkStep, Trouble

\* A step that neither starts a run nor runs a statement leaves the position of
\* the DDL alone, and the effects of the DDL stay.
LEMMA SchemaSteps ==
    ASSUME IInv, [Next]_vars
    PROVE  \/ \E a \in [products : BOOLEAN, orders : BOOLEAN] : StartRun(a)
           \/ RunStatement
           \/ /\ mode' = mode /\ step' = step /\ base' = base
              /\ schema \subseteq schema'
              /\ pc' # "exited" => pc # "exited"
<1> USE DEF db, run, pool
<1>1. CASE \/ RefuseStatement \/ FailStatement \/ FailProducts \/ NoProducts
           \/ FinishWalk \/ FailQuery \/ ExitFailure \/ Kill
  BY <1>1 DEF RefuseStatement, FailStatement, FailProducts, NoProducts,
              FinishWalk, FailQuery, ExitFailure, Kill, Leave
<1>2. CASE \/ SubmitUsers \/ FinishUsers \/ StoreProducts \/ OpenWalk
           \/ FetchPage \/ Collect \/ Abort
  BY <1>2 DEF SubmitUsers, FinishUsers, StoreProducts, OpenWalk, FetchPage,
              Collect, Abort
<1>3. CASE \E i \in DOMAIN jobs :
             Begin(i) \/ Take(i) \/ TimeOut(i) \/ Commit(i) \/ Fail(i)
  BY <1>3 DEF Begin, Take, TimeOut, Commit, Fail
<1>4. CASE UNCHANGED vars
  BY <1>4 DEF vars
<1> QED
  BY <1>1, <1>2, <1>3, <1>4 DEF Next, MainStep, ChunkStep, Trouble

\* Every step keeps the effects of the statements the run is past.
LEMMA ProgressStep == IInv /\ [Next]_vars => Progress'
<1> SUFFICES ASSUME IInv, [Next]_vars PROVE Progress'
  OBVIOUS
<1>a. TypeOK /\ Progress
  BY DEF IInv
<1>b. mode' = mode => Statements' = Statements
  BY DEF Statements
<1>c. step \in Nat
  BY <1>a, StatementsType DEF TypeOK
<1>1. ASSUME NEW a, StartRun(a) PROVE Progress'
  BY <1>1 DEF StartRun, Progress
<1>2. CASE RunStatement
  <2>1. \A k \in 1 .. step - 1 : Statements[k] \in schema
    BY <1>2, <1>a DEF RunStatement, Progress
  <2>2. /\ schema' = schema \cup {Statements[step]} /\ step' = step + 1
        /\ Statements' = Statements
    BY <1>2, <1>b DEF RunStatement, run
  <2> QED
    BY <1>c, <2>1, <2>2 DEF Progress
<1>3. CASE /\ mode' = mode /\ step' = step /\ base' = base
           /\ schema \subseteq schema'
           /\ pc' # "exited" => pc # "exited"
  BY <1>3, <1>a, <1>b DEF Progress
<1> QED
  BY <1>1, <1>2, <1>3, SchemaSteps

-----------------------------------------------------------------------------
(* The Citus mode. *)

\* A run that is past create_tables found an empty volume, and distributed all
\* tables.
LEMMA PastSchema ==
    ASSUME IInv, mode = "single-shard", pc \notin {"exited", "schema"}
    PROVE  base = {} /\ ToSet(Distribute) \subseteq schema
<1>1. step = 11
  <2>1. Len(Statements) = 10
    BY CitusStatements
  <2> QED
    BY <2>1 DEF IInv, ByPhase
<1>2. base = {}
  BY <1>1 DEF IInv, Citus
<1>3. \A k \in 1 .. 10 : Statements[k] \in schema
  BY <1>1 DEF IInv, Progress
<1> QED
  BY <1>2, <1>3, CitusStatements

\* Every step keeps the Citus mode's promise.
LEMMA CitusStep == IInv /\ [Next]_vars => Citus'
<1> SUFFICES ASSUME IInv, [Next]_vars, mode' = "single-shard"
             PROVE  /\ users' # {} \/ products' => ToSet(Distribute) \subseteq schema'
                    /\ base' \in {{}, users'}
                    /\ pc' # "exited" /\ step' > 6 => base' = {}
  BY DEF Citus
<1> USE DEF db, run, pool
<1>a. mode = "single-shard"
  BY SchemaSteps DEF StartRun, RunStatement
<1>b. /\ users # {} \/ products => ToSet(Distribute) \subseteq schema
      /\ base \in {{}, users}
      /\ pc # "exited" /\ step > 6 => base = {}
  BY <1>a DEF IInv, Citus
<1>1. ASSUME NEW a, StartRun(a) PROVE Citus'
  BY <1>1, <1>b DEF StartRun, Citus
<1>2. CASE RunStatement
  <2>1. step \in Nat
    BY StatementsType DEF IInv, TypeOK
  <2>2. CASE step = 6
    <3>1. Statements[6] \notin schema
      BY <1>2, <1>a, <2>2, CitusStatements DEF RunStatement, Refused
    <3>2. users = {} /\ ~ products
      BY <1>a, <1>b, <3>1, CitusStatements
    <3> QED
      BY <1>2, <1>b, <3>2 DEF RunStatement
  <2>3. CASE step # 6
    BY <1>2, <1>b, <2>1, <2>3 DEF RunStatement
  <2> QED
    BY <2>2, <2>3
<1>3. CASE StoreProducts \/ FailProducts
  <2>1. base = {} /\ ToSet(Distribute) \subseteq schema
    BY <1>3, <1>a, PastSchema DEF StoreProducts, FailProducts
  <2> QED
    BY <1>3, <2>1 DEF StoreProducts, FailProducts
<1>4. ASSUME NEW i \in DOMAIN jobs, Commit(i) \/ Fail(i) PROVE Citus'
  <2>1. pc \notin {"exited", "schema"}
    BY DEF IInv, ByPhase
  <2>2. base = {} /\ ToSet(Distribute) \subseteq schema
    BY <1>a, <2>1, PastSchema
  <2> QED
    BY <1>4, <2>2 DEF Commit, Fail, Citus
<1>5. CASE UNCHANGED <<users, products>> /\ ~ RunStatement
           /\ ~ \E a \in [products : BOOLEAN, orders : BOOLEAN] : StartRun(a)
  BY <1>5, <1>b, SchemaSteps
<1>6. \/ RunStatement \/ StoreProducts \/ FailProducts
      \/ \E a \in [products : BOOLEAN, orders : BOOLEAN] : StartRun(a)
      \/ \E i \in DOMAIN jobs : Commit(i) \/ Fail(i)
      \/ UNCHANGED <<users, products>>
  BY DEF Next, MainStep, ChunkStep, Trouble, vars, RefuseStatement, FailStatement,
         NoProducts, FinishWalk, FailQuery, ExitFailure, Kill, SubmitUsers,
         FinishUsers, OpenWalk, FetchPage, Collect, Abort, Begin, Take, TimeOut
<1> QED
  BY <1>1, <1>2, <1>3, <1>4, <1>5, <1>6 DEF Citus

-----------------------------------------------------------------------------
(* The theorems. *)

\* The initial states satisfy the invariant.
LEMMA InitIInv == Init => IInv
<1> SUFFICES ASSUME Init PROVE IInv
  OBVIOUS
<1>1. DOMAIN jobs = {} /\ inUse = 0 /\ walking = FALSE
  BY DEF Init
<1>2. In({"writing"}) = {}
  BY <1>1 DEF In
<1>3. Held
  BY <1>1, <1>2, FS_EmptySet DEF Held
<1>4. ByPhase /\ Progress /\ Citus
  BY DEF Init, ByPhase, Progress, Citus
<1> QED
  BY <1>3, <1>4, InitType DEF IInv

\* The inductive invariant holds in every behaviour of the script, whatever fails.
THEOREM Inductive == Spec => []IInv
<1>1. IInv /\ [Next]_vars => IInv'
  BY TypeStep, HeldStep, ByPhaseStep, ProgressStep, CitusStep DEF IInv
<1> QED
  BY <1>1, InitIInv, PTL DEF Spec

\* The variables keep their types; in particular the pool never gives out more
\* connections than it has, nor gets back more than it gave.
THEOREM TypeCorrect == Spec => []TypeOK
<1>1. IInv => TypeOK
  BY DEF IInv
<1> QED
  BY <1>1, Inductive, PTL

\* In the Citus mode no row is stored before all tables are distributed, and no
\* second run adds to the rows of a first, however often create_tables failed
\* half-way and was repeated.
THEOREM CitusIsSeededOnce == Spec => []CitusSeedsOnce
<1>1. IInv => CitusSeedsOnce
  BY DEF IInv, Citus, CitusSeedsOnce
<1> QED
  BY <1>1, Inductive, PTL

\* When every connection is taken one of them is a writing chunk's, for any number
\* of threads: no chunk waits for the connection of the walk.
THEOREM WaitersWaitForWriters == Spec => []WaitsForAWriter
<1>1. IInv => WaitsForAWriter
  <2> SUFFICES ASSUME IInv, inUse = PoolSize, In({"writing"}) = {} PROVE FALSE
    BY DEF WaitsForAWriter
  <2>1. inUse <= 1
    BY FS_EmptySet DEF IInv, Held
  <2> QED
    BY <2>1, PoolAssumption
<1> QED
  BY <1>1, Inductive, PTL

-----------------------------------------------------------------------------
(* The order walk. *)

\* What the walk has done for a user it has passed.
Served(u) == IF ask.orders /\ u \in users /\ u <= cursor THEN 1 ELSE 0

\* Before the walk nobody was served, between two pages whom the cursor has passed.
BetweenPages ==
    /\ pc # "exited" => exit = "none"
    /\ pc \in {"schema", "users", "products", "open"} \/ (pc = "collect" /\ ~ walking) =>
          cursor = 0 /\ \A u \in Keys : orders[u] = 0
    /\ pc = "page" => walking /\ \A u \in Keys : orders[u] = Served(u)
    /\ pc = "collect" =>
          \A i \in DOMAIN jobs : jobs[i].kind = IF walking THEN "orders" ELSE "users"
    /\ pc = "collect" /\ walking =>
          \A u \in Keys :
             (\A i \in DOMAIN jobs : u \notin jobs[i].rows) => orders[u] = Served(u)

\* What chunk i of a page has done for its users.
Chunk(i) ==
    /\ jobs[i].state \in {"waiting", "writing"} => ask.orders
    /\ \A u \in jobs[i].rows :
          /\ u \in users /\ u <= cursor
          /\ jobs[i].state \in {"queued", "waiting", "writing", "cancelled"} => orders[u] = 0
          /\ jobs[i].state = "done" => orders[u] = Served(u)

\* No user is in two chunks of a page.
Chunks ==
    \A i \in DOMAIN jobs : jobs[i].kind = "orders" =>
        /\ Chunk(i)
        /\ \A j \in DOMAIN jobs : j # i => jobs[i].rows \cap jobs[j].rows = {}

WalkInv == BetweenPages /\ Chunks /\ WalkIsExact

\* The slices of a set have each of its elements, and none twice.
LEMMA SlicesPartition ==
    ASSUME NEW S, NEW first, NEW each
    PROVE  /\ \A u \in S : \E i \in DOMAIN Slices(S, first, each) :
                 u \in Slices(S, first, each)[i]
           /\ \A i \in DOMAIN Slices(S, first, each) : Slices(S, first, each)[i] \subseteq S
           /\ \A i, j \in DOMAIN Slices(S, first, each) :
                 i # j => Slices(S, first, each)[i] \cap Slices(S, first, each)[j] = {}
<1> DEFINE slice(u) == IF Place(S, u) < first THEN 1
                       ELSE 2 + (Place(S, u) - first) \div each
           T == {slice(u) : u \in S}
<1>1. Slices(S, first, each) = [i \in T |-> {u \in S : slice(u) = i}]
  BY DEF Slices
<1> HIDE DEF slice
<1> QED
  BY <1>1

\* A page is the front of what is ahead, and empty only if nothing is.
LEMMA PageIsFront ==
    ASSUME TypeOK
    PROVE  /\ \A u \in NextPage, v \in Ahead : v < u => v \in NextPage
           /\ NextPage = {} => Ahead = {}
<1>1. Ahead \subseteq Keys /\ Ahead \subseteq Nat
  BY KeysAssumption DEF TypeOK, Ahead
<1>2. \A T \in SUBSET Ahead : IsFiniteSet(T) /\ Cardinality(T) \in Nat
  BY <1>1, KeysAssumption, FS_Subset, FS_CardinalityType
<1>3. ASSUME NEW u \in NextPage, NEW v \in Ahead, v < u PROVE v \in NextPage
  <2> DEFINE U == {w \in Ahead : w < u}
             V == {w \in Ahead : w < v}
  <2>1. u \in Ahead /\ Place(Ahead, u) < PageSize
    BY DEF NextPage
  <2>2. V \subseteq U
    <3>1. \A w \in Ahead : w \in Nat /\ v \in Nat /\ u \in Nat
      BY <1>1, <2>1
    <3>2. \A w \in Ahead : w < v => w < u
      BY <1>3, <3>1
    <3> QED
      BY <3>2
  <2>3. Place(Ahead, u) = Cardinality(U) /\ Place(Ahead, v) = Cardinality(V)
    BY DEF Place
  <2>4. U \in SUBSET Ahead /\ V \in SUBSET Ahead
    OBVIOUS
  <2> HIDE DEF U, V
  <2>5. Cardinality(V) <= Cardinality(U) /\ Cardinality(U) \in Nat /\ Cardinality(V) \in Nat
    BY <1>2, <2>2, <2>4, FS_Subset
  <2>6. Place(Ahead, v) < PageSize
    BY <2>1, <2>3, <2>5, SizesAssumption
  <2> QED
    BY <2>6 DEF NextPage
<1>4. ASSUME NextPage = {}, Ahead # {} PROVE FALSE
  <2>1. PICK m \in Ahead : \A u \in Ahead : m <= u
    <3> HIDE DEF Ahead
    <3> QED
      BY <1>1, <1>4, LeastNumber
  <2>2. {w \in Ahead : w < m} = {}
    <3>1. \A w \in Ahead : w \in Nat /\ m \in Nat
      BY <1>1
    <3>2. \A w \in Ahead : ~ (w < m)
      BY <2>1, <3>1
    <3> QED
      BY <3>2
  <2>3. Place(Ahead, m) = 0
    BY <2>2, FS_EmptySet DEF Place
  <2> QED
    BY <1>4, <2>3, SizesAssumption DEF NextPage
<1> QED
  BY <1>3, <1>4

\* A page hands out each of its users in one queued chunk.
LEMMA FetchWalk ==
    ASSUME TypeOK, WalkInv, FetchPage
    PROVE  WalkInv'
<1> USE DEF WalkInv, db, run, pool
<1>1. /\ pc = "page" /\ pc' = "collect" /\ cursor' \in NextPage
      /\ \A v \in NextPage : v <= cursor'
      /\ UNCHANGED <<users, orders, ask, exit, walking>>
  BY DEF FetchPage
<1>2. NextPage \subseteq Ahead /\ Ahead \subseteq users /\ users \subseteq Keys /\ Keys \subseteq Nat
  BY KeysAssumption DEF NextPage, Ahead, TypeOK
<1>3. cursor \in Nat /\ cursor' \in Nat /\ cursor < cursor'
  BY <1>1, <1>2, KeysAssumption DEF TypeOK, Ahead
<1>4. \A u \in users : u \in NextPage \/ (u <= cursor <=> u <= cursor')
  <2> SUFFICES ASSUME NEW u \in users, ~ (u <= cursor), u <= cursor' PROVE u \in NextPage
    BY <1>2, <1>3
  <2>1. u \in Ahead /\ u \in Nat
    BY <1>2, <1>3 DEF Ahead
  <2>2. u = cursor' \/ u < cursor'
    BY <1>3, <2>1
  <2> QED
    BY <1>1, <2>1, <2>2, PageIsFront
<1>5. walking /\ exit = "none" /\ \A u \in Keys : orders[u] = Served(u)
  BY <1>1 DEF BetweenPages
<1> DEFINE each == Max({1, Cardinality(NextPage) \div Threads})
           f == Slices(NextPage, each, each)
<1>6. /\ DOMAIN jobs' = DOMAIN f
      /\ \A i \in DOMAIN jobs' :
            jobs'[i].kind = "orders" /\ jobs'[i].rows = f[i] /\ jobs'[i].state = "queued"
  <2>1. jobs' = [i \in DOMAIN f |-> [kind |-> "orders", rows |-> f[i], state |-> "queued"]]
    BY DEF FetchPage, Jobs, PageChunks
  <2> HIDE DEF f
  <2> QED
    BY <2>1
<1>7. /\ \A u \in NextPage : \E i \in DOMAIN f : u \in f[i]
      /\ \A i \in DOMAIN f : f[i] \subseteq NextPage
      /\ \A i, j \in DOMAIN f : i # j => f[i] \cap f[j] = {}
  BY SlicesPartition
<1> HIDE DEF f
<1>8. \A u \in NextPage : orders[u] = 0 /\ u \in users /\ u <= cursor'
  <2> SUFFICES ASSUME NEW u \in NextPage PROVE orders[u] = 0 /\ u \in users /\ u <= cursor'
    OBVIOUS
  <2>1. u \in users /\ u \in Nat /\ u > cursor /\ u \in Keys
    BY <1>2 DEF NextPage, Ahead
  <2>2. ~ (u <= cursor)
    BY <1>3, <2>1
  <2> QED
    BY <1>1, <1>5, <2>1, <2>2 DEF Served
<1>9. \A u \in Keys \ NextPage : orders'[u] = Served(u)'
  BY <1>1, <1>4, <1>5 DEF Served
<1>10. BetweenPages'
  <2>1. \A u \in Keys : (\A i \in DOMAIN jobs' : u \notin jobs'[i].rows) => u \notin NextPage
    BY <1>6, <1>7
  <2> QED
    BY <1>1, <1>5, <1>6, <1>9, <2>1 DEF BetweenPages
<1>11. Chunks'
  <2>1. ASSUME NEW i \in DOMAIN jobs' PROVE Chunk(i)'
    <3>1. jobs'[i].state = "queued" /\ jobs'[i].rows \subseteq NextPage
      BY <1>6, <1>7
    <3> QED
      BY <1>1, <1>8, <3>1 DEF Chunk
  <2>2. \A i, j \in DOMAIN jobs' : j # i => jobs'[i].rows \cap jobs'[j].rows = {}
    BY <1>6, <1>7
  <2> QED
    BY <2>1, <2>2 DEF Chunks
<1>12. WalkIsExact'
  BY <1>1, <1>5 DEF WalkIsExact
<1> QED
  BY <1>10, <1>11, <1>12

\* What the steps of chunk i have in common: it moves to another state, which is
\* "done" only after its rows were written, and writes while it is writing.
LEMMA ChunkMoves ==
    ASSUME IInv, NEW i \in DOMAIN jobs, Begin(i) \/ Take(i) \/ TimeOut(i) \/ Commit(i) \/ Fail(i)
    PROVE  /\ pc \in {"collect", "drain"} /\ DOMAIN jobs' = DOMAIN jobs
           /\ UNCHANGED <<pc, exit, ask, cursor, walking>>
           /\ \A j \in DOMAIN jobs : jobs'[j].kind = jobs[j].kind /\ jobs'[j].rows = jobs[j].rows
           /\ \A j \in DOMAIN jobs \ {i} : jobs'[j].state = jobs[j].state
           /\ jobs'[i].state \in {"waiting", "writing", "done", "failed"}
           /\ jobs[i].state \in {"queued", "waiting", "writing"}
           /\ (UNCHANGED <<users, orders>>) \/ (jobs[i].state = "writing" /\ Write(i))
           /\ jobs'[i].state \in {"waiting", "writing"} => UNCHANGED <<users, orders>>
           /\ jobs'[i].state = "waiting" /\ jobs[i].kind = "orders" => ask.orders
           /\ jobs'[i].state = "writing" => jobs[i].state = "waiting"
           /\ jobs'[i].state = "done" =>
                 \/ jobs[i].state = "writing" /\ Write(i)
                 \/ jobs[i].kind = "orders" /\ ~ ask.orders /\ UNCHANGED <<users, orders>>
<1> USE DEF db, run, pool
<1>1. pc \in {"collect", "drain"}
  BY DEF IInv, ByPhase
<1>2. UNCHANGED <<pc, exit, ask, cursor, walking>>
  BY DEF Begin, Take, TimeOut, Commit, Fail
<1>3. \A j \in DOMAIN jobs : jobs[j] \in Job
  BY JobsAreTyped DEF IInv
<1>4. ASSUME NEW to \in {"waiting", "writing", "done", "failed"}, Move(i, to)
      PROVE  /\ DOMAIN jobs' = DOMAIN jobs
             /\ \A j \in DOMAIN jobs : jobs'[j].kind = jobs[j].kind /\ jobs'[j].rows = jobs[j].rows
             /\ \A j \in DOMAIN jobs \ {i} : jobs'[j].state = jobs[j].state
             /\ jobs'[i].state = to
  BY <1>3, <1>4 DEF Move, Job
<1>5. CASE Begin(i)
  <2>1. CASE jobs[i].kind = "orders" /\ ~ ask.orders
    <3>1. Move(i, "done") /\ jobs[i].state = "queued" /\ UNCHANGED <<users, orders>>
      BY <1>5, <2>1 DEF Begin
    <3> QED
      BY <1>1, <1>2, <1>4, <2>1, <3>1
  <2>2. CASE ~ (jobs[i].kind = "orders" /\ ~ ask.orders)
    <3>1. Move(i, "waiting") /\ jobs[i].state = "queued" /\ UNCHANGED <<users, orders>>
      BY <1>5, <2>2 DEF Begin
    <3> QED
      BY <1>1, <1>2, <1>4, <2>2, <3>1
  <2> QED
    BY <2>1, <2>2
<1>6. CASE Take(i)
  <2>1. Move(i, "writing") /\ jobs[i].state = "waiting" /\ UNCHANGED <<users, orders>>
    BY <1>6 DEF Take
  <2> QED
    BY <1>1, <1>2, <1>4, <2>1
<1>7. CASE TimeOut(i)
  <2>1. Move(i, "failed") /\ jobs[i].state = "waiting" /\ UNCHANGED <<users, orders>>
    BY <1>7 DEF TimeOut
  <2> QED
    BY <1>1, <1>2, <1>4, <2>1
<1>8. CASE Commit(i)
  <2>1. Move(i, "done") /\ jobs[i].state = "writing" /\ Write(i)
    BY <1>8 DEF Commit
  <2> QED
    BY <1>1, <1>2, <1>4, <2>1
<1>9. CASE Fail(i)
  <2>1. /\ Move(i, "failed") /\ jobs[i].state = "writing"
        /\ Write(i) \/ UNCHANGED <<users, orders>>
    BY <1>9 DEF Fail
  <2> QED
    BY <1>1, <1>2, <1>4, <2>1
<1> QED
  BY <1>5, <1>6, <1>7, <1>8, <1>9

\* A chunk of users serves nobody and takes nobody's turn.
LEMMA UserChunkWalk ==
    ASSUME IInv, WalkInv, NEW i \in DOMAIN jobs, jobs[i].kind = "users",
           Begin(i) \/ Take(i) \/ TimeOut(i) \/ Commit(i) \/ Fail(i)
    PROVE  WalkInv'
<1> USE DEF WalkInv
<1>1. /\ pc \in {"collect", "drain"} /\ DOMAIN jobs' = DOMAIN jobs
      /\ UNCHANGED <<pc, exit, ask, cursor, walking>>
      /\ \A j \in DOMAIN jobs : jobs'[j].kind = jobs[j].kind /\ jobs'[j].rows = jobs[j].rows
      /\ \A j \in DOMAIN jobs \ {i} : jobs'[j].state = jobs[j].state
      /\ (UNCHANGED <<users, orders>>) \/ (jobs[i].state = "writing" /\ Write(i))
  BY ChunkMoves
<1>2. orders' = orders /\ users \subseteq users'
  BY <1>1 DEF Write
<1>3. exit = "none" /\ ~ (pc = "collect" /\ walking)
  BY <1>1 DEF BetweenPages
<1>4. BetweenPages'
  BY <1>1, <1>2, <1>3 DEF BetweenPages
<1>5. Chunks'
  <2>1. ASSUME NEW j \in DOMAIN jobs, jobs[j].kind = "orders" PROVE Chunk(j)'
    <3>1. Chunk(j) /\ j # i
      BY <2>1 DEF Chunks
    <3>2. jobs'[j].rows = jobs[j].rows /\ jobs'[j].state = jobs[j].state
      BY <1>1, <3>1
    <3> QED
      BY <1>1, <1>2, <3>1, <3>2 DEF Chunk, Served
  <2> QED
    BY <1>1, <2>1 DEF Chunks
<1>6. WalkIsExact'
  BY <1>1, <1>2, <1>3 DEF WalkIsExact
<1> QED
  BY <1>4, <1>5, <1>6

\* A chunk of orders serves each of its users once, or none.
LEMMA OrderChunkWalk ==
    ASSUME IInv, WalkInv, NEW i \in DOMAIN jobs, jobs[i].kind = "orders",
           Begin(i) \/ Take(i) \/ TimeOut(i) \/ Commit(i) \/ Fail(i)
    PROVE  WalkInv'
<1> USE DEF WalkInv
<1>1. /\ pc \in {"collect", "drain"} /\ DOMAIN jobs' = DOMAIN jobs
      /\ UNCHANGED <<pc, exit, ask, cursor, walking>>
      /\ \A j \in DOMAIN jobs : jobs'[j].kind = jobs[j].kind /\ jobs'[j].rows = jobs[j].rows
      /\ \A j \in DOMAIN jobs \ {i} : jobs'[j].state = jobs[j].state
      /\ jobs'[i].state \in {"waiting", "writing", "done", "failed"}
      /\ jobs[i].state \in {"queued", "waiting", "writing"}
  BY ChunkMoves
<1>2. /\ (UNCHANGED <<users, orders>>) \/ (jobs[i].state = "writing" /\ Write(i))
      /\ jobs'[i].state \in {"waiting", "writing"} => UNCHANGED <<users, orders>>
      /\ jobs'[i].state = "waiting" => ask.orders
      /\ jobs'[i].state = "writing" => jobs[i].state = "waiting"
      /\ jobs'[i].state = "done" =>
            \/ jobs[i].state = "writing" /\ Write(i)
            \/ ~ ask.orders /\ UNCHANGED <<users, orders>>
  BY ChunkMoves
<1>3. users' = users /\ (Write(i) => \A u \in Keys : orders'[u] = orders[u] + IF u \in jobs[i].rows THEN 1 ELSE 0)
  BY <1>2 DEF Write
<1>4. \A u : Served(u)' = Served(u)
  BY <1>1, <1>3 DEF Served
<1>5. Chunk(i) /\ jobs[i].rows \subseteq Keys
  BY DEF Chunks, IInv, TypeOK
<1>6. \A u \in jobs[i].rows : orders[u] = 0
  BY <1>1, <1>5 DEF Chunk
<1>7. \A u \in Keys \ jobs[i].rows : orders'[u] = orders[u]
  <2>1. \A u \in Keys : orders[u] \in Nat
    BY DEF IInv, TypeOK
  <2> QED
    BY <1>2, <1>3, <2>1
<1>8. \A u \in jobs[i].rows : orders'[u] \in {0, 1} /\ (Write(i) => orders'[u] = 1)
  BY <1>2, <1>3, <1>5, <1>6
<1>9. Chunk(i)'
  <2>1. jobs'[i].state \in {"waiting", "writing"} => ask.orders
    BY <1>2, <1>5 DEF Chunk
  <2>2. ASSUME NEW u \in jobs[i].rows, jobs'[i].state = "done" PROVE orders'[u] = Served(u)
    <3>1. u \in users /\ u <= cursor
      BY <1>5 DEF Chunk
    <3>2. CASE jobs[i].state = "writing" /\ Write(i)
      <4>1. ask.orders
        BY <1>5, <3>2 DEF Chunk
      <4> QED
        BY <1>8, <3>1, <3>2, <4>1 DEF Served
    <3>3. CASE ~ ask.orders /\ UNCHANGED <<users, orders>>
      BY <1>6, <3>3 DEF Served
    <3> QED
      BY <1>2, <2>2, <3>2, <3>3
  <2>3. jobs'[i].state \in {"waiting", "writing"} => \A u \in jobs[i].rows : orders'[u] = 0
    BY <1>2, <1>6
  <2>4. jobs'[i].rows = jobs[i].rows
    BY <1>1
  <2> QED
    BY <1>1, <1>3, <1>4, <1>5, <2>1, <2>2, <2>3, <2>4 DEF Chunk
<1>10. ASSUME NEW j \in DOMAIN jobs, jobs[j].kind = "orders", j # i PROVE Chunk(j)'
  <2>1. Chunk(j) /\ jobs[i].rows \cap jobs[j].rows = {} /\ jobs[j].rows \subseteq Keys
    BY <1>10 DEF Chunks, IInv, TypeOK
  <2>2. jobs'[j].rows = jobs[j].rows /\ jobs'[j].state = jobs[j].state
    BY <1>1, <1>10
  <2>3. \A u \in jobs[j].rows : orders'[u] = orders[u]
    BY <1>7, <2>1
  <2> QED
    BY <1>1, <1>3, <1>4, <2>1, <2>2, <2>3 DEF Chunk
<1>11. Chunks'
  <2>1. \A j, k \in DOMAIN jobs : jobs[j].kind = "orders" /\ k # j =>
           jobs'[j].rows \cap jobs'[k].rows = {}
    BY <1>1 DEF Chunks
  <2> QED
    BY <1>1, <1>9, <1>10, <2>1 DEF Chunks
<1>12. exit = "none" /\ (pc = "collect" => walking)
  BY <1>1 DEF BetweenPages
<1>13. BetweenPages'
  <2>1. ASSUME pc = "collect", NEW u \in Keys, \A j \in DOMAIN jobs' : u \notin jobs'[j].rows
        PROVE  orders'[u] = Served(u)'
    <3>1. \A j \in DOMAIN jobs : u \notin jobs[j].rows
      BY <1>1, <2>1
    <3>2. orders[u] = Served(u)
      BY <1>12, <2>1, <3>1 DEF BetweenPages
    <3> QED
      BY <1>4, <1>7, <3>1, <3>2
  <2> QED
    BY <1>1, <1>12, <2>1 DEF BetweenPages
<1>14. WalkIsExact'
  <2>1. \A u \in Keys : orders'[u] <= 1
    BY <1>7, <1>8 DEF WalkIsExact
  <2> QED
    BY <1>1, <1>12, <2>1 DEF WalkIsExact
<1> QED
  BY <1>11, <1>13, <1>14

\* Leaving forgets the page.
LEMMA LeaveWalk ==
    ASSUME WalkInv, NEW how \in {"failure", "killed"}, Leave(how), UNCHANGED orders
    PROVE  WalkInv'
<1>1. pc' = "exited" /\ exit' = how /\ DOMAIN jobs' = {}
  BY DEF Leave
<1> QED
  BY <1>1 DEF WalkInv, BetweenPages, Chunks, WalkIsExact

LEMMA WalkStep == IInv /\ WalkInv /\ [Next]_vars => WalkInv'
<1> SUFFICES ASSUME IInv, WalkInv, [Next]_vars PROVE WalkInv'
  OBVIOUS
<1> USE DEF db, run, pool
<1>a. TypeOK /\ ByPhase
  BY DEF IInv
<1>b. pc \notin {"collect", "drain"} => DOMAIN jobs = {}
  BY <1>a DEF ByPhase
<1>1. ASSUME NEW a \in [products : BOOLEAN, orders : BOOLEAN], StartRun(a) PROVE WalkInv'
  <2>1. /\ pc' = "schema" /\ exit' = "none" /\ cursor' = 0 /\ \A u \in Keys : orders'[u] = 0
        /\ DOMAIN jobs' = {}
    BY <1>1, <1>b DEF StartRun
  <2> QED
    BY <2>1 DEF WalkInv, BetweenPages, Chunks, WalkIsExact
<1>2. CASE RunStatement \/ SubmitUsers \/ FinishUsers \/ StoreProducts \/ OpenWalk
  <2>1. /\ pc \in {"schema", "users", "products", "open"}
        /\ exit' = exit /\ UNCHANGED <<cursor, orders, users, ask>>
    BY <1>2 DEF RunStatement, SubmitUsers, FinishUsers, StoreProducts, OpenWalk
  <2>2. exit = "none" /\ cursor = 0 /\ \A u \in Keys : orders[u] = 0
    BY <2>1 DEF WalkInv, BetweenPages
  <2>3. CASE SubmitUsers
    <3>1. /\ pc' = "collect" /\ walking' = walking /\ ~ walking
          /\ \A i \in DOMAIN jobs' : jobs'[i].kind = "users"
      <4>1. ~ walking
        BY <2>1, <1>a DEF ByPhase
      <4>2. \E c : jobs' = Jobs("users", c)
        BY <2>3 DEF SubmitUsers
      <4>3. \A i \in DOMAIN jobs' : jobs'[i].kind = "users"
        BY <4>2 DEF Jobs
      <4> QED
        BY <2>3, <4>1, <4>3 DEF SubmitUsers
    <3> QED
      BY <2>1, <2>2, <3>1 DEF WalkInv, BetweenPages, Chunks, WalkIsExact
  <2>4. CASE RunStatement \/ FinishUsers \/ StoreProducts
    <3>1. pc' \in {"schema", "users", "products", "open"} /\ jobs' = jobs
      BY <2>4, <2>1 DEF RunStatement, FinishUsers, StoreProducts
    <3> QED
      BY <1>b, <2>1, <2>2, <3>1 DEF WalkInv, BetweenPages, Chunks, WalkIsExact
  <2>5. CASE OpenWalk
    <3>1. pc' = "page" /\ walking' = TRUE /\ jobs' = jobs
      BY <2>5 DEF OpenWalk
    <3>2. \A u \in Keys : Served(u)' = 0
      <4>1. \A u \in Keys : u \in Nat /\ u # 0
        BY KeysAssumption
      <4> QED
        BY <2>1, <2>2, <4>1 DEF Served
    <3> QED
      BY <1>b, <2>1, <2>2, <3>1, <3>2 DEF WalkInv, BetweenPages, Chunks, WalkIsExact
  <2> QED
    BY <1>2, <2>3, <2>4, <2>5
<1>3. CASE \/ RefuseStatement \/ FailStatement \/ FailProducts \/ NoProducts
           \/ FailQuery \/ ExitFailure \/ Kill
  <2>1. orders' = orders /\ \E how \in {"failure", "killed"} : Leave(how)
    BY <1>3 DEF RefuseStatement, FailStatement, FailProducts, NoProducts, FailQuery,
                ExitFailure, Kill
  <2> QED
    BY <2>1, LeaveWalk
<1>4. CASE FetchPage
  BY <1>4, <1>a, FetchWalk
<1>5. CASE FinishWalk
  <2>1. /\ pc = "page" /\ NextPage = {} /\ pc' = "exited" /\ exit' = "success"
        /\ DOMAIN jobs' = {} /\ UNCHANGED <<users, orders, ask, cursor>>
    BY <1>5 DEF FinishWalk, Leave
  <2>2. \A u \in Keys : orders[u] = Served(u)
    BY <2>1 DEF WalkInv, BetweenPages
  <2>3. \A u \in users : u <= cursor /\ u \in Keys
    <3>1. Ahead = {}
      BY <1>a, <2>1, PageIsFront
    <3>2. cursor \in Nat /\ \A u \in users : u \in Nat /\ u \in Keys
      BY <1>a, KeysAssumption DEF TypeOK
    <3> QED
      BY <3>1, <3>2 DEF Ahead
  <2>4. ask.orders => \A u \in users : orders[u] = 1
    BY <2>2, <2>3 DEF Served
  <2> QED
    BY <2>1, <2>4 DEF WalkInv, BetweenPages, Chunks, WalkIsExact
<1>6. CASE Collect
  <2>1. /\ pc = "collect" /\ \A i \in DOMAIN jobs : jobs[i].state = "done"
        /\ pc' = (IF walking THEN "page" ELSE "users") /\ DOMAIN jobs' = {}
        /\ UNCHANGED <<users, orders, ask, exit, cursor, walking>>
    BY <1>6 DEF Collect, In
  <2>2. CASE walking
    <3>1. \A u \in Keys : orders[u] = Served(u)
      <4> SUFFICES ASSUME NEW u \in Keys, NEW i \in DOMAIN jobs, u \in jobs[i].rows
                   PROVE  orders[u] = Served(u)
        BY <2>1, <2>2 DEF WalkInv, BetweenPages
      <4>1. Chunk(i)
        BY <2>1, <2>2 DEF WalkInv, BetweenPages, Chunks
      <4> QED
        BY <2>1, <4>1 DEF Chunk
    <3>2. \A u \in Keys : Served(u)' = Served(u)
      BY <2>1 DEF Served
    <3> QED
      BY <2>1, <2>2, <3>1, <3>2 DEF WalkInv, BetweenPages, Chunks, WalkIsExact
  <2>3. CASE ~ walking
    BY <2>1, <2>3 DEF WalkInv, BetweenPages, Chunks, WalkIsExact
  <2> QED
    BY <2>2, <2>3
<1>7. CASE Abort
  <2>1. pc = "collect" /\ pc' = "drain" /\ UNCHANGED <<users, orders, ask, exit, cursor>>
    BY <1>7 DEF Abort
  <2>2. /\ DOMAIN jobs' = DOMAIN jobs
        /\ \A i \in DOMAIN jobs :
              /\ jobs'[i].kind = jobs[i].kind /\ jobs'[i].rows = jobs[i].rows
              /\ jobs'[i].state = IF jobs[i].state = "queued" THEN "cancelled" ELSE jobs[i].state
    <3>1. \A j \in DOMAIN jobs : jobs[j] \in Job
      BY <1>a, JobsAreTyped
    <3> QED
      BY <1>7, <3>1 DEF Abort, Job
  <2>3. Chunks'
    <3>1. ASSUME NEW i \in DOMAIN jobs, jobs[i].kind = "orders" PROVE Chunk(i)'
      <4>1. Chunk(i)
        BY <3>1 DEF WalkInv, Chunks
      <4>2. \A u : Served(u)' = Served(u)
        BY <2>1 DEF Served
      <4> QED
        BY <2>1, <2>2, <4>1, <4>2 DEF Chunk
    <3> QED
      BY <2>2, <3>1 DEF WalkInv, Chunks
  <2> QED
    BY <2>1, <2>3 DEF WalkInv, BetweenPages, WalkIsExact
<1>8. ASSUME NEW i \in DOMAIN jobs,
             Begin(i) \/ Take(i) \/ TimeOut(i) \/ Commit(i) \/ Fail(i)
      PROVE  WalkInv'
  <2>1. jobs[i].kind \in {"users", "orders"}
    BY <1>a DEF TypeOK
  <2> QED
    BY <1>8, <2>1, UserChunkWalk, OrderChunkWalk
<1>9. CASE UNCHANGED vars
  <2>1. UNCHANGED <<users, orders, ask, pc, exit, cursor, walking, jobs>>
    BY <1>9 DEF vars
  <2>2. \A u : Served(u)' = Served(u)
    BY <2>1 DEF Served
  <2> QED
    BY <2>1, <2>2 DEF WalkInv, BetweenPages, Chunks, Chunk, WalkIsExact
<1> QED
  BY <1>1, <1>2, <1>3, <1>4, <1>5, <1>6, <1>7, <1>8, <1>9 DEF Next, MainStep, ChunkStep, Trouble

(***************************************************************************)
(* The order walk of SingleGenerator commits the orders of no user twice,  *)
(* and of every stored user once when the run succeeds with orders asked   *)
(* for, whatever chunks and pages the users are cut into.                  *)
(***************************************************************************)
THEOREM OrderWalkIsExact == Spec => []WalkIsExact
<1>1. Init => WalkInv
  <2> SUFFICES ASSUME Init PROVE WalkInv
    OBVIOUS
  <2>1. DOMAIN jobs = {} /\ \A u \in Keys : orders[u] = 0
    BY DEF Init
  <2> QED
    BY <2>1 DEF Init, WalkInv, BetweenPages, Chunks, WalkIsExact
<1>2. WalkInv => WalkIsExact
  BY DEF WalkInv
<1> QED
  BY <1>1, <1>2, WalkStep, Inductive, PTL DEF Spec

-----------------------------------------------------------------------------
(* The users, and the contract of the user phase. *)

\* The rows of the chunks that were handed out.
Handed == UNION {jobs[i].rows : i \in DOMAIN jobs}

\* The books of a run: the users it stored, those a batch is about to store, and
\* those it has still to ask for.
Books ==
    /\ pc = "schema" => users = base /\ remaining = Count
    /\ pc = "users" => Cardinality(users \ base) + remaining = Count
    /\ pc = "collect" /\ ~ walking =>
          /\ Cardinality((users \cup Handed) \ base) + remaining = Count
          /\ \A i \in DOMAIN jobs : jobs[i].state = "done" => jobs[i].rows \subseteq users
    /\ pc \in {"products", "open", "page"} \/ (pc = "collect" /\ walking) =>
          Cardinality(users \ base) = Count

\* Sets of users are finite.
LEMMA SetsOfUsers ==
    ASSUME NEW S \in SUBSET Keys
    PROVE  IsFiniteSet(S) /\ Cardinality(S) \in Nat
BY KeysAssumption, FS_Subset, FS_CardinalityType

\* A batch is of users that are not stored, as many as are taken off the rest, and
\* its chunks hand out all of them and no others.
LEMMA SubmitBooks ==
    ASSUME IInv, Books, SubmitUsers
    PROVE  Books'
<1> USE DEF db, run, pool
<1> DEFINE n == Min({remaining, BatchSize})
<1>1. /\ pc = "users" /\ pc' = "collect" /\ remaining' = remaining - n
      /\ UNCHANGED <<users, base, walking>>
  BY DEF SubmitUsers
<1>2. PICK S \in SUBSET (Keys \ users) :
         Cardinality(S) = n /\ jobs' = Jobs("users", UserChunks(S))
  BY DEF SubmitUsers, kSubset
<1>3. n \in Nat /\ n <= remaining /\ remaining \in Nat /\ base \subseteq users /\ users \subseteq Keys
  BY SizesAssumption, MinOfTwo DEF IInv, TypeOK
<1> HIDE DEF n
<1> DEFINE e == Cardinality(S) \div Threads
           first == IF e = 0 THEN Cardinality(S) ELSE e + (Cardinality(S) % Threads)
           f == Slices(S, first, e)
<1>4. /\ DOMAIN jobs' = DOMAIN f
      /\ \A i \in DOMAIN jobs' : jobs'[i].rows = f[i] /\ jobs'[i].state = "queued"
  <2>1. jobs' = [i \in DOMAIN f |-> [kind |-> "users", rows |-> f[i], state |-> "queued"]]
    BY <1>2 DEF Jobs, UserChunks
  <2> HIDE DEF f
  <2> QED
    BY <2>1
<1>5. /\ \A u \in S : \E i \in DOMAIN f : u \in f[i]
      /\ \A i \in DOMAIN f : f[i] \subseteq S
  BY SlicesPartition
<1> HIDE DEF f
<1>6. Handed' = S
  BY <1>4, <1>5 DEF Handed
<1>7. (users' \cup Handed') \ base' = (users \ base) \cup S /\ (users \ base) \cap S = {}
  BY <1>1, <1>3, <1>6
<1>8. Cardinality((users \ base) \cup S) = Cardinality(users \ base) + n
  <2>1. users \ base \in SUBSET Keys /\ S \in SUBSET Keys
    BY <1>3
  <2>2. Cardinality((users \ base) \cup S)
           = Cardinality(users \ base) + Cardinality(S) - Cardinality({})
    BY <1>7, <2>1, SetsOfUsers, FS_Union
  <2> QED
    BY <1>2, <1>3, <2>1, <2>2, SetsOfUsers, FS_EmptySet
<1>9. Cardinality((users' \cup Handed') \ base') + remaining' = Count
  <2>1. Cardinality(users \ base) + remaining = Count
    BY <1>1 DEF Books
  <2>2. Cardinality(users \ base) \in Nat
    BY <1>3, SetsOfUsers
  <2> QED
    BY <1>1, <1>3, <1>7, <1>8, <2>1, <2>2
<1>10. ~ walking
  BY <1>1 DEF IInv, ByPhase
<1> QED
  BY <1>1, <1>4, <1>9, <1>10 DEF Books

\* A chunk stores rows that were handed out, and only while a run is going on.
LEMMA ChunkBooks ==
    ASSUME IInv, WalkInv, Books, NEW i \in DOMAIN jobs,
           Begin(i) \/ Take(i) \/ TimeOut(i) \/ Commit(i) \/ Fail(i)
    PROVE  /\ Books'
           /\ pc \in {"collect", "drain"} /\ UNCHANGED <<pc, exit, base>>
           /\ users \subseteq users'
<1> USE DEF db, run, pool
<1>1. /\ pc \in {"collect", "drain"} /\ DOMAIN jobs' = DOMAIN jobs
      /\ UNCHANGED <<pc, exit, ask, cursor, walking>>
      /\ \A j \in DOMAIN jobs : jobs'[j].kind = jobs[j].kind /\ jobs'[j].rows = jobs[j].rows
      /\ \A j \in DOMAIN jobs \ {i} : jobs'[j].state = jobs[j].state
      /\ (UNCHANGED <<users, orders>>) \/ (jobs[i].state = "writing" /\ Write(i))
      /\ jobs'[i].state = "done" =>
            \/ jobs[i].state = "writing" /\ Write(i)
            \/ jobs[i].kind = "orders" /\ ~ ask.orders /\ UNCHANGED <<users, orders>>
  BY ChunkMoves
<1>2. UNCHANGED <<base, remaining>>
  BY DEF Begin, Take, TimeOut, Commit, Fail
<1>3. users' = users \/ (jobs[i].kind = "users" /\ users' = users \cup jobs[i].rows)
  BY <1>1 DEF Write
<1>4. Handed' = Handed /\ jobs[i].rows \subseteq Handed
  BY <1>1 DEF Handed
<1>5. CASE pc = "collect" /\ ~ walking
  <2>1. jobs[i].kind = "users"
    BY <1>5 DEF WalkInv, BetweenPages
  <2>2. users' \cup Handed' = users \cup Handed
    BY <1>3, <1>4
  <2>3. \A j \in DOMAIN jobs' : jobs'[j].state = "done" => jobs'[j].rows \subseteq users'
    <3>1. jobs'[i].state = "done" => jobs'[i].rows \subseteq users'
      BY <1>1, <2>1 DEF Write
    <3>2. \A j \in DOMAIN jobs \ {i} : jobs'[j].state = "done" => jobs'[j].rows \subseteq users'
      BY <1>1, <1>3, <1>5 DEF Books
    <3> QED
      BY <1>1, <3>1, <3>2
  <2>4. /\ Cardinality((users' \cup Handed') \ base') + remaining' = Count
    BY <1>2, <1>5, <2>2 DEF Books
  <2> QED
    BY <1>1, <1>2, <1>3, <1>5, <2>3, <2>4 DEF Books
<1>6. CASE pc = "collect" /\ walking
  <2>1. jobs[i].kind = "orders"
    BY <1>6 DEF WalkInv, BetweenPages
  <2>2. users' = users
    BY <1>3, <2>1
  <2> QED
    BY <1>1, <1>2, <1>6, <2>2 DEF Books
<1>7. CASE pc = "drain"
  BY <1>1, <1>2, <1>3, <1>7 DEF Books
<1> QED
  BY <1>1, <1>5, <1>6, <1>7

LEMMA BooksStep == IInv /\ WalkInv /\ Books /\ [Next]_vars => Books'
<1> SUFFICES ASSUME IInv, WalkInv, Books, [Next]_vars PROVE Books'
  OBVIOUS
<1> USE DEF db, run, pool
<1>1. ASSUME NEW a \in [products : BOOLEAN, orders : BOOLEAN], StartRun(a) PROVE Books'
  BY <1>1 DEF StartRun, Books
<1>2. CASE RunStatement
  <2>1. pc = "schema" /\ pc' \in {"schema", "users"} /\ UNCHANGED <<users, base, remaining>>
    BY <1>2 DEF RunStatement
  <2>2. Cardinality(users \ base) + remaining = Count
    <3>1. users \ base = {} /\ remaining = Count
      BY <2>1 DEF Books
    <3> QED
      BY <3>1, SizesAssumption, FS_EmptySet
  <2> QED
    BY <2>1, <2>2 DEF Books
<1>3. CASE SubmitUsers
  BY <1>3, SubmitBooks
<1>4. CASE FinishUsers
  <2>1. pc = "users" /\ remaining = 0 /\ pc' = "products" /\ UNCHANGED <<users, base>>
    BY <1>4 DEF FinishUsers
  <2>2. Cardinality(users \ base) \in Nat /\ Cardinality(users \ base) + 0 = Count
    BY <2>1, SetsOfUsers DEF Books, IInv, TypeOK
  <2>3. Cardinality(users \ base) = Count
    BY <2>2
  <2> QED
    BY <2>1, <2>3 DEF Books
<1>5. CASE StoreProducts \/ OpenWalk \/ FetchPage
  <2>1. /\ pc \in {"products", "open", "page"} /\ UNCHANGED <<users, base>>
        /\ pc' \in {"open", "page"} \/ (pc' = "collect" /\ walking')
    BY <1>5 DEF StoreProducts, OpenWalk, FetchPage, WalkInv, BetweenPages
  <2> QED
    BY <2>1 DEF Books
<1>6. CASE Collect
  <2>1. /\ pc = "collect" /\ \A i \in DOMAIN jobs : jobs[i].state = "done"
        /\ pc' = (IF walking THEN "page" ELSE "users")
        /\ UNCHANGED <<users, base, remaining, walking>>
    BY <1>6 DEF Collect, In
  <2>2. ~ walking => users \cup Handed = users
    BY <2>1 DEF Books, Handed
  <2> QED
    BY <2>1, <2>2 DEF Books
<1>7. CASE Abort \/ \E how \in {"success", "failure", "killed"} : Leave(how)
  <2>1. pc' \in {"drain", "exited"}
    BY <1>7 DEF Abort, Leave
  <2> QED
    BY <2>1 DEF Books
<1>8. ASSUME NEW i \in DOMAIN jobs,
             Begin(i) \/ Take(i) \/ TimeOut(i) \/ Commit(i) \/ Fail(i)
      PROVE  Books'
  BY <1>8, ChunkBooks
<1>9. CASE UNCHANGED vars
  BY <1>9 DEF vars, Books, Handed
<1> QED
  BY <1>1, <1>2, <1>3, <1>4, <1>5, <1>6, <1>7, <1>8, <1>9
  DEF Next, MainStep, ChunkStep, Trouble, RefuseStatement, FailStatement, FailProducts,
      NoProducts, FinishWalk, FailQuery, ExitFailure, Kill

\* A run that reports success has stored as many users as it was asked for.
LEMMA SuccessKeepsPromise ==
    ASSUME IInv, Books, FinishWalk
    PROVE  Contract!Succeed
<1>1. /\ pc = "page" /\ pc' = "exited" /\ exit' = "success" /\ UNCHANGED <<users, base>>
  BY DEF FinishWalk, Leave, db, run
<1>2. Cardinality(users \ base) = Count
  BY <1>1 DEF Books
<1>3. Contract!Cardinality(users \ base) = Cardinality(users \ base)
  BY DEF Contract!Cardinality, Cardinality
<1> QED
  BY <1>1, <1>2, <1>3 DEF Contract!Succeed

LEMMA ContractStep ==
    ASSUME IInv, IInv', WalkInv, Books, [Next]_vars
    PROVE  [Contract!Next]_(Contract!vars)
<1> USE DEF db, run, pool
<1>1. ASSUME NEW a \in [products : BOOLEAN, orders : BOOLEAN], StartRun(a)
      PROVE  [Contract!Next]_(Contract!vars)
  <2>1. /\ pc = "exited" /\ pc' = "schema" /\ exit # "running"
        /\ base' = users /\ users' = users
    BY <1>1 DEF StartRun, IInv, TypeOK
  <2>2. Contract!Begin
    BY <2>1 DEF Contract!Begin
  <2> QED
    BY <2>2 DEF Contract!Next
<1>2. CASE \/ RunStatement \/ SubmitUsers \/ FinishUsers \/ StoreProducts \/ OpenWalk
           \/ FetchPage \/ Collect \/ Abort
  <2>1. pc # "exited" /\ pc' # "exited" /\ UNCHANGED <<users, base>>
    BY <1>2 DEF RunStatement, SubmitUsers, FinishUsers, StoreProducts, OpenWalk, FetchPage,
                Collect, Abort
  <2> QED
    BY <2>1 DEF Contract!vars
<1>3. CASE \/ RefuseStatement \/ FailStatement \/ FailProducts \/ NoProducts
           \/ FailQuery \/ ExitFailure \/ Kill
  <2>1. /\ pc # "exited" /\ pc' = "exited" /\ exit' \in {"failure", "killed"}
        /\ UNCHANGED <<users, base>>
    BY <1>3 DEF RefuseStatement, FailStatement, FailProducts, NoProducts, FailQuery,
                ExitFailure, Kill, Leave
  <2>2. Contract!GiveUp
    BY <2>1 DEF Contract!GiveUp
  <2> QED
    BY <2>2 DEF Contract!Next
<1>4. CASE FinishWalk
  BY <1>4, SuccessKeepsPromise DEF Contract!Next
<1>5. ASSUME NEW i \in DOMAIN jobs,
             Begin(i) \/ Take(i) \/ TimeOut(i) \/ Commit(i) \/ Fail(i)
      PROVE  [Contract!Next]_(Contract!vars)
  <2>1. /\ pc # "exited" /\ UNCHANGED <<pc, exit, base>>
        /\ users \subseteq users' /\ users' \subseteq Keys
    BY <1>5, ChunkBooks DEF IInv, TypeOK
  <2> DEFINE S == users' \ users
  <2>2. S \in SUBSET (Keys \ users) /\ users' = users \cup S
    BY <2>1
  <2> HIDE DEF S
  <2>3. Contract!Publish(S)
    BY <2>1, <2>2 DEF Contract!Publish
  <2> QED
    BY <2>2, <2>3 DEF Contract!Next
<1>6. CASE UNCHANGED vars
  BY <1>6 DEF vars, Contract!vars
<1> QED
  BY <1>1, <1>2, <1>3, <1>4, <1>5, <1>6 DEF Next, MainStep, ChunkStep, Trouble

(***************************************************************************)
(* The run on one database keeps the contract of the user phase, with      *)
(* "visible" the stored users: users appear only while a run is going on,  *)
(* none is lost, and a run that exits with success added exactly Count,    *)
(* whatever statements, transactions and waits failed before.              *)
(***************************************************************************)
THEOREM SeedingKeepsContract == Spec => ImplementsContract
<1>1. Init => Contract!Init /\ WalkInv /\ Books
  <2> SUFFICES ASSUME Init PROVE Contract!Init /\ WalkInv /\ Books
    OBVIOUS
  <2>1. DOMAIN jobs = {} /\ \A u \in Keys : orders[u] = 0
    BY DEF Init
  <2> QED
    BY <2>1 DEF Init, WalkInv, BetweenPages, Chunks, WalkIsExact, Books, Contract!Init
<1>2. IInv /\ IInv' /\ WalkInv /\ Books /\ [Next]_vars => [Contract!Next]_(Contract!vars)
  BY ContractStep
<1> QED
  BY <1>1, <1>2, WalkStep, BooksStep, Inductive, PTL
  DEF Spec, ImplementsContract, Contract!Spec
=============================================================================
