------------------------- MODULE UserSeedingProofs -------------------------
(***************************************************************************)
(* Proofs about UserSeeding, for every number of users, shards, threads,   *)
(* chunks and runs, in both modes.  Every property rests on one inductive  *)
(* invariant, IInv, whose parts say where the rows and routes of a chunk   *)
(* are at each point of its life.                                          *)
(***************************************************************************)
EXTENDS UserSeeding, Induction

-----------------------------------------------------------------------------
(* The inductive invariant. *)

\* A routing row holds the 1-based shard of the hash, and the row is there.
RoutesHome ==
    \A u \in Users : route[u] # NoEntry =>
        /\ route[u] = ShardId(Home[u])
        /\ u \in rows[Home[u]]

\* A queued chunk has generated no user yet.  A chunk being written: the rows of
\* the shards it has left behind are committed.  A finished chunk is reachable.
ChunkProgress ==
    \A w \in Workers :
        /\ wstate[w] = "queued" => chunk[w] = {}
        /\ wstate[w] = "writing" =>
              \A u \in chunk[w] : Home[u] \in left[w] \/ u \in rows[Home[u]]
        /\ wstate[w] = "done" => chunk[w] \subseteq Reachable

\* What the threads can be doing, by the state of the main thread.
ThreadsByPhase ==
    /\ pc = "loop" => \A w \in Workers : wstate[w] \notin {"queued", "writing", "failed"}
    /\ pc = "collect" => \A w \in Workers : wstate[w] # "free" => size[w] > 0
    /\ pc = "exited" => \A w \in Workers : wstate[w] \notin {"queued", "writing"}
    /\ pc = "drain" => \A w \in Workers : wstate[w] # "queued"

\* While a run can still succeed, each of its users is reachable or belongs to
\* a chunk of the current batch.
MadeAccounted ==
    /\ pc = "loop" => made \subseteq Reachable
    /\ pc = "collect" =>
          \A u \in made : u \in Reachable \/ \E w \in Given : u \in chunk[w]
    /\ pc # "exited" => exit = "none"

\* A routed request carries the user's shard; in lookup mode, and whenever the
\* user is owed, the row is on that shard.
ReaderSound ==
    /\ reader.pc = "routed" =>
          /\ reader.shard = Home[reader.user]
          /\ UseLookup \/ reader.owed => reader.user \in rows[reader.shard]
    /\ reader.owed => reader.user \in settled

IInv ==
    /\ TypeOK
    /\ RoutesHome
    /\ ChunkProgress
    /\ ThreadsByPhase
    /\ MadeAccounted
    /\ SuccessReachable
    /\ ReaderSound
    /\ RoutedReadFinds
    /\ OwedIsFound
-----------------------------------------------------------------------------
(* Types. *)

\* The chunk sizes run_user_batches computes are natural numbers.
LEMMA ChunkSizesType ==
    ASSUME NEW batch \in Nat
    PROVE  ChunkSizes(batch) \in [Workers -> Nat]
<1>1. Threads \in Nat \ {0}
  BY SizesAssumption
<1>2. batch \div Threads \in Nat
  BY <1>1, SMTT(20)
<1>3. batch % Threads \in Nat
  BY <1>1, SMTT(20)
<1> QED
  BY <1>2, <1>3, SMTT(20) DEF ChunkSizes, Workers

\* The number of rows a batch reports is a natural number.
LEMMA BatchTotalType ==
    BatchTotal \in Nat
<1>1. IsFiniteSet(Workers)
  BY SizesAssumption, FS_Interval DEF Workers
<1>2. IsFiniteSet(Given)
  BY <1>1, FS_Subset DEF Given
<1>3. IsFiniteSet(Given \X Users)
  BY <1>2, UsersAssumption, FS_Product
<1>4. {p \in Given \X Users : p[2] \in chunk[p[1]]} \subseteq Given \X Users
  OBVIOUS
<1> QED
  BY <1>3, <1>4, FS_Subset, FS_CardinalityType DEF BatchTotal

LEMMA WithRowsType ==
    ASSUME TypeOK, NEW w \in Workers, NEW s \in Shards
    PROVE  WithRows(w, s) \in [Shards -> SUBSET Users]
BY DEF TypeOK, WithRows, OnShard

LEMMA WithRoutesType ==
    ASSUME TypeOK, NEW w \in Workers
    PROVE  WithRoutes(w) \in [Users -> 0 .. NumShards]
<1>1. \A u \in Users : ShardId(Home[u]) \in 0 .. NumShards
  BY ShardsAssumption DEF ShardId, Shards
<1> QED
  BY <1>1 DEF TypeOK, WithRoutes

LEMMA InitType == Init => TypeOK
<1> SUFFICES ASSUME Init PROVE TypeOK
  OBVIOUS
<1>1. 0 \in Shards
  BY ShardsAssumption DEF Shards
<1>2. reader \in [pc : {"idle", "unrouted", "routed", "found", "missing"},
                 user : Users, shard : Shards, owed : BOOLEAN]
  <2>1. PICK u \in Users :
           reader = [pc |-> "idle", user |-> u, shard |-> 0, owed |-> FALSE]
    BY Zenon DEF Init
  <2> QED
    BY <1>1, <2>1
<1>3. NoEntry \in 0 .. NumShards
  BY ShardsAssumption DEF NoEntry
<1> QED
  BY <1>2, <1>3 DEF Init, TypeOK

LEMMA TypeStep == TypeOK /\ [Next]_vars => TypeOK'
<1> SUFFICES ASSUME TypeOK, [Next]_vars PROVE TypeOK'
  OBVIOUS
<1> USE DEF main, threads, db, history
<1>1. CASE StartRun
  BY <1>1, SizesAssumption DEF StartRun, TypeOK
<1>2. CASE SubmitBatch
  <2>1. BatchOf(remaining) \in Nat
    BY SizesAssumption DEF TypeOK, BatchOf
  <2>2. size' \in [Workers -> Nat]
    BY <1>2, <2>1, ChunkSizesType DEF SubmitBatch
  <2> QED
    BY <1>2, <2>2 DEF SubmitBatch, TypeOK
<1>3. CASE CollectBatch
  <2>1. remaining' \in Nat
    BY <1>3, SizesAssumption DEF CollectBatch, TypeOK, BatchOf
  <2>2. total' \in Nat
    BY <1>3, BatchTotalType DEF CollectBatch, TypeOK
  <2> QED
    BY <1>3, <2>1, <2>2 DEF CollectBatch, TypeOK
<1>4. CASE AbortBatch
  BY <1>4 DEF AbortBatch, TypeOK
<1>5. CASE ExitFailure
  BY <1>5 DEF ExitFailure, TypeOK
<1>6. CASE ExitSuccess
  BY <1>6 DEF ExitSuccess, TypeOK
<1>7. CASE Kill
  BY <1>7 DEF Kill, TypeOK
<1>8. ASSUME NEW w \in Workers, BeginChunk(w) PROVE TypeOK'
  <2>1. PICK S \in SUBSET (Users \ used) :
           /\ chunk' = [chunk EXCEPT ![w] = S]
           /\ left' = [left EXCEPT ![w] = ShardsOf(S)]
           /\ made' = made \cup S
           /\ used' = used \cup S
    BY <1>8 DEF BeginChunk, kSubset
  <2>2. ShardsOf(S) \subseteq Shards
    BY ShardsAssumption DEF ShardsOf
  <2> QED
    BY <1>8, <2>1, <2>2 DEF BeginChunk, TypeOK
<1>9. ASSUME NEW w \in Workers, NEW s \in Shards, CommitShard(w, s) PROVE TypeOK'
  <2>1. rows' \in [Shards -> SUBSET Users]
    BY <1>9, WithRowsType DEF CommitShard
  <2> QED
    BY <1>9, <2>1 DEF CommitShard, TypeOK
<1>10. ASSUME NEW w \in Workers, FinishChunk(w) PROVE TypeOK'
  <2>1. route' \in [Users -> 0 .. NumShards]
    BY <1>10, WithRoutesType DEF FinishChunk, TypeOK
  <2> QED
    BY <1>10, <2>1 DEF FinishChunk, TypeOK
<1>11. ASSUME NEW w \in Workers, NEW s \in Shards, FailShard(w, s) PROVE TypeOK'
  <2>1. rows' \in [Shards -> SUBSET Users]
    BY <1>11, WithRowsType DEF FailShard, TypeOK
  <2> QED
    BY <1>11, <2>1 DEF FailShard, TypeOK
<1>12. ASSUME NEW w \in Workers, FailRoutes(w) PROVE TypeOK'
  <2>1. route' \in [Users -> 0 .. NumShards]
    BY <1>12, WithRoutesType DEF FailRoutes, TypeOK
  <2> QED
    BY <1>12, <2>1 DEF FailRoutes, TypeOK
<1>13. ASSUME NEW u \in Users, ReadRoute(u) PROVE TypeOK'
  <2>1. (IF HasTarget(u) THEN Target(u) ELSE 0) \in Shards
    BY ShardsAssumption DEF HasTarget, Target, IndexOf, NoEntry, TypeOK, Shards
  <2> QED
    BY <1>13, <2>1 DEF ReadRoute, TypeOK
<1>14. CASE ReadShard
  BY <1>14 DEF ReadShard, TypeOK
<1>15. CASE UNCHANGED vars
  BY <1>15 DEF vars, TypeOK
<1> QED
  BY <1>1, <1>2, <1>3, <1>4, <1>5, <1>6, <1>7, <1>8, <1>9, <1>10, <1>11, <1>12,
     <1>13, <1>14, <1>15 DEF Next, MainStep, WorkerStep

\* Every variable keeps its type in every reachable state.
THEOREM TypeCorrect == Spec => []TypeOK
BY InitType, TypeStep, PTL DEF Spec

-----------------------------------------------------------------------------
(* Rows and routes: both tables only grow, and a route is never rewritten. *)

Grows ==
    /\ \A s \in Shards : rows[s] \subseteq rows'[s]
    /\ \A u \in Users : route[u] # NoEntry => route'[u] = route[u]

\* Once routes are sound, "reachable" is "routed, and stored at home".
LEMMA ReachableHome ==
    ASSUME TypeOK, RoutesHome, NEW u \in Users
    PROVE  u \in Reachable <=> /\ UseLookup => route[u] # NoEntry
                              /\ u \in rows[Home[u]]
<1>1. HasTarget(u) => Target(u) = Home[u]
  BY ShardsAssumption DEF RoutesHome, HasTarget, Target, IndexOf, ShardId, Shards
<1> QED
  BY <1>1 DEF Reachable, HasTarget

LEMMA WithRowsGrow ==
    ASSUME TypeOK, NEW w \in Workers, NEW s \in Shards
    PROVE  \A t \in Shards : rows[t] \subseteq WithRows(w, s)[t]
BY DEF TypeOK, WithRows

LEMMA WithRoutesGrow ==
    ASSUME TypeOK, RoutesHome, NEW w \in Workers
    PROVE  \A u \in Users : route[u] # NoEntry => WithRoutes(w)[u] = route[u]
BY DEF TypeOK, RoutesHome, WithRoutes

LEMMA StepGrows ==
    ASSUME TypeOK, RoutesHome, [Next]_vars
    PROVE  Grows
<1>1. CASE UNCHANGED db
  BY <1>1 DEF db, Grows
<1>2. ASSUME NEW w \in Workers, NEW s \in Shards, CommitShard(w, s) \/ FailShard(w, s)
      PROVE  Grows
  BY <1>2, WithRowsGrow DEF CommitShard, FailShard, Grows, history
<1>3. ASSUME NEW w \in Workers, FinishChunk(w) \/ FailRoutes(w)
      PROVE  Grows
  BY <1>3, WithRoutesGrow DEF FinishChunk, FailRoutes, Grows, history
<1> QED
  BY <1>1, <1>2, <1>3
  DEF Next, MainStep, WorkerStep, vars, StartRun, SubmitBatch, CollectBatch, AbortBatch,
      ExitFailure, ExitSuccess, Kill, BeginChunk, ReadRoute, ReadShard

LEMMA ReachableGrows ==
    ASSUME TypeOK, TypeOK', RoutesHome, RoutesHome', Grows
    PROVE  Reachable \subseteq Reachable'
<1> SUFFICES ASSUME NEW u \in Reachable PROVE u \in Reachable'
  OBVIOUS
<1>1. u \in Users /\ Home[u] \in Shards
  BY ShardsAssumption DEF Reachable
<1>2. /\ UseLookup => route[u] # NoEntry
      /\ u \in rows[Home[u]]
  BY <1>1, ReachableHome
<1>3. /\ UseLookup => route'[u] # NoEntry
      /\ u \in rows'[Home[u]]
  BY <1>1, <1>2 DEF Grows
<1>4. HasTarget(u)' => Target(u)' = Home[u]
  BY <1>1, ShardsAssumption DEF RoutesHome, HasTarget, Target, IndexOf, ShardId, Shards
<1> QED
  BY <1>1, <1>3, <1>4 DEF Reachable, HasTarget

\* Routing rows are committed only once every row of the chunk is.
LEMMA WithRoutesHome ==
    ASSUME TypeOK, RoutesHome, ChunkProgress,
           NEW w \in Workers, wstate[w] = "writing", left[w] = {}
    PROVE  \A u \in Users : WithRoutes(w)[u] # NoEntry =>
               /\ WithRoutes(w)[u] = ShardId(Home[u])
               /\ u \in rows[Home[u]]
BY DEF TypeOK, RoutesHome, ChunkProgress, WithRoutes

LEMMA RoutesHomeStep ==
    ASSUME TypeOK, RoutesHome, ChunkProgress, [Next]_vars
    PROVE  RoutesHome'
<1>1. Grows
  BY StepGrows
<1>2. ASSUME UNCHANGED route PROVE RoutesHome'
  BY <1>1, <1>2, ShardsAssumption DEF Grows, RoutesHome
<1>3. ASSUME NEW w \in Workers, FinishChunk(w) \/ FailRoutes(w)
      PROVE  RoutesHome'
  <2>1. route' \in {route, WithRoutes(w)} /\ rows' = rows
    BY <1>3 DEF FinishChunk, FailRoutes
  <2>2. wstate[w] = "writing" /\ left[w] = {}
    BY <1>3 DEF FinishChunk, FailRoutes
  <2> QED
    BY <2>1, <2>2, WithRoutesHome DEF RoutesHome
<1> QED
  BY <1>2, <1>3
  DEF Next, MainStep, WorkerStep, vars, db, StartRun, SubmitBatch, CollectBatch, AbortBatch,
      ExitFailure, ExitSuccess, Kill, BeginChunk, CommitShard, FailShard, ReadRoute, ReadShard

-----------------------------------------------------------------------------
(* The threads: what a chunk has committed, and when it may run. *)

LEMMA ThreadsByPhaseStep ==
    ASSUME TypeOK, ThreadsByPhase, [Next]_vars
    PROVE  ThreadsByPhase'
<1> USE DEF TypeOK, ThreadsByPhase, main, threads
<1>1. CASE StartRun
  BY <1>1 DEF StartRun
<1>2. CASE SubmitBatch
  <2>1. size' \in [Workers -> Nat]
    <3>1. BatchOf(remaining) \in Nat
      BY SizesAssumption DEF BatchOf
    <3> QED
      BY <1>2, <3>1, ChunkSizesType DEF SubmitBatch
  <2> QED
    BY <1>2, <2>1 DEF SubmitBatch
<1>3. CASE CollectBatch
  BY <1>3 DEF CollectBatch, Given
<1>4. CASE AbortBatch
  BY <1>4 DEF AbortBatch
<1>5. CASE ExitFailure
  BY <1>5 DEF ExitFailure
<1>6. CASE ExitSuccess
  BY <1>6 DEF ExitSuccess
<1>7. CASE Kill
  BY <1>7 DEF Kill
<1>8. ASSUME NEW w \in Workers, WorkerStep(w) PROVE ThreadsByPhase'
  <2>1. /\ pc \in {"collect", "drain"}
        /\ wstate[w] \in {"queued", "writing"}
    BY <1>8 DEF WorkerStep, BeginChunk, FinishChunk, FailRoutes, CommitShard, FailShard
  <2>2. /\ UNCHANGED <<pc, size>>
        /\ \E x \in {"writing", "done", "failed"} : wstate' = [wstate EXCEPT ![w] = x]
    BY <1>8 DEF WorkerStep, BeginChunk, FinishChunk, FailRoutes, CommitShard, FailShard
  <2> QED
    BY <2>1, <2>2
<1>9. CASE UNCHANGED <<main, threads>>
  BY <1>9
<1> QED
  BY <1>1, <1>2, <1>3, <1>4, <1>5, <1>6, <1>7, <1>8, <1>9
  DEF Next, MainStep, vars, ReadRoute, ReadShard

LEMMA ChunkProgressStep ==
    ASSUME TypeOK, TypeOK', RoutesHome, RoutesHome', ChunkProgress, [Next]_vars
    PROVE  ChunkProgress'
<1>1. Grows
  BY StepGrows
<1>2. Reachable \subseteq Reachable'
  BY <1>1, ReachableGrows
<1>3. ASSUME NEW v \in Workers, chunk'[v] = chunk[v], left'[v] = left[v],
             wstate'[v] = wstate[v] \/ wstate'[v] \notin {"queued", "writing", "done"}
      PROVE  /\ wstate'[v] = "queued" => chunk'[v] = {}
             /\ wstate'[v] = "writing" =>
                   \A u \in chunk'[v] : Home[u] \in left'[v] \/ u \in rows'[Home[u]]
             /\ wstate'[v] = "done" => chunk'[v] \subseteq Reachable'
  BY <1>1, <1>2, <1>3, ShardsAssumption DEF TypeOK, ChunkProgress, Grows
<1> DEFINE Same(v) == /\ chunk'[v] = chunk[v] /\ left'[v] = left[v]
                      /\ wstate'[v] = wstate[v] \/ wstate'[v] \notin {"queued", "writing", "done"}
<1>4. ASSUME \A v \in Workers : Same(v) PROVE ChunkProgress'
  BY <1>3, <1>4 DEF ChunkProgress
<1>5. ASSUME NEW w \in Workers, BeginChunk(w) PROVE ChunkProgress'
  <2>1. PICK S \in SUBSET Users :
           /\ chunk' = [chunk EXCEPT ![w] = S]
           /\ left' = [left EXCEPT ![w] = ShardsOf(S)]
    BY <1>5 DEF BeginChunk, kSubset
  <2>2. \A v \in Workers \ {w} : Same(v)
    BY <1>5, <2>1 DEF BeginChunk, TypeOK
  <2>3. wstate'[w] = "writing" /\ \A u \in chunk'[w] : Home[u] \in left'[w]
    BY <1>5, <2>1 DEF BeginChunk, TypeOK, ShardsOf
  <2> QED
    BY <1>3, <2>2, <2>3 DEF ChunkProgress
<1>6. ASSUME NEW w \in Workers, NEW s \in Shards, CommitShard(w, s) PROVE ChunkProgress'
  <2>1. \A v \in Workers \ {w} : Same(v)
    BY <1>6 DEF CommitShard, TypeOK
  <2>2. /\ wstate'[w] = "writing" /\ chunk'[w] = chunk[w]
        /\ left'[w] = left[w] \ {s}
    BY <1>6 DEF CommitShard, TypeOK
  <2>3. \A u \in chunk[w] : Home[u] \in left'[w] \/ u \in rows'[Home[u]]
    <3> SUFFICES ASSUME NEW u \in chunk[w], Home[u] \notin left'[w]
                 PROVE  u \in rows'[Home[u]]
      OBVIOUS
    <3>1. u \in Users /\ Home[u] \in Shards
      BY ShardsAssumption DEF TypeOK
    <3>2. CASE Home[u] = s
      BY <1>6, <3>1, <3>2 DEF CommitShard, WithRows, OnShard, TypeOK
    <3>3. CASE Home[u] \notin left[w]
      <4>1. u \in rows[Home[u]]
        BY <1>6, <3>3 DEF ChunkProgress, CommitShard
      <4> QED
        BY <1>1, <3>1, <4>1 DEF Grows
    <3> QED
      BY <2>2, <3>2, <3>3
  <2> QED
    BY <1>3, <2>1, <2>2, <2>3 DEF ChunkProgress
<1>7. ASSUME NEW w \in Workers, FinishChunk(w) PROVE ChunkProgress'
  <2>1. \A v \in Workers \ {w} : Same(v)
    BY <1>7 DEF FinishChunk, TypeOK
  <2>2. wstate'[w] = "done" /\ chunk'[w] = chunk[w]
    BY <1>7 DEF FinishChunk, TypeOK
  <2>3. chunk[w] \subseteq Reachable'
    <3> SUFFICES ASSUME NEW u \in chunk[w] PROVE u \in Reachable'
      OBVIOUS
    <3>1. u \in Users /\ Home[u] \in Shards
      BY ShardsAssumption DEF TypeOK
    <3>2. u \in rows'[Home[u]]
      BY <1>7 DEF FinishChunk, ChunkProgress
    <3>3. UseLookup => route'[u] = ShardId(Home[u])
      BY <1>7, <3>1 DEF FinishChunk, WithRoutes
    <3>4. HasTarget(u)' /\ Target(u)' = Home[u]
      BY <3>1, <3>3, ShardsAssumption
      DEF HasTarget, Target, ShardId, IndexOf, NoEntry, Shards
    <3> QED
      BY <3>1, <3>2, <3>4 DEF Reachable
  <2> QED
    BY <1>3, <2>1, <2>2, <2>3 DEF ChunkProgress
<1>8. CASE StartRun \/ SubmitBatch
  <2>1. \A v \in Workers : wstate'[v] \notin {"writing", "done"} /\ chunk'[v] = {}
    BY <1>8 DEF StartRun, SubmitBatch
  <2> QED
    BY <2>1 DEF ChunkProgress
<1>9. CASE AbortBatch \/ Kill
  BY <1>4, <1>9 DEF AbortBatch, Kill, TypeOK
<1>10. ASSUME NEW w \in Workers, FailRoutes(w) \/ \E s \in Shards : FailShard(w, s)
       PROVE  ChunkProgress'
  BY <1>4, <1>10 DEF FailRoutes, FailShard, TypeOK
<1>11. CASE UNCHANGED threads
  BY <1>4, <1>11 DEF threads
<1> QED
  BY <1>5, <1>6, <1>7, <1>8, <1>9, <1>10, <1>11
  DEF Next, MainStep, WorkerStep, vars, CollectBatch, ExitFailure, ExitSuccess,
      ReadRoute, ReadShard

-----------------------------------------------------------------------------
(* The main thread: what a run has accounted for. *)

LEMMA MadeAccountedStep ==
    ASSUME TypeOK, TypeOK', RoutesHome, RoutesHome', ChunkProgress, ThreadsByPhase,
           MadeAccounted, [Next]_vars
    PROVE  MadeAccounted'
<1> USE DEF MadeAccounted, main, threads, history
<1>1. Reachable \subseteq Reachable'
  BY StepGrows, ReachableGrows
<1>2. CASE StartRun
  BY <1>2 DEF StartRun
<1>3. CASE SubmitBatch
  BY <1>1, <1>3 DEF SubmitBatch
<1>4. CASE CollectBatch
  <2>1. \A w \in Given : chunk[w] \subseteq Reachable
    BY <1>4 DEF CollectBatch, ChunkProgress, Given
  <2>2. made \subseteq Reachable
    BY <1>4, <2>1 DEF CollectBatch, TypeOK
  <2> QED
    BY <1>1, <1>4, <2>2 DEF CollectBatch
<1>5. CASE AbortBatch
  BY <1>5 DEF AbortBatch
<1>6. CASE ExitFailure \/ ExitSuccess \/ Kill
  BY <1>6 DEF ExitFailure, ExitSuccess, Kill
<1>7. ASSUME NEW w \in Workers, BeginChunk(w) PROVE MadeAccounted'
  <2>1. PICK S \in SUBSET (Users \ used) :
           chunk' = [chunk EXCEPT ![w] = S] /\ made' = made \cup S
    BY <1>7 DEF BeginChunk, kSubset
  <2>2. UNCHANGED <<pc, exit, size, db>>
    BY <1>7 DEF BeginChunk
  <2>3. pc # "loop"
    BY <1>7 DEF BeginChunk, ThreadsByPhase
  <2>4. ASSUME pc = "collect", NEW u \in made'
        PROVE  u \in Reachable' \/ \E v \in Given' : u \in chunk'[v]
    <3>1. Given' = Given /\ w \in Given
      BY <1>7, <2>2, <2>4 DEF BeginChunk, Given, ThreadsByPhase
    <3>2. CASE u \in S
      BY <2>1, <3>1, <3>2 DEF TypeOK
    <3>3. CASE u \in made /\ u \notin Reachable /\ u \in chunk[w]
      BY <1>7, <3>3 DEF BeginChunk, ChunkProgress
    <3>4. CASE \E v \in Given \ {w} : u \in chunk[v]
      BY <2>1, <3>1, <3>4 DEF TypeOK, Given
    <3> QED
      BY <1>1, <2>1, <2>4, <3>1, <3>2, <3>3, <3>4
  <2> QED
    BY <2>2, <2>3, <2>4
<1>8. CASE UNCHANGED <<main, size, chunk, made>>
  BY <1>1, <1>8 DEF Given
<1> QED
  BY <1>2, <1>3, <1>4, <1>5, <1>6, <1>7, <1>8
  DEF Next, MainStep, WorkerStep, vars, FinishChunk, FailRoutes, CommitShard, FailShard,
      ReadRoute, ReadShard

LEMMA SuccessReachableStep ==
    ASSUME TypeOK, TypeOK', RoutesHome, RoutesHome', ThreadsByPhase, MadeAccounted,
           SuccessReachable, [Next]_vars
    PROVE  SuccessReachable'
<1> USE DEF SuccessReachable
<1>1. Reachable \subseteq Reachable'
  BY StepGrows, ReachableGrows
<1>2. CASE ExitSuccess
  <2>1. made \subseteq Reachable
    BY <1>2 DEF ExitSuccess, MadeAccounted
  <2> QED
    BY <1>1, <1>2, <2>1 DEF ExitSuccess
<1>3. CASE UNCHANGED settled /\ exit' # "success"
  BY <1>1, <1>3
<1>4. CASE UNCHANGED <<settled, exit, made>>
  BY <1>1, <1>4
<1>5. ASSUME NEW w \in Workers, BeginChunk(w) PROVE SuccessReachable'
  <2>1. exit' = "none" /\ UNCHANGED settled
    BY <1>5 DEF BeginChunk, ThreadsByPhase, MadeAccounted, main
  <2> QED
    BY <1>3, <2>1
<1> QED
  BY <1>2, <1>3, <1>4, <1>5
  DEF Next, MainStep, WorkerStep, vars, main, history, StartRun, SubmitBatch, CollectBatch,
      AbortBatch, ExitFailure, Kill, FinishChunk, FailRoutes, CommitShard, FailShard,
      ReadRoute, ReadShard

-----------------------------------------------------------------------------
(* The reader: a route it holds stays good until it uses it. *)

LEMMA ReaderStep ==
    ASSUME TypeOK, TypeOK', RoutesHome, RoutesHome', SuccessReachable, ReaderSound,
           RoutedReadFinds, OwedIsFound, [Next]_vars
    PROVE  (ReaderSound /\ RoutedReadFinds /\ OwedIsFound)'
<1> USE DEF ReaderSound, RoutedReadFinds, OwedIsFound
<1>1. Grows
  BY StepGrows
<1>2. settled \subseteq settled'
  BY DEF Next, MainStep, WorkerStep, vars, history, StartRun, SubmitBatch, CollectBatch,
         AbortBatch, ExitFailure, ExitSuccess, Kill, BeginChunk, FinishChunk, FailRoutes,
         CommitShard, FailShard, ReadRoute, ReadShard
<1>3. CASE UNCHANGED reader
  <2>1. reader.shard \in Shards
    BY DEF TypeOK
  <2> QED
    BY <1>1, <1>2, <1>3, <2>1 DEF Grows
<1>4. ASSUME NEW u \in Users, ReadRoute(u)
      PROVE  (ReaderSound /\ RoutedReadFinds /\ OwedIsFound)'
  <2>1. HasTarget(u) => Target(u) = Home[u]
    BY ShardsAssumption DEF RoutesHome, HasTarget, Target, IndexOf, ShardId, Shards
  <2>2. u \in settled => u \in Reachable
    BY DEF SuccessReachable
  <2>3. u \in Reachable => HasTarget(u) /\ u \in rows[Home[u]]
    BY <2>1 DEF Reachable
  <2>4. UseLookup /\ HasTarget(u) => u \in rows[Home[u]]
    BY DEF RoutesHome, HasTarget
  <2>5. /\ reader'.pc = IF HasTarget(u) THEN "routed" ELSE "unrouted"
        /\ reader'.user = u /\ reader'.owed = (u \in settled)
        /\ HasTarget(u) => reader'.shard = Target(u)
        /\ UNCHANGED <<rows, settled>>
    BY <1>4 DEF ReadRoute, db, history
  <2> QED
    BY <2>1, <2>2, <2>3, <2>4, <2>5
<1>5. CASE ReadShard
  <2>1. /\ reader'.pc = IF reader.user \in rows[reader.shard] THEN "found" ELSE "missing"
        /\ reader'.owed = reader.owed /\ reader'.user = reader.user
        /\ UNCHANGED settled
    BY <1>5 DEF ReadShard, TypeOK, history
  <2> QED
    BY <1>5, <2>1 DEF ReadShard
<1> QED
  BY <1>3, <1>4, <1>5
  DEF Next, MainStep, WorkerStep, vars, StartRun, SubmitBatch, CollectBatch,
      AbortBatch, ExitFailure, ExitSuccess, Kill, BeginChunk, FinishChunk, FailRoutes,
      CommitShard, FailShard

-----------------------------------------------------------------------------
(* The theorems. *)

LEMMA InitIInv == Init => IInv
<1> SUFFICES ASSUME Init PROVE IInv
  OBVIOUS
<1>1. TypeOK
  BY InitType
<1>2. reader.pc = "idle" /\ reader.owed = FALSE
  <2>1. PICK u \in Users :
           reader = [pc |-> "idle", user |-> u, shard |-> 0, owed |-> FALSE]
    BY Zenon DEF Init
  <2> QED
    BY <2>1
<1>3. ThreadsByPhase /\ ChunkProgress /\ RoutesHome /\ MadeAccounted
  BY DEF Init, ThreadsByPhase, ChunkProgress, RoutesHome, MadeAccounted
<1> QED
  BY <1>1, <1>2, <1>3
  DEF Init, IInv, SuccessReachable, ReaderSound, RoutedReadFinds, OwedIsFound

LEMMA IInvStep == IInv /\ [Next]_vars => IInv'
<1> SUFFICES ASSUME IInv, [Next]_vars PROVE IInv'
  OBVIOUS
<1>1. TypeOK'
  BY TypeStep DEF IInv
<1>2. RoutesHome'
  BY RoutesHomeStep DEF IInv
<1>3. ChunkProgress'
  BY <1>1, <1>2, ChunkProgressStep DEF IInv
<1>4. ThreadsByPhase'
  BY ThreadsByPhaseStep DEF IInv
<1>5. MadeAccounted'
  BY <1>1, <1>2, MadeAccountedStep DEF IInv
<1>6. SuccessReachable'
  BY <1>1, <1>2, SuccessReachableStep DEF IInv
<1>7. (ReaderSound /\ RoutedReadFinds /\ OwedIsFound)'
  BY <1>1, <1>2, ReaderStep DEF IInv
<1> QED
  BY <1>1, <1>2, <1>3, <1>4, <1>5, <1>6, <1>7 DEF IInv

\* IInv holds in every reachable state.
THEOREM Inductive == Spec => []IInv
BY InitIInv, IInvStep, PTL DEF Spec

\* A routing row never points at a shard that lacks the user's row, for any
\* interleaving of chunks, failures, kills and restarts.
THEOREM RoutesAreSound == Spec => []RouteSound
<1>1. IInv => RouteSound
  BY ShardsAssumption DEF IInv, RoutesHome, RouteSound, ShardId, IndexOf, Shards
<1> QED
  BY <1>1, Inductive, PTL

\* A routing answer in the lookup profile is always followed by a row.
THEOREM RoutedReadsFind == Spec => []RoutedReadFinds
<1>1. IInv => RoutedReadFinds
  BY DEF IInv
<1> QED
  BY <1>1, Inductive, PTL

\* Success means reachable, for good.
THEOREM SuccessIsReachable == Spec => []SuccessReachable
<1>1. IInv => SuccessReachable
  BY DEF IInv
<1> QED
  BY <1>1, Inductive, PTL

\* No request for a user of a successful run is answered "not found".
THEOREM OwedUsersAreFound == Spec => []OwedIsFound
<1>1. IInv => OwedIsFound
  BY DEF IInv
<1> QED
  BY <1>1, Inductive, PTL

\* Once the script has exited, the databases are at rest until it is started
\* again: no pool thread outlives the process's controlled exit.
THEOREM DatabasesAtRest == Spec => StillAfterExit
<1>1. IInv /\ [Next]_vars => [(pc = "exited" /\ pc' = "exited") => UNCHANGED db]_vars
  BY DEF IInv, ThreadsByPhase, Next, MainStep, WorkerStep, vars, db, StartRun, SubmitBatch,
         CollectBatch, AbortBatch, ExitFailure, ExitSuccess, Kill, BeginChunk, FinishChunk,
         FailRoutes, CommitShard, FailShard, ReadRoute, ReadShard
<1> QED
  BY <1>1, Inductive, PTL DEF Spec, StillAfterExit

-----------------------------------------------------------------------------
(* The chunks, and what they add up to. *)

\* Chunks share no user, and a user who was never generated is nowhere.
Apart ==
    /\ \A v, w \in Workers : v # w => chunk[v] \cap chunk[w] = {}
    /\ \A w \in Workers : chunk[w] \subseteq made
    /\ \A u \in Users \ used : route[u] = NoEntry /\ \A s \in Shards : u \notin rows[s]

\* A chunk is routed as a whole, or not at all.
AllOrNothing ==
    \A w \in Workers :
        \/ \A u \in chunk[w] : route[u] = NoEntry
        \/ \A u \in chunk[w] : route[u] # NoEntry

\* The books of a run: what was generated, what was reported and what is left.
Counting ==
    /\ pc = "loop" => Cardinality(made) = total /\ total + remaining = Count
    /\ pc = "collect" =>
          /\ Cardinality(made) = total + BatchTotal /\ total + remaining = Count
          /\ size = ChunkSizes(BatchOf(remaining))
          /\ \A w \in Given : wstate[w] # "queued" => Cardinality(chunk[w]) = size[w]

ChunkInv == Apart /\ AllOrNothing /\ Counting /\ ExactTotal

\* The rows of finished chunks, counted by pairs of a chunk and a user.
Pairs == {p \in Given \X Users : p[2] \in chunk[p[1]]}

\* There are finitely many users and pairs.
LEMMA PairsFinite ==
    ASSUME TypeOK
    PROVE  /\ \A S \in SUBSET Users : IsFiniteSet(S) /\ Cardinality(S) \in Nat
           /\ \A T \in SUBSET Pairs : IsFiniteSet(T) /\ Cardinality(T) \in Nat
<1>1. IsFiniteSet(Workers)
  BY SizesAssumption, FS_Interval DEF Workers
<1>2. IsFiniteSet(Given)
  BY <1>1, FS_Subset DEF Given
<1>3. IsFiniteSet(Given \X Users)
  BY <1>2, UsersAssumption, FS_Product
<1>4. Pairs \subseteq Given \X Users
  BY DEF Pairs
<1> QED
  BY <1>3, <1>4, UsersAssumption, FS_Subset, FS_CardinalityType

\* A thread contributes the users of its chunk.
LEMMA ThreadPairs ==
    ASSUME TypeOK, NEW w \in Workers,
           w \in Given => Cardinality(chunk[w]) = size[w]
    PROVE  Cardinality({p \in Pairs : p[1] = w}) = size[w]
<1> DEFINE C == {p \in Pairs : p[1] = w}
<1>1. CASE w \in Given
  <2>1. chunk[w] \in SUBSET Users
    BY DEF TypeOK
  <2>2. C = {w} \X chunk[w]
    BY <1>1, <2>1 DEF Pairs
  <2>3. Cardinality({w} \X chunk[w]) = Cardinality({w}) * Cardinality(chunk[w])
    BY <2>1, PairsFinite, FS_Singleton, FS_Product
  <2>4. Cardinality({w}) = 1 /\ Cardinality(chunk[w]) \in Nat
    BY <2>1, PairsFinite, FS_Singleton
  <2> HIDE DEF C
  <2>5. Cardinality(C) = Cardinality(chunk[w])
    BY <2>2, <2>3, <2>4
  <2> QED
    BY <1>1, <2>5 DEF C
<1>2. CASE w \notin Given
  <2>1. C = {}
    BY <1>2 DEF Pairs
  <2>2. size[w] = 0
    BY <1>2 DEF Given, TypeOK
  <2> QED
    BY <2>1, <2>2, FS_EmptySet
<1> QED
  BY <1>1, <1>2

\* A batch whose chunks all have the size they were given adds up to the batch,
\* the remainder of the division included.
LEMMA BatchAddsUp ==
    ASSUME TypeOK, NEW batch \in Nat, size = ChunkSizes(batch),
           \A w \in Given : Cardinality(chunk[w]) = size[w]
    PROVE  BatchTotal = batch
<1> DEFINE each == batch \div Threads
           rem  == batch % Threads
           Upto(n) == {p \in Pairs : p[1] <= n}
           P == {n \in Nat : n < Threads => Cardinality(Upto(n + 1)) = size[1] + n * each}
<1>1. /\ Threads \in Nat \ {0} /\ each \in Nat /\ rem \in Nat
      /\ batch = Threads * each + rem
  <2>1. Threads \in Nat \ {0}
    BY SizesAssumption
  <2>2. /\ batch = Threads * each + rem
        /\ rem \in Nat /\ rem < Threads /\ each \in Int
    BY <2>1
  <2>3. each >= 0
    <3>1. SUFFICES ASSUME each <= -1 PROVE FALSE
      BY <2>2
    <3>2. Threads * each <= -Threads
      BY <2>1, <2>2, <3>1
    <3> QED
      BY <2>1, <2>2, <3>2
  <2> QED
    BY <2>1, <2>2, <2>3
<1>2. Workers = 1 .. Threads /\ 1 \in Workers
  BY <1>1 DEF Workers
<1>3. /\ size[1] = IF each = 0 THEN batch ELSE each + rem
      /\ \A w \in Workers : w # 1 => size[w] = each
  <2>1. \A w \in Workers : size[w] = IF each = 0 THEN (IF w = 1 THEN batch ELSE 0)
                                      ELSE each + (IF w = 1 THEN rem ELSE 0)
    BY DEF ChunkSizes
  <2> HIDE DEF each, rem
  <2>2. each \in Nat /\ each + 0 = each
    BY <1>1
  <2> QED
    BY <1>2, <2>1, <2>2
<1> HIDE DEF each, rem
<1>4. \A w \in Workers : Cardinality({p \in Pairs : p[1] = w}) = size[w]
  BY ThreadPairs
<1>5. \A p \in Pairs : p[1] \in 1 .. Threads
  BY <1>2 DEF Pairs, Given
<1>6. size[1] \in Nat
  BY <1>2 DEF TypeOK
<1>7. 0 \in P
  <2>1. Upto(1) = {p \in Pairs : p[1] = 1}
    BY <1>5
  <2>2. Cardinality(Upto(1)) = size[1]
    BY <1>2, <1>4, <2>1
  <2>3. 0 + 1 = 1 /\ size[1] + 0 * each = size[1]
    BY <1>1, <1>6
  <2> QED
    BY <2>2, <2>3
<1>8. ASSUME NEW n \in Nat, n \in P PROVE n + 1 \in P
  <2> SUFFICES ASSUME n + 1 < Threads
               PROVE  Cardinality(Upto(n + 2)) = size[1] + (n + 1) * each
    OBVIOUS
  <2>1. Cardinality(Upto(n + 1)) = size[1] + n * each
    BY <1>1, <1>8
  <2> DEFINE C == {p \in Pairs : p[1] = n + 2}
  <2>2. n + 2 \in Workers /\ n + 2 # 1
    BY <1>1, <1>2
  <2>3. Cardinality(C) = each
    BY <1>3, <1>4, <2>2
  <2>4. Upto(n + 2) = Upto(n + 1) \cup C /\ Upto(n + 1) \cap C = {}
    BY <1>5
  <2>5. Upto(n + 1) \in SUBSET Pairs /\ C \in SUBSET Pairs
    OBVIOUS
  <2> HIDE DEF Upto, C
  <2>6. Cardinality(Upto(n + 2)) = Cardinality(Upto(n + 1)) + Cardinality(C) - Cardinality({})
    BY <2>4, <2>5, PairsFinite, FS_Union
  <2>7. Cardinality(Upto(n + 2)) = size[1] + n * each + each
    BY <1>1, <1>6, <2>1, <2>3, <2>6, FS_EmptySet
  <2> QED
    BY <1>1, <1>6, <2>7
<1> HIDE DEF P
<1>9. Nat \subseteq P
  BY <1>7, <1>8, NumberInduction
<1>10. Threads - 1 \in P /\ (Threads - 1) + 1 = Threads /\ Threads - 1 < Threads
  BY <1>1, <1>9
<1>11. Cardinality(Upto(Threads)) = size[1] + (Threads - 1) * each
  BY <1>10 DEF P
<1>12. Upto(Threads) = Pairs
  BY <1>1, <1>5
<1>13. size[1] + (Threads - 1) * each = batch
  <2>1. CASE each = 0
    BY <1>1, <1>3, <2>1
  <2>2. CASE each # 0
    <3>1. size[1] = each + rem
      BY <1>3, <2>2
    <3>2. each + (Threads - 1) * each = Threads * each
      BY <1>1
    <3> QED
      BY <1>1, <3>1, <3>2
  <2> QED
    BY <2>1, <2>2
<1> QED
  BY <1>11, <1>12, <1>13 DEF BatchTotal, Pairs

\* New users are put on the books of the run and of their chunk.
LEMMA BeginCounts ==
    ASSUME IInv, ChunkInv, NEW w \in Workers, BeginChunk(w)
    PROVE  /\ pc = "collect" /\ w \in Given
           /\ \E S \in SUBSET (Users \ used) :
                 /\ Cardinality(S) = size[w]
                 /\ chunk' = [chunk EXCEPT ![w] = S]
                 /\ made' = made \cup S /\ used' = used \cup S
                 /\ Cardinality(made') = Cardinality(made) + size[w]
                 /\ BatchTotal' = BatchTotal + size[w]
<1> USE DEF IInv
<1>1. pc = "collect" /\ w \in Given /\ chunk[w] = {}
  BY DEF BeginChunk, ThreadsByPhase, ChunkProgress, Given, TypeOK
<1>2. PICK S \in SUBSET (Users \ used) :
         /\ Cardinality(S) = size[w]
         /\ chunk' = [chunk EXCEPT ![w] = S]
         /\ made' = made \cup S /\ used' = used \cup S
  BY DEF BeginChunk, kSubset
<1>3. size' = size
  BY DEF BeginChunk
<1>4. Cardinality(made') = Cardinality(made) + size[w]
  <2>1. made \in SUBSET Users /\ S \in SUBSET Users /\ made \cap S = {}
    BY DEF TypeOK
  <2>2. Cardinality(made \cup S) = Cardinality(made) + Cardinality(S) - Cardinality({})
    BY <2>1, PairsFinite, FS_Union
  <2> QED
    BY <1>2, <2>1, <2>2, PairsFinite, FS_EmptySet
<1>5. BatchTotal' = BatchTotal + size[w]
  <2> DEFINE C == {w} \X S
  <2>1. Given' = Given
    BY <1>3 DEF Given
  <2>2. Pairs' = {p \in Given \X Users : p[2] \in chunk'[p[1]]}
    BY <2>1 DEF Pairs
  <2>3. chunk'[w] = S /\ \A v \in Workers \ {w} : chunk'[v] = chunk[v]
    BY <1>2 DEF TypeOK
  <2>4. Pairs' = Pairs \cup C
    <3>1. \A v \in Given : v \in Workers
      BY DEF Given
    <3> QED
      BY <1>1, <2>2, <2>3, <3>1 DEF Pairs
  <2>5. Pairs \cap C = {}
    BY <1>1 DEF Pairs
  <2>6. IsFiniteSet(C) /\ Cardinality(C) = size[w]
    <3>1. IsFiniteSet(S) /\ Cardinality(S) \in Nat /\ S \in SUBSET Users
      BY PairsFinite
    <3>2. IsFiniteSet({w}) /\ Cardinality({w}) = 1
      BY FS_Singleton
    <3>3. IsFiniteSet(C) /\ Cardinality(C) = Cardinality({w}) * Cardinality(S)
      BY <3>1, <3>2, FS_Product
    <3> QED
      BY <1>2, <3>1, <3>2, <3>3
  <2>7. IsFiniteSet(Pairs) /\ Cardinality(Pairs) \in Nat
    BY PairsFinite
  <2> HIDE DEF C
  <2>8. Cardinality(Pairs \cup C) = Cardinality(Pairs) + Cardinality(C) - Cardinality({})
    BY <2>5, <2>6, <2>7, FS_Union
  <2>9. size[w] \in Nat
    BY DEF TypeOK
  <2>10. Cardinality(Pairs') = Cardinality(Pairs) + size[w]
    BY <2>4, <2>6, <2>7, <2>8, <2>9, FS_EmptySet
  <2> QED
    BY <2>10 DEF BatchTotal, Pairs
<1> QED
  BY <1>1, <1>2, <1>4, <1>5

LEMMA BeginChunkInv ==
    ASSUME IInv, ChunkInv, NEW w \in Workers, BeginChunk(w)
    PROVE  ChunkInv'
<1> USE DEF IInv, ChunkInv
<1>1. /\ pc = "collect" /\ w \in Given
      /\ \E S \in SUBSET (Users \ used) :
            /\ Cardinality(S) = size[w]
            /\ chunk' = [chunk EXCEPT ![w] = S]
            /\ made' = made \cup S /\ used' = used \cup S
            /\ Cardinality(made') = Cardinality(made) + size[w]
            /\ BatchTotal' = BatchTotal + size[w]
  BY BeginCounts
<1>2. PICK S \in SUBSET (Users \ used) :
         /\ Cardinality(S) = size[w]
         /\ chunk' = [chunk EXCEPT ![w] = S]
         /\ made' = made \cup S /\ used' = used \cup S
         /\ Cardinality(made') = Cardinality(made) + size[w]
         /\ BatchTotal' = BatchTotal + size[w]
  BY <1>1
<1>3. /\ UNCHANGED <<rows, route, pc, exit, total, remaining, size>>
      /\ wstate' = [wstate EXCEPT ![w] = "writing"]
  BY DEF BeginChunk, main, db
<1>4. chunk'[w] = S /\ \A v \in Workers \ {w} : chunk'[v] = chunk[v]
  BY <1>2 DEF TypeOK
<1>5. \A v \in Workers : chunk[v] \cap S = {}
  BY DEF Apart, TypeOK
<1>6. Apart'
  <2>1. \A v, x \in Workers : v # x => chunk'[v] \cap chunk'[x] = {}
    BY <1>4, <1>5 DEF Apart
  <2>2. \A v \in Workers : chunk'[v] \subseteq made'
    BY <1>2, <1>4 DEF Apart
  <2>3. \A u \in Users \ used' : route[u] = NoEntry /\ \A s \in Shards : u \notin rows[s]
    BY <1>2 DEF Apart
  <2> QED
    BY <1>3, <2>1, <2>2, <2>3 DEF Apart
<1>7. AllOrNothing'
  <2>1. \A u \in S : route[u] = NoEntry
    BY DEF Apart
  <2> QED
    BY <1>3, <1>4, <2>1 DEF AllOrNothing
<1>8. Counting'
  <2>1. total \in Nat /\ size[w] \in Nat /\ Cardinality(made) \in Nat /\ BatchTotal \in Nat
    BY BatchTotalType, PairsFinite DEF TypeOK
  <2>2. Cardinality(made') = total' + BatchTotal'
    BY <1>1, <1>2, <1>3, <2>1 DEF Counting
  <2>3. size' = ChunkSizes(BatchOf(remaining'))
    BY <1>1, <1>3 DEF Counting
  <2>4. ASSUME NEW v \in Given', wstate'[v] # "queued" PROVE Cardinality(chunk'[v]) = size'[v]
    <3>1. v \in Given /\ v \in Workers
      BY <1>3, <2>4 DEF Given
    <3>2. CASE v = w
      BY <1>2, <1>3, <1>4, <3>2
    <3>3. CASE v # w
      <4>1. wstate'[v] = wstate[v] /\ chunk'[v] = chunk[v]
        BY <1>3, <1>4, <3>1, <3>3 DEF TypeOK
      <4> QED
        BY <1>1, <1>3, <2>4, <3>1, <4>1 DEF Counting
    <3> QED
      BY <3>2, <3>3
  <2>5. ChunkSizes(BatchOf(remaining'))  = ChunkSizes(BatchOf(remaining))'
    BY DEF ChunkSizes, BatchOf
  <2> QED
    BY <1>1, <1>3, <2>2, <2>3, <2>4, <2>5 DEF Counting
<1>9. ExactTotal'
  <2>1. exit' = "none"
    BY <1>1, <1>3 DEF MadeAccounted
  <2> QED
    BY <2>1 DEF ExactTotal
<1> QED
  BY <1>6, <1>7, <1>8, <1>9

\* What the other steps of a thread have in common.
LEMMA WriteSteps ==
    ASSUME IInv, NEW w \in Workers, WorkerStep(w), ~ BeginChunk(w)
    PROVE  /\ pc \in {"collect", "drain"} /\ exit = "none" /\ wstate[w] = "writing"
           /\ UNCHANGED <<pc, exit, total, remaining, size, chunk, made, used>>
           /\ \A v \in Workers : wstate'[v] # "queued" => wstate[v] # "queued"
           /\ route' = route \/ (UseLookup /\ route' = WithRoutes(w) /\ rows' = rows)
           /\ \A s \in Shards : rows'[s] \subseteq rows[s] \cup chunk[w]
<1> USE DEF main, threads, history, IInv
<1>1. /\ wstate[w] = "writing"
      /\ UNCHANGED <<pc, exit, total, remaining, size, chunk, made, used>>
      /\ wstate' = wstate \/ \E x \in {"done", "failed"} : wstate' = [wstate EXCEPT ![w] = x]
  BY DEF WorkerStep, FinishChunk, FailRoutes, CommitShard, FailShard
<1>2. pc \in {"collect", "drain"} /\ exit = "none"
  BY <1>1 DEF ThreadsByPhase, MadeAccounted, TypeOK
<1>3. \A v \in Workers : wstate'[v] # "queued" => wstate[v] # "queued"
  BY <1>1 DEF TypeOK
<1>4. route' = route \/ (UseLookup /\ route' = WithRoutes(w) /\ rows' = rows)
  BY DEF WorkerStep, FinishChunk, FailRoutes, CommitShard, FailShard
<1>5. \A s \in Shards : rows'[s] \subseteq rows[s] \cup chunk[w]
  <2>1. \A s, t \in Shards : WithRows(w, s)[t] \subseteq rows[t] \cup chunk[w]
    BY DEF WithRows, OnShard, TypeOK
  <2>2. rows' = rows \/ \E s \in Shards : rows' = WithRows(w, s)
    BY DEF WorkerStep, FinishChunk, FailRoutes, CommitShard, FailShard
  <2> QED
    BY <2>1, <2>2
<1> QED
  BY <1>1, <1>2, <1>3, <1>4, <1>5

LEMMA WriteChunkInv ==
    ASSUME IInv, ChunkInv, NEW w \in Workers, WorkerStep(w), ~ BeginChunk(w)
    PROVE  ChunkInv'
<1> USE DEF IInv, ChunkInv
<1>1. /\ pc \in {"collect", "drain"} /\ exit = "none"
      /\ UNCHANGED <<pc, exit, total, remaining, size, chunk, made, used>>
      /\ \A v \in Workers : wstate'[v] # "queued" => wstate[v] # "queued"
      /\ route' = route \/ (UseLookup /\ route' = WithRoutes(w) /\ rows' = rows)
      /\ \A s \in Shards : rows'[s] \subseteq rows[s] \cup chunk[w]
  BY WriteSteps
<1>2. chunk[w] \subseteq made /\ made \subseteq used /\ used \subseteq Users
  BY DEF Apart, TypeOK
<1>3. \A u \in Users : WithRoutes(w)[u] = IF u \in chunk[w] THEN ShardId(Home[u]) ELSE route[u]
  BY DEF WithRoutes
<1>4. Apart'
  <2>1. \A u \in Users \ used : route'[u] = NoEntry
    BY <1>1, <1>2, <1>3 DEF Apart
  <2>2. \A u \in Users \ used : \A s \in Shards : u \notin rows'[s]
    BY <1>1, <1>2 DEF Apart
  <2> QED
    BY <1>1, <2>1, <2>2 DEF Apart
<1>5. AllOrNothing'
  <2>1. CASE route' = route
    BY <1>1, <2>1 DEF AllOrNothing
  <2>2. CASE route' = WithRoutes(w)
    <3> SUFFICES ASSUME NEW v \in Workers
                 PROVE  \/ \A u \in chunk[v] : route'[u] = NoEntry
                        \/ \A u \in chunk[v] : route'[u] # NoEntry
      BY <1>1 DEF AllOrNothing
    <3>1. chunk[v] \subseteq Users
      BY DEF TypeOK
    <3>2. CASE v = w
      <4>1. \A u \in Users : ShardId(Home[u]) # NoEntry
        BY ShardsAssumption DEF ShardId, NoEntry, Shards
      <4> QED
        BY <1>3, <2>2, <3>1, <3>2, <4>1
    <3>3. CASE v # w
      <4>1. \A u \in chunk[v] : route'[u] = route[u]
        BY <1>3, <2>2, <3>1, <3>3 DEF Apart
      <4> QED
        BY <4>1 DEF AllOrNothing
    <3> QED
      BY <3>2, <3>3
  <2> QED
    BY <1>1, <2>1, <2>2
<1>6. Counting'
  <2>1. Given' = Given
    BY <1>1 DEF Given
  <2>2. BatchTotal' = BatchTotal
    BY <1>1, <2>1 DEF BatchTotal
  <2>3. ChunkSizes(BatchOf(remaining))' = ChunkSizes(BatchOf(remaining))
    BY <1>1 DEF ChunkSizes, BatchOf
  <2>4. \A v \in Given : v \in Workers
    BY DEF Given
  <2> QED
    BY <1>1, <2>1, <2>2, <2>3, <2>4 DEF Counting
<1>7. ExactTotal'
  BY <1>1 DEF ExactTotal
<1> QED
  BY <1>4, <1>5, <1>6, <1>7

\* The steps of the main thread balance the books.
LEMMA MainChunkInv ==
    ASSUME IInv, ChunkInv, MainStep
    PROVE  ChunkInv'
<1> USE DEF IInv, ChunkInv, main, threads, db, history
<1>0. remaining \in Nat /\ total \in Nat /\ Cardinality(made) \in Nat
  BY PairsFinite DEF TypeOK
<1>1. UNCHANGED <<made, used, rows, route>>
  BY DEF MainStep, SubmitBatch, CollectBatch, AbortBatch, ExitFailure, ExitSuccess
<1>2. \A w \in Workers : chunk'[w] = chunk[w] \/ chunk'[w] = {}
  BY DEF MainStep, SubmitBatch, CollectBatch, AbortBatch, ExitFailure, ExitSuccess
<1>3. Apart' /\ AllOrNothing'
  BY <1>1, <1>2 DEF Apart, AllOrNothing
<1>4. CASE SubmitBatch
  <2>1. /\ pc = "loop" /\ pc' = "collect" /\ UNCHANGED <<exit, total, remaining>>
        /\ size' = ChunkSizes(BatchOf(remaining))
        /\ \A w \in Workers : size'[w] > 0 => wstate'[w] = "queued"
        /\ \A w \in Workers : chunk'[w] = {}
    BY <1>4 DEF SubmitBatch
  <2>2. BatchTotal' = 0
    <3>1. {p \in Given \X Users : p[2] \in chunk[p[1]]}' = {}
      BY <2>1 DEF Given
    <3> QED
      BY <3>1, FS_EmptySet DEF BatchTotal
  <2>3. ChunkSizes(BatchOf(remaining))' = ChunkSizes(BatchOf(remaining))
    BY <2>1 DEF ChunkSizes, BatchOf
  <2>4. Counting'
    <3>1. \A w \in Given' : wstate'[w] = "queued"
      BY <2>1 DEF Given
    <3> QED
      BY <1>0, <1>1, <2>1, <2>2, <2>3, <3>1 DEF Counting
  <2>5. ExactTotal'
    BY <2>1 DEF ExactTotal, MadeAccounted
  <2> QED
    BY <1>3, <2>4, <2>5
<1>5. CASE CollectBatch
  <2>1. /\ pc = "collect" /\ pc' = "loop" /\ exit' = exit
        /\ total' = total + BatchTotal /\ remaining' = remaining - BatchOf(remaining)
        /\ \A w \in Given : wstate[w] = "done"
    BY <1>5 DEF CollectBatch
  <2>2. BatchOf(remaining) \in Nat /\ BatchOf(remaining) <= remaining
    BY <1>0, SizesAssumption DEF BatchOf
  <2>3. BatchTotal = BatchOf(remaining)
    BY <2>1, <2>2, BatchAddsUp DEF Counting
  <2>4. Counting'
    BY <1>0, <1>1, <2>1, <2>2, <2>3 DEF Counting
  <2>5. ExactTotal'
    BY <2>1 DEF ExactTotal, MadeAccounted
  <2> QED
    BY <1>3, <2>4, <2>5
<1>6. CASE AbortBatch \/ ExitFailure
  <2>1. \/ pc' = "drain" /\ exit' = exit /\ pc # "exited"
        \/ pc' = "exited" /\ exit' = "failure"
    BY <1>6 DEF AbortBatch, ExitFailure
  <2> QED
    BY <1>3, <2>1 DEF Counting, ExactTotal, MadeAccounted
<1>7. CASE ExitSuccess
  <2>1. pc = "loop" /\ remaining = 0 /\ pc' = "exited" /\ UNCHANGED <<total, made>>
    BY <1>7 DEF ExitSuccess
  <2>2. total = Count /\ Cardinality(made) = Count
    BY <1>0, <2>1 DEF Counting
  <2> QED
    BY <1>3, <2>1, <2>2 DEF Counting, ExactTotal
<1> QED
  BY <1>4, <1>5, <1>6, <1>7 DEF MainStep

LEMMA ChunkInvStep == IInv /\ ChunkInv /\ [Next]_vars => ChunkInv'
<1> SUFFICES ASSUME IInv, ChunkInv, [Next]_vars PROVE ChunkInv'
  OBVIOUS
<1> USE DEF ChunkInv
<1>1. CASE StartRun
  <2>1. /\ pc' = "loop" /\ exit' = "none" /\ remaining' = Count /\ total' = 0 /\ made' = {}
        /\ \A w \in Workers : chunk'[w] = {}
        /\ UNCHANGED <<rows, route, used>>
    BY <1>1 DEF StartRun, db
  <2>2. 0 + Count = Count
    BY SizesAssumption
  <2> QED
    BY <2>1, <2>2, FS_EmptySet DEF Apart, AllOrNothing, Counting, ExactTotal
<1>2. CASE MainStep
  BY <1>2, MainChunkInv
<1>3. CASE Kill
  <2>1. pc' = "exited" /\ exit' = "killed" /\ UNCHANGED <<chunk, made, used, rows, route>>
    BY <1>3 DEF Kill, db, history
  <2> QED
    BY <2>1 DEF Apart, AllOrNothing, Counting, ExactTotal
<1>4. ASSUME NEW w \in Workers, WorkerStep(w) PROVE ChunkInv'
  BY <1>4, BeginChunkInv, WriteChunkInv
<1>5. CASE UNCHANGED <<main, threads, db, history>>
  <2>1. /\ UNCHANGED <<pc, exit, total, remaining>> /\ UNCHANGED <<wstate, size, chunk>>
        /\ UNCHANGED <<rows, route>> /\ UNCHANGED <<made, used>>
    BY <1>5 DEF main, threads, db, history
  <2>2. Given' = Given
    BY <2>1 DEF Given
  <2>3. BatchTotal' = BatchTotal
    BY <2>1, <2>2 DEF BatchTotal
  <2>4. ChunkSizes(BatchOf(remaining))' = ChunkSizes(BatchOf(remaining))
    BY <2>1 DEF ChunkSizes, BatchOf
  <2> QED
    BY <2>1, <2>2, <2>3, <2>4 DEF Apart, AllOrNothing, Counting, ExactTotal
<1> QED
  BY <1>1, <1>2, <1>3, <1>4, <1>5 DEF Next, vars, ReadRoute, ReadShard

\* ChunkInv holds in every reachable state.
THEOREM ChunksInductive == Spec => []ChunkInv
<1>1. Init => ChunkInv
  <2> SUFFICES ASSUME Init PROVE ChunkInv
    OBVIOUS
  <2>1. /\ pc = "exited" /\ exit = "none" /\ \A w \in Workers : chunk[w] = {}
        /\ \A u \in Users : route[u] = NoEntry /\ \A s \in Shards : u \notin rows[s]
    BY DEF Init
  <2> QED
    BY <2>1 DEF ChunkInv, Apart, AllOrNothing, Counting, ExactTotal
<1> QED
  BY <1>1, ChunkInvStep, Inductive, PTL DEF Spec

(***************************************************************************)
(* A run that exits with success generated exactly the users it was asked  *)
(* for, and run_user_batches returned that number, for any number of       *)
(* threads, any batch size and any remainder of the two divisions.         *)
(***************************************************************************)
THEOREM TotalsAreExact == Spec => []ExactTotal
<1>1. ChunkInv => ExactTotal
  BY DEF ChunkInv
<1> QED
  BY <1>1, ChunksInductive, PTL

(***************************************************************************)
(* In lookup mode the users of a chunk become reachable all at once: the   *)
(* routing rows of process_user_batch_with_lookup are one transaction, and *)
(* no other chunk routes the same users.                                   *)
(***************************************************************************)
THEOREM ChunksAppearAtOnce == Spec => []ChunkAppearsAtOnce
<1>1. IInv /\ ChunkInv => ChunkAppearsAtOnce
  <2> SUFFICES ASSUME IInv, ChunkInv, UseLookup, NEW w \in Workers
               PROVE  chunk[w] \cap Reachable = {} \/ chunk[w] \cap Reachable = chunk[w]
    BY DEF ChunkAppearsAtOnce
  <2>1. chunk[w] \subseteq Users
    BY DEF IInv, TypeOK
  <2>2. \A u \in Users : u \in Reachable <=> route[u] # NoEntry
    BY ReachableHome DEF IInv, RoutesHome
  <2> QED
    BY <2>1, <2>2 DEF ChunkInv, AllOrNothing
<1> QED
  BY <1>1, ChunksInductive, Inductive, PTL

-----------------------------------------------------------------------------
(* The user phase implements SeedContract. *)

\* What a request can find after a step, by where the user's row is.
LEMMA ReachableNext ==
    ASSUME TypeOK', RoutesHome', NEW u \in Users
    PROVE  u \in Reachable' <=> /\ UseLookup => route'[u] # NoEntry
                               /\ u \in rows'[Home[u]]
<1>1. HasTarget(u)' => Target(u)' = Home[u]
  BY ShardsAssumption DEF RoutesHome, HasTarget, Target, IndexOf, ShardId, Shards
<1> QED
  BY <1>1 DEF Reachable, HasTarget

\* While a thread writes, only users of its chunk become reachable.
LEMMA OnlyOwnChunk ==
    ASSUME IInv, IInv', NEW w \in Workers, WorkerStep(w), ~ BeginChunk(w)
    PROVE  Reachable' \subseteq Reachable \cup chunk[w]
<1> SUFFICES ASSUME NEW u \in Reachable', u \notin chunk[w]
             PROVE  u \in Reachable
  OBVIOUS
<1>1. u \in Users /\ Home[u] \in Shards
  BY ShardsAssumption DEF Reachable
<1>2. /\ UseLookup => route'[u] # NoEntry
      /\ u \in rows'[Home[u]]
  BY <1>1, ReachableNext DEF IInv
<1>3. u \in rows[Home[u]]
  BY <1>1, <1>2, WriteSteps
<1>4. route'[u] # NoEntry => route[u] # NoEntry
  BY <1>1, WriteSteps DEF WithRoutes
<1> QED
  BY <1>1, <1>2, <1>3, <1>4, ReachableHome DEF IInv

\* The steps of a thread publish users of the current run, or nothing.
LEMMA WorkerPublishes ==
    ASSUME IInv, IInv', ChunkInv, NEW w \in Workers, WorkerStep(w)
    PROVE  [Contract!Next]_(Contract!vars)
<1> USE DEF IInv
<1>1. Reachable \subseteq Reachable'
  <2>1. [Next]_vars
    BY DEF Next
  <2> QED
    BY <2>1, StepGrows, ReachableGrows
<1>2. CASE BeginChunk(w)
  <2>1. UNCHANGED <<pc, exit, rows, route>>
    BY <1>2 DEF BeginChunk, main, db
  <2>2. Reachable' = Reachable
    BY <2>1 DEF Reachable, HasTarget, Target
  <2>3. PICK S \in SUBSET (Users \ used) : made' = made \cup S
    BY <1>2, BeginCounts
  <2>4. Reachable \cap S = {}
    <3> SUFFICES ASSUME NEW u \in Reachable, u \in S PROVE FALSE
      OBVIOUS
    <3>1. u \in Users \ used
      OBVIOUS
    <3>2. u \in rows[Home[u]] /\ Home[u] \in Shards
      BY <3>1, ReachableHome, ShardsAssumption
    <3> QED
      BY <3>1, <3>2 DEF ChunkInv, Apart
  <2>5. (Reachable \ made)' = Reachable \ made
    BY <2>2, <2>3, <2>4
  <2> QED
    BY <2>1, <2>2, <2>5 DEF Contract!vars
<1>3. CASE ~ BeginChunk(w)
  <2> DEFINE S == Reachable' \ Reachable
  <2>1. pc # "exited" /\ UNCHANGED <<pc, exit, made>>
    BY <1>3, WriteSteps
  <2>2. S \subseteq chunk[w] /\ chunk[w] \subseteq made
    BY <1>3, OnlyOwnChunk DEF ChunkInv, Apart
  <2>3. Reachable' = Reachable \cup S
    BY <1>1
  <2>4. S \in SUBSET (Users \ Reachable)
    BY DEF Reachable
  <2>5. (Reachable \ made)' = Reachable \ made
    BY <2>1, <2>2, <2>3
  <2> HIDE DEF S
  <2>6. Contract!Publish(S)
    BY <2>1, <2>3, <2>5 DEF Contract!Publish
  <2> QED
    BY <2>4, <2>6 DEF Contract!Next
<1> QED
  BY <1>2, <1>3

\* A run that reports success has published as many users as it was asked for.
LEMMA SuccessKeepsPromise ==
    ASSUME IInv, ChunkInv, ExitSuccess
    PROVE  Contract!Succeed
<1>1. /\ pc = "loop" /\ remaining = 0 /\ pc' = "exited" /\ exit' = "success"
      /\ UNCHANGED <<rows, route, made>>
  BY DEF ExitSuccess, db
<1>2. Reachable' = Reachable
  BY <1>1 DEF Reachable, HasTarget, Target
<1>3. made \subseteq Reachable
  BY <1>1 DEF IInv, MadeAccounted
<1>4. Cardinality(made) = Count
  <2>1. Cardinality(made) = total /\ total + remaining = Count /\ total \in Nat
    BY <1>1 DEF IInv, TypeOK, ChunkInv, Counting
  <2> QED
    BY <1>1, <2>1
<1>5. Reachable \ (Reachable \ made) = made
  BY <1>3
<1>6. Contract!Cardinality(made) = Cardinality(made)
  BY DEF Contract!Cardinality, Cardinality
<1> QED
  BY <1>1, <1>2, <1>4, <1>5, <1>6 DEF Contract!Succeed

LEMMA ContractStep ==
    ASSUME IInv, IInv', ChunkInv, [Next]_vars
    PROVE  [Contract!Next]_(Contract!vars)
<1>1. ASSUME UNCHANGED <<rows, route>> PROVE Reachable' = Reachable
  BY <1>1 DEF Reachable, HasTarget, Target
<1>2. CASE StartRun
  <2>1. /\ pc = "exited" /\ pc' = "loop" /\ exit # "running" /\ made' = {}
        /\ UNCHANGED <<rows, route>>
    BY <1>2 DEF StartRun, db, IInv, TypeOK
  <2>2. Reachable' = Reachable /\ (Reachable \ made)' = Reachable
    BY <1>1, <2>1
  <2>3. Contract!Begin
    BY <2>1, <2>2 DEF Contract!Begin
  <2> QED
    BY <2>3 DEF Contract!Next
<1>3. CASE SubmitBatch \/ CollectBatch \/ AbortBatch
  <2>1. /\ pc # "exited" /\ pc' # "exited"
        /\ UNCHANGED <<rows, route, made>>
    BY <1>3 DEF SubmitBatch, CollectBatch, AbortBatch, db, history
  <2> QED
    BY <1>1, <2>1 DEF Contract!vars
<1>4. CASE ExitFailure \/ Kill
  <2>1. /\ pc # "exited" /\ pc' = "exited" /\ exit' \in {"failure", "killed"}
        /\ UNCHANGED <<rows, route, made>>
    BY <1>4 DEF ExitFailure, Kill, db, history
  <2>2. Contract!GiveUp
    BY <1>1, <2>1 DEF Contract!GiveUp
  <2> QED
    BY <2>2 DEF Contract!Next
<1>5. CASE ExitSuccess
  BY <1>5, SuccessKeepsPromise DEF Contract!Next
<1>6. ASSUME NEW w \in Workers, WorkerStep(w) PROVE [Contract!Next]_(Contract!vars)
  BY <1>6, WorkerPublishes
<1>7. CASE UNCHANGED <<main, threads, db, history>>
  <2>1. UNCHANGED <<pc, exit, rows, route, made>>
    BY <1>7 DEF main, db, history
  <2> QED
    BY <1>1, <2>1 DEF Contract!vars
<1> QED
  BY <1>2, <1>3, <1>4, <1>5, <1>6, <1>7
  DEF Next, MainStep, vars, ReadRoute, ReadShard

(***************************************************************************)
(* The user phase implements SeedContract: users become reachable only     *)
(* while a run is going on, none ever disappears, and a run that exits     *)
(* with success made exactly Count new users reachable, whatever the       *)
(* threads, failures and kills before and during it.                       *)
(***************************************************************************)
THEOREM SeedingKeepsContract == Spec => ImplementsContract
<1>1. Init => Contract!Init
  <2> SUFFICES ASSUME Init PROVE Contract!Init
    OBVIOUS
  <2>1. pc = "exited" /\ exit = "none" /\ Reachable = {}
    <3>1. \A s \in Shards : rows[s] = {}
      BY DEF Init
    <3>2. \A u \in Users : Home[u] \in Shards /\ route[u] = NoEntry
      BY ShardsAssumption DEF Init
    <3> QED
      BY <3>1, <3>2 DEF Init, Reachable, HasTarget, Target
  <2> QED
    BY <2>1 DEF Contract!Init
<1>2. IInv /\ IInv' /\ ChunkInv /\ [Next]_vars => [Contract!Next]_(Contract!vars)
  BY ContractStep
<1> QED
  BY <1>1, <1>2, Inductive, ChunksInductive, PTL DEF Spec, ImplementsContract, Contract!Spec
=============================================================================
