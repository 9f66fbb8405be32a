---------------------------- MODULE UserSeeding ----------------------------
(***************************************************************************)
(* The user phase of db_setup.py: run_user_batches (generators/base.py)    *)
(* splits the requested count into batches and every batch into one chunk  *)
(* per pool thread; each chunk generates its users, commits them shard by  *)
(* shard and, in lookup mode (sharded_lookup.py), commits their routing    *)
(* rows last.  The Java API (UserRepository, lookup and sharded profiles)  *)
(* reads the same databases.  A connection may fail at any commit, the     *)
(* process may be killed at any moment, and a later run seeds the same     *)
(* volumes again.                                                          *)
(*                                                                         *)
(* A user is an element of Users; Home[u] is the shard that                *)
(* get_shard_index assigns to its UUID.  A database is the set of users    *)
(* whose committed row it holds.                                           *)
(***************************************************************************)
EXTENDS Integers, FiniteSets, FiniteSetsExt

CONSTANTS
    Users,      \* the UUIDs that uuid4() may hand out
    NumShards,  \* number of shard databases
    Home,       \* get_shard_index, 0-based
    Threads,    \* thread_count of the ThreadPoolExecutor
    BatchSize,  \* batch_size of generate_users
    Count,      \* users asked for by one run
    UseLookup,  \* TRUE: sharded-lookup-table mode, FALSE: sharded mode
    MaxRuns     \* bound: how many times the script is started

Shards  == 0 .. NumShards - 1
Workers == 1 .. Threads
NoEntry == 0                \* shard_id is 1-based: 0 says "no routing row"

ASSUME UsersAssumption == IsFiniteSet(Users)
ASSUME ShardsAssumption == NumShards \in Nat \ {0} /\ Home \in [Users -> Shards]
ASSUME SizesAssumption ==
    /\ Threads \in Nat \ {0}
    /\ BatchSize \in Nat \ {0}
    /\ Count \in Nat
    /\ MaxRuns \in Nat
ASSUME ModeAssumption == UseLookup \in BOOLEAN

VARIABLES
    rows,       \* rows[s]: users committed on shard s
    route,      \* route[u]: shard_id of u in user_data_shard, or NoEntry
    pc,         \* main thread: "exited" | "loop" | "collect" | "drain"
    exit,       \* "none" | "success" | "failure" | "killed"
    runs,       \* how many runs were started
    remaining,  \* run_user_batches: remaining
    total,      \* run_user_batches: total_generated
    wstate,     \* wstate[w]: what the chunk given to thread w is doing
    size,       \* size[w]: chunk_count handed to thread w, 0 when none
    chunk,      \* chunk[w]: the users thread w generated
    left,       \* left[w]: shards thread w has still to commit to
    made,       \* history: users generated by the current run
    used,       \* history: every user ever generated
    settled,    \* history: users of the runs that reported success
    reader      \* one API request for a user

main    == <<pc, exit, runs, remaining, total>>
threads == <<wstate, size, chunk, left>>
db      == <<rows, route>>
history == <<made, used, settled>>
vars    == <<main, threads, db, history, reader>>

-----------------------------------------------------------------------------
(* Helpers. *)

\* Users of S that group_users_by_shard puts on shard s.
OnShard(S, s) == {u \in S : Home[u] = s}

\* The shards group_users_by_shard has a key for.
ShardsOf(S) == {Home[u] : u \in S}

\* Mutant: the 1-based conversion is applied twice.
ShardIdTwice(s) == s + 2

\* shard_id stored for a 0-based shard index, and back (ShardedDataSource).
ShardId(s)    == s + 1
IndexOf(id)   == id - 1

\* The 0-based shard the API reads u from: the routing row, or the hash.
HasTarget(u)  == UseLookup => route[u] # NoEntry
Target(u)     == IF UseLookup THEN IndexOf(route[u]) ELSE Home[u]

\* Users that a request would find.
Reachable == {u \in Users : HasTarget(u) /\ u \in rows[Target(u)]}

Stored == UNION {rows[s] : s \in Shards}

\* Mutant: the remainder of the division is not given to the first chunk.
ChunkSizesNoRemainder(batch) ==
    [w \in Workers |-> IF batch < Threads THEN (IF w = 1 THEN batch ELSE 0)
                                            ELSE batch \div Threads]

\* run_user_batches: chunk sizes of a batch, one per thread; the first chunk
\* takes the remainder, and a batch smaller than the pool is a single chunk.
ChunkSizes(batch) ==
    LET each == batch \div Threads
    IN  [w \in Workers |->
            IF each = 0 THEN (IF w = 1 THEN batch ELSE 0)
                        ELSE each + (IF w = 1 THEN batch % Threads ELSE 0)]

BatchOf(rest) == IF rest < BatchSize THEN rest ELSE BatchSize

Given == {w \in Workers : size[w] > 0}

\* sum() of the row counts the chunks returned: one per chunk and row.
BatchTotal == Cardinality({p \in Given \X Users : p[2] \in chunk[p[1]]})

WithRows(w, s) == [rows EXCEPT ![s] = @ \cup OnShard(chunk[w], s)]
\* Mutant: the lookup row gets the 0-based index.
WithRoutesZeroBased(w) ==
    [u \in Users |-> IF u \in chunk[w] THEN Home[u] ELSE route[u]]

WithRoutes(w) ==
    [u \in Users |-> IF u \in chunk[w] THEN ShardId(Home[u]) ELSE route[u]]

-----------------------------------------------------------------------------
(* Main thread. *)

StartRun ==
    /\ pc = "exited" /\ runs < MaxRuns
    /\ pc' = "loop" /\ exit' = "none" /\ runs' = runs + 1
    /\ remaining' = Count /\ total' = 0
    /\ wstate' = [w \in Workers |-> "free"]
    /\ size' = [w \in Workers |-> 0]
    /\ chunk' = [w \in Workers |-> {}]
    /\ left' = [w \in Workers |-> {}]
    /\ made' = {}
    /\ UNCHANGED <<db, used, settled, reader>>

\* executor.map submits every chunk of the next batch at once.
SubmitBatch ==
    /\ pc = "loop" /\ remaining > 0
    /\ pc' = "collect"
    /\ size' = ChunkSizes(BatchOf(remaining))
    /\ wstate' = [w \in Workers |-> IF size'[w] > 0 THEN "queued" ELSE "free"]
    /\ chunk' = [w \in Workers |-> {}]
    /\ left' = [w \in Workers |-> {}]
    /\ UNCHANGED <<exit, runs, remaining, total, db, history, reader>>

\* Mutant: a failed chunk is logged and its result left out of the sum.
CollectBatchLogged ==
    /\ pc = "collect" /\ \A w \in Given : wstate[w] \in {"done", "failed"}
    /\ pc' = "loop"
    /\ total' = total + BatchTotal
    /\ remaining' = remaining - BatchOf(remaining)
    /\ UNCHANGED <<exit, runs, threads, db, history, reader>>

\* sum() consumed every result: the batch is accounted for.
CollectBatch ==
    /\ pc = "collect" /\ \A w \in Given : wstate[w] = "done"
    /\ pc' = "loop"
    /\ total' = total + BatchTotal
    /\ remaining' = remaining - BatchOf(remaining)
    /\ UNCHANGED <<exit, runs, threads, db, history, reader>>

\* Mutant: only the first chunk's exception is looked at.
AbortBatchFirstOnly ==
    /\ pc = "collect" /\ wstate[1] = "failed"
    /\ pc' = "drain"
    /\ wstate' = [w \in Workers |-> IF wstate[w] = "queued" THEN "cancelled" ELSE wstate[w]]
    /\ UNCHANGED <<exit, runs, remaining, total, size, chunk, left, db, history, reader>>

\* Results arrive in chunk order, so the exception of chunk w surfaces once the
\* chunks before it are done; map then cancels what has not started.
AbortBatch ==
    /\ pc = "collect"
    /\ \E w \in Given :
          /\ wstate[w] = "failed"
          /\ \A v \in Given : v < w => wstate[v] = "done"
    /\ pc' = "drain"
    /\ wstate' = [w \in Workers |-> IF wstate[w] = "queued" THEN "cancelled" ELSE wstate[w]]
    /\ UNCHANGED <<exit, runs, remaining, total, size, chunk, left, db, history, reader>>

\* Mutant: shutdown(wait=False).
ExitFailureNoWait ==
    /\ pc = "drain"
    /\ pc' = "exited" /\ exit' = "failure"
    /\ UNCHANGED <<runs, remaining, total, threads, db, history, reader>>

\* __exit__ waits for the running chunks (shutdown(wait=True)); main() then
\* exits with EXIT_FAILURE.
ExitFailure ==
    /\ pc = "drain" /\ \A w \in Workers : wstate[w] # "writing"
    /\ pc' = "exited" /\ exit' = "failure"
    /\ UNCHANGED <<runs, remaining, total, threads, db, history, reader>>

ExitSuccess ==
    /\ pc = "loop" /\ remaining = 0
    /\ pc' = "exited" /\ exit' = "success"
    /\ settled' = settled \cup made
    /\ UNCHANGED <<runs, remaining, total, threads, db, made, used, reader>>

\* The process dies: open transactions roll back, committed ones stay.
Kill ==
    /\ pc # "exited"
    /\ pc' = "exited" /\ exit' = "killed"
    /\ wstate' = [w \in Workers |-> "free"]
    /\ UNCHANGED <<runs, remaining, total, size, chunk, left, db, history, reader>>

-----------------------------------------------------------------------------
(* Pool threads: process_user_batch / process_user_batch_with_lookup. *)

BeginChunk(w) ==
    /\ wstate[w] = "queued"
    /\ \E S \in kSubset(size[w], Users \ used) :
          /\ chunk' = [chunk EXCEPT ![w] = S]
          /\ left' = [left EXCEPT ![w] = ShardsOf(S)]
          /\ made' = made \cup S
          /\ used' = used \cup S
    /\ wstate' = [wstate EXCEPT ![w] = "writing"]
    /\ UNCHANGED <<main, size, db, settled, reader>>

\* Mutants: the shard transaction is never committed; routing rows are committed
\* with each shard's rows.
CommitShardForgotten(w, s) ==
    /\ wstate[w] = "writing" /\ s \in left[w]
    /\ left' = [left EXCEPT ![w] = @ \ {s}]
    /\ UNCHANGED <<main, wstate, size, chunk, db, history, reader>>

CommitShardAndRoutes(w, s) ==
    /\ wstate[w] = "writing" /\ s \in left[w]
    /\ rows' = WithRows(w, s)
    /\ route' = [u \in Users |-> IF u \in OnShard(chunk[w], s) THEN ShardId(s) ELSE route[u]]
    /\ left' = [left EXCEPT ![w] = @ \ {s}]
    /\ UNCHANGED <<main, wstate, size, chunk, history, reader>>

\* One transaction per shard of the chunk, in any order of the dict's keys.
CommitShard(w, s) ==
    /\ wstate[w] = "writing" /\ s \in left[w]
    /\ rows' = WithRows(w, s)
    /\ left' = [left EXCEPT ![w] = @ \ {s}]
    /\ UNCHANGED <<main, wstate, size, chunk, route, history, reader>>

\* Mutant: the routing rows are committed before the shards are.
FinishChunkEarly(w) ==
    /\ wstate[w] = "writing"
    /\ route' = IF UseLookup THEN WithRoutes(w) ELSE route
    /\ wstate' = [wstate EXCEPT ![w] = IF left[w] = {} THEN "done" ELSE "writing"]
    /\ UNCHANGED <<main, size, chunk, left, rows, history, reader>>

\* After the last shard: one transaction with every routing row of the chunk in
\* lookup mode, nothing more in sharded mode; the chunk returns its row count.
FinishChunk(w) ==
    /\ wstate[w] = "writing" /\ left[w] = {}
    /\ route' = IF UseLookup THEN WithRoutes(w) ELSE route
    /\ wstate' = [wstate EXCEPT ![w] = "done"]
    /\ UNCHANGED <<main, size, chunk, left, rows, history, reader>>

\* connect, executemany or commit raised.  When the connection broke during the
\* commit the server may have committed all the same.
FailShard(w, s) ==
    /\ wstate[w] = "writing" /\ s \in left[w]
    /\ rows' \in {rows, WithRows(w, s)}
    /\ wstate' = [wstate EXCEPT ![w] = "failed"]
    /\ UNCHANGED <<main, size, chunk, left, route, history, reader>>

FailRoutes(w) ==
    /\ UseLookup
    /\ wstate[w] = "writing" /\ left[w] = {}
    /\ route' \in {route, WithRoutes(w)}
    /\ wstate' = [wstate EXCEPT ![w] = "failed"]
    /\ UNCHANGED <<main, size, chunk, left, rows, history, reader>>

-----------------------------------------------------------------------------
(* The API: UserRepository.findById is a routing step and a shard query.  *)

\* "owed" remembers that the user belonged to a successful run when the request
\* came in.
ReadRoute(u) ==
    /\ reader.pc # "routed"
    /\ reader' = [pc    |-> IF HasTarget(u) THEN "routed" ELSE "unrouted",
                  user  |-> u,
                  shard |-> IF HasTarget(u) THEN Target(u) ELSE 0,
                  owed  |-> u \in settled]
    /\ UNCHANGED <<main, threads, db, history>>

ReadShard ==
    /\ reader.pc = "routed"
    /\ reader' = [reader EXCEPT !.pc =
                     IF reader.user \in rows[reader.shard] THEN "found" ELSE "missing"]
    /\ UNCHANGED <<main, threads, db, history>>

-----------------------------------------------------------------------------
Init ==
    /\ rows = [s \in Shards |-> {}]
    /\ route = [u \in Users |-> NoEntry]
    /\ pc = "exited" /\ exit = "none" /\ runs = 0
    /\ remaining = 0 /\ total = 0
    /\ wstate = [w \in Workers |-> "free"]
    /\ size = [w \in Workers |-> 0]
    /\ chunk = [w \in Workers |-> {}]
    /\ left = [w \in Workers |-> {}]
    /\ made = {} /\ used = {} /\ settled = {}
    /\ reader \in {[pc |-> "idle", user |-> u, shard |-> 0, owed |-> FALSE] : u \in Users}

MainStep == SubmitBatch \/ CollectBatch \/ AbortBatch \/ ExitFailure \/ ExitSuccess

WorkerStep(w) ==
    \/ BeginChunk(w)
    \/ FinishChunk(w)
    \/ FailRoutes(w)
    \/ \E s \in Shards : CommitShard(w, s) \/ FailShard(w, s)

Next ==
    \/ StartRun
    \/ MainStep
    \/ Kill
    \/ \E w \in Workers : WorkerStep(w)
    \/ \E u \in Users : ReadRoute(u)
    \/ ReadShard

Spec == Init /\ [][Next]_vars

\* The interpreter schedules every runnable thread: the main thread proceeds
\* when it can, and a chunk in progress ends in a return or in an exception.
Fairness ==
    /\ WF_vars(MainStep)
    /\ \A w \in Workers : WF_vars(WorkerStep(w))

FairSpec == Spec /\ Fairness

-----------------------------------------------------------------------------
(* Properties. *)

\* The types of the variables.
TypeOK ==
    /\ rows \in [Shards -> SUBSET Users]
    /\ route \in [Users -> 0 .. NumShards]
    /\ pc \in {"exited", "loop", "collect", "drain"}
    /\ exit \in {"none", "success", "failure", "killed"}
    /\ runs \in Nat /\ remaining \in Nat /\ total \in Nat
    /\ wstate \in [Workers -> {"free", "queued", "writing", "done", "failed", "cancelled"}]
    /\ size \in [Workers -> Nat]
    /\ chunk \in [Workers -> SUBSET Users]
    /\ left \in [Workers -> SUBSET Shards]
    /\ made \subseteq used /\ settled \subseteq used /\ used \subseteq Users
    /\ reader \in [pc : {"idle", "unrouted", "routed", "found", "missing"},
                   user : Users, shard : Shards, owed : BOOLEAN]

\* A routing row never points at a shard without the user's row, whatever
\* chunk failed or whenever the process was killed: the routing transaction of
\* process_user_batch_with_lookup runs after every shard transaction of its
\* chunk, so a failure leaves rows without routes and never the converse.
RouteSound == \A u \in Users : route[u] # NoEntry => u \in rows[IndexOf(route[u])]

\* Two-step read of the lookup profile: once the routing query answered with a
\* shard, the shard query finds the row (no 404 behind a valid route), with
\* seeding, failures and kills going on between the two queries.
RoutedReadFinds == UseLookup => reader.pc # "missing"

\* Every user of a run that exited with success is reachable through the router,
\* and stays so during and after later runs that fail or are killed.
SuccessReachable ==
    /\ settled \subseteq Reachable
    /\ exit = "success" => made \subseteq settled

\* A run that exits with success generated exactly the users it was asked for,
\* and run_user_batches returned that number: totals are never under-reported
\* (docstring of run_user_batches) nor a remainder lost between the chunks.
ExactTotal == exit = "success" => total = Count /\ Cardinality(made) = Count

\* End to end: a request for a user of a finished, successful run is never
\* answered with "not found", neither by the router nor by the shard.
OwedIsFound == reader.owed => reader.pc \notin {"unrouted", "missing"}

\* A chunk of a lookup-mode run becomes reachable all at once: while it is
\* being written none of its users can be reached, however many shard
\* transactions were committed.
ChunkAppearsAtOnce ==
    UseLookup => \A w \in Workers :
        chunk[w] \cap Reachable \in {{}, chunk[w]}

\* The script never exits under its own control while a pool thread still
\* writes (shutdown(wait=True)): between exit and the next start the databases
\* do not change.
StillAfterExit ==
    [][(pc = "exited" /\ pc' = "exited") => UNCHANGED db]_vars

\* Every started run ends.
RunsEnd == (pc # "exited") ~> (pc = "exited")

\* What a seed run promises to its caller: see SeedContract.
Contract == INSTANCE SeedContract WITH
    visible <- Reachable,
    base    <- Reachable \ made,
    outcome <- IF pc # "exited" THEN "running" ELSE exit

ImplementsContract == Contract!Spec
=============================================================================
