---------------------------- MODULE OrderSeeding ---------------------------
(***************************************************************************)
(* The product and order phases of a sharded seed run                      *)
(* (generators/sharded.py): generate_products replicates one catalog to    *)
(* the shards, one transaction after the other; generate_orders walks the  *)
(* users of every shard in keyset-paginated pages, splits each page into   *)
(* chunks for the thread pool and commits the orders and items of a chunk  *)
(* in one transaction.  Any transaction may fail, the process may be       *)
(* killed, and a later run seeds the same volumes again.                   *)
(*                                                                         *)
(* The user phase (UserSeeding) is one step here: StartRun stores the      *)
(* users it left behind, all or some of those it was asked for.            *)
(***************************************************************************)
EXTENDS Integers, FiniteSets

CONSTANTS
    Users,      \* user ids, as numbers in the order of PostgreSQL's uuid type
    NumShards,
    Home,       \* the shard of each user
    CreatedAt,  \* users.created_at, not unique
    PageSize,   \* user_batch_size
    Threads,    \* thread_count
    PerRun,     \* products generated by one run
    MaxRuns     \* bound: how many times the script is started

Shards   == 0 .. NumShards - 1
Products == (1 .. MaxRuns) \X (1 .. PerRun)
NoCursor == 0

ASSUME UsersAssumption == IsFiniteSet(Users) /\ Users \subseteq Nat \ {NoCursor}
ASSUME ShardsAssumption ==
    /\ NumShards \in Nat \ {0}
    /\ Home \in [Users -> Shards] /\ CreatedAt \in [Users -> Nat]
ASSUME SizesAssumption ==
    /\ PageSize \in Nat \ {0} /\ Threads \in Nat \ {0}
    /\ PerRun \in Nat /\ MaxRuns \in Nat

VARIABLES
    catalog,   \* catalog[s]: products committed on shard s
    stored,    \* users committed on their shards
    visits,    \* history: how often this run committed the orders of a user
    pc,        \* "exited" | "products" | "orders" | "page" | "collect" | "drain"
    exit,      \* "none" | "success" | "failure" | "killed"
    runs,
    shard,     \* the shard the products or orders loop is at
    fetched,   \* product_uuids
    cursor,    \* cursor_key: the last user of the previous page, or NoCursor
    page,      \* user_batch
    task,      \* task[i]: state of the i-th chunk of the page
    clean,     \* history: no run ended in failure or was killed
    rejected   \* history: an item insert broke its foreign key

main == <<pc, exit, runs, shard, fetched, cursor>>
work == <<page, task>>
hist == <<clean, rejected>>
vars == <<main, work, hist, catalog, stored, visits>>

-----------------------------------------------------------------------------
(* Keyset pagination. *)

\* ORDER BY created_at, user_id
Before(v, u) ==
    \/ CreatedAt[v] < CreatedAt[u]
    \/ CreatedAt[v] = CreatedAt[u] /\ v < u

\* Mutant: the cursor compares created_at alone and skips ties.
AfterCursorTime(u) == cursor = NoCursor \/ CreatedAt[cursor] < CreatedAt[u]

\* WHERE (created_at, user_id) > cursor_key
AfterCursor(u) == cursor = NoCursor \/ Before(cursor, u)

Ahead == {u \in stored : Home[u] = shard /\ AfterCursor(u)}

\* The first PageSize rows of the query, and the place of a user in it.
Place(S, u) == Cardinality({v \in S : Before(v, u)})
NextPage == {u \in Ahead : Place(Ahead, u) < PageSize}

\* chunk_size and the chunk of the page a user falls in.
ChunkLength(S) ==
    IF Cardinality(S) \div Threads = 0 THEN 1 ELSE Cardinality(S) \div Threads
ChunkOf(S, u)  == Place(S, u) \div ChunkLength(S)
ChunkIds       == 0 .. Cardinality(Users) - 1
Chunk(i)       == {u \in page : ChunkOf(page, u) = i}

Given == {i \in ChunkIds : task[i] # "none"}
Running == {i \in ChunkIds : task[i] = "running"}

NoTasks == [i \in ChunkIds |-> "none"]
NewProducts == {runs} \X (1 .. PerRun)

Leave(how) ==
    /\ pc' = "exited" /\ exit' = how
    /\ clean' = (clean /\ how = "success")
    /\ task' = NoTasks

-----------------------------------------------------------------------------
(* Main thread: the run up to the products, and the product phase. *)

StartRun(S) ==
    /\ pc = "exited" /\ runs < MaxRuns
    /\ pc' = "products" /\ exit' = "none" /\ runs' = runs + 1
    /\ stored' = stored \cup S
    /\ visits' = [u \in Users |-> 0]
    /\ shard' = 0 /\ fetched' = {} /\ cursor' = NoCursor
    /\ page' = {} /\ task' = NoTasks
    /\ UNCHANGED <<catalog, hist>>

\* Mutant: the replication loop stops one shard short.
ReplicateProductsShort ==
    /\ pc = "products"
    /\ catalog' = [catalog EXCEPT ![shard] = @ \cup NewProducts]
    /\ IF shard < NumShards - 2
         THEN shard' = shard + 1 /\ UNCHANGED pc
         ELSE shard' = 0 /\ pc' = "orders"
    /\ UNCHANGED <<exit, runs, fetched, cursor, work, hist, stored, visits>>

\* One transaction with every product, on the next shard.
ReplicateProducts ==
    /\ pc = "products"
    /\ catalog' = [catalog EXCEPT ![shard] = @ \cup NewProducts]
    /\ IF shard < NumShards - 1
         THEN shard' = shard + 1 /\ UNCHANGED pc
         ELSE shard' = 0 /\ pc' = "orders"
    /\ UNCHANGED <<exit, runs, fetched, cursor, work, hist, stored, visits>>

\* The shard's transaction raised; it may have committed if the connection
\* broke during the commit.
FailProducts ==
    /\ pc = "products"
    /\ catalog' \in {catalog, [catalog EXCEPT ![shard] = @ \cup NewProducts]}
    /\ Leave("failure")
    /\ UNCHANGED <<runs, shard, fetched, cursor, page, rejected, stored, visits>>

-----------------------------------------------------------------------------
(* Main thread: the order phase. *)

\* connect_to_shards and _fetch_product_uuids: a random sample of the catalog
\* of the first shard.
OpenOrders ==
    /\ pc = "orders" /\ catalog[0] # {}
    /\ pc' = "page"
    /\ fetched' \in (SUBSET catalog[0]) \ {{}}
    /\ UNCHANGED <<exit, runs, shard, cursor, work, hist, catalog, stored, visits>>

\* A shard cannot be reached, or the first shard has no products.
FailOrders ==
    /\ pc = "orders"
    /\ Leave("failure")
    /\ UNCHANGED <<runs, shard, fetched, cursor, page, rejected, catalog, stored,
                   visits>>

\* A page with users: remember its last user, hand its chunks to the pool.
FetchPage ==
    /\ pc = "page" /\ NextPage # {}
    /\ pc' = "collect"
    /\ page' = NextPage
    /\ cursor' = CHOOSE u \in NextPage : \A v \in NextPage : v = u \/ Before(v, u)
    /\ task' = [i \in ChunkIds |->
                   IF \E u \in NextPage : ChunkOf(NextPage, u) = i THEN "queued" ELSE "none"]
    /\ UNCHANGED <<exit, runs, shard, fetched, hist, catalog, stored, visits>>

\* Mutant: the shard loop runs past the last shard.
FinishShardPastEnd ==
    /\ pc = "page" /\ NextPage = {}
    /\ cursor' = NoCursor
    /\ IF shard < NumShards
         THEN shard' = shard + 1 /\ UNCHANGED <<pc, exit, clean, task>>
         ELSE Leave("success") /\ UNCHANGED shard
    /\ UNCHANGED <<runs, fetched, page, rejected, catalog, stored, visits>>

\* An empty page ends the shard; the last shard ends the run.
FinishShard ==
    /\ pc = "page" /\ NextPage = {}
    /\ cursor' = NoCursor
    /\ IF shard < NumShards - 1
         THEN shard' = shard + 1 /\ UNCHANGED <<pc, exit, clean, task>>
         ELSE Leave("success") /\ UNCHANGED shard
    /\ UNCHANGED <<runs, fetched, page, rejected, catalog, stored, visits>>

\* The page query itself raised.
FailPage ==
    /\ pc = "page"
    /\ Leave("failure")
    /\ UNCHANGED <<runs, shard, fetched, cursor, page, rejected, catalog, stored,
                   visits>>

\* Mutant: a failed chunk does not stop the loop.
CollectPageLogged ==
    /\ pc = "collect" /\ \A i \in Given : task[i] \in {"done", "failed"}
    /\ pc' = "page"
    /\ UNCHANGED <<exit, runs, shard, fetched, cursor, work, hist, catalog, stored, visits>>

\* Every chunk of the page returned its counts.
CollectPage ==
    /\ pc = "collect" /\ \A i \in Given : task[i] = "done"
    /\ pc' = "page"
    /\ UNCHANGED <<exit, runs, shard, fetched, cursor, work, hist, catalog, stored, visits>>

\* Mutant: only an exception of the first chunk surfaces.
AbortPageFirstOnly ==
    /\ pc = "collect" /\ task[0] = "failed"
    /\ pc' = "drain"
    /\ task' = [i \in ChunkIds |-> IF task[i] = "queued" THEN "cancelled" ELSE task[i]]
    /\ UNCHANGED <<exit, runs, shard, fetched, cursor, page, hist, catalog, stored,
                   visits>>

\* list(executor.map(...)) re-raises the first exception in chunk order and
\* cancels the chunks still queued.
AbortPage ==
    /\ pc = "collect"
    /\ \E i \in Given :
          /\ task[i] = "failed"
          /\ \A j \in Given : j < i => task[j] = "done"
    /\ pc' = "drain"
    /\ task' = [i \in ChunkIds |-> IF task[i] = "queued" THEN "cancelled" ELSE task[i]]
    /\ UNCHANGED <<exit, runs, shard, fetched, cursor, page, hist, catalog, stored,
                   visits>>

\* shutdown(wait=True), then EXIT_FAILURE.
ExitFailure ==
    /\ pc = "drain" /\ Running = {}
    /\ Leave("failure")
    /\ UNCHANGED <<runs, shard, fetched, cursor, page, rejected, catalog, stored,
                   visits>>

Kill ==
    /\ pc # "exited"
    /\ Leave("killed")
    /\ UNCHANGED <<runs, shard, fetched, cursor, page, rejected, catalog, stored,
                   visits>>

-----------------------------------------------------------------------------
(* Pool threads: process_user_orders_batch. *)

\* The pool is a FIFO queue served by Threads threads.
BeginChunk(i) ==
    /\ task[i] = "queued" /\ Cardinality(Running) < Threads
    /\ \A j \in ChunkIds : task[j] = "queued" => i <= j
    /\ task' = [task EXCEPT ![i] = "running"]
    /\ UNCHANGED <<main, page, hist, catalog, stored, visits>>

Visit(S) == [u \in Users |-> IF u \in S THEN visits[u] + 1 ELSE visits[u]]

\* Orders and items of the chunk in one transaction.  refs: the products its
\* items name; none when every user of the chunk drew zero orders.
CommitChunk(i, refs) ==
    /\ task[i] = "running" /\ refs \subseteq catalog[shard]
    /\ task' = [task EXCEPT ![i] = "done"]
    /\ visits' = Visit(Chunk(i))
    /\ UNCHANGED <<main, page, hist, catalog, stored>>

\* order_items.product_id REFERENCES products: the shard lacks a sampled product.
RejectChunk(i, refs) ==
    /\ task[i] = "running" /\ ~ refs \subseteq catalog[shard]
    /\ task' = [task EXCEPT ![i] = "failed"]
    /\ rejected' = TRUE
    /\ UNCHANGED <<main, page, clean, catalog, stored, visits>>

FailChunk(i) ==
    /\ task[i] = "running"
    /\ task' = [task EXCEPT ![i] = "failed"]
    /\ visits' \in {visits, Visit(Chunk(i))}
    /\ UNCHANGED <<main, page, hist, catalog, stored>>

-----------------------------------------------------------------------------
Init ==
    /\ catalog = [s \in Shards |-> {}]
    /\ stored = {} /\ visits = [u \in Users |-> 0]
    /\ pc = "exited" /\ exit = "none" /\ runs = 0
    /\ shard = 0 /\ fetched = {} /\ cursor = NoCursor
    /\ page = {} /\ task = NoTasks
    /\ clean = TRUE /\ rejected = FALSE

MainStep ==
    \/ ReplicateProducts \/ FailProducts
    \/ OpenOrders \/ FailOrders
    \/ FetchPage \/ FinishShard \/ FailPage
    \/ CollectPage \/ AbortPage \/ ExitFailure

ChunkStep(i) ==
    \/ BeginChunk(i) \/ FailChunk(i)
    \/ \E refs \in SUBSET fetched : CommitChunk(i, refs) \/ RejectChunk(i, refs)

Next ==
    \/ \E S \in SUBSET (Users \ stored) : StartRun(S)
    \/ MainStep
    \/ Kill
    \/ \E i \in ChunkIds : ChunkStep(i)

Spec == Init /\ [][Next]_vars

\* The main thread and the pool's threads are scheduled.
FairSpec == Spec /\ WF_vars(MainStep) /\ \A i \in ChunkIds : WF_vars(ChunkStep(i))

-----------------------------------------------------------------------------
(* Properties. *)

\* The types of the variables.
TypeOK ==
    /\ catalog \in [Shards -> SUBSET Products]
    /\ stored \subseteq Users /\ visits \in [Users -> Nat]
    /\ pc \in {"exited", "products", "orders", "page", "collect", "drain"}
    /\ exit \in {"none", "success", "failure", "killed"}
    /\ runs \in 0 .. MaxRuns /\ shard \in Shards
    /\ fetched \subseteq Products
    /\ cursor \in Users \cup {NoCursor}
    /\ page \subseteq stored
    /\ task \in [ChunkIds -> {"none", "queued", "running", "done", "failed", "cancelled"}]
    /\ clean \in BOOLEAN /\ rejected \in BOOLEAN

\* The paginated walk hands every stored user to exactly one chunk: never two
\* (ties on created_at, page ends, chunks of a page, change of shard), and none
\* is left out of a run that exits with success.
ExactlyOnce ==
    /\ \A u \in Users : visits[u] <= 1
    /\ exit = "success" => \A u \in stored : visits[u] = 1

\* As long as every earlier run succeeded, the catalogs of all shards are equal
\* from the end of the product phase on - what AnalyticsFanOut's contract
\* needs - and no order item is refused by a shard for want of its product.
CatalogsAgree ==
    clean => /\ pc # "products" => \A s, t \in Shards : catalog[s] = catalog[t]
             /\ ~ rejected

\* A run never exits with success after one of its chunks failed or was
\* refused: what a failed chunk lost shows in the exit code.
ChunkFailureAborts ==
    (\E i \in ChunkIds : task[i] = "failed") ~> (exit \in {"failure", "killed"})

\* The paginated loop terminates on every shard.
RunsEnd == (pc # "exited") ~> (pc = "exited")

\* What the docstring of generate_products says: "a failed shard aborts the run
\* instead of leaving catalogs diverged".
CatalogsAgreeAtRest == pc = "exited" => \A s, t \in Shards : catalog[s] = catalog[t]
=============================================================================
