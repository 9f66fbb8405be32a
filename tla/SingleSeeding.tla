--------------------------- MODULE SingleSeeding ---------------------------
(***************************************************************************)
(* db_setup.py on one database, in the modes single and single-shard       *)
(* (Citus): the tables are created statement by statement in autocommit    *)
(* mode, then SingleGenerator stores users, products and orders.  Every    *)
(* transaction takes a connection of one pool; during the order phase the  *)
(* main thread keeps one of them for its cursor while the chunks of the    *)
(* thread pool need one each.  Statements and transactions may fail, with  *)
(* or without their effect, a wait for a connection may time out, the      *)
(* process may be killed, and the script may be started again on what it   *)
(* left.                                                                   *)
(*                                                                         *)
(* The database assigns the ids.  A user is its place in the order         *)
(* (created_at, user_id), which nobody controls; ties are OrderSeeding's.  *)
(***************************************************************************)
EXTENDS Integers, FiniteSets, SequencesExt

CONSTANTS
    Keys,      \* the places users may get
    Count,     \* --users
    BatchSize, \* batch_size of generate_users
    PageSize,  \* user_batch_size of generate_orders
    Threads,   \* thread_count
    PoolSize,  \* max_size of the ConnectionPool
    MaxRuns,   \* bound: how many times the script is started
    MaxFaults  \* bound: statements, transactions and waits that fail

ASSUME KeysAssumption == IsFiniteSet(Keys) /\ Keys \subseteq Nat \ {0}
ASSUME SizesAssumption ==
    /\ Count \in Nat /\ MaxRuns \in Nat /\ MaxFaults \in Nat
    /\ BatchSize \in Nat \ {0} /\ PageSize \in Nat \ {0} /\ Threads \in Nat \ {0}

\* max_size is 10: the cursor of the order phase leaves connections over.
ASSUME PoolAssumption == PoolSize \in Nat \ {0, 1}

VARIABLES
    mode,      \* "single" | "single-shard"
    ask,       \* whether --products and --orders-per-user are above zero
    schema,    \* statements of create_tables whose effect the database has
    users,     \* committed rows of users
    products,  \* the products table has rows
    orders,    \* history: how often this run committed the orders of a user
    base,      \* history: the users stored before this run
    pc,        \* "exited" | "schema" | "users" | "products" | "open" | "page"
               \* | "collect" | "drain"
    exit,      \* "none" | "success" | "failure" | "killed"
    runs, faults,
    step,      \* the next statement of create_tables
    remaining, \* run_user_batches: remaining
    cursor,    \* cursor_key: the last user of the previous page, or 0
    jobs,      \* the chunks given to the thread pool, in map's order
    inUse,     \* connections taken from the pool
    walking    \* the main thread holds the connection of its cursor

db   == <<schema, users, products, orders>>
run  == <<mode, ask, base, runs>>
pool == <<inUse, walking>>
vars == <<db, run, pc, exit, faults, step, remaining, cursor, jobs, pool>>

-----------------------------------------------------------------------------
(* Helpers. *)

Create     == <<"extension", "users", "products", "orders", "order_items">>
Distribute == <<"drop fkey", "reference users", "reference products",
                "distribute orders", "distribute order_items">>

\* create_tables of queries.py; in the Citus mode _citus_shard_tables follows.
Statements == IF mode = "single" THEN Create ELSE Create \o Distribute

\* Mutant: DROP CONSTRAINT IF EXISTS, and distributed tables are left alone.
RefusedNever(s) == FALSE

\* CREATE ... IF NOT EXISTS may be repeated.  A constraint that is gone cannot be
\* dropped again, nor a table distributed twice.
Refused(s) == s \in ToSet(Distribute) /\ s \in schema

Place(S, u) == Cardinality({v \in S : v < u})

\* Consecutive slices of S: one of the given size, then slices of length each.
Slices(S, first, each) ==
    LET slice(u) == IF Place(S, u) < first THEN 1
                    ELSE 2 + (Place(S, u) - first) \div each
    IN  [i \in {slice(u) : u \in S} |-> {u \in S : slice(u) = i}]

\* Mutant: the remainder of the division is lost.
UserChunksNoRemainder(S) ==
    LET each == Cardinality(S) \div Threads
    IN  Slices({u \in S : Place(S, u) < Threads * each}, each, each)

\* run_user_batches: one chunk per thread, the first with the remainder; a batch
\* smaller than the pool is a single chunk.
UserChunks(S) ==
    LET each == Cardinality(S) \div Threads
    IN  Slices(S, IF each = 0 THEN Cardinality(S) ELSE each + (Cardinality(S) % Threads), each)

\* generate_orders: chunk_size = max(1, len(user_batch) // thread_count).
PageChunks(S) ==
    LET each == Max({1, Cardinality(S) \div Threads}) IN Slices(S, each, each)

\* Mutant: the cursor's own row comes back.
AheadOrAt == {u \in users : u >= cursor}

\* WHERE (created_at, user_id) > cursor_key ORDER BY ... LIMIT user_batch_size
Ahead    == {u \in users : u > cursor}
NextPage == {u \in Ahead : Place(Ahead, u) < PageSize}

Jobs(kind, chunks) ==
    [i \in DOMAIN chunks |-> [kind |-> kind, rows |-> chunks[i], state |-> "queued"]]

In(states) == {i \in DOMAIN jobs : jobs[i].state \in states}
Move(i, state) == jobs' = [jobs EXCEPT ![i].state = state]

Fault == faults < MaxFaults /\ faults' = faults + 1

\* Mutants: a connection is not given back; it is given back twice.
Kept         == inUse
PutBackTwice == inUse - 2

\* Leaving the pool's context gives the connection back, also on an exception.
PutBack == inUse - 1

\* The process ends, and its connections with it.
Leave(how) ==
    /\ pc' = "exited" /\ exit' = how
    /\ jobs' = <<>> /\ inUse' = 0 /\ walking' = FALSE

-----------------------------------------------------------------------------
(* Main thread: run() and create_tables. *)

StartRun(a) ==
    /\ pc = "exited" /\ runs < MaxRuns
    /\ pc' = "schema" /\ exit' = "none" /\ runs' = runs + 1
    /\ ask' = a /\ base' = users /\ orders' = [u \in Keys |-> 0]
    /\ step' = 1 /\ remaining' = Count /\ cursor' = 0
    /\ UNCHANGED <<mode, schema, users, products, faults, jobs, pool>>

\* Each statement commits by itself.
RunStatement ==
    /\ pc = "schema" /\ ~ Refused(Statements[step])
    /\ schema' = schema \cup {Statements[step]}
    /\ step' = step + 1
    /\ pc' = IF step = Len(Statements) THEN "users" ELSE pc
    /\ UNCHANGED <<users, products, orders, run, exit, faults, remaining, cursor, jobs, pool>>

RefuseStatement ==
    /\ pc = "schema" /\ Refused(Statements[step])
    /\ Leave("failure")
    /\ UNCHANGED <<db, run, faults, step, remaining, cursor>>

FailStatement ==
    /\ pc = "schema" /\ Fault
    /\ schema' \in {schema, schema \cup {Statements[step]}}
    /\ Leave("failure")
    /\ UNCHANGED <<users, products, orders, run, step, remaining, cursor>>

-----------------------------------------------------------------------------
(* Main thread: SingleGenerator. *)

\* The next batch of run_user_batches; the rows will get any free places.
SubmitUsers ==
    /\ pc = "users" /\ remaining > 0
    /\ \E S \in kSubset(Min({remaining, BatchSize}), Keys \ users) :
          jobs' = Jobs("users", UserChunks(S))
    /\ remaining' = remaining - Min({remaining, BatchSize})
    /\ pc' = "collect"
    /\ UNCHANGED <<db, run, exit, faults, step, cursor, pool>>

FinishUsers ==
    /\ pc = "users" /\ remaining = 0
    /\ pc' = "products"
    /\ UNCHANGED <<db, run, exit, faults, step, remaining, cursor, jobs, pool>>

\* generate_products: one transaction on a connection taken and given back.
StoreProducts ==
    /\ pc = "products"
    /\ products' = (products \/ ask.products)
    /\ pc' = "open"
    /\ UNCHANGED <<schema, users, orders, run, exit, faults, step, remaining, cursor, jobs, pool>>

FailProducts ==
    /\ pc = "products" /\ Fault
    /\ products' \in {products, products \/ ask.products}
    /\ Leave("failure")
    /\ UNCHANGED <<schema, users, orders, run, step, remaining, cursor>>

\* Mutant: _fetch_product_uuids keeps its connection.
OpenWalkKeepFirst ==
    /\ pc = "open" /\ products
    /\ inUse' = inUse + 2 /\ walking' = TRUE
    /\ pc' = "page"
    /\ UNCHANGED <<db, run, exit, faults, step, remaining, cursor, jobs>>

\* _fetch_product_uuids takes a connection and gives it back; then one is taken
\* for the cursor over the users.
OpenWalk ==
    /\ pc = "open" /\ products
    /\ inUse' = inUse + 1 /\ walking' = TRUE
    /\ pc' = "page"
    /\ UNCHANGED <<db, run, exit, faults, step, remaining, cursor, jobs>>

\* "No products found in the database."
NoProducts ==
    /\ pc = "open" /\ ~ products
    /\ Leave("failure")
    /\ UNCHANGED <<db, run, faults, step, remaining, cursor>>

FetchPage ==
    /\ pc = "page" /\ NextPage # {}
    /\ \E u \in NextPage : (\A v \in NextPage : v <= u) /\ cursor' = u
    /\ jobs' = Jobs("orders", PageChunks(NextPage))
    /\ pc' = "collect"
    /\ UNCHANGED <<db, run, exit, faults, step, remaining, pool>>

\* An empty page ends the walk and the run.
FinishWalk ==
    /\ pc = "page" /\ NextPage = {}
    /\ Leave("success")
    /\ UNCHANGED <<db, run, faults, step, remaining, cursor>>

\* The product or user query raised.
FailQuery ==
    /\ pc \in {"open", "page"} /\ Fault
    /\ Leave("failure")
    /\ UNCHANGED <<db, run, step, remaining, cursor>>

\* Every chunk has returned.
Collect ==
    /\ pc = "collect" /\ In({"done"}) = DOMAIN jobs
    /\ pc' = IF walking THEN "page" ELSE "users"
    /\ jobs' = <<>>
    /\ UNCHANGED <<db, run, exit, faults, step, remaining, cursor, pool>>

\* map re-raises the first exception in chunk order and cancels what is queued;
\* on its way the exception gives the cursor's connection back.
Abort ==
    /\ pc = "collect"
    /\ \E i \in In({"failed"}) : \A j \in 1 .. i - 1 : j \in In({"done"})
    /\ jobs' = [i \in DOMAIN jobs |->
                   IF jobs[i].state = "queued" THEN [jobs[i] EXCEPT !.state = "cancelled"]
                                               ELSE jobs[i]]
    /\ inUse' = IF walking THEN PutBack ELSE inUse
    /\ walking' = FALSE
    /\ pc' = "drain"
    /\ UNCHANGED <<db, run, exit, faults, step, remaining, cursor>>

\* shutdown(wait=True), then EXIT_FAILURE.
ExitFailure ==
    /\ pc = "drain" /\ In({"waiting", "writing"}) = {}
    /\ Leave("failure")
    /\ UNCHANGED <<db, run, faults, step, remaining, cursor>>

Kill ==
    /\ pc # "exited"
    /\ Leave("killed")
    /\ UNCHANGED <<db, run, faults, step, remaining, cursor>>

-----------------------------------------------------------------------------
(* Pool threads: process_user_batch and process_user_batch_optimized. *)

\* The executor's queue is FIFO.  A chunk without orders needs no connection.
Begin(i) ==
    /\ jobs[i].state = "queued" /\ \A j \in In({"queued"}) : i <= j
    /\ Cardinality(In({"waiting", "writing"})) < Threads
    /\ Move(i, IF jobs[i].kind = "orders" /\ ~ ask.orders THEN "done" ELSE "waiting")
    /\ UNCHANGED <<db, run, pc, exit, faults, step, remaining, cursor, pool>>

Take(i) ==
    /\ jobs[i].state = "waiting" /\ inUse < PoolSize
    /\ inUse' = inUse + 1
    /\ Move(i, "writing")
    /\ UNCHANGED <<db, run, pc, exit, faults, step, remaining, cursor, walking>>

\* PoolTimeout: 30 seconds with every connection taken.
TimeOut(i) ==
    /\ jobs[i].state = "waiting" /\ inUse = PoolSize /\ Fault
    /\ Move(i, "failed")
    /\ UNCHANGED <<db, run, pc, exit, step, remaining, cursor, pool>>

\* One transaction: the users of the chunk, or the orders and items of its users.
Write(i) ==
    IF jobs[i].kind = "users"
      THEN users' = users \cup jobs[i].rows /\ UNCHANGED orders
      ELSE /\ orders' = [u \in Keys |-> orders[u] + IF u \in jobs[i].rows THEN 1 ELSE 0]
           /\ UNCHANGED users

Commit(i) ==
    /\ jobs[i].state = "writing"
    /\ Write(i) /\ inUse' = PutBack
    /\ Move(i, "done")
    /\ UNCHANGED <<schema, products, run, pc, exit, faults, step, remaining, cursor, walking>>

\* Rolled back - or committed, and the answer lost.
Fail(i) ==
    /\ jobs[i].state = "writing" /\ Fault
    /\ Write(i) \/ UNCHANGED <<users, orders>>
    /\ inUse' = PutBack
    /\ Move(i, "failed")
    /\ UNCHANGED <<schema, products, run, pc, exit, step, remaining, cursor, walking>>

-----------------------------------------------------------------------------
Init ==
    /\ mode \in {"single", "single-shard"}
    /\ ask = [products |-> TRUE, orders |-> TRUE]
    /\ schema = {} /\ users = {} /\ products = FALSE
    /\ orders = [u \in Keys |-> 0] /\ base = {}
    /\ pc = "exited" /\ exit = "none" /\ runs = 0 /\ faults = 0
    /\ step = 1 /\ remaining = 0 /\ cursor = 0
    /\ jobs = <<>> /\ inUse = 0 /\ walking = FALSE

MainStep ==
    \/ RunStatement \/ RefuseStatement
    \/ SubmitUsers \/ FinishUsers \/ StoreProducts
    \/ OpenWalk \/ NoProducts \/ FetchPage \/ FinishWalk
    \/ Collect \/ Abort \/ ExitFailure

ChunkStep == \E i \in DOMAIN jobs : Begin(i) \/ Take(i) \/ Commit(i)

Trouble ==
    \/ FailStatement \/ FailProducts \/ FailQuery \/ Kill
    \/ \E i \in DOMAIN jobs : TimeOut(i) \/ Fail(i)

Next ==
    \/ \E a \in [products : BOOLEAN, orders : BOOLEAN] : StartRun(a)
    \/ MainStep \/ ChunkStep \/ Trouble

Spec == Init /\ [][Next]_vars

\* Threads are scheduled and database calls answer.  Nothing has to fail, and in
\* particular no wait has to time out.
FairSpec == Spec /\ WF_vars(MainStep) /\ WF_vars(ChunkStep)

-----------------------------------------------------------------------------
(* Properties. *)

\* The types of the variables.
TypeOK ==
    /\ mode \in {"single", "single-shard"}
    /\ ask \in [products : BOOLEAN, orders : BOOLEAN]
    /\ schema \subseteq ToSet(Statements)
    /\ base \subseteq users /\ users \subseteq Keys
    /\ products \in BOOLEAN /\ orders \in [Keys -> Nat]
    /\ pc \in {"exited", "schema", "users", "products", "open", "page", "collect", "drain"}
    /\ exit \in {"none", "success", "failure", "killed"}
    /\ runs \in 0 .. MaxRuns /\ faults \in 0 .. MaxFaults
    /\ step \in 1 .. Len(Statements) + 1
    /\ remaining \in 0 .. Count /\ cursor \in Keys \cup {0}
    /\ \A i \in DOMAIN jobs :
          jobs[i] \in [kind : {"users", "orders"}, rows : SUBSET Keys,
                       state : {"queued", "waiting", "writing", "done", "failed", "cancelled"}]
    /\ inUse \in 0 .. PoolSize /\ walking \in BOOLEAN

\* The order walk of a run serves every stored user once - also the users that an
\* earlier, aborted run left in between - and, without faults swallowed, all of
\* them by the time it exits with success.
WalkIsExact ==
    /\ \A u \in Keys : orders[u] <= 1
    /\ exit = "success" /\ ask.orders => \A u \in users : orders[u] = 1

\* In the Citus mode no row is ever stored before all tables are distributed,
\* however often the setup failed half-way and was repeated ("there is no
\* log-and-continue here", db_setup.run): otherwise the benchmark would measure
\* the coordinator.  The DROP CONSTRAINT that cannot be repeated makes a volume
\* good for one seed: no second run adds to the rows of a first.
CitusSeedsOnce ==
    mode = "single-shard" /\ (users # {} \/ products) =>
        ToSet(Distribute) \subseteq schema /\ base \in {{}, users}

\* A chunk that waits for a connection waits for chunks that will give theirs
\* back: the connections of the main thread never fill the pool, however many
\* threads there are.
WaitsForAWriter ==
    In({"waiting"}) # {} /\ inUse = PoolSize => In({"writing"}) # {}

\* Every run ends, and no pool time-out is needed for it.
RunsEnd == (pc # "exited") ~> (pc = "exited")

\* The whole run keeps the contract of the user phase: users appear only while a
\* run is going on, and a run that exits with success added exactly Count.
Contract == INSTANCE SeedContract WITH
    Users   <- Keys,
    visible <- users,
    outcome <- IF pc # "exited" THEN "running" ELSE exit

ImplementsContract == Contract!Spec
=============================================================================
