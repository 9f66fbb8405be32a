----------------------------- MODULE CsvSeeding -----------------------------
(***************************************************************************)
(* Seeding from CSV files.  db_setup.py --generate-csv writes the dataset  *)
(* once (csv_generator.py): products.csv, then six files opened together   *)
(* and filled user by user through buffers.  db_setup.py --use-csv-seed    *)
(* loads it (csv_loader.py): the three index files into memory, then one   *)
(* transaction per shard that owns one of the first n users, then, in      *)
(* lookup mode, the routes.  The generator may be killed at any moment,    *)
(* a load may fail or be killed at any step, be started again, or run      *)
(* while the generator is still writing.                                   *)
(*                                                                         *)
(* Users are numbered in the order of the dataset; user u has one line in  *)
(* each of the six files (its orders and their items are one block each),  *)
(* line u + 1 after the header.  A file is the number of lines of it that  *)
(* have reached the disk: buffers are lost with the process.  A line cut   *)
(* in two by the end of the file is rejected when it is read, which is one *)
(* of the failures a load may have at any step.                            *)
(***************************************************************************)
EXTENDS HashRouting, FiniteSets

CONSTANTS
    Size,       \* users the dataset is generated with
    Digest,     \* Digest[u]: first bytes of the SHA-1 of user u's UUID
    MaxLoads    \* bound: how many loads are started

Users   == 1 .. Size
Modes   == {"single", "sharded", "sharded-lookup-table"}
Indexes == {"users_index", "orders_index", "items_index"}
Files   == {"users", "orders", "items"} \cup Indexes

ASSUME SizesAssumption == Size \in Nat /\ MaxLoads \in Nat
ASSUME DigestAssumption == \A u \in Users : Digest[u] \in Seq(Bytes)

VARIABLES
    mode,       \* --mode: which databases are seeded; shard 0 is the single one
    gen,        \* the generator: "idle" | "products" | "rows"
    wrote,      \* users it has written to its buffers
    products,   \* products.csv: "none" | "partial" | "whole"
    opened,     \* do the other six files exist?
    lines,      \* lines[f]: lines of f on disk, its header included
    closed,     \* history: a generation has run to its end
    pc,         \* the loader: "exited" | "shards" | "routes"
    exit,       \* "none" | "success" | "failure" | "killed"
    asked,      \* --users of the current load
    index,      \* index[f]: users listed in index file f when it was read
    left,       \* shards it has still to load
    wasClosed,  \* history: was the dataset closed when the load started?
    loads,      \* how many loads were started
    rows,       \* rows[s], orders[s], items[s]: users with their row, all
    orders,     \*   their orders, all their items on shard s
    items,
    catalog,    \* catalog[s]: the product file that shard s holds
    routes      \* user_data_shard: <<user, shard_id>>, 1-based

files  == <<gen, wrote, products, opened, lines, closed>>
loader == <<mode, pc, exit, asked, index, left, wasClosed, loads>>
shards == <<rows, orders, items, catalog>>
vars   == <<mode, gen, wrote, products, opened, lines, closed, pc, exit, asked, index,
            left, wasClosed, loads, rows, orders, items, catalog, routes>>

Init ==
    /\ mode \in Modes
    /\ gen = "idle" /\ wrote = 0 /\ products = "none" /\ opened = FALSE
    /\ lines = [f \in Files |-> 0]
    /\ closed = FALSE
    /\ pc = "exited" /\ exit = "none" /\ asked = 0 /\ left = {} /\ loads = 0
    /\ index = [f \in Indexes |-> 0]
    /\ wasClosed = FALSE
    /\ rows = [s \in Shards |-> {}]
    /\ orders = [s \in Shards |-> {}]
    /\ items = [s \in Shards |-> {}]
    /\ catalog = [s \in Shards |-> "none"]
    /\ routes = {}

-----------------------------------------------------------------------------
(* The generator.                                                           *)

\* data_exists: do all seven files have a name in the directory?
DataExists == products # "none" /\ opened

\* --generate-csv; with the files in place it is a successful no-op.
Generate ==
    /\ gen = "idle" /\ ~DataExists
    /\ gen' = "products"
    /\ products' = "partial"
    /\ UNCHANGED <<wrote, opened, lines, closed, loader, shards, routes>>

\* A generator that closes products.csv together with the other six.
OpenFilesEarly ==
    /\ gen = "products"
    /\ gen' = "rows"
    /\ opened' = TRUE
    /\ wrote' = 0
    /\ lines' = [f \in Files |-> 0]
    /\ UNCHANGED <<products, closed, loader, shards, routes>>

\* products.csv is closed, the other six are opened together and truncated.
OpenFiles ==
    /\ gen = "products"
    /\ gen' = "rows"
    /\ products' = "whole"
    /\ opened' = TRUE
    /\ wrote' = 0
    /\ lines' = [f \in Files |-> 0]
    /\ UNCHANGED <<closed, loader, shards, routes>>

\* One turn of the loop over users: its line in each of the six buffers.
WriteUser ==
    /\ gen = "rows" /\ wrote < Size
    /\ wrote' = wrote + 1
    /\ UNCHANGED <<gen, products, opened, lines, closed, loader, shards, routes>>

\* A buffer overflows and some more of its lines reach the disk.
Flush(f) ==
    /\ gen = "rows"
    /\ \E n \in lines[f] + 1 .. wrote + 1 : lines' = [lines EXCEPT ![f] = n]
    /\ UNCHANGED <<gen, wrote, products, opened, closed, loader, shards, routes>>

\* The end of the with statement flushes and closes the six files.
CloseFiles ==
    /\ gen = "rows" /\ wrote = Size
    /\ gen' = "idle"
    /\ wrote' = 0
    /\ lines' = [f \in Files |-> Size + 1]
    /\ closed' = TRUE
    /\ UNCHANGED <<products, opened, loader, shards, routes>>

\* The process dies: what is still buffered never reaches the disk.
KillGenerator ==
    /\ gen # "idle"
    /\ gen' = "idle"
    /\ wrote' = 0
    /\ UNCHANGED <<products, opened, lines, closed, loader, shards, routes>>

-----------------------------------------------------------------------------
(* The loader.                                                              *)

\* The database a user is loaded into.
Home(u) == IF mode = "single" THEN 0 ELSE PythonIndex(Digest[u])

\* _first_n_user_ids: the slice stops at the end of the index.
FirstUsers(n) == {u \in Users : u <= n /\ u <= lines["users_index"] - 1}
Chosen        == {u \in Users : u <= asked /\ u <= index["users_index"]}
Mine(s)       == {u \in Chosen : Home(u) = s}

\* A seek past the end of the file reads nothing, and COPY gets no line.
InFile(f, u) == u + 1 <= lines[f]

\* A process that fails or dies takes what it knew with it; what a successful
\* load was asked for is kept, for the properties to look back at.
Forget == asked' = 0 /\ index' = [f \in Indexes |-> 0] /\ wasClosed' = FALSE

Exit(outcome) ==
    /\ pc' = "exited"
    /\ exit' = outcome
    /\ left' = {}
    /\ IF outcome = "success" THEN UNCHANGED <<asked, index, wasClosed>> ELSE Forget
    /\ UNCHANGED <<mode, loads>>

\* load_indexes, then _group_by_shard.
StartLoad(n) ==
    /\ pc = "exited" /\ loads < MaxLoads
    /\ DataExists
    /\ \A f \in Indexes : lines[f] > 0
    /\ pc' = "shards"
    /\ exit' = "none"
    /\ asked' = n
    /\ index' = [f \in Indexes |-> lines[f] - 1]
    /\ left' = IF mode = "single" THEN {0} ELSE {Home(u) : u \in FirstUsers(n)}
    /\ wasClosed' = closed
    /\ loads' = loads + 1
    /\ UNCHANGED <<mode, files, shards, routes>>

\* No dataset (FileNotFoundError), or an index without its header yet.
RefuseLoad ==
    /\ pc = "exited" /\ loads < MaxLoads
    /\ ~DataExists \/ \E f \in Indexes : lines[f] = 0
    /\ exit' = "failure"
    /\ Forget
    /\ loads' = loads + 1
    /\ UNCHANGED <<mode, pc, left, files, shards, routes>>

\* Shards in no particular order.
UpcomingAny(s) == s \in left

\* users_by_shard is filled in the order of the users.
Upcoming(s) ==
    s \in left /\ \A t \in left \ {s} : \E u \in Mine(s) : \A v \in Mine(t) : u < v

\* Why the transaction of shard s cannot commit: the products are there
\* already (primary key), a user is missing in an index (KeyError), or an
\* order or an item refers to a row that is not there (foreign key).
Rejected(s) ==
    \/ catalog[s] # "none"
    \/ \E u \in Mine(s) : u > index["orders_index"] \/ u > index["items_index"]
    \/ \E u \in Mine(s) : InFile("orders", u) /\ ~InFile("users", u)
    \/ \E u \in Mine(s) : InFile("items", u) /\ ~InFile("orders", u)

Copied(s) ==
    /\ catalog' = [catalog EXCEPT ![s] = products]
    /\ rows' = [rows EXCEPT ![s] = @ \cup {u \in Mine(s) : InFile("users", u)}]
    /\ orders' = [orders EXCEPT ![s] = @ \cup {u \in Mine(s) : InFile("orders", u)}]
    /\ items' = [items EXCEPT ![s] = @ \cup {u \in Mine(s) : InFile("items", u)}]

\* One transaction per shard: products, users, orders, items, commit.
LoadShard(s) ==
    /\ pc = "shards" /\ Upcoming(s) /\ ~Rejected(s)
    /\ Copied(s)
    /\ left' = left \ {s}
    /\ UNCHANGED <<mode, pc, exit, asked, index, wasClosed, loads, files, routes>>

RejectShard(s) ==
    /\ pc = "shards" /\ Upcoming(s) /\ Rejected(s)
    /\ Exit("failure")
    /\ UNCHANGED <<files, shards, routes>>

\* The connection fails: before the commit, or after it with the answer lost.
FailShard(s) ==
    /\ pc = "shards" /\ Upcoming(s)
    /\ UNCHANGED shards \/ (~Rejected(s) /\ Copied(s))
    /\ Exit("failure")
    /\ UNCHANGED <<files, routes>>

\* A loader that routes before it has loaded.
FinishShardsEarly ==
    /\ pc = "shards"
    /\ IF mode = "sharded-lookup-table"
       THEN pc' = "routes" /\ UNCHANGED <<mode, exit, asked, index, left, wasClosed, loads>>
       ELSE Exit("success")
    /\ UNCHANGED <<files, shards, routes>>

\* Every shard is loaded: the sharded and single modes are done.
FinishShards ==
    /\ pc = "shards" /\ left = {}
    /\ IF mode = "sharded-lookup-table"
       THEN pc' = "routes" /\ UNCHANGED <<mode, exit, asked, index, left, wasClosed, loads>>
       ELSE Exit("success")
    /\ UNCHANGED <<files, shards, routes>>

\* _copy_lookup_entries: shard_idx instead of shard_idx + 1.
EntriesZeroBased == {<<u, Home(u)>> : u \in Chosen}

\* _copy_lookup_entries: one row per user of users_by_shard, 1-based.
Entries == {<<u, Home(u) + 1>> : u \in Chosen}

Listed == {r[1] : r \in routes}

LoadRoutes ==
    /\ pc = "routes" /\ Chosen \cap Listed = {}
    /\ routes' = routes \cup Entries
    /\ Exit("success")
    /\ UNCHANGED <<files, shards>>

\* user_data_shard's primary key, a failed connection, or a lost answer.
FailRoutes ==
    /\ pc = "routes"
    /\ routes' = routes \/ (Chosen \cap Listed = {} /\ routes' = routes \cup Entries)
    /\ Exit("failure")
    /\ UNCHANGED <<files, shards>>

KillLoader ==
    /\ pc # "exited"
    /\ Exit("killed")
    /\ UNCHANGED <<files, shards, routes>>

GeneratorStep ==
    \/ Generate \/ OpenFiles \/ WriteUser \/ CloseFiles
    \/ \E f \in Files : Flush(f)

LoaderStep ==
    \/ \E s \in Shards : LoadShard(s) \/ RejectShard(s) \/ FailShard(s)
    \/ FinishShards \/ LoadRoutes \/ FailRoutes

Next ==
    \/ GeneratorStep \/ KillGenerator
    \/ \E n \in 0 .. Size : StartLoad(n)
    \/ RefuseLoad \/ LoaderStep \/ KillLoader

Spec == Init /\ [][Next]_vars

-----------------------------------------------------------------------------
(* What the API makes of the databases.                                     *)

\* The shards on which a request for u looks (at most one).
ApiShards(u) ==
    CASE mode = "single"               -> {0}
      [] mode = "sharded"              -> {JavaIndex(Digest[u])}
      [] mode = "sharded-lookup-table" -> {r[2] - 1 : r \in {e \in routes : e[1] = u}}

-----------------------------------------------------------------------------
(* Properties.                                                              *)

\* The types of the variables.
TypeOK ==
    /\ mode \in Modes
    /\ gen \in {"idle", "products", "rows"} /\ wrote \in 0 .. Size
    /\ products \in {"none", "partial", "whole"} /\ opened \in BOOLEAN
    /\ lines \in [Files -> 0 .. Size + 1] /\ closed \in BOOLEAN
    /\ pc \in {"exited", "shards", "routes"}
    /\ exit \in {"none", "success", "failure", "killed"}
    /\ asked \in 0 .. Size /\ index \in [Indexes -> 0 .. Size]
    /\ left \subseteq Shards /\ wasClosed \in BOOLEAN /\ loads \in 0 .. MaxLoads
    /\ rows \in [Shards -> SUBSET Users]
    /\ orders \in [Shards -> SUBSET Users]
    /\ items \in [Shards -> SUBSET Users]
    /\ catalog \in [Shards -> {"none", "partial", "whole"}]
    /\ routes \subseteq Users \X (1 .. NumShards)

\* A shard never holds a part of the catalog: products.csv is complete before
\* the other files exist, and the loader asks for all of them.
CatalogWhole == \A s \in Shards : catalog[s] \in {"none", "whole"}

\* A successful load of a finished dataset serves every user asked for: the
\* API looks on one shard, and the user, its orders, its items and the
\* catalog are there.
SuccessIsServed ==
    exit = "success" /\ wasClosed =>
        \A u \in 1 .. asked :
            \E s \in Shards :
                /\ ApiShards(u) = {s}
                /\ u \in rows[s] /\ u \in orders[s] /\ u \in items[s]
                /\ catalog[s] = "whole"

\* A user is routed only to a shard whose transaction has committed, whatever
\* the files held: the lookup transaction is the last of a load.
RoutedShardsLoaded == \A r \in routes : catalog[r[2] - 1] # "none"

\* A load that succeeds leaves nothing of an earlier load behind: every load
\* begins with the shard of the first user, and aborts there if an earlier
\* one got that far.
SuccessIsOneLoad ==
    exit = "success" /\ Chosen # {} => \A s \in Shards : rows[s] \subseteq Chosen

\* csv_loader.py:20 "a partially loaded dataset must abort the run": a load
\* that succeeds has loaded every user asked for.
SuccessLoadsAsked ==
    exit = "success" => \A u \in 1 .. asked : u \in rows[Home(u)]
=============================================================================
