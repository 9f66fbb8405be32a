# Verification of the sharding playground

TLA+ models of this repository's data path: how the Python seeder fills one
database or four shards, how the Java API finds a row again, pages through
orders and computes the analytics report, with the failures, restarts and
interleavings these programs meet. The modules are translated from the source;
`PROJECT.json` gives for every definition the lines it stands for.

Tools: `tlc -config X.cfg M` checks a run, `tlapm M.tla` checks the proofs of a
module.

## 1. The system

Four ways to store the same shop (users, products, orders, order items):

| mode | databases | where a user lives |
|---|---|---|
| single | one PostgreSQL | there |
| sharded | four shards | SHA-1 of the UUID modulo 4, computed by Python and by Java |
| lookup | four shards and a routing database | a row of `user_data_shard` (1-based `shard_id`) |
| citus | coordinator and workers | Citus decides; the programs see one database |

| part | code | state | operations |
|---|---|---|---|
| user seeding | `generators/base.py`, `sharded.py`, `sharded_lookup.py` | rows of each shard, routes, thread pool, counters | split a count into batches and chunks, one transaction per shard and chunk, routes last |
| product and order seeding | `generators/sharded.py` | catalog of each shard, keyset cursor, chunks of a page | replicate the catalog shard by shard, walk users in pages, one transaction per chunk |
| CSV dataset | `csv_generator.py`, `csv_loader.py` | seven files, three in-memory indexes | generate once; load the first n users, one transaction per shard, routes last |
| hash routing | `shard_utils.py`, `configuration/sharded/ShardRouter.java` | none | the shard index of a digest |
| point reads | `UserRepository`, lookup `ShardedDataSource`, `ShardRoutingRepository` | none | read the route, then the row |
| single-database seeding | `generators/single.py`, `connection_manager.py` | one database, thread pool, connection pool, keyset cursor | the same phases on connections of one pool |
| order endpoints | `OrderController`, `OrderService`, the three `OrderRepository` | the client's cursor | query every shard (or the user's), merge, truncate, hand out the next cursor |
| analytics | `AnalyticsFanOut`, `HeavyQueryConstants` | none | four queries per shard at once, group the rows at the coordinator |
| schema | `table_manager.py`, `queries.py`, `citus.py` | tables, constraints, Citus metadata | create tables; drop a constraint and distribute |
| benchmark scripts | `benchmark/*.sh` | containers, volumes, the API process | start, seed, serve, measure, judge, stop, per strategy |
| load generator | `benchmark/locustfile.py` | id pools | a seeded request stream |

The parts meet in the databases. The seeder writes rows that the API later
finds only if both compute the same shard (or the seeder stored the right
route). Nothing spans two databases atomically: each guarantee across shards
comes from the order of independent transactions and from what happens to the
rest when one fails. The scripts chain the parts by exit codes.

What is hard here, and for each part what makes it correct:

- **User seeding.** Pool threads commit shard by shard while the main thread
  waits; a chunk may fail, an answer may be lost after the commit, the process
  may be killed, and the volumes are seeded again. Correct: a route never
  points at a shard that lacks the row; users of a run that exited with success
  stay reachable; success means exactly the count asked for; nobody writes
  after the script has exited.
- **Products and orders.** Catalogs must be equal although no transaction spans
  the shards; ties on `created_at` cross page ends; the last page is short.
  Correct: every user is handed to one chunk exactly once, and no failure is
  swallowed.
- **One database.** The order walk keeps a connection of a pool its chunks need
  too; the DDL of the Citus mode commits statement by statement and cannot be
  repeated. Correct: a chunk that waits for a connection waits for a chunk that
  will give one back; a run walks every stored user once, also those an earlier
  run left; no row is stored in a Citus database that is not distributed.
- **CSV.** The generator buffers seven files and can die, the loader trusts
  their existence. Correct: a shard holds one whole load or nothing, and a
  successful load of a finished dataset is served.
- **Routing.** Unsigned against signed arithmetic on the same 64 bits.
- **Order endpoints.** Two orders on UUIDs (PostgreSQL's unsigned, Java's
  signed), a cursor that travels without its time zone, shard queries at
  different moments, inserts, errors and retries. Correct: a walk shows each
  order once and ends, pages are the single database's, and an answer is never
  short of a shard.
- **Benchmark scripts.** No trap: a script that aborts leaves containers and the
  API as they are, and strategies share ports, container names and profiles.
  A strategy has two compose files, one for seeding and one for the benchmark,
  and `down` only takes down what its file names. Correct: a result is measured
  against the strategy it is reported for, a script that seeds measures whole
  data, and success takes down the API and all of the files it used.
- **Analytics.** DISTINCT counts and thresholds do not add up across shards,
  and the queries see different moments. Correct: each section is what one
  database would have said of what each shard held at some moment of the request.

`PROJECT.json` lists these hazards line by line under "hazards", with the
properties that would catch them.

## 2. Modules

| module | models | uses |
|---|---|---|
| `UserSeeding` | user phase of a sharded seed run, with a point read of the API | `SeedContract` as abstract specification |
| `SingleSeeding` | a whole seed run on one database or Citus, DDL included | `SeedContract` as abstract specification |
| `SeedContract` | what seeding users promises its caller | |
| `OrderSeeding` | product and order phases on shards | |
| `OrderPaging` | a client of the order endpoints | |
| `HashRouting` | both computations of the shard index | |
| `CsvSeeding` | generation and loading of the CSV dataset | `HashRouting`: places with Python's index, reads with Java's |
| `AnalyticsFanOut` | the report, by one database and by the coordinator | |
| `BenchmarkPipeline` | the benchmark scripts, several invocations in a row | |
| `MC...` | the instances TLC checks | |
| `Induction` | no code: lemmas on induction, on recursive functions and on sums over finite sets | |
| `...Proofs` | the theorems about a module; `CsvSeedingProofs` also has those about `HashRouting` | `Induction` |

Operators named after a bug (`ShardIdTwice`, `EntriesZeroBased`,
`AggregateUsersFlat`, ...) are wrong variants of the definition they precede.
Nothing uses them: each is there to be put in place of the right one, and shows
that the run would notice.

### How the models correspond to the code

**UserSeeding.** `pc` is the main thread in `run_user_batches`: `loop` between
batches, `collect` in `sum(executor.map(...))`, `drain` in the pool's
`shutdown(wait=True)` after an exception, `exited` outside. Each pool thread
runs one chunk (`wstate`, `size`, `chunk`, `left`): `BeginChunk` generates the
users, `CommitShard` commits one shard's rows, `FinishChunk` commits the routes
(lookup mode) and returns. `FailShard` and `FailRoutes` fail a commit, with or
without its effect, because the answer may be lost; `Kill` ends the process and
leaves the databases; `StartRun` starts the script on the same volumes. `reader`
is one request of the API in its two steps, `ReadRoute` and `ReadShard`.

**OrderSeeding.** The user phase is one step that leaves some of the users.
`ReplicateProducts` is one shard's transaction; `FetchPage` is the keyset query,
`task` the state of the page's chunks, `CommitChunk` and `RejectChunk` a chunk
whose drawn products the shard does or does not have. How many orders a user
draws is data; `visits` counts that its chunk was written.

**SingleSeeding.** `pc` is where `run` is: `schema` between two autocommitted
statements of `create_tables` (`step` is the next, `schema` what the database
has), `users`, `products`, `open` and `page` at the head of the phases' loops,
`collect` and `drain` as in `UserSeeding`. `jobs` are the chunks in the thread
pool: `Begin` hands one to a thread, `Take` gets it a connection (`inUse` of
`PoolSize`), `Commit` or `Fail` ends its transaction and gives the connection
back, `TimeOut` is the pool's. `walking` says that the main thread holds the
connection of its cursor; `Abort` gives it back before `ExitFailure` waits for
the threads, as leaving the two `with` blocks does. The database assigns the
ids, so a user is its place in the order of the walk, picked when its batch is
submitted: `SubmitUsers` takes any free places, before, between and after the
users of an earlier run. `orders` counts, per run, the transactions that wrote a
user's orders; that a transaction's effect is there although its answer is lost
is in `FailStatement`, `FailProducts` and `Fail`.

**OrderPaging.** An order is its id, a number of `IdBits` bits, so that
`Signed` is what `java.util.UUID.compareTo` sees. `Ask` picks an endpoint
(`kind`) and its argument, `Query` is one shard's future, `Respond` the join, the
merge, the truncation and the cursor of a page, `RespondRead` the answer of the
other endpoints, `RespondError` the 500 after which the client asks again.
`CursorDate` is what PostgreSQL makes of the cursor: `order_date` in UTC, read in
the zone of the API, `ZoneShift` ahead of it. Two history variables hold what was
stored when the client began (`base`) and when the pending request was sent
(`since`); no action looks at them.

**HashRouting.** Both computations as recursive functions over the digest's bytes. `Ring` and
`Base` stand for 2^64 and 256: the run uses small ones, the proofs any.

**CsvSeeding.** A file is the number of its lines on disk (`lines[f]`); `wrote`
is how far the loop is, `Flush` moves one file's buffer to disk at any time,
`KillGenerator` loses the rest. A user has one line in each of the six files:
its orders and its items are a block each. A line cut by the end of the file is
refused by the parser or by COPY, which is one of the ways `FailShard` fails. The
three indexes are read in one step; the states of the files at that moment cover
what three separate reads could see. A load is `StartLoad`, a `LoadShard` per
shard that owns a chosen user, then `LoadRoutes`; `Rejected` says why a shard's
transaction cannot commit (products already there, a user missing in an index,
a foreign key). Deleting the data directory, which the message of
`generate_csv` suggests, starts another instance.

**AnalyticsFanOut.** `UserRollUp`, `ProductRollUp`, `CountryRollUp` are the three
CTEs and their summary rows; `...Rows(s)` are the partial queries and
`Aggregate...` the coordinator's methods. Averages are exact fractions on the SQL
side and rounded on the Java side. `AnswerQuery` runs one query on its own
snapshot, `StoreChunk` commits orders in between, `JoinRows` and `JoinFails` are
the two ends of `allOf(...).join()`. The history variable `moments` collects what
was stored from the request on, and `Cuts` is what queries without a common
snapshot can have seen of it: each shard at a moment of its own. The properties
of the sections speak of cuts. A cut need not be a moment: of two orders that
commit on two shards during the report, the answer may count the later one without
the earlier one, which one database, with its one snapshot, never does. `IsRollUp`
also pins a second difference: the revenue of a window without orders is NULL from
SQL and 0 from the coordinator. In both the program does less than its comments say
("Matches single-DB exactly", `AnalyticsFanOut.java:130`, and "single and sharded
report the same numbers", `HeavyQueryConstants.java:31`).

**BenchmarkPipeline.** `pc` is the step of the script for the strategy at the
head of `todo`; `script` says which of the four ways of benchmarking runs, and
`Seeding`, `Judging` what they differ in. `created` and `running` are
containers, `Clashes` what makes `docker compose up` fail, `volume` what
seeding left, `app` the process on port 8080. `Own` and `SeedingFile` are what
the two compose files of a strategy name: they differ for `sharded`, whose seeding
file also has exporters, a collector, Prometheus and Grafana (`Monitor`, one
element for all of them). `Abort` is `set -e`: nothing is
cleaned up. `Refused` is the handler after `||`, the only failure that cleans up.
`results` collects what was reported and what stood behind it. `wait_healthy`
returns in any case, so it guards nothing. `docker compose up` can fail
at any point: of the containers it names some then exist, and some of these run. A
name that is taken keeps a container from being created, a port from being
started. `docker compose down` removes the containers of its file or fails before
it has removed any (`Interrupt`). `StartSpring` assumes that the API it replaces
has closed its port two seconds after SIGTERM.

## 3. Runs

| run | instance | shows |
|---|---|---|
| `user_seeding_restart` | lookup mode, 6 users on 2 shards, chunks of 2 and 1, two runs, symmetric users | routes are sound, routed reads find, success stays reachable, a chunk appears at once, the script leaves nothing running, and the phase implements `SeedContract` |
| `user_seeding_hashed` | hash mode, 4 users, a batch of 3 and a batch of 1, fair | exact totals; every run ends, also with failing chunks |
| `single_seeding` | both modes, 3 users in batches of 2 and 1, pages of at most 3, 2 threads on 2 connections, two runs, one fault anywhere | the walk serves every user once; a Citus volume is distributed before it is filled and filled by one run; the wait for a connection ends without a time-out; every run ends; the script implements `SeedContract` |
| `order_seeding_pages` | 5 users, a three-way tie across a page end, two runs | each user exactly once, equal catalogs while runs succeed, failures are loud, the walk ends |
| `order_paging_walk` | 6 orders on 2 shards in three ties, one of them (3 and 5) across the sign bit, pages of 2, one insert, one failing query | the walk repeats and skips only the two that tie across the sign bit, a page differs from one database's only in which of these it holds, reads are never short of an order, every request and the walk end |
| `csv_seeding_loads` | 2 users on 2 shards, 2 loads, three modes, generator killed or still writing | a shard holds one whole load; a successful load of a finished dataset is served by the API's router, from one load only |
| `analytics_fan_out` | 4 orders of 3 users in 2 countries on 2 shards, 2 products, stored before or while the reports run | each section is the single database's roll-up of what each shard held at some moment of the request, and every request is answered |
| `benchmark_pipeline` | the four strategies with one shard each, any two invocations of the four scripts | results are the strategy's own, a script that seeds measures whole data, success takes down the API and the compose files the script used |

Runs that are expected to fail, each with a finding in `PROJECT.json`:

| run | the text | what the code does |
|---|---|---|
| `order_seeding_diverged` | "a failed shard aborts the run instead of leaving catalogs diverged" | the run aborts, and leaves them diverged: what a shard has committed by then stays, be it a shard before the failing one or the failing one itself, when only the answer is lost |
| `order_paging_ties` | the walk shows every order | orders of the same instant with ids on both sides of the sign bit are skipped: the merge sorts by Java's order, the cursor by PostgreSQL's |
| `order_paging_zone` | "Pass nextCursor back as ?cursor= to fetch the following page" | where the API's time zone is not UTC the cursor moves by the offset, and the walk skips (or repeats) orders; the run loses one placed within the offset before the last of a page |
| `csv_truncated` | "a partially loaded dataset must abort the run" | a dataset whose generation was interrupted, or still runs, passes `data_exists`, and the load exits with success without the missing users |

### Bounds, and why they are enough

- Two shards: every statement about shards compares the shard at hand with one
  other. Two pool threads: a chunk in trouble and one that goes on.
- Users: two per shard where a chunk must be able to span shards or stay on one;
  a batch the threads do not divide, and one smaller than the pool.
- `MaxRuns` and `MaxLoads` are 2: what a run can find of earlier ones is what one
  failed, killed or finished run leaves.
- Pages of 1, 2 and 3, with a tie inside a page and one across its end.
- `PoolSize = 2` in `single_seeding`: the walk leaves one connection, for which
  two threads compete; the code's ten leave nine, for a thread per core.
  `MaxFaults = 1` together with kills and a second run: every later step is
  taken once with and once without a fault before it.
- `ZoneShift` is 0, and 2 where the walk is to fail. Dates: ties on which both orders
  of UUIDs agree and one across the sign bit. What any offset does is in the theorem
  `WalksDisturbNoOther`.
- `MaxChunks = 2`: chunks that commit while a report runs. Two are what it takes for
  a shard to be seen before the first and another after the second.
- `IdBits = 3`, bytes of 2 bits and a ring of 16: both signs occur, and the
  proofs do not depend on them.
- Analytics: a product sold on both shards, a country on both, thresholds that
  only the sum passes, an order without items, averages that do not come out
  even at one digit.
- `MaxInvocations = 2` and one shard: an invocation meets what one other left;
  left-overs of several need several strategies, which an invocation has.
- `CHECK_DEADLOCK FALSE` only where the instance really stops: when its runs,
  loads, invocations or the walk are used up. `user_seeding_*` and `analytics_fan_out` check
  deadlock.

### Fairness

- `UserSeeding`, `OrderSeeding`: weak fairness of the main thread's step and of
  each pool thread's step. The operating system schedules both, and every wait
  is on a pool thread or on a database call that returns or raises. Nothing is
  assumed about `Kill`, and none about success: each step of a thread may fail.
- `SingleSeeding`: weak fairness of the main thread's step and of some pool
  thread's step. No fault is assumed to happen; in particular `TimeOut` is not
  fair, so that the wait for a connection must end by itself.
- `OrderPaging`: weak fairness of serving. Inserts and failures are bounded, as a
  walk against a database that always fails never ends.
- `AnalyticsFanOut`: weak fairness of "some pending query ends" and of the join:
  one virtual thread per query, no lock between them. That a query ends, in rows
  or an exception, is the driver's part.
- `CsvSeeding` and `BenchmarkPipeline` state safety only: they are sequential
  programs whose waits have timeouts.

## 4. Proofs

Every safety property that a passing run checks is also a theorem, for every value of
the constants that the assumptions named below admit. The theorems are in the modules
`...Proofs`; each has a `TypeCorrect` for its type invariant and an `Inductive` for
the invariant that carries the others.

The models count, sort, page and sum, so the proofs need induction. `Induction`
gets it without an operator as a parameter: the predicate is always a *set* of
numbers or of sets, and that every element is in it follows from the library's
well-foundedness of the numbers. From that come `SetInduction` and
`RemovalInduction` over the subsets of a finite set, `LastElement` of a set in an
order, `RecursiveFunction` (a recursive function over a sequence is what its
equation says) and the laws of `SumFunctionOnSet`: one element at a time, of
multiples, of a part, under renaming and, most used, `SumByKey`: a sum may be taken
by the values of a key first.

### User seeding

`UserSeedingProofs` holds for every finite set of users, any number of shards,
threads, batch sizes and runs, and both modes: from `UsersAssumption`,
`ShardsAssumption`, `SizesAssumption` and `ModeAssumption` of `UserSeeding`.

| theorem | says |
|---|---|
| `TypeCorrect` | the type invariant |
| `Inductive` | `IInv` below |
| `RoutesAreSound` | no route ever points at a shard without the user's row |
| `RoutedReadsFind` | in lookup mode, a read that found a route finds the row, whatever commits between its two queries |
| `SuccessIsReachable` | users of a run that exited with success are reachable, during and after any later run |
| `OwedUsersAreFound` | a request for such a user is never answered with "not found", in both modes |
| `DatabasesAtRest` | after the script has exited nothing changes a database |
| `TotalsAreExact` | success means that exactly the users asked for were made and counted |
| `ChunksAppearAtOnce` | in lookup mode a chunk's users become reachable together |
| `SeedingKeepsContract` | the phase implements `SeedContract` |

None of the first six is inductive. `IInv` adds what happens between the points they
speak about:

- `RoutesHome`: a route holds the right shard, and the row is there. It needs
  that routes are written after every shard of the chunk, hence
- `ChunkProgress`: a chunk being written has committed the shards that are no
  longer in `left`, and a finished chunk is reachable.
- `ThreadsByPhase`: what the threads can be doing, by the main thread's step. It
  says that no thread runs when the script has exited, which is
  `DatabasesAtRest`, and that no chunk is forgotten when a batch is collected.
- `MadeAccounted`: each user of a run that can still succeed is reachable or in
  a chunk of the current batch. With the collected batch it gives
  `SuccessReachable`.
- `ReaderSound`: what a request between its two queries may rely on.

Rows and routes only grow, which is why a failed run cannot harm an earlier one.
The proof that a step keeps `IInv` goes conjunct by conjunct and, within each,
action by action.

The other three rest on a second invariant, `ChunkInv`, on top of it: chunks of a
run share no user (`Apart`), the routes of a chunk are there for all of its users
or for none (`AllOrNothing`), and the users in chunks are as many as the batches
and chunks handed out (`Counting`, with the remainders of both divisions). With
the count, the refinement is a step theorem: `visible` of the contract is the set
of reachable users, every action maps to a step of the contract or a stutter, and
the exit with success maps to `Succeed`, whose guard compares a cardinality.

### Single-database seeding

`SingleSeedingProofs` holds for every finite set of places, any number of threads,
runs and faults, any size of batches and pages, and both modes: from
`KeysAssumption`, `SizesAssumption` and `PoolAssumption`, which asks for a pool of
at least two connections.

| theorem | says |
|---|---|
| `TypeCorrect` | the type invariant, with it that the pool is never overdrawn |
| `Inductive` | `IInv` below |
| `CitusIsSeededOnce` | no row before all tables are distributed, and no second run on the rows of a first, whatever failed in between |
| `WaitersWaitForWriters` | when the pool is exhausted, a writing chunk holds one of its connections |
| `OrderWalkIsExact` | a run commits no user's orders twice, and on success every stored user's once |
| `SeedingKeepsContract` | the script implements `SeedContract` |

`IInv` joins two arguments that meet only in the phases of the main thread:

- `Held`: the connections in use are one per writing chunk and one for the walk.
  The walk holds at most one, so a full pool of two or more has a writer. It
  needs `ByPhase`: there is no chunk, and outside the order phase no walk, when
  a round of chunks begins.
- `Progress`: the statements a run is past have had their effect. The sixth
  statement of the Citus mode is refused when its effect is there; so a run that
  got past it (`Citus`) found the tables undistributed, and, as rows are only
  stored after the last statement, empty. Statements that took effect without
  an answer only make the next run stop earlier.

`OrderWalkIsExact` adds `WalkInv`: between two pages exactly the users up to the
cursor are written (`BetweenPages`), and while a page is worked on its users are in
one chunk each, written when the chunk is done (`Chunks`). That a page
is all that lies between two cursors is `PageIsFront`, by induction on the ids.
`SeedingKeepsContract` keeps books instead (`Books`): the users a run has stored,
those of the batch at hand and those still to ask for add up to `Count`.

### Hash routing

The theorems, in `CsvSeedingProofs`, assume `RoutingAssumption`: the number of
shards divides the ring (4 divides 2^64). `LongKeepsShard`: reading the unsigned
number as a signed one does not change its remainder by `floorMod`.
`NextByteAgrees`: if the two folds agree modulo the number of shards, so they do
after one more byte, although only one of them wraps. `RoutersAgree` is the
induction over the bytes: the API's index of every digest is the seeder's.

### CSV dataset

`CsvSeedingProofs`, from `SizesAssumption` and `DigestAssumption` and, for the hash
mode, `RoutingAssumption`.

| theorem | says |
|---|---|
| `CatalogIsWhole` | a shard holds the whole catalog or nothing of it |
| `RoutesAreLoaded` | a route points at a shard whose transaction committed |
| `SuccessIsAlone` | after a successful load all rows are of that load |
| `SuccessfulLoadIsServed` | a successful load of a finished dataset serves every user asked for, on the one shard the API looks at |

`IInv` says what the names of the files tell about their content (`Dataset`), what
a load knows that found them (`LoadedFrom`), which users are on the shards a load
is past (`Loading`), and that where any shard has a catalog the first user's shard
has one (`FirstShard`), by which a second load fails there. In the hash mode the last theorem
joins the loader's `PythonIndex` with the API's `JavaIndex` by `RoutersAgree`.

### Product and order seeding

`OrderSeedingProofs`, from the three assumptions of `OrderSeeding`. `WalkIsExact`: no
user's orders are committed twice and, on success, every stored user's once, with
any ties on `created_at`, on any number of shards. `CatalogsStayEqual`: while no run
failed the shards' catalogs are equal after the product phase.

`Between` and `Within` are the walk's invariant as in `SingleSeeding`, with a cursor
per shard: what is behind is all of the earlier shards and this one's users up to
the cursor. `Replicating` is the loop of the product phase: the shards
before the current one have this run's products.

### Order endpoints

`OrderPagingProofs`, from the three assumptions of `OrderPaging`.

| theorem | says |
|---|---|
| `ReadsAreCurrent` | reads by id, by user and of everything hold what was stored and matched when they were sent, and nothing that is not stored |
| `PagesAgreeButForTies` | a merged page has as many rows as one database's, and where it has others, these are of the same instant and the two orders of UUIDs disagree about them |
| `WalksDisturbNoOther` | a walk repeats no order unless the offset is west of UTC, or it is 0 and the order is tied across the sign bit; it skips none unless it is so tied, or the offset is east and another order is at the same time or later by no more than the offset |

Neither has a hypothesis: dates may tie, ids be on any side of the sign bit, and
`ZoneShift` be any integer. The runs `order_paging_ties` and `order_paging_zone`
show that the orders the second theorem leaves aside do get lost.

`IInv` says that a shard's answer was computed from a state that had all the client
could rely on (`Answers`). `MergeIsExact`: of a set in parts, the first n of the
parts' first n together are the first n of the set; with it follows which rows a
merged page can have. `WalkInv` says of every order that the walk should have shown
that it was shown, is still to come by the cursor, or may be missed. Its step is
`NothingLeftOut`: an order that the next cursor passes over and that was not on the
page ties with the cursor's order across the sign bit or lies within the offset of it.

### Analytics

`AnalyticsFanOutProofs`, from `DataAssumption`: finite sets of orders, products and
shards, amounts and quantities that are not negative.
`UsersReportIsRollUp`, `ProductsReportIsRollUp` and `CountriesReportIsRollUp`: every
section of every report is the roll-up, by one database, of what each shard held at
some moment between the request and the answer; where that database says NULL the
coordinator says 0. When nothing is stored during a request there is only one such
set, and the numbers are the single database's.

The argument has two halves. `IInv` adds `Snapshots` to the types: an answered query
saw what its shard held at one of the `moments`. So the snapshots of one query are a
cut (`SnapshotsAreCut`). The rest is about data: the rows of such
snapshots, grouped and added, are the roll-up. A user's orders
are on one shard, so its row is whole; a product's and a country's rows are added by
`SumByKey` with the pair of shard and product (country) as the key. `RoundedTerms`
bounds what rounding each country's average adds up to, `TwiceRounded` what
rounding their mean adds to that: one unit of the last digit together.

### Benchmark scripts

`BenchmarkPipelineProofs`, from three assumptions: a finite set of shards that is not
empty, a list of strategies that is not empty, any number of invocations.
`MeasurementsAreOwn`, `SeededDataIsWhole` and
`SuccessTakesAllDown` need to know, step by step, whose containers and whose
API can be there: `Alone` (nobody else holds a port or a name of the strategy
being measured), `OwnServer`, `Seeded`, `Cleared`
(a strategy that is done has no databases left), and `Unmonitored` (in a script that
seeds its monitoring is down from the end of the seeding on). The last is not true
of the other scripts: the benchmark file does not name what an aborted seed started
of the monitoring, and the theorem does not claim it.

### Only model-checked

Liveness: `RunsEnd`, `ChunkFailureAborts`, `WalkEnds` and `ReportEnds` rest on
fairness, for which the prover has no rules. The four runs that are expected to fail
are counterexamples, not theorems.

## 5. Not modelled

| part | why |
|---|---|
| load generator, data factory, configuration | random data; the models take it as identities and small orders |
| compose files and dashboards | container definitions; `BenchmarkPipeline` has their services, ports and names |
| product reads | one query, on the sharded profiles always against the first shard; that it has the catalog is `OrderSeeding`'s and `CsvSeeding`'s subject |
| `save` of orders | no controller calls it; after a change of user it would update on the wrong shard |
| `--skip-creation`, `--skip-generation` | they leave out a phase; a run without its schema fails at its first statement |
| Citus worker registration | its errors are ignored; `BenchmarkPipeline` knows that distributed tables cannot be seeded again |
| SHA-1, byte order of UUIDs | the digest is a constant of `HashRouting` |
| the seeder's time zone | `created_at` is compared with what the database returns for it, never with a client's clock |
| `?size=0` | one request, an exception in the controller; the model asks for positive sizes |
| closing of the loader's shard connections | after the last commit, and its errors are only logged |
| report columns per user and product | the service drops them |
| two scripts at the same time | they would share port 8080; nothing suggests that they are meant to |

## 6. Plan

What is left is breadth rather than depth:

1. The hazards of `PROJECT.json` that have no property yet: the last full page's
   cursor, a first shard without users.
2. An API that outlives `kill_spring` for longer than two seconds, as a second
   process beside the new one in `BenchmarkPipeline`.
