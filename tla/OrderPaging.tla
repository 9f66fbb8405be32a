---------------------------- MODULE OrderPaging ----------------------------
(***************************************************************************)
(* The order endpoints.  GET /orders/all-page: a client walks every order, *)
(* newest first, in keyset-paginated pages (OrderController, OrderService).*)
(* In the sharded and lookup profiles OrderRepository.findPageKeyset sends *)
(* the page query to every shard in parallel, waits for all answers, sorts *)
(* their union and truncates it; in the single profile the one database    *)
(* answers.  The other reads are one request each: /orders/all and         *)
(* /orders/{uuid} ask every shard, /orders/user/{uuid} the user's shard.   *)
(* Shard queries run at different moments, orders are inserted meanwhile,  *)
(* and a shard may fail, which the client sees as a 500 and retries.       *)
(*                                                                         *)
(* An order is its order_id, an unsigned number of IdBits bits.            *)
(***************************************************************************)
EXTENDS Integers, FiniteSets

CONSTANTS
    Orders,      \* order ids that may exist
    IdBits,      \* width of an id (128 in the code)
    Date,        \* order_date of each order, not unique
    Buyer,       \* the user of each order
    NumShards,
    Home,        \* the shard of each user and of its orders
    Size,        \* the page size the client asks for
    Merged,      \* TRUE: sharded or lookup profile; FALSE: single profile
    ZoneShift,   \* how far the API's time zone is ahead of UTC
    MaxInserts,  \* bound: orders inserted during the requests
    MaxFailures  \* bound: shard queries that fail

Shards   == 0 .. NumShards - 1
Users    == {Buyer[o] : o \in Orders}
Kinds    == {"page", "all", "id", "user"}
NoCursor == -1
NoAnswer == {NoCursor}
Failure  == {NoCursor - 1}

ASSUME OrdersAssumption ==
    /\ IdBits \in Nat \ {0} /\ Orders \subseteq 0 .. 2 ^ IdBits - 1
    /\ IsFiniteSet(Orders)
    /\ Date \in [Orders -> Nat] /\ ZoneShift \in Int
    /\ Buyer \in [Orders -> Nat]
ASSUME ShardsAssumption ==
    /\ NumShards \in Nat \ {0} /\ Home \in [Users -> Shards]
    /\ Merged \in BOOLEAN /\ (~ Merged => NumShards = 1)
ASSUME SizesAssumption ==
    Size \in Nat \ {0} /\ MaxInserts \in Nat /\ MaxFailures \in Nat

VARIABLES
    db,        \* orders committed, on their shards
    kind,      \* what the client reads, one of Kinds
    walk,      \* "idle" | "waiting" | "done"
    cursor,    \* ?cursor= or {uuid} of the pending request, or NoCursor
    answer,    \* answer[s]: what the future of shard s holds, or NoAnswer
    seen,      \* seen[o]: how often the walk was given order o
    page,      \* content of the last response
    base,      \* history: the orders that existed when the client began
    since,     \* history: the orders that existed when the pending request was sent
    inserts, failures

client == <<kind, walk, cursor, seen, page>>
vars   == <<db, client, answer, base, since, inserts, failures>>

-----------------------------------------------------------------------------
(* The two orders, and the page query. *)

\* ORDER BY o.order_date DESC, o.order_id DESC: PostgreSQL compares uuid values
\* byte by byte, unsigned.
Newer(v, o) ==
    \/ Date[v] > Date[o]
    \/ Date[v] = Date[o] /\ v > o

\* java.util.UUID.compareTo compares signed longs.
Signed(o) == IF o >= 2 ^ (IdBits - 1) THEN o - 2 ^ IdBits ELSE o

\* The merge's comparator: reverse order_date, then reverse UUID.compareTo.
MergesBefore(v, o) ==
    \/ Date[v] > Date[o]
    \/ Date[v] = Date[o] /\ Signed(v) > Signed(o)

ContentBefore(v, o) == IF Merged THEN MergesBefore(v, o) ELSE Newer(v, o)

\* The date in the cursor is order_date in UTC without its offset; PostgreSQL reads
\* it back in the session's zone, which is the API's.
CursorDate == Date[cursor] - ZoneShift

\* WHERE order_date < ? OR (order_date = ? AND order_id < ?)
Behind(S) ==
    {o \in S : \/ cursor = NoCursor
               \/ Date[o] < CursorDate
               \/ Date[o] = CursorDate /\ o < cursor}

\* ... ORDER BY ... LIMIT n
TopRows(S, n) == {o \in S : Cardinality({v \in S : Newer(v, o)}) < n}

\* Mutant: the fan-out asks each shard for its share of the page only.
PageQueryShare(S) == TopRows(Behind(S), (Size + NumShards - 1) \div NumShards)

PageQuery(S) == TopRows(Behind(S), Size)

\* Mutant: the merged list is not truncated to the page.
MergeAll(S) == S

\* merged.sort(...), then subList(0, pageSize).
Merge(S) == {o \in S : Cardinality({v \in S : ContentBefore(v, o)}) < Size}

\* FIND_ALL, FIND_BY_ID and FIND_BY_USER_ID.
Matching(S) ==
    {o \in S : /\ kind = "id" => o = cursor
               /\ kind = "user" => Buyer[o] = cursor}

\* The shards a request is sent to.
Asked == IF kind = "user" THEN {Home[cursor]} ELSE Shards

OnShard(s) == {o \in db : Home[Buyer[o]] = s}

\* allOf(...).join() returns when every future is complete.
Joined == walk = "waiting" /\ \A s \in Asked : answer[s] # NoAnswer

\* Mutant: shards that failed are skipped.
NoneFailedAlways == TRUE

NoneFailed == \A s \in Asked : answer[s] # Failure

Rows    == (UNION {answer[s] : s \in Shards}) \cap Orders
Content == Merge(Rows)

-----------------------------------------------------------------------------
Insert(o) ==
    /\ inserts < MaxInserts /\ o \notin db
    /\ db' = db \cup {o} /\ inserts' = inserts + 1
    /\ UNCHANGED <<client, answer, base, since, failures>>

\* The first request of a walk carries no cursor.
Ask(k, c) ==
    /\ walk = "idle"
    /\ walk' = "waiting" /\ kind' = k /\ cursor' = c
    /\ base' = db /\ since' = db
    /\ UNCHANGED <<db, answer, seen, page, inserts, failures>>

\* The future of shard s runs its query.
Query(s) ==
    /\ walk = "waiting" /\ s \in Asked /\ answer[s] = NoAnswer
    /\ answer' = [answer EXCEPT ![s] = IF kind = "page" THEN PageQuery(OnShard(s))
                                                        ELSE Matching(OnShard(s))]
    /\ UNCHANGED <<db, client, base, since, inserts, failures>>

FailQuery(s) ==
    /\ walk = "waiting" /\ s \in Asked /\ answer[s] = NoAnswer /\ failures < MaxFailures
    /\ answer' = [answer EXCEPT ![s] = Failure]
    /\ failures' = failures + 1
    /\ UNCHANGED <<db, client, base, since, inserts>>

\* 200: the page, and nextCursor - which the client sends back at once - when the
\* page is full.
Respond ==
    /\ Joined /\ NoneFailed /\ kind = "page"
    /\ page' = Content
    /\ seen' = [o \in Orders |-> IF o \in Content THEN seen[o] + 1 ELSE seen[o]]
    /\ IF Cardinality(Content) = Size
         THEN /\ cursor' = CHOOSE o \in Content : \A v \in Content : v = o \/ ContentBefore(v, o)
              /\ UNCHANGED walk
         ELSE walk' = "done" /\ UNCHANGED cursor
    /\ answer' = [s \in Shards |-> NoAnswer] /\ since' = db
    /\ UNCHANGED <<db, kind, base, inserts, failures>>

\* 200 with the orders found; for /orders/{uuid} 404 when there is none.
RespondRead ==
    /\ Joined /\ NoneFailed /\ kind # "page"
    /\ page' = Rows /\ walk' = "done"
    /\ answer' = [s \in Shards |-> NoAnswer]
    /\ UNCHANGED <<db, kind, cursor, seen, base, since, inserts, failures>>

\* Mutant: the retry finds the failed futures again.
RespondErrorForGood ==
    /\ Joined /\ ~ NoneFailed
    /\ since' = db
    /\ UNCHANGED <<db, client, answer, base, inserts, failures>>

\* join() threw: 500, and the client sends the same request again.
RespondError ==
    /\ Joined /\ ~ NoneFailed
    /\ answer' = [s \in Shards |-> NoAnswer] /\ since' = db
    /\ UNCHANGED <<db, client, base, inserts, failures>>

Init ==
    /\ db \in SUBSET Orders
    /\ kind = "page" /\ walk = "idle" /\ cursor = NoCursor /\ page = {}
    /\ answer = [s \in Shards |-> NoAnswer]
    /\ seen = [o \in Orders |-> 0]
    /\ base = {} /\ since = {}
    /\ inserts = 0 /\ failures = 0

Start ==
    \/ \E k \in {"page", "all"} : Ask(k, NoCursor)
    \/ \E o \in Orders : Ask("id", o)
    \/ \E u \in Users : Ask("user", u)

Serve ==
    \/ \E s \in Shards : Query(s) \/ FailQuery(s)
    \/ Respond \/ RespondRead \/ RespondError

Next ==
    \/ \E o \in Orders : Insert(o)
    \/ Start
    \/ Serve

Spec == Init /\ [][Next]_vars

\* A request that was sent is served: its futures run and the handler returns.
FairSpec == Spec /\ WF_vars(Serve)

-----------------------------------------------------------------------------
(* Properties. *)

\* The types of the variables.
TypeOK ==
    /\ db \subseteq Orders /\ base \subseteq since /\ since \subseteq db
    /\ kind \in Kinds
    /\ page \subseteq Orders /\ (kind = "page" => Cardinality(page) <= Size)
    /\ walk \in {"idle", "waiting", "done"}
    /\ cursor \in Orders \cup Users \cup {NoCursor}
    /\ answer \in [Shards -> (SUBSET Orders) \cup {NoAnswer, Failure}]
    /\ seen \in [Orders -> Nat]
    /\ inserts \in 0 .. MaxInserts /\ failures \in 0 .. MaxFailures

\* A walk shows no order twice, and by its end it has shown every order that
\* existed when it began - across shards queried at different moments, inserts
\* between and during the pages, and pages retried after a 500.
EachOrderOnce ==
    /\ \A o \in Orders : seen[o] <= 1
    /\ kind = "page" /\ walk = "done" => \A o \in base : seen[o] = 1

\* The fan-out is invisible ("the same algorithm in every strategy",
\* OrderController.getAllOrdersWithPaging) but for ties.  Although its queries run at
\* different moments, a page has as many rows as one database would have returned
\* for the same cursor, a database with all orders that were stored when the page was
\* asked for and with some of those inserted before it was answered; and where it has
\* others instead, they are of the same instant and the two orders of UUIDs disagree
\* about them.
PageButForTies ==
    [][Respond => \E D \in SUBSET db :
          LET single == PageQuery(D)
          IN  /\ since \subseteq D /\ page' \subseteq Behind(D)
              /\ Cardinality(page') = Cardinality(single)
              /\ \A o \in page' \ single, v \in single \ page' :
                    Date[o] = Date[v] /\ o < v /\ Signed(v) < Signed(o)]_vars

\* An order that shares its instant with one on the other side of the sign bit.
TiedAcross(o) ==
    Merged /\ \E v \in Orders : Date[v] = Date[o] /\ (Signed(v) < 0 <=> Signed(o) >= 0)

\* What the two defects of the walk can do to an order: cursors that move back in time
\* or stop within its instant show it again; cursors that move too far skip it.
MayRepeat(o) == ZoneShift < 0 \/ (ZoneShift = 0 /\ TiedAcross(o))
MayMiss(o) ==
    \/ ZoneShift = 0 /\ TiedAcross(o)
    \/ ZoneShift > 0 /\ \E v \in Orders \ {o} : Date[v] \in Date[o] .. Date[o] + ZoneShift

\* In any time zone, on any dates and ids: the walk repeats and skips no other orders
\* than those - whatever is inserted, fails and is asked again.
OnceUnlessDisturbed ==
    /\ \A o \in Orders : MayRepeat(o) \/ seen[o] <= 1
    /\ kind = "page" /\ walk = "done" => \A o \in base : MayMiss(o) \/ seen[o] >= 1

\* Reads by id, by user and of everything are of the time of the request: what
\* was stored when it was sent is in the answer, also after a 500 and a retry,
\* and a failing shard never turns into a 404 or a shorter list.
ReadIsCurrent == [][RespondRead => Matching(since) \subseteq page' /\ page' \subseteq Matching(db)]_vars

\* Every request, and the whole walk, comes to an end (a bounded number of 500s
\* and inserts aside).
WalkEnds == (walk = "waiting") ~> (walk = "done")
=============================================================================
