--------------------------- MODULE AnalyticsFanOut ---------------------------
(***************************************************************************)
(* The heavy analytics report, computed twice: by one SQL roll-up on one   *)
(* database (HEAVY_ANALYTICS_QUERY) and by a coordinator that asks every   *)
(* shard four partial queries at once and groups the rows itself           *)
(* (AnalyticsFanOut.execute).  The queries of one report run on different  *)
(* connections at different moments; chunks of orders may be committed in  *)
(* between, and any query may fail.                                        *)
(*                                                                         *)
(* Only orders inside the report's window are modelled: all queries filter *)
(* by the same two dates.  Money and quantities are integers; an average   *)
(* is an exact fraction where PostgreSQL computes it (NUMERIC keeps 16     *)
(* digits and more) and a number of 1/Scale units where the coordinator    *)
(* rounds it.  The value of an aggregate is a set, empty for SQL's NULL.   *)
(***************************************************************************)
EXTENDS Integers, FiniteSets, Functions

CONSTANTS
    Orders, Users, Products, Countries, Shards,
    Owner,          \* Owner[o]: its user
    Amount,         \* Amount[o]: orders.total_amount
    Lines,          \* Lines[o][p]: quantity of p in o, 0 for no order item
    Price,          \* Price[p]: the same on every shard
    Country,        \* Country[u]
    Home,           \* Home[u]: its shard, for either way of routing
    ManyOrders,     \* 10: a user with more is special
    HighProduct,    \* 10000: a product with more revenue is special
    HighCountry,    \* 50000: a country with more revenue is special
    Scale,          \* 10^6: averages are rounded to six digits
    MaxChunks       \* bound: chunks that commit during one request

ASSUME DataAssumption ==
    /\ Owner \in [Orders -> Users] /\ Country \in [Users -> Countries]
    /\ Home \in [Users -> Shards]
    /\ Amount \in [Orders -> Nat] /\ Price \in [Products -> Nat]
    /\ Lines \in [Orders -> [Products -> Nat]]
    /\ Scale \in Nat \ {0}
    /\ IsFiniteSet(Orders) /\ IsFiniteSet(Products) /\ IsFiniteSet(Shards)

\* The fourth, country-product pairs, is asked for, waited for and dropped.
Queries == {"user", "product", "country", "pairs"}

VARIABLES
    stored,     \* orders whose chunk has committed, with all their items
    pc,         \* the report: "idle" | "running"
    pending,    \* the <<query, shard>> that have not ended
    failed,     \* has one of them ended in an exception?
    seen,       \* seen[q][s]: the orders its snapshot held, once answered
    moments,    \* history: what was stored at the moments of a request that runs
                \* and has not failed
    outcome,    \* of the last request: "none" | "error" | "report"
    report      \* its three sections, if there are any

vars == <<stored, pc, pending, failed, seen, moments, outcome, report>>

Here(s, T) == {o \in T : Home[Owner[o]] = s}
Nothing    == [q \in Queries |-> [s \in Shards |-> {}]]

-----------------------------------------------------------------------------
(* What the joins and groups of the queries are built from, over the orders *)
(* T of one database.                                                       *)

Buyers(T)    == {Owner[o] : o \in T}
Of(u, T)     == {o \in T : Owner[o] = u}
From(c, T)   == {o \in T : Country[Owner[o]] = c}
Places(T)    == {Country[Owner[o]] : o \in T}
With(p, T)   == {o \in T : Lines[o][p] > 0}
Sold(T)      == {p \in Products : With(p, T) # {}}
Spent(T)     == SumFunctionOnSet(Amount, T)
Quantity(p, T) == SumFunction([o \in T |-> Lines[o][p]])

\* orders LEFT JOIN order_items: one row per item, one for an order without.
Joined(o) == LET n == Cardinality({p \in Products : Lines[o][p] > 0})
             IN  IF n = 0 THEN 1 ELSE n
JoinedRows(T)  == SumFunction([o \in T |-> Joined(o)])
\* SUM(o.total_amount) after that join counts an order once per item.
Inflated(T)    == SumFunction([o \in T |-> Amount[o] * Joined(o)])

Plus(f, g) == <<f[1] * g[2] + g[1] * f[2], f[2] * g[2]>>

\* AVG over one fraction per group, as a fraction; NULL without groups.
Mean(fractions) ==
    LET total  == FoldFunction(Plus, <<0, 1>>, fractions)
        groups == DOMAIN fractions
    IN  IF groups = {} THEN {} ELSE {<<total[1], total[2] * Cardinality(groups)>>}

SumOrNull(n, T) == IF T = {} THEN {} ELSE {n}

Section(count, orders, revenue, average, special) ==
    [count |-> count, orders |-> orders, revenue |-> revenue,
     average |-> average, special |-> special]

-----------------------------------------------------------------------------
(* The single database's roll-up of the orders T.                           *)

UserRollUp(T) ==
    Section(Cardinality(Buyers(T)), Cardinality(T), SumOrNull(Spent(T), T),
            Mean([u \in Buyers(T) |-> <<Spent(Of(u, T)), Cardinality(Of(u, T))>>]),
            Cardinality({u \in Buyers(T) : Cardinality(Of(u, T)) > ManyOrders}))

ProductRollUp(T) ==
    LET revenue == [p \in Sold(T) |-> Price[p] * Quantity(p, T)]
    IN  Section(Cardinality(Sold(T)),
                SumFunction([p \in Sold(T) |-> Cardinality(With(p, T))]),
                SumOrNull(SumFunction(revenue), Sold(T)),
                Mean([p \in Sold(T) |-> <<Quantity(p, T), 1>>]),
                Cardinality({p \in Sold(T) : revenue[p] > HighProduct}))

CountryRollUp(T) ==
    Section(Cardinality(Places(T)), Cardinality(T), SumOrNull(Inflated(T), T),
            Mean([c \in Places(T) |-> <<Inflated(From(c, T)), JoinedRows(From(c, T))>>]),
            Cardinality({c \in Places(T) : Inflated(From(c, T)) > HighCountry}))

-----------------------------------------------------------------------------
(* The rows the shards answer with, and what the coordinator makes of them. *)

UserRows(s) ==
    LET T == seen["user"][s]
    IN  {[user |-> u, orders |-> Cardinality(Of(u, T)), spent |-> Spent(Of(u, T))]
            : u \in Buyers(T)}

ProductRows(s) ==
    LET T == seen["product"][s]
    IN  {[shard |-> s, product |-> p, times |-> Cardinality(With(p, T)),
          quantity |-> Quantity(p, T), revenue |-> Price[p] * Quantity(p, T)] : p \in Sold(T)}

CountryRows(s) ==
    LET T == seen["country"][s]
    IN  {[shard |-> s, country |-> c, orders |-> Cardinality(From(c, T)),
          revenue |-> Inflated(From(c, T)), joined |-> JoinedRows(From(c, T))] : c \in Places(T)}

Flatten(Rows(_)) == UNION {Rows(s) : s \in Shards}

\* The sum of one column of some rows.
Total(column(_), rows) == SumFunction([r \in rows |-> column(r)])

\* BigDecimal.divide(..., 6, HALF_UP) of non-negative numbers, in units.
Divide(n, d) == (2 * n + d) \div (2 * d)

\* A coordinator that averages over orders instead of over users.
AggregateUsersFlat ==
    LET rows  == Flatten(UserRows)
        spent == Total(LAMBDA r : r.spent, rows)
        n     == Total(LAMBDA r : r.orders, rows)
    IN  Section(Cardinality(rows), n, {spent},
                IF n > 0 THEN Divide(spent * Scale, n) ELSE 0,
                Cardinality({r \in rows : r.orders > ManyOrders}))

\* aggregateUserAnalytics: every row is one user.
AggregateUsers ==
    LET rows == Flatten(UserRows)
        mean == Mean([r \in rows |-> <<r.spent, r.orders>>])
    IN  Section(Cardinality(rows), Total(LAMBDA r : r.orders, rows),
                {Total(LAMBDA r : r.spent, rows)},
                IF rows = {} THEN 0
                ELSE LET f == CHOOSE f \in mean : TRUE IN Divide(f[1] * Scale, f[2]),
                Cardinality({r \in rows : r.orders > ManyOrders}))

\* A coordinator that adds up what the shards counted.
AggregateProductsPerShard ==
    LET rows == Flatten(ProductRows)
    IN  Section(Cardinality(rows), Total(LAMBDA r : r.times, rows),
                {Total(LAMBDA r : r.revenue, rows)},
                IF rows = {} THEN 0
                ELSE Divide(Total(LAMBDA r : r.quantity, rows) * Scale, Cardinality(rows)),
                Cardinality({r \in rows : r.revenue > HighProduct}))

\* aggregateProductAnalytics: rows of the same product are added first.
AggregateProducts ==
    LET rows      == Flatten(ProductRows)
        byProduct == {r.product : r \in rows}
        revenue   == [p \in byProduct |-> Total(LAMBDA r : r.revenue,
                                                {r \in rows : r.product = p})]
    IN  Section(Cardinality(byProduct), Total(LAMBDA r : r.times, rows),
                {SumFunction(revenue)},
                IF rows = {} THEN 0
                ELSE Divide(Total(LAMBDA r : r.quantity, rows) * Scale,
                            Cardinality(byProduct)),
                Cardinality({p \in byProduct : revenue[p] > HighProduct}))

\* What the coordinator adds up per country.
ByCountry(rows) == {r.country : r \in rows}
RevenueOf(rows) ==
    [c \in ByCountry(rows) |-> Total(LAMBDA r : r.revenue, {r \in rows : r.country = c})]
JoinedOf(rows) ==
    [c \in ByCountry(rows) |-> Total(LAMBDA r : r.joined, {r \in rows : r.country = c})]
AverageOf(rows) ==
    [c \in ByCountry(rows) |-> Divide(RevenueOf(rows)[c] * Scale, JoinedOf(rows)[c])]

\* A coordinator that applies the threshold to each shard's row.
AggregateCountriesPerShard ==
    LET rows == Flatten(CountryRows)
    IN  Section(Cardinality(ByCountry(rows)), Total(LAMBDA r : r.orders, rows),
                {SumFunction(RevenueOf(rows))},
                IF rows = {} THEN 0
                ELSE Divide(SumFunction(AverageOf(rows)), Cardinality(ByCountry(rows))),
                Cardinality({r \in rows : r.revenue > HighCountry}))

\* aggregateCountryAnalytics: the countries' averages are rounded, and so is
\* the average of them.
AggregateCountries ==
    LET rows == Flatten(CountryRows)
    IN  Section(Cardinality(ByCountry(rows)), Total(LAMBDA r : r.orders, rows),
                {SumFunction(RevenueOf(rows))},
                IF rows = {} THEN 0
                ELSE Divide(SumFunction(AverageOf(rows)), Cardinality(ByCountry(rows))),
                Cardinality({c \in ByCountry(rows) : RevenueOf(rows)[c] > HighCountry}))

-----------------------------------------------------------------------------

Init ==
    /\ stored \in SUBSET Orders
    /\ pc = "idle" /\ pending = {} /\ failed = FALSE /\ seen = Nothing
    /\ moments = {} /\ outcome = "none" /\ report = <<>>

\* A chunk of new orders commits on one shard.
StoreChunk(s) ==
    /\ Cardinality(moments) <= MaxChunks
    /\ \E chunk \in SUBSET Here(s, Orders \ stored) :
          chunk # {} /\ stored' = stored \cup chunk
    /\ moments' = IF moments = {} THEN {} ELSE moments \cup {stored'}
    /\ UNCHANGED <<pc, pending, failed, seen, outcome, report>>

\* GET /analytics: all queries of all shards are submitted at once.
StartReport ==
    /\ pc = "idle"
    /\ pc' = "running"
    /\ pending' = Queries \X Shards
    /\ moments' = {stored}
    /\ outcome' = "none" /\ report' = <<>>
    /\ UNCHANGED <<stored, failed, seen>>

\* A loop whose tasks share the template of one shard.
AnswerQueryAnyShard(q, s) ==
    /\ <<q, s>> \in pending
    /\ pending' = pending \ {<<q, s>>}
    /\ seen' = IF failed \/ q = "pairs" THEN seen
               ELSE [seen EXCEPT ![q][s] = UNION {Here(t, stored) : t \in Shards \ {s}}]
    /\ UNCHANGED <<stored, pc, failed, moments, outcome, report>>

\* One query runs on one snapshot of its shard.  Rows nobody will look at,
\* because another query has failed, are not kept.
AnswerQuery(q, s) ==
    /\ <<q, s>> \in pending
    /\ pending' = pending \ {<<q, s>>}
    /\ seen' = IF failed \/ q = "pairs" THEN seen
               ELSE [seen EXCEPT ![q][s] = Here(s, stored)]
    /\ UNCHANGED <<stored, pc, failed, moments, outcome, report>>

FailQuery(q, s) ==
    /\ <<q, s>> \in pending
    /\ pending' = pending \ {<<q, s>>}
    /\ failed' = TRUE
    /\ seen' = Nothing /\ moments' = {}
    /\ UNCHANGED <<stored, pc, outcome, report>>

Finish ==
    /\ pc' = "idle"
    /\ failed' = FALSE
    /\ seen' = Nothing
    /\ moments' = {}
    /\ UNCHANGED <<stored, pending>>

\* allOf(...).join(): every query has ended, and none has failed.
JoinRows ==
    /\ pc = "running" /\ pending = {} /\ ~failed
    /\ outcome' = "report"
    /\ report' = [user |-> AggregateUsers, product |-> AggregateProducts,
                  country |-> AggregateCountries]
    /\ Finish

\* A coordinator that asks again for as long as a query fails.
JoinRetries ==
    /\ pc = "running" /\ pending = {} /\ failed
    /\ pending' = Queries \X Shards
    /\ failed' = FALSE
    /\ UNCHANGED <<stored, pc, seen, moments, outcome, report>>

\* The join throws, but only when the last of them has ended.
JoinFails ==
    /\ pc = "running" /\ pending = {} /\ failed
    /\ outcome' = "error"
    /\ UNCHANGED report
    /\ Finish

EndQuery == \E q \in Queries, s \in Shards : AnswerQuery(q, s) \/ FailQuery(q, s)

Next ==
    \/ \E s \in Shards : StoreChunk(s)
    \/ StartReport
    \/ EndQuery
    \/ JoinRows \/ JoinFails

\* A virtual thread per query, and the request thread in the join; that every
\* query ends in rows or in an exception is the driver's part.
Fairness ==
    /\ WF_vars(EndQuery)
    /\ WF_vars(JoinRows \/ JoinFails)

Spec == Init /\ [][Next]_vars /\ Fairness

-----------------------------------------------------------------------------
(* Properties.                                                              *)

Done == outcome = "report"

\* The types of the variables.
TypeOK ==
    /\ stored \subseteq Orders /\ moments \subseteq SUBSET stored
    /\ pc \in {"idle", "running"}
    /\ pending \subseteq Queries \X Shards /\ failed \in BOOLEAN
    /\ outcome \in {"none", "error", "report"}
    /\ \A q \in Queries, s \in Shards : seen[q][s] \subseteq Here(s, stored)
    /\ Done <=> report # <<>>

\* What queries without a common snapshot can have seen: of every shard what it
\* held at some moment of the request, each shard at a moment of its own.
Cuts == {UNION {Here(s, at[s]) : s \in Shards} : at \in [Shards -> moments]}

\* The coordinator's average is off by at most halves/2 units of the last digit.
Near(units, exact, halves) ==
    \A f \in exact :
        LET gap == units * f[2] - f[1] * Scale
        IN  2 * gap <= halves * f[2] /\ -2 * gap <= halves * f[2]

\* The single database's totals, its average but for the rounding, and 0 where it
\* says NULL.
IsRollUp(ours, theirs, halves) ==
    /\ ours.count = theirs.count
    /\ ours.orders = theirs.orders
    /\ ours.special = theirs.special
    /\ ours.revenue = IF theirs.revenue = {} THEN {0} ELSE theirs.revenue
    /\ IF theirs.average = {} THEN ours.average = 0
                              ELSE Near(ours.average, theirs.average, halves)

\* The users' section is one database's roll-up of what each shard held at some
\* moment of the request: no chunk is seen in part, nothing that was stored before
\* the request is missing, and when nothing is stored during the request these are
\* the single database's numbers.  Its average is rounded once.
UsersAreRollUp ==
    [][JoinRows => \E T \in Cuts : IsRollUp(report'.user, UserRollUp(T), 1)]_vars

\* So is the products' section, of moments of its own: a product sold on several
\* shards is counted once, and judged by what all shards sold.
ProductsAreRollUp ==
    [][JoinRows => \E T \in Cuts : IsRollUp(report'.product, ProductRollUp(T), 1)]_vars

\* So is the countries' section, with the average rounded twice.
CountriesAreRollUp ==
    [][JoinRows => \E T \in Cuts : IsRollUp(report'.country, CountryRollUp(T), 2)]_vars

\* Every request is answered, with a report or with an error, however many of
\* its queries fail.
ReportEnds == pc = "running" ~> pc = "idle"
=============================================================================
