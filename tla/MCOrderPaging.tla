--------------------------- MODULE MCOrderPaging ---------------------------
(* Instances of OrderPaging for TLC: three-bit ids, so that 4..7 are negative *)
(* as Java longs and 1..3 are not.                                            *)
EXTENDS OrderPaging

MCOrders == {1, 2, 3, 5, 6, 7}

\* Users 1 and 2 live on shards 0 and 1.
MCBuyer == [o \in MCOrders |-> IF o \in {1, 3, 6} THEN 1 ELSE 2]
MCHome  == [u \in {1, 2} |-> u - 1]

\* Ties across the two shards: 6 and 7, and 1 and 2, on which PostgreSQL and Java
\* agree, and between them 3 and 5, whose ids are on both sides of the sign bit.
MixedDate == [o \in MCOrders |-> CASE o \in {6, 7} -> 3 [] o \in {3, 5} -> 2 [] o \in {1, 2} -> 1]

\* 3 and 5 were placed at the same instant, with ids on both sides of the sign bit.
TiedDate == [o \in MCOrders |-> IF o \in {3, 5} THEN 2 ELSE o]

\* No two orders of one instant.
ApartDate == [o \in MCOrders |-> o]
=============================================================================
