--------------------------- MODULE MCOrderSeeding --------------------------
(* Instances of OrderSeeding for TLC.                                         *)
EXTENDS OrderSeeding

\* Four users on the first shard, three of them created at the same instant so
\* that a tie spans the page boundary; one user on the second shard.
MCUsers     == 1 .. 5
MCHome      == [u \in MCUsers |-> IF u = 5 THEN 1 ELSE 0]
MCCreatedAt == [u \in MCUsers |-> IF u \in {2, 3, 4} THEN 1 ELSE 0]
=============================================================================
