--------------------------- MODULE MCUserSeeding ---------------------------
(* Instances of UserSeeding for TLC: users spread evenly over two shards, so  *)
(* that a chunk of two may span both shards or stay on one.                   *)
EXTENDS UserSeeding, TLC

CONSTANTS u1, u2, u3, u4, u5, u6

FourUsers == {u1, u2, u3, u4}
SixUsers  == {u1, u2, u3, u4, u5, u6}

HomeOfFour == [u \in FourUsers |-> IF u \in {u1, u2} THEN 0 ELSE 1]
HomeOfSix  == [u \in SixUsers |-> IF u \in {u1, u2, u5} THEN 0 ELSE 1]

\* Users of one shard are interchangeable.
SixSymmetry == Permutations({u1, u2, u5}) \cup Permutations({u3, u4, u6})
=============================================================================
