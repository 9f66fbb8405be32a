-------------------------- MODULE CsvSeedingProofs --------------------------
(***************************************************************************)
(* Proofs about CsvSeeding, for every size of the dataset, every number of *)
(* shards and of loads, all digests, and the three modes; and about the    *)
(* routing it rests on.                                                    *)
(***************************************************************************)
EXTENDS CsvSeeding, Induction

-----------------------------------------------------------------------------
(* Hash routing: the seeder's and the API's router agree for every number  *)
(* of shards that divides the ring, whatever the bytes.  Both fold the     *)
(* digest from 0, one byte at a time; NextByteAgrees says that a step      *)
(* keeps the two numbers congruent modulo the number of shards although    *)
(* only one of them wraps.                                                 *)

\* Euclid's division, for a dividend of either sign.

LEMMA DivMod ==
    ASSUME NEW a \in Int, NEW n \in Nat \ {0}
    PROVE  /\ a \div n \in Int
           /\ a % n \in 0 .. n - 1
           /\ a = n * (a \div n) + (a % n)
  OBVIOUS

\* A number has one remainder.
LEMMA RemainderUnique ==
    ASSUME NEW n \in Nat \ {0}, NEW q \in Int, NEW p \in Int,
           NEW r \in 0 .. n - 1, NEW s \in 0 .. n - 1,
           n * q + r = n * p + s
    PROVE  r = s
<1>1. n * (q - p) = s - r
  OBVIOUS
<1>2. CASE q - p >= 1
  <2>1. n * (q - p) >= n
    BY <1>2
  <2> QED  BY <2>1, <1>1
<1>3. CASE q - p <= -1
  <2>1. n * (q - p) <= -n
    BY <1>3
  <2> QED  BY <2>1, <1>1
<1>4. CASE q = p
  BY <1>1, <1>4
<1> QED  BY <1>2, <1>3, <1>4

\* Adding a multiple of the modulus does not change the remainder.
LEMMA ModShift ==
    ASSUME NEW a \in Int, NEW m \in Int, NEW n \in Nat \ {0}
    PROVE  (a + m * n) % n = a % n
<1> DEFINE b == a + m * n
<1>1. b \in Int  OBVIOUS
<1>2. /\ b = n * (b \div n) + (b % n)
      /\ b \div n \in Int
      /\ b % n \in 0 .. n - 1
  BY <1>1, DivMod
<1>3. /\ a = n * (a \div n) + (a % n)
      /\ a \div n \in Int
      /\ a % n \in 0 .. n - 1
  BY DivMod
<1> HIDE DEF b
<1>4. b = a + m * n  BY DEF b
<1>5. n * ((a \div n) + m) = n * (a \div n) + m * n
  BY <1>3
<1>6. n * (b \div n) + (b % n) = n * ((a \div n) + m) + (a % n)
  BY <1>2, <1>3, <1>4, <1>5
<1>7. (a \div n) + m \in Int  BY <1>3
<1>8. b % n = a % n
  BY <1>2, <1>3, <1>6, <1>7, RemainderUnique
<1> QED  BY <1>8, <1>4

\* Wrapping into a long adds a multiple of the number of shards, because that
\* number divides the ring.
LEMMA LongShift ==
    ASSUME NEW x \in Int
    PROVE  \E m \in Int : Long(x) = x + m * NumShards
<1>1. PICK k \in Nat : Ring = k * NumShards
  BY RoutingAssumption
<1>2. /\ x = Ring * (x \div Ring) + (x % Ring)
      /\ x \div Ring \in Int
      /\ x % Ring \in Int
  <2>1. Ring \in Nat \ {0}
    BY RoutingAssumption
  <2> QED  BY <2>1, DivMod
<1> DEFINE q == x \div Ring
           r == x % Ring
<1> HIDE DEF q, r
<1>3. q \in Int /\ r \in Int /\ x = Ring * q + r
  BY <1>2 DEF q, r
<1>4. r = x + ((-q) * k) * NumShards
  BY <1>1, <1>3, RoutingAssumption
<1>5. r - Ring = x + ((-q - 1) * k) * NumShards
  BY <1>1, <1>3, RoutingAssumption
<1>6. Long(x) = r \/ Long(x) = r - Ring
  BY DEF Long, r
<1>7. (-q) * k \in Int /\ (-q - 1) * k \in Int
  BY <1>3
<1> QED  BY <1>4, <1>5, <1>6, <1>7

(***************************************************************************)
(* Reading the eight bytes as a signed long (ShardRouter.java) instead of  *)
(* an unsigned int (shard_utils.py) does not change the shard, provided    *)
(* the floor modulus is taken.                                             *)
(***************************************************************************)
THEOREM LongKeepsShard ==
    \A x \in Int : Long(x) % NumShards = x % NumShards
<1> SUFFICES ASSUME NEW x \in Int
             PROVE  Long(x) % NumShards = x % NumShards
  OBVIOUS
<1>1. PICK m \in Int : Long(x) = x + m * NumShards
  BY LongShift
<1>2. NumShards \in Nat \ {0}
  BY RoutingAssumption
<1>3. (x + m * NumShards) % NumShards = x % NumShards
  BY <1>2, ModShift
<1> QED  BY <1>1, <1>3

(***************************************************************************)
(* One step of the two folds: if the API's long and the seeder's int are   *)
(* congruent before a byte, they are after it, also when the shift         *)
(* overflows.                                                              *)
(***************************************************************************)
THEOREM NextByteAgrees ==
    ASSUME NEW h \in Nat, NEW j \in Int, NEW b \in Bytes,
           j % NumShards = h % NumShards
    PROVE  (Long(j * Base) + b) % NumShards = (h * Base + b) % NumShards
<1> NumShards \in Nat \ {0} /\ Base \in Nat
  BY RoutingAssumption
<1>1. b \in Int
  BY RoutingAssumption DEF Bytes
<1>2. /\ j = NumShards * (j \div NumShards) + (j % NumShards)
      /\ j \div NumShards \in Int /\ j % NumShards \in Int
  BY DivMod
<1>3. /\ h = NumShards * (h \div NumShards) + (h % NumShards)
      /\ h \div NumShards \in Int /\ h % NumShards \in Int
  BY DivMod
<1> DEFINE m == (j \div NumShards) - (h \div NumShards)
<1>4. m \in Int
  BY <1>2, <1>3
<1>5. j = h + m * NumShards
  BY <1>2, <1>3
<1> HIDE DEF m
<1>6. j * Base = h * Base + (m * Base) * NumShards
  BY <1>4, <1>5
<1>7. PICK p \in Int : Long(j * Base) = j * Base + p * NumShards
  <2>1. j * Base \in Int
    OBVIOUS
  <2> QED  BY <2>1, LongShift
<1> DEFINE y  == Long(j * Base)
           hb == h * Base
           mb == m * Base
<1>8. hb \in Int /\ mb \in Int
  BY <1>4
<1>9. y = hb + mb * NumShards + p * NumShards
  BY <1>6, <1>7
<1> HIDE DEF y, hb, mb
<1>10. y + b = (hb + b) + (mb + p) * NumShards
  BY <1>1, <1>8, <1>9
<1>11. hb + b \in Int /\ mb + p \in Int
  BY <1>1, <1>8
<1>12. ((hb + b) + (mb + p) * NumShards) % NumShards = (hb + b) % NumShards
  BY <1>11, ModShift
<1> QED  BY <1>10, <1>12 DEF y, hb

-----------------------------------------------------------------------------
(* Whole digests. *)

\* Wrapping gives an integer.
LEMMA LongType == ASSUME NEW x \in Int PROVE Long(x) \in Int
<1>1. PICK m \in Int : Long(x) = x + m * NumShards
  BY LongShift
<1>2. NumShards \in Int
  BY RoutingAssumption
<1> QED
  BY <1>1, <1>2

\* The seeder's number is the last of the numbers it has after each byte.
LEMMA PythonBytes ==
    ASSUME NEW digest \in Seq(Bytes)
    PROVE  \E f : /\ f[0] = 0
                  /\ \A k \in 1 .. Len(digest) : f[k] = f[k - 1] * Base + digest[k]
                  /\ PythonInt(digest) = f[Len(digest)]
<1> DEFINE n == Len(digest)
           Solves(f) == f = [k \in 0 .. n |->
                               IF k = 0 THEN 0 ELSE f[k - 1] * Base + digest[k]]
           next == [p \in Nat \X (1 .. n) |-> p[1] * Base + digest[p[2]]]
           int  == CHOOSE f : Solves(f)
<1>1. n \in Nat /\ \A k \in 1 .. n : digest[k] \in Nat
  BY RoutingAssumption DEF Bytes
<1>2. next \in [Nat \X (1 .. n) -> Nat]
  BY <1>1, RoutingAssumption
<1>3. PICK f : Recurs(f, Nat, 0, n, next)
  <2>1. 0 \in Nat /\ n \in Nat
    BY <1>1
  <2> HIDE DEF n, next
  <2> QED
    BY <1>2, <2>1, RecursiveFunction
<1>4. \A k \in 1 .. n : next[<<f[k - 1], k>>] = f[k - 1] * Base + digest[k]
  <2> SUFFICES ASSUME NEW k \in 1 .. n
               PROVE  next[<<f[k - 1], k>>] = f[k - 1] * Base + digest[k]
    OBVIOUS
  <2>1. k - 1 \in 0 .. n
    BY <1>1
  <2>2. f[k - 1] \in Nat
    BY <1>3, <2>1 DEF Recurs
  <2>3. <<f[k - 1], k>> \in Nat \X (1 .. n)
    BY <2>2
  <2> QED
    BY <2>3
<1>5. Solves(f)
  <2> DEFINE g == [k \in 0 .. n |-> IF k = 0 THEN 0 ELSE f[k - 1] * Base + digest[k]]
  <2>1. DOMAIN f = 0 .. n /\ DOMAIN g = 0 .. n
    BY <1>3 DEF Recurs
  <2>2. ASSUME NEW k \in 0 .. n PROVE f[k] = g[k]
    <3>1. k # 0 => k \in 1 .. n
      BY <1>1
    <3> HIDE DEF next
    <3> QED
      BY <1>3, <1>4, <3>1 DEF Recurs
  <2>3. f = [k \in DOMAIN f |-> f[k]] /\ g = [k \in DOMAIN g |-> g[k]]
    BY <1>3 DEF Recurs
  <2> HIDE DEF g
  <2>4. f = g
    BY <2>1, <2>2, <2>3
  <2> QED
    BY <2>4 DEF g
<1>6. Solves(int)
  <2> HIDE DEF Solves
  <2> QED
    BY <1>5
<1>7. PythonInt(digest) = int[n]
  BY DEF PythonInt
<1> HIDE DEF int
<1>8. int[0] = 0 /\ \A k \in 1 .. n : int[k] = int[k - 1] * Base + digest[k]
  BY <1>1, <1>6
<1> QED
  BY <1>7, <1>8

\* The API's number is the last of the longs it has after each byte.
LEMMA JavaBytes ==
    ASSUME NEW digest \in Seq(Bytes)
    PROVE  \E f : /\ f[0] = 0
                  /\ \A k \in 1 .. Len(digest) :
                        f[k] = Long(f[k - 1] * Base) + digest[k]
                  /\ JavaLong(digest) = f[Len(digest)]
<1> DEFINE n == Len(digest)
           Solves(f) == f = [k \in 0 .. n |->
                               IF k = 0 THEN 0 ELSE Long(f[k - 1] * Base) + digest[k]]
           next == [p \in Int \X (1 .. n) |-> Long(p[1] * Base) + digest[p[2]]]
           hashInt == CHOOSE f : Solves(f)
<1>1. n \in Nat /\ Base \in Int /\ \A k \in 1 .. n : digest[k] \in Int
  BY RoutingAssumption DEF Bytes
<1>2. next \in [Int \X (1 .. n) -> Int]
  <2>1. ASSUME NEW h \in Int, NEW k \in 1 .. n PROVE Long(h * Base) + digest[k] \in Int
    <3>1. h * Base \in Int
      BY <1>1
    <3>2. Long(h * Base) \in Int
      BY <3>1, LongType
    <3> QED
      BY <1>1, <3>2
  <2> QED
    BY <2>1
<1>3. PICK f : Recurs(f, Int, 0, n, next)
  <2>1. 0 \in Int /\ n \in Nat
    BY <1>1
  <2> HIDE DEF n, next
  <2> QED
    BY <1>2, <2>1, RecursiveFunction
<1>4. \A k \in 1 .. n : next[<<f[k - 1], k>>] = Long(f[k - 1] * Base) + digest[k]
  <2> SUFFICES ASSUME NEW k \in 1 .. n
               PROVE  next[<<f[k - 1], k>>] = Long(f[k - 1] * Base) + digest[k]
    OBVIOUS
  <2>1. k - 1 \in 0 .. n
    BY <1>1
  <2>2. f[k - 1] \in Int
    BY <1>3, <2>1 DEF Recurs
  <2>3. <<f[k - 1], k>> \in Int \X (1 .. n)
    BY <2>2
  <2> QED
    BY <2>3
<1>5. Solves(f)
  <2> DEFINE g == [k \in 0 .. n |-> IF k = 0 THEN 0 ELSE Long(f[k - 1] * Base) + digest[k]]
  <2>1. DOMAIN f = 0 .. n /\ DOMAIN g = 0 .. n
    BY <1>3 DEF Recurs
  <2>2. ASSUME NEW k \in 0 .. n PROVE f[k] = g[k]
    <3>1. k # 0 => k \in 1 .. n
      BY <1>1
    <3> HIDE DEF next
    <3> QED
      BY <1>3, <1>4, <3>1 DEF Recurs
  <2>3. f = [k \in DOMAIN f |-> f[k]] /\ g = [k \in DOMAIN g |-> g[k]]
    BY <1>3 DEF Recurs
  <2> HIDE DEF g
  <2>4. f = g
    BY <2>1, <2>2, <2>3
  <2> QED
    BY <2>4 DEF g
<1>6. Solves(hashInt)
  <2> HIDE DEF Solves
  <2> QED
    BY <1>5
<1>7. JavaLong(digest) = hashInt[n]
  BY DEF JavaLong
<1> HIDE DEF hashInt
<1>8. /\ hashInt[0] = 0
      /\ \A k \in 1 .. n : hashInt[k] = Long(hashInt[k - 1] * Base) + digest[k]
  BY <1>1, <1>6
<1> QED
  BY <1>7, <1>8

(***************************************************************************)
(* The two routers agree on every digest of any length: get_shard_index    *)
(* (shard_utils.py) and ShardRouter.getShardIndex put a user on the same   *)
(* shard, whether or not the API's long overflows or turns negative.       *)
(***************************************************************************)
THEOREM RoutersAgree ==
    ASSUME NEW digest \in Seq(Bytes)
    PROVE  JavaIndex(digest) = PythonIndex(digest) /\ PythonInt(digest) \in Nat
<1>1. PICK p : /\ p[0] = 0
               /\ \A k \in 1 .. Len(digest) : p[k] = p[k - 1] * Base + digest[k]
               /\ PythonInt(digest) = p[Len(digest)]
  BY PythonBytes
<1>2. PICK j : /\ j[0] = 0
               /\ \A k \in 1 .. Len(digest) : j[k] = Long(j[k - 1] * Base) + digest[k]
               /\ JavaLong(digest) = j[Len(digest)]
  BY JavaBytes
<1> DEFINE Agree(k) == /\ p[k] \in Nat /\ j[k] \in Int
                       /\ j[k] % NumShards = p[k] % NumShards
           P == {k \in Nat : k <= Len(digest) => Agree(k)}
<1>3. 0 \in P
  BY <1>1, <1>2
<1>4. ASSUME NEW k \in Nat, k \in P PROVE k + 1 \in P
  <2> SUFFICES ASSUME k + 1 <= Len(digest) PROVE Agree(k + 1)
    OBVIOUS
  <2>1. p[k] \in Nat /\ j[k] \in Int /\ j[k] % NumShards = p[k] % NumShards
    BY <1>4
  <2>2. k + 1 \in 1 .. Len(digest) /\ (k + 1) - 1 = k
    OBVIOUS
  <2>3. /\ p[k + 1] = p[k] * Base + digest[k + 1]
        /\ j[k + 1] = Long(j[k] * Base) + digest[k + 1]
    BY <1>1, <1>2, <2>2
  <2>4. digest[k + 1] \in Bytes /\ Bytes \subseteq Nat /\ Base \in Nat
    BY <2>2, RoutingAssumption DEF Bytes
  <2>5. Long(j[k] * Base) \in Int /\ p[k] * Base \in Nat
    <3>1. j[k] * Base \in Int /\ p[k] * Base \in Nat
      BY <2>1, <2>4
    <3> QED
      BY <3>1, LongType
  <2>6. p[k + 1] \in Nat /\ j[k + 1] \in Int
    <3>1. digest[k + 1] \in Nat
      BY <2>4
    <3> QED
      BY <2>3, <2>5, <3>1
  <2>7. j[k + 1] % NumShards = p[k + 1] % NumShards
    BY <2>1, <2>3, <2>4, NextByteAgrees
  <2> QED
    BY <2>6, <2>7
<1> HIDE DEF P
<1>5. Nat \subseteq P
  BY <1>3, <1>4, NumberInduction
<1>6. Len(digest) \in P
  BY <1>5
<1>7. Agree(Len(digest))
  BY <1>6 DEF P
<1> QED
  BY <1>1, <1>2, <1>7 DEF JavaIndex, PythonIndex

-----------------------------------------------------------------------------
(* The inductive invariant. *)

\* What the names of the files say of their content: the six files are opened
\* once, after products.csv was closed, and never written again once closed.
Dataset ==
    /\ opened => products = "whole"
    /\ gen = "products" => ~ opened
    /\ gen = "rows" => opened /\ ~ closed
    /\ closed => opened /\ \A f \in Files : lines[f] = Size + 1

\* What a load knows of the dataset it reads.
LoadedFrom ==
    /\ pc # "exited" => opened
    /\ wasClosed => closed /\ \A f \in Indexes : index[f] = Size

\* The loader's phases.
Phases ==
    /\ exit = "success" => pc = "exited"
    /\ pc = "routes" => left = {} /\ mode = "sharded-lookup-table"

\* All of user u is where the seeder puts it.
There(u) ==
    LET s == Home(u)
    IN  u \in rows[s] /\ u \in orders[s] /\ u \in items[s] /\ catalog[s] = "whole"

\* A load puts nothing but its users on its shards; a shard that it has done
\* holds the catalog, and the users of a finished dataset.
Loading ==
    pc # "exited" =>
        /\ \A s \in left : (mode = "single" /\ s = 0) \/ \E u \in Chosen : Home(u) = s
        /\ \A u \in Chosen :
              Home(u) \notin left =>
                  catalog[Home(u)] # "none" /\ (wasClosed => There(u))
        /\ 1 \in Chosen /\ Home(1) \notin left => \A s \in Shards : rows[s] \subseteq Chosen

\* A shard without a catalog has no rows, and whatever load filled a shard had
\* filled the first user's shard before.
FirstShard ==
    \A s \in Shards :
        /\ catalog[s] = "none" => rows[s] = {}
        /\ catalog[s] # "none" => Home(1) \in Shards /\ catalog[Home(1)] # "none"

\* A route holds the seeder's shard, and that shard was loaded.
RoutesHome ==
    \A r \in routes : r[2] = Home(r[1]) + 1 /\ catalog[Home(r[1])] # "none"

\* What success leaves behind.
Success ==
    exit = "success" =>
        /\ wasClosed =>
              \A u \in Chosen :
                 /\ There(u)
                 /\ mode = "sharded-lookup-table" => <<u, Home(u) + 1>> \in routes
        /\ Chosen # {} => \A s \in Shards : rows[s] \subseteq Chosen

IInv ==
    /\ TypeOK /\ CatalogWhole
    /\ Dataset /\ LoadedFrom /\ Phases
    /\ Loading /\ FirstShard /\ RoutesHome /\ Success

-----------------------------------------------------------------------------
(* The homes of the users. *)

\* Every user has a home among the shards; there is a shard 0.
LEMMA HomeType == 0 \in Shards /\ \A u \in Users : Home(u) \in Shards
<1>1. NumShards \in Nat \ {0}
  BY RoutingAssumption
<1>2. 0 \in Shards
  BY <1>1 DEF Shards
<1>3. ASSUME NEW u \in Users PROVE PythonIndex(Digest[u]) \in Shards
  <2>1. PythonInt(Digest[u]) \in Nat
    BY DigestAssumption, RoutersAgree
  <2> QED
    BY <1>1, <2>1 DEF PythonIndex, Shards
<1> QED
  BY <1>2, <1>3 DEF Home

\* The first user of a load that has users is user 1.
LEMMA FirstIsChosen ==
    ASSUME TypeOK, Chosen # {}
    PROVE  1 \in Chosen
<1>1. PICK u \in Chosen : TRUE
  OBVIOUS
<1>2. /\ u \in Nat /\ u >= 1 /\ u <= Size /\ u <= asked /\ u <= index["users_index"]
      /\ Size \in Nat /\ asked \in Nat /\ index["users_index"] \in Nat
  BY <1>1, SizesAssumption DEF TypeOK, Chosen, Users, Indexes
<1> QED
  BY <1>2 DEF Chosen, Users

\* The shard of the first user is loaded first.
LEMMA FirstShardFirst ==
    ASSUME TypeOK, NEW s \in Shards, Upcoming(s), 1 \in Chosen, Home(1) \in left
    PROVE  s = Home(1)
<1> SUFFICES ASSUME s # Home(1) PROVE FALSE
  OBVIOUS
<1>1. PICK u \in Mine(s) : \A v \in Mine(Home(1)) : u < v
  <2>1. Home(1) \in left \ {s}
    OBVIOUS
  <2> HIDE DEF Mine
  <2> QED
    BY <2>1 DEF Upcoming
<1>2. 1 \in Mine(Home(1))
  BY DEF Mine
<1>3. u \in 1 .. Size
  BY DEF Mine, Chosen, Users
<1> QED
  BY <1>1, <1>2, <1>3, SizesAssumption

-----------------------------------------------------------------------------
(* Types, and the steps of the generator. *)

LEMMA InitInv == Init => IInv
<1> SUFFICES ASSUME Init PROVE IInv
  OBVIOUS
<1>1. TypeOK
  <2>1. 0 \in 0 .. Size /\ 0 \in 0 .. Size + 1 /\ 0 \in 0 .. MaxLoads
    BY SizesAssumption
  <2> QED
    BY <2>1 DEF Init, TypeOK
<1>2. CatalogWhole /\ Dataset /\ LoadedFrom /\ Phases /\ Loading /\ FirstShard /\ RoutesHome /\ Success
  BY DEF Init, CatalogWhole, Dataset, LoadedFrom, Phases, Loading, FirstShard, RoutesHome, Success
<1> QED
  BY <1>1, <1>2 DEF IInv

LEMMA TypeStep == TypeOK /\ [Next]_vars => TypeOK'
<1> SUFFICES ASSUME TypeOK, [Next]_vars PROVE TypeOK'
  OBVIOUS
<1> USE DEF files, loader, shards
<1>0. Size \in Nat /\ MaxLoads \in Nat /\ Indexes \subseteq Files
  BY SizesAssumption DEF Indexes, Files
<1>forget. Forget => asked' \in 0 .. Size /\ index' \in [Indexes -> 0 .. Size] /\ wasClosed' \in BOOLEAN
  <2>1. 0 \in 0 .. Size
    BY <1>0
  <2> QED
    BY <2>1 DEF Forget
<1>1. CASE Generate
  BY <1>1 DEF Generate, TypeOK
<1>2. CASE OpenFiles
  BY <1>0, <1>2 DEF OpenFiles, TypeOK
<1>3. CASE WriteUser
  BY <1>0, <1>3 DEF WriteUser, TypeOK
<1>4. CASE CloseFiles
  BY <1>0, <1>4 DEF CloseFiles, TypeOK
<1>5. ASSUME NEW f \in Files, Flush(f) PROVE TypeOK'
  <2>1. PICK n \in lines[f] + 1 .. wrote + 1 : lines' = [lines EXCEPT ![f] = n]
    BY <1>5 DEF Flush
  <2>2. n \in 0 .. Size + 1
    BY <1>0, <2>1 DEF TypeOK
  <2> QED
    BY <1>5, <2>1, <2>2 DEF Flush, TypeOK
<1>6. CASE KillGenerator
  BY <1>0, <1>6 DEF KillGenerator, TypeOK
<1>7. ASSUME NEW n \in 0 .. Size, StartLoad(n) PROVE TypeOK'
  <2>0. pc = "exited" /\ loads < MaxLoads
    BY <1>7 DEF StartLoad
  <2>1. index' \in [Indexes -> 0 .. Size]
    <3>1. \A f \in Indexes : lines[f] \in 0 .. Size + 1 /\ lines[f] > 0
      BY <1>0, <1>7 DEF StartLoad, TypeOK
    <3>2. \A f \in Indexes : lines[f] - 1 \in 0 .. Size
      BY <1>0, <3>1
    <3> QED
      BY <1>7, <3>2 DEF StartLoad
  <2>2. left' \subseteq Shards
    BY <1>7, HomeType DEF StartLoad, FirstUsers
  <2>3. loads' \in 0 .. MaxLoads
    BY <1>0, <1>7 DEF StartLoad, TypeOK
  <2>4. UNCHANGED <<mode, gen, wrote, products, opened, lines, closed, rows, orders, items, catalog, routes>>
        /\ pc' = "shards" /\ exit' = "none" /\ asked' = n /\ wasClosed' = closed
    BY <1>7 DEF StartLoad
  <2> QED
    BY <2>1, <2>2, <2>3, <2>4 DEF TypeOK
<1>8. CASE RefuseLoad
  <2>1. loads' \in 0 .. MaxLoads
    BY <1>0, <1>8 DEF RefuseLoad, TypeOK
  <2>2. asked' \in 0 .. Size /\ index' \in [Indexes -> 0 .. Size] /\ wasClosed' \in BOOLEAN
    BY <1>8, <1>forget DEF RefuseLoad
  <2> QED
    BY <1>8, <2>1, <2>2 DEF RefuseLoad, TypeOK
<1>9. \A o \in {"success", "failure", "killed"} :
         Exit(o) => /\ pc' = "exited" /\ exit' = o /\ left' = {} /\ mode' = mode /\ loads' = loads
                    /\ asked' \in 0 .. Size /\ index' \in [Indexes -> 0 .. Size]
                    /\ wasClosed' \in BOOLEAN
  BY <1>forget DEF Exit, TypeOK
<1>10. \A s \in Shards : Copied(s) =>
         /\ rows' \in [Shards -> SUBSET Users]
         /\ orders' \in [Shards -> SUBSET Users]
         /\ items' \in [Shards -> SUBSET Users]
         /\ catalog' \in [Shards -> {"none", "partial", "whole"}]
  <2> SUFFICES ASSUME NEW s \in Shards, Copied(s)
               PROVE  /\ rows' \in [Shards -> SUBSET Users]
                      /\ orders' \in [Shards -> SUBSET Users]
                      /\ items' \in [Shards -> SUBSET Users]
                      /\ catalog' \in [Shards -> {"none", "partial", "whole"}]
    OBVIOUS
  <2>1. Mine(s) \subseteq Users
    BY DEF Mine, Chosen
  <2> HIDE DEF Mine
  <2> QED
    BY <2>1 DEF Copied, TypeOK
<1>11. Entries \subseteq Users \X (1 .. NumShards)
  <2>1. \A u \in Users : Home(u) + 1 \in 1 .. NumShards
    BY HomeType, RoutingAssumption DEF Shards
  <2>2. Chosen \subseteq Users
    BY DEF Chosen
  <2> QED
    BY <2>1, <2>2 DEF Entries
<1>12. ASSUME NEW s \in Shards, LoadShard(s) PROVE TypeOK'
  BY <1>10, <1>12 DEF LoadShard, TypeOK
<1>13. ASSUME NEW s \in Shards, RejectShard(s) PROVE TypeOK'
  BY <1>9, <1>13 DEF RejectShard, TypeOK
<1>14. ASSUME NEW s \in Shards, FailShard(s) PROVE TypeOK'
  <2>1. /\ rows' \in [Shards -> SUBSET Users]
        /\ orders' \in [Shards -> SUBSET Users]
        /\ items' \in [Shards -> SUBSET Users]
        /\ catalog' \in [Shards -> {"none", "partial", "whole"}]
    BY <1>10, <1>14 DEF FailShard, TypeOK
  <2> QED
    BY <1>9, <1>14, <2>1 DEF FailShard, TypeOK
<1>15. CASE FinishShards
  BY <1>9, <1>15 DEF FinishShards, TypeOK
<1>16. CASE LoadRoutes
  BY <1>9, <1>11, <1>16 DEF LoadRoutes, TypeOK
<1>17. CASE FailRoutes
  BY <1>9, <1>11, <1>17 DEF FailRoutes, TypeOK
<1>18. CASE KillLoader
  BY <1>9, <1>18 DEF KillLoader, TypeOK
<1>19. CASE UNCHANGED vars
  BY <1>19 DEF vars, TypeOK
<1> QED
  BY <1>1, <1>2, <1>3, <1>4, <1>5, <1>6, <1>7, <1>8, <1>12, <1>13, <1>14, <1>15, <1>16,
     <1>17, <1>18, <1>19 DEF Next, GeneratorStep, LoaderStep

\* The generator touches neither the loader nor the databases, never touches a
\* closed dataset, and opens the files only once.
LEMMA GeneratorSteps ==
    ASSUME TypeOK, Dataset, GeneratorStep \/ KillGenerator
    PROVE  /\ UNCHANGED <<loader, shards, routes>>
           /\ Dataset'
           /\ opened => opened'
           /\ ~ closed
<1> USE DEF GeneratorStep, KillGenerator, Generate, OpenFiles, WriteUser, CloseFiles, Flush,
            loader, shards
<1>1. UNCHANGED <<loader, shards, routes>>
  OBVIOUS
<1>2. ~ closed
  <2> SUFFICES ASSUME closed PROVE FALSE
    OBVIOUS
  <2>1. opened /\ products = "whole" /\ gen = "idle"
    BY DEF Dataset, TypeOK
  <2> QED
    BY <2>1 DEF DataExists
<1>3. opened => opened'
  OBVIOUS
<1>4. Dataset'
  BY <1>2 DEF Dataset, DataExists, TypeOK
<1> QED
  BY <1>1, <1>2, <1>3, <1>4

\* The loader never writes the files.
LEMMA LoaderSteps ==
    ASSUME [Next]_vars
    PROVE  (GeneratorStep \/ KillGenerator) \/ UNCHANGED files
BY DEF Next, LoaderStep, StartLoad, RefuseLoad, LoadShard, RejectShard, FailShard, FinishShards,
       LoadRoutes, FailRoutes, KillLoader, vars, files

\* The mode, and so everyone's home, never changes.
LEMMA HomesStay ==
    ASSUME [Next]_vars
    PROVE  mode' = mode /\ \A u : Home(u)' = Home(u)
<1>1. mode' = mode
  BY DEF Next, GeneratorStep, LoaderStep, Generate, OpenFiles, WriteUser, CloseFiles, Flush,
         KillGenerator, StartLoad, RefuseLoad, LoadShard, RejectShard, FailShard, FinishShards,
         LoadRoutes, FailRoutes, KillLoader, Exit, vars, loader
<1> QED
  BY <1>1 DEF Home

LEMMA DatasetStep ==
    ASSUME TypeOK, Dataset, [Next]_vars
    PROVE  Dataset'
<1>1. CASE GeneratorStep \/ KillGenerator
  BY <1>1, GeneratorSteps
<1>2. CASE UNCHANGED files
  BY <1>2 DEF Dataset, files
<1> QED
  BY <1>1, <1>2, LoaderSteps

-----------------------------------------------------------------------------
(* The steps of the loader. *)

\* What one shard's transaction changes, shard by shard.
LEMMA CopiedShard ==
    ASSUME TypeOK, NEW s \in Shards, Copied(s)
    PROVE  /\ catalog'[s] = products
           /\ rows'[s] = rows[s] \cup {u \in Mine(s) : InFile("users", u)}
           /\ orders'[s] = orders[s] \cup {u \in Mine(s) : InFile("orders", u)}
           /\ items'[s] = items[s] \cup {u \in Mine(s) : InFile("items", u)}
           /\ \A t \in Shards \ {s} :
                 /\ catalog'[t] = catalog[t] /\ rows'[t] = rows[t]
                 /\ orders'[t] = orders[t] /\ items'[t] = items[t]
BY DEF Copied, TypeOK

\* In a run of the loader the catalog is whole; a committed transaction
\* keeps the catalogs whole and the first user's shard loaded first.
LEMMA CopiedStep ==
    ASSUME IInv, [Next]_vars, NEW s \in Shards, pc = "shards", Upcoming(s), ~ Rejected(s), Copied(s)
    PROVE  /\ catalog[s] = "none" /\ catalog'[s] = "whole"
           /\ \A t \in Shards : catalog[t] # "none" => catalog'[t] # "none"
           /\ CatalogWhole'
           /\ FirstShard'
<1> USE DEF IInv
<1>1. catalog[s] = "none"
  BY DEF Rejected
<1>2. catalog'[s] = "whole"
  BY CopiedShard DEF LoadedFrom, Dataset
<1>3. \A t \in Shards \ {s} : catalog'[t] = catalog[t] /\ rows'[t] = rows[t]
  BY CopiedShard
<1>4. \A t \in Shards : catalog[t] # "none" => catalog'[t] # "none"
  BY <1>1, <1>3
<1>5. CatalogWhole'
  BY <1>2, <1>3 DEF CatalogWhole
<1>6. Home(1) \in Shards /\ catalog'[Home(1)] # "none"
  <2>1. s \in left
    BY DEF Upcoming
  <2>2. CASE mode = "single" /\ s = 0
    <3>1. Home(1) = s
      BY <2>2 DEF Home
    <3> QED
      BY <1>2, <3>1
  <2>3. CASE \E u \in Chosen : Home(u) = s
    <3>1. 1 \in Chosen
      BY <2>3, FirstIsChosen
    <3>2. Home(1) \in Shards
      BY <3>1, HomeType DEF Chosen
    <3>3. CASE Home(1) \in left
      <4>1. s = Home(1)
        BY <3>1, <3>3, FirstShardFirst
      <4> QED
        BY <1>2, <4>1
    <3>4. CASE Home(1) \notin left
      <4>1. catalog[Home(1)] # "none"
        BY <3>1, <3>4 DEF Loading
      <4> QED
        BY <1>4, <3>2, <4>1
    <3> QED
      BY <3>2, <3>3, <3>4
  <2> QED
    BY <2>1, <2>2, <2>3 DEF Loading
<1>7. FirstShard'
  <2>1. Home(1)' = Home(1)
    BY HomesStay
  <2>2. ASSUME NEW t \in Shards, catalog'[t] = "none" PROVE rows'[t] = {}
    BY <1>2, <1>3, <2>2 DEF FirstShard
  <2> QED
    BY <1>6, <2>1, <2>2 DEF FirstShard
<1> QED
  BY <1>1, <1>2, <1>4, <1>5, <1>7

\* The parts of the invariant about the loader and the databases.
Loader ==
    CatalogWhole /\ LoadedFrom /\ Phases /\ Loading /\ FirstShard /\ RoutesHome /\ Success

\* Routes stay home while the catalogs only come.
LEMMA RoutesStay ==
    ASSUME IInv, [Next]_vars, UNCHANGED routes,
           \A t \in Shards : catalog[t] # "none" => catalog'[t] # "none"
    PROVE  RoutesHome'
<1>1. \A r \in routes : Home(r[1]) \in Shards
  BY HomeType DEF IInv, TypeOK
<1> QED
  BY <1>1, HomesStay DEF IInv, RoutesHome

\* A load that ends without success forgets what it was about.
LEMMA AbortStep ==
    ASSUME NEW o \in {"failure", "killed"}, Exit(o)
    PROVE  LoadedFrom' /\ Phases' /\ Loading' /\ Success'
BY DEF Exit, Forget, LoadedFrom, Phases, Loading, Success

LEMMA StartLoadStep ==
    ASSUME IInv, [Next]_vars, NEW n \in 0 .. Size, StartLoad(n)
    PROVE  Loader'
<1> USE DEF IInv
<1>1. UNCHANGED <<mode, files, shards, routes>> /\ pc' = "shards" /\ exit' = "none"
  BY DEF StartLoad
<1>2. UNCHANGED <<catalog, rows, opened, closed>>
  BY <1>1 DEF files, shards
<1>3. CatalogWhole' /\ FirstShard'
  <2>1. Home(1)' = Home(1)
    BY HomesStay
  <2> QED
    BY <1>2, <2>1 DEF CatalogWhole, FirstShard
<1>4. RoutesHome'
  BY <1>1, <1>2, RoutesStay
<1>5. LoadedFrom'
  <2>1. opened
    BY DEF StartLoad, DataExists
  <2>2. wasClosed' => \A f \in Indexes : index'[f] = Size
    <3> SUFFICES ASSUME wasClosed', NEW f \in Indexes PROVE index'[f] = Size
      OBVIOUS
    <3>1. lines[f] = Size + 1
      BY DEF StartLoad, Dataset, Files
    <3>2. index'[f] = lines[f] - 1
      BY DEF StartLoad
    <3> QED
      BY <3>1, <3>2, SizesAssumption
  <2>3. wasClosed' => closed'
    BY <1>2 DEF StartLoad
  <2> QED
    BY <1>2, <2>1, <2>2, <2>3 DEF LoadedFrom
<1>6. Phases' /\ Success'
  BY <1>1 DEF Phases, Success
<1>7. Loading'
  <2>1. Chosen' = FirstUsers(n)
    BY DEF StartLoad, Chosen, FirstUsers, Indexes
  <2>2. left' = IF mode = "single" THEN {0} ELSE {Home(u) : u \in Chosen'}
    BY <2>1 DEF StartLoad
  <2>3. \A u \in Chosen' : Home(u) \in left'
    BY <2>2 DEF Home
  <2>4. \A u : Home(u)' = Home(u)
    BY HomesStay
  <2>5. mode' = mode
    BY <1>1
  <2> QED
    BY <2>2, <2>3, <2>4, <2>5 DEF Loading
<1> QED
  BY <1>3, <1>4, <1>5, <1>6, <1>7 DEF Loader

LEMMA LoadShardStep ==
    ASSUME IInv, [Next]_vars, NEW s \in Shards, LoadShard(s)
    PROVE  Loader'
<1> USE DEF IInv
<1>1. /\ pc = "shards" /\ Upcoming(s) /\ ~ Rejected(s) /\ Copied(s) /\ left' = left \ {s}
      /\ UNCHANGED <<mode, pc, exit, asked, index, wasClosed, loads, files, routes>>
  BY DEF LoadShard
<1>2. /\ catalog[s] = "none" /\ catalog'[s] = "whole"
      /\ \A t \in Shards : catalog[t] # "none" => catalog'[t] # "none"
      /\ CatalogWhole' /\ FirstShard'
  BY <1>1, CopiedStep
<1>3. RoutesHome'
  BY <1>1, <1>2, RoutesStay
<1>4. LoadedFrom' /\ Phases' /\ Success'
  BY <1>1 DEF LoadedFrom, Phases, Success, files
<1>5. Chosen' = Chosen
  BY <1>1 DEF Chosen
<1>6. s \in left
  BY <1>1 DEF Upcoming
<1>7. \A u : Home(u)' = Home(u)
  BY HomesStay
<1>8. /\ rows'[s] = rows[s] \cup {u \in Mine(s) : InFile("users", u)}
      /\ orders'[s] = orders[s] \cup {u \in Mine(s) : InFile("orders", u)}
      /\ items'[s] = items[s] \cup {u \in Mine(s) : InFile("items", u)}
      /\ \A t \in Shards \ {s} :
            /\ catalog'[t] = catalog[t] /\ rows'[t] = rows[t]
            /\ orders'[t] = orders[t] /\ items'[t] = items[t]
  BY <1>1, CopiedShard
<1>9. ASSUME NEW u \in Chosen, Home(u) \notin left'
      PROVE  catalog'[Home(u)] # "none" /\ (wasClosed => There(u)')
  <2>1. Home(u) \in Shards /\ u \in 1 .. Size
    BY HomeType DEF Chosen, Users
  <2>2. CASE Home(u) = s
    <3>1. u \in Mine(s)
      BY <2>2 DEF Mine
    <3>2. wasClosed => InFile("users", u) /\ InFile("orders", u) /\ InFile("items", u)
      <4> SUFFICES ASSUME wasClosed
                   PROVE  InFile("users", u) /\ InFile("orders", u) /\ InFile("items", u)
        OBVIOUS
      <4>1. /\ lines["users"] = Size + 1 /\ lines["orders"] = Size + 1
            /\ lines["items"] = Size + 1
        BY DEF LoadedFrom, Dataset, Files
      <4>2. u + 1 <= Size + 1
        BY <2>1, SizesAssumption
      <4> QED
        BY <4>1, <4>2 DEF InFile
    <3> HIDE DEF Mine
    <3> QED
      BY <1>2, <1>7, <1>8, <2>2, <3>1, <3>2 DEF There
  <2>3. CASE Home(u) # s
    <3>1. Home(u) \notin left
      BY <1>1, <1>9, <2>3
    <3>2. catalog[Home(u)] # "none" /\ (wasClosed => There(u))
      BY <1>1, <3>1 DEF Loading
    <3>3. Home(u) \in Shards \ {s}
      BY <2>1, <2>3
    <3> QED
      BY <1>7, <1>8, <3>2, <3>3 DEF There
  <2> QED
    BY <2>2, <2>3
<1>10. ASSUME 1 \in Chosen, Home(1) \notin left', NEW t \in Shards
       PROVE  rows'[t] \subseteq Chosen
  <2>1. rows[t] \subseteq Chosen
    <3>1. CASE Home(1) \in left
      <4>1. s = Home(1)
        BY <1>1, <1>10, <3>1, FirstShardFirst
      <4>2. catalog[t] = "none"
        BY <1>2, <4>1 DEF FirstShard
      <4> QED
        BY <4>2 DEF FirstShard
    <3>2. CASE Home(1) \notin left
      BY <1>1, <1>10, <3>2 DEF Loading
    <3> QED
      BY <3>1, <3>2
  <2>2. Mine(s) \subseteq Chosen
    BY DEF Mine
  <2> HIDE DEF Mine
  <2> QED
    BY <1>8, <2>1, <2>2
<1>11. Loading'
  <2>1. \A t \in left' : (mode' = "single" /\ t = 0) \/ \E u \in Chosen : Home(u) = t
    BY <1>1 DEF Loading
  <2> QED
    BY <1>1, <1>5, <1>7, <1>9, <1>10, <2>1 DEF Loading
<1> QED
  BY <1>2, <1>3, <1>4, <1>11 DEF Loader

\* A failed or rejected transaction.
LEMMA FailShardStep ==
    ASSUME IInv, [Next]_vars, NEW s \in Shards, FailShard(s) \/ RejectShard(s)
    PROVE  Loader'
<1> USE DEF IInv
<1>1. LoadedFrom' /\ Phases' /\ Loading' /\ Success'
  BY AbortStep DEF FailShard, RejectShard
<1>2. /\ CatalogWhole' /\ FirstShard'
      /\ \A t \in Shards : catalog[t] # "none" => catalog'[t] # "none"
  <2>1. CASE UNCHANGED shards
    <3>1. Home(1)' = Home(1)
      BY HomesStay
    <3> QED
      BY <2>1, <3>1 DEF shards, CatalogWhole, FirstShard
  <2>2. CASE FailShard(s) /\ ~ UNCHANGED shards
    BY <2>2, CopiedStep DEF FailShard
  <2> QED
    BY <2>1, <2>2 DEF RejectShard
<1>3. RoutesHome'
  BY <1>2, RoutesStay DEF FailShard, RejectShard
<1> QED
  BY <1>1, <1>2, <1>3 DEF Loader

LEMMA FinishShardsStep ==
    ASSUME IInv, [Next]_vars, FinishShards
    PROVE  Loader'
<1> USE DEF IInv
<1>1. pc = "shards" /\ left = {} /\ UNCHANGED <<files, shards, routes>>
  BY DEF FinishShards
<1>2. /\ UNCHANGED <<asked, index, wasClosed, left, mode, opened, closed>>
      /\ UNCHANGED <<rows, orders, items, catalog>>
  BY <1>1 DEF FinishShards, Exit, files, shards
<1>3. \A u : Home(u)' = Home(u)
  BY HomesStay
<1>4. Chosen' = Chosen
  BY <1>2 DEF Chosen
<1>5. CatalogWhole' /\ FirstShard' /\ RoutesHome' /\ LoadedFrom'
  <2>1. RoutesHome'
    BY <1>1, <1>2, RoutesStay
  <2>2. LoadedFrom'
    BY <1>1, <1>2 DEF LoadedFrom
  <2> QED
    BY <1>2, <1>3, <2>1, <2>2 DEF CatalogWhole, FirstShard
<1>6. CASE mode = "sharded-lookup-table"
  <2>1. pc' = "routes" /\ exit' = exit
    BY <1>6 DEF FinishShards
  <2>2. \A u : There(u)' = There(u)
    BY <1>2, <1>3 DEF There
  <2>3. Loading'
    BY <1>1, <1>2, <1>3, <1>4, <2>2 DEF Loading
  <2>4. Phases' /\ Success'
    BY <1>1, <1>2, <1>6, <2>1 DEF Phases, Success
  <2> QED
    BY <1>5, <2>3, <2>4 DEF Loader
<1>7. CASE mode # "sharded-lookup-table"
  <2>1. pc' = "exited" /\ exit' = "success"
    BY <1>7 DEF FinishShards, Exit
  <2>2. Loading' /\ Phases'
    BY <1>1, <1>2, <2>1 DEF Loading, Phases
  <2>3. \A u \in Chosen : wasClosed => There(u)
    BY <1>1 DEF Loading
  <2>4. Chosen # {} => \A t \in Shards : rows[t] \subseteq Chosen
    BY <1>1, FirstIsChosen DEF Loading
  <2>5. \A u : There(u)' = There(u)
    BY <1>2, <1>3 DEF There
  <2>6. Success'
    BY <1>2, <1>4, <1>7, <2>3, <2>4, <2>5 DEF Success
  <2> QED
    BY <1>5, <2>2, <2>6 DEF Loader
<1> QED
  BY <1>6, <1>7

\* The lookup transaction, committed or not, answered or not.
LEMMA RoutesStep ==
    ASSUME IInv, [Next]_vars, LoadRoutes \/ FailRoutes
    PROVE  Loader'
<1> USE DEF IInv
<1>1. /\ pc = "routes" /\ left = {} /\ mode = "sharded-lookup-table"
      /\ UNCHANGED <<files, shards, mode>> /\ left' = {}
  BY DEF LoadRoutes, FailRoutes, Phases, Exit
<1>2. UNCHANGED <<rows, orders, items, catalog, opened, closed>>
  BY <1>1 DEF files, shards
<1>3. \A u : Home(u)' = Home(u)
  BY HomesStay
<1>4. CatalogWhole' /\ FirstShard'
  BY <1>2, <1>3 DEF CatalogWhole, FirstShard
<1>5. \A u \in Chosen : catalog[Home(u)] # "none" /\ (wasClosed => There(u))
  BY <1>1 DEF Loading
<1>6. RoutesHome'
  <2>1. CASE routes' = routes
    BY <1>2, <2>1, RoutesStay
  <2>2. CASE routes' = routes \cup Entries
    <3>1. \A r \in Entries : r[2] = Home(r[1]) + 1 /\ catalog[Home(r[1])] # "none"
      BY <1>5 DEF Entries
    <3> QED
      BY <1>2, <1>3, <2>2, <3>1 DEF RoutesHome
  <2> QED
    BY <2>1, <2>2 DEF LoadRoutes, FailRoutes
<1>7. CASE FailRoutes
  <2>1. LoadedFrom' /\ Phases' /\ Loading' /\ Success'
    BY <1>7, AbortStep DEF FailRoutes
  <2> QED
    BY <1>4, <1>6, <2>1 DEF Loader
<1>8. CASE LoadRoutes
  <2>1. /\ pc' = "exited" /\ exit' = "success" /\ UNCHANGED <<asked, index, wasClosed>>
        /\ routes' = routes \cup Entries
    BY <1>8 DEF LoadRoutes, Exit
  <2>2. LoadedFrom' /\ Phases' /\ Loading'
    BY <1>2, <2>1 DEF LoadedFrom, Phases, Loading
  <2>3. Chosen' = Chosen
    BY <2>1 DEF Chosen
  <2>4. \A u : There(u)' = There(u)
    BY <1>2, <1>3 DEF There
  <2>5. \A u \in Chosen : <<u, Home(u) + 1>> \in routes'
    BY <2>1 DEF Entries
  <2>6. Chosen # {} => \A t \in Shards : rows[t] \subseteq Chosen
    BY <1>1, FirstIsChosen DEF Loading
  <2>7. Success'
    BY <1>2, <1>3, <1>5, <2>1, <2>3, <2>4, <2>5, <2>6 DEF Success
  <2> QED
    BY <1>4, <1>6, <2>2, <2>7 DEF Loader
<1> QED
  BY <1>7, <1>8

\* Steps that keep the loader's memory and the databases, but for how it ended.
LEMMA QuietStep ==
    ASSUME IInv, [Next]_vars, UNCHANGED <<shards, routes>>,
           \/ UNCHANGED loader /\ (opened => opened') /\ (closed => closed')
           \/ RefuseLoad
           \/ KillLoader
    PROVE  Loader'
<1> USE DEF IInv
<1>1. UNCHANGED <<rows, orders, items, catalog, routes>>
  BY DEF shards
<1>2. \A u : Home(u)' = Home(u)
  BY HomesStay
<1>3. CatalogWhole' /\ FirstShard'
  BY <1>1, <1>2 DEF CatalogWhole, FirstShard
<1>4. RoutesHome'
  BY <1>1, RoutesStay
<1>5. \A u : There(u)' = There(u)
  BY <1>1, <1>2 DEF There
<1>6. CASE UNCHANGED loader /\ (opened => opened') /\ (closed => closed')
  <2>1. UNCHANGED <<mode, pc, exit, asked, index, left, wasClosed>>
    BY <1>6 DEF loader
  <2>2. Chosen' = Chosen
    BY <2>1 DEF Chosen
  <2>3. LoadedFrom' /\ Phases'
    BY <1>6, <2>1 DEF LoadedFrom, Phases
  <2>4. Loading'
    BY <1>1, <1>2, <1>5, <2>1, <2>2 DEF Loading
  <2>5. Success'
    BY <1>1, <1>2, <1>5, <2>1, <2>2 DEF Success
  <2> QED
    BY <1>3, <1>4, <2>3, <2>4, <2>5 DEF Loader
<1>7. CASE RefuseLoad
  <2>1. LoadedFrom' /\ Phases' /\ Loading' /\ Success'
    BY <1>7 DEF RefuseLoad, Forget, LoadedFrom, Phases, Loading, Success
  <2> QED
    BY <1>3, <1>4, <2>1 DEF Loader
<1>8. CASE KillLoader
  <2>1. LoadedFrom' /\ Phases' /\ Loading' /\ Success'
    BY <1>8, AbortStep DEF KillLoader
  <2> QED
    BY <1>3, <1>4, <2>1 DEF Loader
<1> QED
  BY <1>6, <1>7, <1>8

-----------------------------------------------------------------------------
(* Theorems. *)

\* The inductive invariant holds in every reachable state.
THEOREM Inductive == Spec => []IInv
<1>1. IInv /\ [Next]_vars => IInv'
  <2> SUFFICES ASSUME IInv, [Next]_vars PROVE IInv'
    OBVIOUS
  <2>1. TypeOK' /\ Dataset'
    BY TypeStep, DatasetStep DEF IInv
  <2>2. Loader'
    <3>1. CASE GeneratorStep \/ KillGenerator
      <4>1. UNCHANGED <<loader, shards, routes>> /\ (opened => opened') /\ ~ closed
        BY <3>1, GeneratorSteps DEF IInv
      <4> QED
        BY <4>1, QuietStep
    <3>2. ASSUME NEW n \in 0 .. Size, StartLoad(n) PROVE Loader'
      BY <3>2, StartLoadStep
    <3>3. CASE RefuseLoad \/ KillLoader
      <4>1. UNCHANGED <<shards, routes>>
        BY <3>3 DEF RefuseLoad, KillLoader
      <4> QED
        BY <3>3, <4>1, QuietStep
    <3>4. ASSUME NEW s \in Shards, LoadShard(s) PROVE Loader'
      BY <3>4, LoadShardStep
    <3>5. ASSUME NEW s \in Shards, FailShard(s) \/ RejectShard(s) PROVE Loader'
      BY <3>5, FailShardStep
    <3>6. CASE FinishShards
      BY <3>6, FinishShardsStep
    <3>7. CASE LoadRoutes \/ FailRoutes
      BY <3>7, RoutesStep
    <3>8. CASE UNCHANGED vars
      <4>1. UNCHANGED <<loader, shards, routes>> /\ opened' = opened /\ closed' = closed
        BY <3>8 DEF vars, loader, shards
      <4> QED
        BY <4>1, QuietStep
    <3> QED
      BY <3>1, <3>2, <3>3, <3>4, <3>5, <3>6, <3>7, <3>8 DEF Next, LoaderStep
  <2> QED
    BY <2>1, <2>2 DEF Loader, IInv
<1> QED
  BY <1>1, InitInv, PTL DEF Spec

(***************************************************************************)
(* Type correctness.                                                       *)
(***************************************************************************)
THEOREM TypeCorrect == Spec => []TypeOK
<1>1. IInv => TypeOK
  BY DEF IInv
<1> QED
  BY <1>1, Inductive, PTL

(***************************************************************************)
(* A shard never holds a part of the catalog, although products.csv may be *)
(* half-written when a load starts: data_exists asks for all seven files,  *)
(* and the other six have no name before products.csv is closed.           *)
(***************************************************************************)
THEOREM CatalogIsWhole == Spec => []CatalogWhole
<1>1. IInv => CatalogWhole
  BY DEF IInv
<1> QED
  BY <1>1, Inductive, PTL

(***************************************************************************)
(* A user is routed only to a shard whose transaction has committed,       *)
(* whatever fails or is killed: _copy_lookup_entries runs last.            *)
(***************************************************************************)
THEOREM RoutesAreLoaded == Spec => []RoutedShardsLoaded
<1>1. IInv => RoutedShardsLoaded
  <2> SUFFICES ASSUME IInv, NEW r \in routes PROVE catalog[r[2] - 1] # "none"
    BY DEF RoutedShardsLoaded
  <2>1. r[2] = Home(r[1]) + 1 /\ catalog[Home(r[1])] # "none"
    BY DEF IInv, RoutesHome
  <2>2. Home(r[1]) \in Int
    <3>1. Home(r[1]) \in Shards
      BY HomeType DEF IInv, TypeOK
    <3> QED
      BY <3>1 DEF Shards
  <2>3. r[2] - 1 = Home(r[1])
    BY <2>1, <2>2
  <2> QED
    BY <2>1, <2>3
<1> QED
  BY <1>1, Inductive, PTL

(***************************************************************************)
(* A load that succeeds is the only one that left rows: an earlier one     *)
(* that got anywhere had filled the first user's shard, and a later one    *)
(* begins there and aborts on the products' primary key.                   *)
(***************************************************************************)
THEOREM SuccessIsAlone == Spec => []SuccessIsOneLoad
<1>1. IInv => SuccessIsOneLoad
  BY DEF IInv, Success, SuccessIsOneLoad
<1> QED
  BY <1>1, Inductive, PTL

(***************************************************************************)
(* A successful load of a finished dataset serves every user asked for:    *)
(* the one shard on which the API looks (JavaIndex in the hash mode, the   *)
(* routes in the lookup mode) is the one the loader filled (PythonIndex).  *)
(***************************************************************************)
THEOREM SuccessfulLoadIsServed == Spec => []SuccessIsServed
<1>1. IInv => SuccessIsServed
  <2> SUFFICES ASSUME IInv, exit = "success", wasClosed, NEW u \in 1 .. asked
               PROVE  \E s \in Shards :
                        /\ ApiShards(u) = {s}
                        /\ u \in rows[s] /\ u \in orders[s] /\ u \in items[s]
                        /\ catalog[s] = "whole"
    BY DEF SuccessIsServed
  <2> USE DEF IInv
  <2>1. u \in Chosen /\ u \in Users
    <3>1. index["users_index"] = Size /\ asked \in 0 .. Size
      BY DEF LoadedFrom, Indexes, TypeOK
    <3>2. u \in 1 .. Size /\ u <= Size /\ u <= asked
      BY <3>1, SizesAssumption
    <3> QED
      BY <3>1, <3>2 DEF Chosen, Users
  <2>2. There(u) /\ (mode = "sharded-lookup-table" => <<u, Home(u) + 1>> \in routes)
    BY <2>1 DEF Success
  <2>3. Home(u) \in Shards /\ Home(u) \in Int
    BY <2>1, HomeType DEF Shards
  <2>4. ApiShards(u) = {Home(u)}
    <3>1. CASE mode = "single"
      BY <3>1 DEF ApiShards, Home
    <3>2. CASE mode = "sharded"
      <4>1. JavaIndex(Digest[u]) = PythonIndex(Digest[u])
        BY <2>1, DigestAssumption, RoutersAgree
      <4> QED
        BY <3>2, <4>1 DEF ApiShards, Home
    <3>3. CASE mode = "sharded-lookup-table"
      <4>1. \A r \in routes : r[1] = u => r[2] - 1 = Home(u)
        BY <2>3 DEF RoutesHome
      <4>2. (Home(u) + 1) - 1 = Home(u)
        BY <2>3
      <4>3. ApiShards(u) = {r[2] - 1 : r \in {e \in routes : e[1] = u}}
        BY <3>3 DEF ApiShards
      <4>4. Home(u) \in ApiShards(u)
        BY <2>2, <3>3, <4>2, <4>3
      <4> QED
        BY <4>1, <4>3, <4>4
    <3> QED
      BY <3>1, <3>2, <3>3 DEF TypeOK, Modes
  <2> QED
    BY <2>2, <2>3, <2>4 DEF There
<1> QED
  BY <1>1, Inductive, PTL
=============================================================================
