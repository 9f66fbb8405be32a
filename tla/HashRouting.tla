---------------------------- MODULE HashRouting ----------------------------
(***************************************************************************)
(* Hash routing, computed twice: by the seeder (shard_utils.py,            *)
(* get_shard_index) and by the API (configuration/sharded/ShardRouter).    *)
(* Both take the first 8 bytes of the UUID's SHA-1 digest; Python reads    *)
(* them as an unsigned number, Java shifts them into a signed 64-bit long. *)
(* A digest is a sequence of bytes 0 .. Base - 1; Ring is the number of    *)
(* values they can spell: 256 and 2^64 in the code, smaller in TLC.        *)
(***************************************************************************)
EXTENDS Integers, Sequences

CONSTANTS
    NumShards,  \* DEFAULT_NUM_SHARDS of the seeder, NUM_SHARDS of the API
    Base,       \* values of one byte
    Ring        \* values of a Java long

\* The two moduli are the same constant, and it divides the ring: 4 and 2^64.
ASSUME RoutingAssumption ==
    /\ NumShards \in Nat \ {0}
    /\ Base \in Nat \ {0}
    /\ Ring \in Nat \ {0}
    /\ \E k \in 1 .. Ring : Ring = k * NumShards

Shards == 0 .. NumShards - 1
Bytes  == 0 .. Base - 1

\* int.from_bytes(digest[:8], byteorder='big', signed=False)
PythonInt(digest) ==
    LET int[k \in 0 .. Len(digest)] ==
            IF k = 0 THEN 0 ELSE int[k - 1] * Base + digest[k]
    IN  int[Len(digest)]

\* hash_int % num_shards
PythonIndex(digest) == PythonInt(digest) % NumShards

\* Two's complement: the long that has the same bits as the integer n.
Long(n) == IF n % Ring < Ring \div 2 THEN n % Ring ELSE (n % Ring) - Ring

\* hashInt = (hashInt << 8) | (b & 0xFF): the shift leaves the low byte zero.
JavaLong(digest) ==
    LET hashInt[k \in 0 .. Len(digest)] ==
            IF k = 0 THEN 0 ELSE Long(hashInt[k - 1] * Base) + digest[k]
    IN  hashInt[Len(digest)]

\* A router that uses Java's %, which takes the sign of the dividend.
JavaIndexRemainder(digest) ==
    LET h == JavaLong(digest)
    IN  IF h >= 0 THEN h % NumShards ELSE -((-h) % NumShards)

\* Math.floorMod(hashInt, NUM_SHARDS); TLA+'s % is the floor modulus too.
JavaIndex(digest) == JavaLong(digest) % NumShards
=============================================================================
