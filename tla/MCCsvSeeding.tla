---------------------------- MODULE MCCsvSeeding ----------------------------
(* Instances of CsvSeeding for TLC: digests of two 2-bit bytes, read as an    *)
(* unsigned number of 0 .. 15 by the seeder and as a long of -8 .. 7 by the   *)
(* API; two shards, and digests on both sides of the sign.                    *)
EXTENDS CsvSeeding

TwoUsers == <<(* long -5, shard 1 *) <<2, 3>>, (* long 6, shard 0 *) <<1, 2>>>>

\* JavaLong and PythonInt spell the same bits, for every digest of two bytes.
ASSUME LongsAreTheSameBits ==
    \A d \in [1 .. 2 -> Bytes] : JavaLong(d) = Long(PythonInt(d))
=============================================================================
