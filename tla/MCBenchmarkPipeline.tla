------------------------ MODULE MCBenchmarkPipeline ------------------------
(* The four strategies in the order of the scripts, with one shard each. *)
EXTENDS BenchmarkPipeline

MCShards == {"shard"}
MCOrder == <<"single", "sharded", "citus", "lookup">>

=============================================================================
