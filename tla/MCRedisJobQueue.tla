--------------------------- MODULE MCRedisJobQueue ---------------------------
(* Instances of RedisJobQueue for TLC. *)
EXTENDS RedisJobQueue, TLC

WorkerSymmetry == Permutations(Workers)
=============================================================================
