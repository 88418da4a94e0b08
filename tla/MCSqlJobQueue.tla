---------------------------- MODULE MCSqlJobQueue ----------------------------
(* Instances of SqlJobQueue for TLC. *)
EXTENDS SqlJobQueue, TLC

WorkerSymmetry == Permutations(Workers)
=============================================================================
