----------------------------- MODULE MCJobQueue -----------------------------
(* Instances of JobQueue for TLC. *)
EXTENDS JobQueue, TLC

\* Workers are interchangeable; job ids are not (their order breaks ties).
WorkerSymmetry == Permutations(Workers)
=============================================================================
