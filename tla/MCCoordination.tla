--------------------------- MODULE MCCoordination ---------------------------
(* An instance of Coordination for TLC, with ttls that expire at once. *)
EXTENDS Coordination

MCTtls == {-1, 0, 2, 3}
=============================================================================
