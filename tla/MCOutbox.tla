------------------------------ MODULE MCOutbox ------------------------------
(* An instance of Outbox for TLC: two aggregates, the first with two events. *)
EXTENDS Outbox

MCaggregate == [e \in Entries |-> IF e <= 2 THEN "order" ELSE "user"]
MCsequence == [e \in Entries |-> IF e <= 2 THEN e ELSE e - 2]
=============================================================================
