------------------------- MODULE MCRequestScheduler -------------------------
(* Three requests: two of one priority, and one that goes before them. *)
EXTENDS RequestScheduler

CONSTANTS r1, r2, r3

MCPriority == [r \in Requests |-> IF r = r3 THEN 0 ELSE 1]
=============================================================================
