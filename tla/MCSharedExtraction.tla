-------------------------- MODULE MCSharedExtraction --------------------------
EXTENDS SharedExtraction

(* Each copy is in a workspace of its own.                                 *)
MCTenantOf == [c \in Copy |-> IF c = "b" THEN "W2" ELSE "W1"]
=============================================================================
