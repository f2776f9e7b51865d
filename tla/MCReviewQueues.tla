---------------------------- MODULE MCReviewQueues ----------------------------
EXTENDS ReviewQueues

(* Any of the rows the migrations look at: one that is under review carries *)
(* the backfill's marker.                                                   *)
MCSeed == [r \in Row |->
  {[present |-> TRUE, tenant |-> t, review |-> rv, flags |-> IF rv THEN {"own"} ELSE {}] :
     t \in {"raw", "other", "none"}, rv \in BOOLEAN}]
=============================================================================
