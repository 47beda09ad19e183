---------------------------- MODULE MCPreparation ---------------------------
(* Instances of Preparation for TLC: one job, two processes that share a    *)
(* worker_id.                                                               *)
EXTENDS Preparation

CONSTANTS j1, w1, w2

MCWorkerId    == [w \in Workers |-> "worker"]
MCDocument    == [j \in Jobs |-> "doc"]
MCPriority    == [j \in Jobs |-> 0]
MCMaxAttempts == [j \in Jobs |-> 2]

\* One pipeline version, or a new one beside the old.
SameCompat  == [w \in Workers |-> "v1"]
OtherCompat == [w \in Workers |-> IF w = w1 THEN "v1" ELSE "v2"]

TtlGiven  == [j \in Jobs |-> 0]
TtlAbsent == [j \in Jobs |-> Null]
=============================================================================
