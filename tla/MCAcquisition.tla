--------------------------- MODULE MCAcquisition ---------------------------
(* Instances of Acquisition for TLC: one job, two processes. *)
EXTENDS Acquisition, TLC

CONSTANTS j1, w1, w2

MCWorkerId    == [w \in Workers |-> "worker"]
MCDocument    == [j \in Jobs |-> "doc"]
MCPriority    == [j \in Jobs |-> 0]
MCMaxAttempts == [j \in Jobs |-> 2]

\* A content within the budget, and one that the budget or the limit of a source
\* stops.
MCSize == [c \in Contents |-> IF c = "over" THEN 5 ELSE 2]

\* acquire() sees the object from HEAD to the opening of GET, so that it is
\* replaced only while a worker is on the way there.
OwnersNext ==
    \/ \E j \in Jobs : Submit(j)
    \/ \E j \in Jobs : Overwrite(j) /\ \E w \in Workers : pc[w] \in {"head", "open"}
    \/ \E w \in Workers : WorkerTurn(w)
    \/ \E x \in Workspaces : ScavengeJudge(x)
    \/ ScavengeDelete
    \/ TimePasses

OwnersSpec == AcquisitionInit /\ [][OwnersNext]_acquisitionVars

Symmetry == Permutations(Workers)
============================================================================
