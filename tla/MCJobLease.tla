----------------------------- MODULE MCJobLease -----------------------------
(* Instances of JobLease for TLC.  All processes share one worker_id, the   *)
(* case in which the fence has only the generation to tell them apart.      *)
EXTENDS JobLease, TLC

CONSTANTS j1, j2, j3, w1, w2

MCWorkerId    == [w \in Workers |-> "worker"]
\* The first two jobs carry the same document version; the last one comes
\* before them in the queue.  The second job has a single attempt.
MCDocument    == [j \in Jobs |-> IF j = j3 THEN "other" ELSE "doc"]
MCPriority    == [j \in Jobs |-> IF j = j3 THEN 5 ELSE 0]
MCMaxAttempts == [j \in Jobs |-> IF j = j1 THEN 2 ELSE 1]

\* One job besides the first is submitted: the one that competes for the version,
\* or the one that comes first in the queue.
OneOther(j) == j = j1 \/ \A k \in Jobs \ {j1, j} : job[k].status = "ABSENT"

QueueNext ==
    \/ \E j \in Jobs : OneOther(j) /\ (CreateOrGet(j) \/ RequestCancel(j))
    \/ \E w \in Workers : WorkerStep(w)
    \/ Tick

QueueSpec == Init /\ [][QueueNext]_vars /\ Fairness
=============================================================================
