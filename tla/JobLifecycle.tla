---------------------------- MODULE JobLifecycle ----------------------------
(***************************************************************************)
(* What the queue promises a producer, without workers, leases, clocks or  *)
(* transactions: the status column of indexation_job and the number of     *)
(* attempts spent.  JobLease implements it (see LifecycleSpec there).      *)
(***************************************************************************)
EXTENDS Naturals

CONSTANTS Jobs, Document, MaxAttempts

VARIABLES
    status,     \* the status of each job, "ABSENT" before it is submitted
    tries       \* attempts started

lifecycleVars == <<status, tries>>

Waiting  == {"PENDING", "RETRY_WAIT"}
Unsettled == Waiting \cup {"PROCESSING"}

LifecycleInit ==
    /\ status = [j \in Jobs |-> "ABSENT"]
    /\ tries = [j \in Jobs |-> 0]

\* A producer submits a job, unless its document version has an active one.
Submitted(j) ==
    /\ status[j] = "ABSENT"
    /\ \A k \in Jobs : Document[k] = Document[j] => status[k] \notin Unsettled
    /\ status' = [status EXCEPT ![j] = "PENDING"]
    /\ UNCHANGED tries

\* An attempt starts, the first one, a retry, or one that replaces a lost one.
Started(j) ==
    /\ status[j] \in Unsettled
    /\ tries[j] < MaxAttempts[j]
    /\ status' = [status EXCEPT ![j] = "PROCESSING"]
    /\ tries' = [tries EXCEPT ![j] = @ + 1]

\* The running attempt ends; a retry is promised only while there is budget,
\* and the dead letter is the end of the budget.
Ended(j, s) ==
    /\ status[j] = "PROCESSING"
    /\ s = "RETRY_WAIT" => tries[j] < MaxAttempts[j]
    /\ s = "DEAD_LETTER" => tries[j] = MaxAttempts[j]
    /\ status' = [status EXCEPT ![j] = s]
    /\ UNCHANGED tries

LifecycleNext ==
    \E j \in Jobs :
        \/ Submitted(j)
        \/ Started(j)
        \/ \E s \in {"RETRY_WAIT", "COMPLETED", "FAILED", "DEAD_LETTER"} : Ended(j, s)

LifecycleSpec == LifecycleInit /\ [][LifecycleNext]_lifecycleVars
=============================================================================
