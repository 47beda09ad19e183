------------------------------ MODULE JobLease ------------------------------
(***************************************************************************)
(* The durable job queue of AstraIndexator: rows of indexation_job and     *)
(* processing_attempt in PostgreSQL, shared by worker processes that claim *)
(* a job under a lease, mutate it through transactions fenced by           *)
(* (job, worker id, lease generation, unexpired lease), and report the     *)
(* outcome (application/coordinator.py, application/retry_policy.py,       *)
(* application/delivery_execution.py, runtime/worker.py,                   *)
(* persistence/repository.py).                                             *)
(*                                                                         *)
(* Time.  PostgreSQL now() is the start time of the transaction, not the   *)
(* time at which a row is locked, so a transaction judges a lease by a     *)
(* clock that may lag.  Durable times are kept relative to the current     *)
(* time: leaseLeft = lease_until - current time, retryLeft = next_retry_at *)
(* - current time, txAge = current time - now() of the open transaction.   *)
(* Hence  lease_until - now() = leaseLeft + txAge.  A time in the past is  *)
(* kept down to Floor, the last value that any transaction can tell apart. *)
(***************************************************************************)
EXTENDS Integers, Sequences

CONSTANTS
    Jobs,           \* rows the producers may create, one per producer_request_id
    Workers,        \* worker processes
    Document,       \* [Jobs -> (access zone, document id, version)]
    Priority,       \* [Jobs -> Int], the priority column
    MaxAttempts,    \* [Jobs -> Nat \ {0}], the max_attempts column
    WorkerId,       \* the configured worker_id of a process, need not be unique
    Stages,         \* the processing_stage names a worker reports
    LeaseSeconds,   \* lease length, in clock ticks
    BaseDelay,      \* base_delay_seconds of the backoff, in clock ticks
    MaxDelay,       \* max_delay_seconds of the backoff, in clock ticks
    JitterPct,      \* jitter_ratio, in percent
    MaxTxAge,       \* bound: ticks a transaction may stay open
    Null            \* SQL NULL, and "no token", "no open transaction"

ASSUME QueueAssumption ==
    /\ Priority \in [Jobs -> Int]
    /\ MaxAttempts \in [Jobs -> Nat \ {0}]
    /\ DOMAIN WorkerId = Workers
    /\ LeaseSeconds \in Nat \ {0}
    /\ BaseDelay \in Nat \ {0}
    /\ MaxDelay \in Nat /\ MaxDelay >= BaseDelay
    /\ JitterPct \in 0..100
    /\ MaxTxAge \in Nat
    /\ Null \notin Int
    /\ Null \notin Stages
    /\ Null \notin {WorkerId[w] : w \in Workers}

\* A token is a record; Null is not one.
ASSUME NullIsNoToken ==
    Null \notin [job : Jobs, worker : {WorkerId[w] : w \in Workers},
                 gen : Nat \ {0}, attempt : Nat \ {0}]

VARIABLES
    job,        \* indexation_job: one row per element of Jobs
    attempt,    \* processing_attempt: the rows of each job, by attempt_number
    token,      \* the LeaseToken a worker process holds, or Null
    txAge       \* age of the transaction a worker process has open, or Null

vars == <<job, attempt, token, txAge>>

Statuses == {"ABSENT", "PENDING", "PROCESSING", "RETRY_WAIT",
             "COMPLETED", "FAILED", "DEAD_LETTER"}
Active   == {"PENDING", "PROCESSING", "RETRY_WAIT"}
Terminal == {"COMPLETED", "FAILED", "DEAD_LETTER"}
Results  == {"OPEN", "LEASE_EXPIRED", "COMPLETED", "RETRY_WAIT",
             "FAILED", "DEAD_LETTER"}

Ids   == {WorkerId[w] : w \in Workers}
Floor == -(MaxTxAge + 1)
Times == Floor..(LeaseSeconds + MaxDelay)

JobRow == [status : Statuses, worker : Ids \cup {Null}, gen : Nat,
           leaseLeft : Times \cup {Null}, retryLeft : Times \cup {Null},
           attempts : Nat, stage : Stages \cup {Null}, cancel : BOOLEAN]
AttemptRow == [gen : Nat \ {0}, worker : Ids, result : Results]
LeaseToken == [job : Jobs, worker : Ids, gen : Nat \ {0}, attempt : Nat \ {0}]

TypeOK ==
    /\ job \in [Jobs -> JobRow]
    /\ \A j \in Jobs : job[j].attempts <= MaxAttempts[j]
    /\ attempt \in [Jobs -> Seq(AttemptRow)]
    /\ token \in [Workers -> LeaseToken \cup {Null}]
    /\ txAge \in [Workers -> (0..MaxTxAge) \cup {Null}]

NoRow == [status |-> "ABSENT", worker |-> Null, gen |-> 0, leaseLeft |-> Null,
          retryLeft |-> Null, attempts |-> 0, stage |-> Null, cancel |-> FALSE]

Init ==
    /\ job = [j \in Jobs |-> NoRow]
    /\ attempt = [j \in Jobs |-> << >>]
    /\ token = [w \in Workers |-> Null]
    /\ txAge = [w \in Workers |-> Null]

-----------------------------------------------------------------------------
(* Producers.                                                              *)

\* Mutation: the index forgets jobs that wait for a retry.
VersionIsFree_IgnoresRetryWait(j) ==
    \A k \in Jobs : Document[k] = Document[j] =>
        job[k].status \notin {"PENDING", "PROCESSING"}

\* The partial unique index uq_indexation_job_active_document_version.
VersionIsFree(j) ==
    \A k \in Jobs : Document[k] = Document[j] => job[k].status \notin Active

\* A repeated producer_request_id returns the existing row; a second active
\* job for the same document version is rejected by the index.
CreateOrGet(j) ==
    /\ job[j].status = "ABSENT"
    /\ VersionIsFree(j)
    /\ job' = [job EXCEPT ![j].status = "PENDING"]
    /\ UNCHANGED <<attempt, token, txAge>>

\* No code of the repository sets cancel_requested; claim_next reads it.
RequestCancel(j) ==
    /\ job[j].status \in Active
    /\ ~job[j].cancel
    /\ job' = [job EXCEPT ![j].cancel = TRUE]
    /\ UNCHANGED <<attempt, token, txAge>>

-----------------------------------------------------------------------------
(* Transactions and time.                                                  *)

BeginTx(w) ==
    /\ txAge[w] = Null
    /\ txAge' = [txAge EXCEPT ![w] = 0]
    /\ UNCHANGED <<job, attempt, token>>

EndTx(w) == txAge' = [txAge EXCEPT ![w] = Null]

Elapse(t) == IF t = Null \/ t = Floor THEN t ELSE t - 1

Tick ==
    /\ \A w \in Workers : txAge[w] # Null => txAge[w] < MaxTxAge
    /\ job' = [j \in Jobs |-> [job[j] EXCEPT !.leaseLeft = Elapse(@),
                                             !.retryLeft = Elapse(@)]]
    /\ txAge' = [w \in Workers |-> IF txAge[w] = Null THEN Null ELSE txAge[w] + 1]
    /\ UNCHANGED <<attempt, token>>

-----------------------------------------------------------------------------
(* Claiming.                                                               *)

\* Mutations of Runnable: no attempt budget; a lease that ends now counts as
\* expired; expired owners are never replaced; failed jobs are retried.
Runnable_NoBudget(j, age) ==
    /\ \/ job[j].status = "PENDING"
       \/ job[j].status = "RETRY_WAIT" /\ job[j].retryLeft + age <= 0
       \/ job[j].status = "PROCESSING" /\ job[j].leaseLeft + age < 0
    /\ ~job[j].cancel

Runnable_AtExpiry(j, age) ==
    /\ \/ job[j].status = "PENDING"
       \/ job[j].status = "RETRY_WAIT" /\ job[j].retryLeft + age <= 0
       \/ job[j].status = "PROCESSING" /\ job[j].leaseLeft + age <= 0
    /\ ~job[j].cancel
    /\ job[j].attempts < MaxAttempts[j]

Runnable_NoReclaim(j, age) ==
    /\ \/ job[j].status = "PENDING"
       \/ job[j].status = "RETRY_WAIT" /\ job[j].retryLeft + age <= 0
    /\ ~job[j].cancel
    /\ job[j].attempts < MaxAttempts[j]

Runnable_Failed(j, age) ==
    /\ \/ job[j].status \in {"PENDING", "FAILED"}
       \/ job[j].status = "RETRY_WAIT" /\ job[j].retryLeft + age <= 0
       \/ job[j].status = "PROCESSING" /\ job[j].leaseLeft + age < 0
    /\ ~job[j].cancel
    /\ job[j].attempts < MaxAttempts[j]

\* The WHERE clause of claim_next, judged by a transaction of the given age.
Runnable(j, age) ==
    /\ \/ job[j].status = "PENDING"
       \/ /\ job[j].status = "RETRY_WAIT"
          /\ job[j].retryLeft = Null \/ job[j].retryLeft + age <= 0
       \/ /\ job[j].status = "PROCESSING"
          /\ job[j].leaseLeft # Null
          /\ job[j].leaseLeft + age < 0
    /\ ~job[j].cancel
    /\ job[j].attempts < MaxAttempts[j]

\* Mutation: the fence compares worker ids but not generations.
Fenced_AnyGeneration(w) ==
    /\ token[w] # Null
    /\ txAge[w] # Null
    /\ LET row == job[token[w].job]
       IN  /\ row.status = "PROCESSING"
           /\ row.worker = token[w].worker
           /\ row.leaseLeft + txAge[w] >= 0

\* _fencing_predicate with status = PROCESSING, in the open transaction of w.
Fenced(w) ==
    /\ token[w] # Null
    /\ txAge[w] # Null
    /\ LET row == job[token[w].job]
       IN  /\ row.status = "PROCESSING"
           /\ row.worker = token[w].worker
           /\ row.gen = token[w].gen
           /\ row.leaseLeft # Null
           /\ row.leaseLeft + txAge[w] >= 0

\* Rows SKIP LOCKED may pass over: an owner whose transaction began before its
\* lease ran out may hold the row lock now.  (The lock of another claimer is
\* its claim, seen as committed.)
MayBeLocked(w) == {token[v].job : v \in {u \in Workers \ {w} : Fenced(u)}}

\* ORDER BY priority DESC, created_at, id FOR UPDATE SKIP LOCKED LIMIT 1; the
\* tie-break by created_at and id is left open.
FirstRunnable(w, j) ==
    \A k \in Jobs \ MayBeLocked(w) :
        Runnable(k, txAge[w]) => Priority[k] <= Priority[j]

\* Mutation: a reclaim leaves the attempt of the expired owner open.
CloseLatestOpen_Skipped(rows) == rows

\* The attempt a reclaim closes: the open one with the greatest number.
CloseLatestOpen(rows) ==
    LET open == {n \in 1..Len(rows) : rows[n].result = "OPEN"}
    IN  IF open = {} THEN rows
        ELSE [rows EXCEPT ![CHOOSE n \in open : \A m \in open : m <= n].result
                            = "LEASE_EXPIRED"]

ClaimNext(w, j) ==
    /\ token[w] = Null
    /\ txAge[w] # Null
    /\ Runnable(j, txAge[w])
    /\ FirstRunnable(w, j)
    /\ LET gen == job[j].gen + 1
           num == job[j].attempts + 1
           old == IF job[j].status = "PROCESSING"
                  THEN CloseLatestOpen(attempt[j]) ELSE attempt[j]
       IN  /\ job' = [job EXCEPT ![j] =
                        [@ EXCEPT !.status = "PROCESSING", !.worker = WorkerId[w],
                                  !.gen = gen, !.attempts = num,
                                  !.leaseLeft = LeaseSeconds - txAge[w],
                                  !.retryLeft = Null]]
           /\ attempt' = [attempt EXCEPT ![j] =
                Append(old, [gen |-> gen, worker |-> WorkerId[w], result |-> "OPEN"])]
           /\ token' = [token EXCEPT ![w] =
                [job |-> j, worker |-> WorkerId[w], gen |-> gen, attempt |-> num]]
    /\ EndTx(w)

\* No unlocked row is runnable: the worker goes back to sleep.
ClaimNothing(w) ==
    /\ token[w] = Null
    /\ txAge[w] # Null
    /\ \A j \in Jobs \ MayBeLocked(w) : ~Runnable(j, txAge[w])
    /\ EndTx(w)
    /\ UNCHANGED <<job, attempt, token>>

-----------------------------------------------------------------------------
(* Mutations of the claimed job.                                           *)

\* The row _finish_attempt updates.
AttemptIsOpen(w) ==
    LET rows == attempt[token[w].job]
    IN  /\ token[w].attempt <= Len(rows)
        /\ rows[token[w].attempt].gen = token[w].gen
        /\ rows[token[w].attempt].result = "OPEN"

\* A fenced transaction on other tables (DurableAppendLeaseFence.assert_owned):
\* it locks the job row and leaves it as it is.
AssertOwned(w) ==
    /\ Fenced(w)
    /\ EndTx(w)
    /\ UNCHANGED <<job, attempt, token>>

Heartbeat(w) ==
    /\ Fenced(w)
    /\ job' = [job EXCEPT ![token[w].job].leaseLeft = LeaseSeconds - txAge[w]]
    /\ EndTx(w)
    /\ UNCHANGED <<attempt, token>>

AdvanceStage(w, stage) ==
    /\ Fenced(w)
    /\ job' = [job EXCEPT ![token[w].job].stage = stage]
    /\ EndTx(w)
    /\ UNCHANGED <<attempt, token>>

\* A finished turn: the row leaves PROCESSING, its lease columns are cleared,
\* the attempt is closed and the worker forgets its token.
Finish(w, status, retry) ==
    /\ Fenced(w)
    /\ AttemptIsOpen(w)
    /\ job' = [job EXCEPT ![token[w].job] =
                 [@ EXCEPT !.status = status, !.worker = Null,
                           !.leaseLeft = Null, !.retryLeft = retry]]
    /\ attempt' = [attempt EXCEPT ![token[w].job] =
                     [@ EXCEPT ![token[w].attempt].result = status]]
    /\ token' = [token EXCEPT ![w] = Null]
    /\ EndTx(w)

Complete(w) == Finish(w, "COMPLETED", job[token[w].job].retryLeft)

\* RetryBackoffPolicy.delay_seconds: exponential, capped, and moved by a hash
\* of the attempt by at most JitterPct percent, rounded and clamped.
RawDelay(n) ==
    LET Doubled[k \in Nat] ==
            IF k = 0 \/ k = 1 THEN BaseDelay ELSE 2 * Doubled[k - 1]
    IN  IF Doubled[n] < MaxDelay THEN Doubled[n] ELSE MaxDelay

DelaySeconds(n) ==
    {d \in 0..MaxDelay :
        LET off == IF d < RawDelay(n) THEN RawDelay(n) - d ELSE d - RawDelay(n)
        IN  100 * off <= RawDelay(n) * JitterPct + (IF JitterPct = 0 THEN 0 ELSE 50)}

\* Mutation: off by one in the budget test of the failure handler.
HasBudget_OneMore(w) == job[token[w].job].attempts <= MaxAttempts[token[w].job]

HasBudget(w) == job[token[w].job].attempts < MaxAttempts[token[w].job]

\* DurableFailureHandler.handle for TRANSIENT and DEPENDENCY_UNAVAILABLE.
ScheduleRetry(w) ==
    /\ Fenced(w)
    /\ HasBudget(w)
    /\ \E d \in DelaySeconds(job[token[w].job].attempts) :
          Finish(w, "RETRY_WAIT", d - txAge[w])

DeadLetter(w) ==
    /\ Fenced(w)
    /\ ~HasBudget(w)
    /\ Finish(w, "DEAD_LETTER", Null)

\* DurableFailureHandler.handle for every permanent failure class.
FailPermanently(w) == Finish(w, "FAILED", Null)

\* DOWNSTREAM_AMBIGUOUS: the decision is RECONCILE and nothing is written; the
\* worker returns to its claim loop and the lease runs out.
Reconcile(w) ==
    /\ token[w] # Null
    /\ txAge[w] = Null
    /\ token' = [token EXCEPT ![w] = Null]
    /\ UNCHANGED <<job, attempt, txAge>>

\* A fence matches no row: the transaction rolls back with LeaseLostError, the
\* turn is abandoned.
Abandon(w) ==
    /\ token[w] # Null
    /\ txAge[w] # Null
    /\ ~(Fenced(w) /\ AttemptIsOpen(w))
    /\ token' = [token EXCEPT ![w] = Null]
    /\ EndTx(w)
    /\ UNCHANGED <<job, attempt>>

\* The process dies with the job and is started again under the same id.
Crash(w) ==
    /\ token[w] # Null
    /\ token' = [token EXCEPT ![w] = Null]
    /\ EndTx(w)
    /\ UNCHANGED <<job, attempt>>

-----------------------------------------------------------------------------
EndTurn(w) ==
    \/ Complete(w)
    \/ ScheduleRetry(w)
    \/ DeadLetter(w)
    \/ FailPermanently(w)
    \/ Abandon(w)

Claim(w) == ClaimNothing(w) \/ \E j \in Jobs : ClaimNext(w, j)

WorkerStep(w) ==
    \/ BeginTx(w)
    \/ Claim(w)
    \/ AssertOwned(w)
    \/ Heartbeat(w)
    \/ \E stage \in Stages : AdvanceStage(w, stage)
    \/ EndTurn(w)
    \/ Reconcile(w)
    \/ Crash(w)

Next ==
    \/ \E j \in Jobs : CreateOrGet(j) \/ RequestCancel(j)
    \/ \E w \in Workers : WorkerStep(w)
    \/ Tick

Spec == Init /\ [][Next]_vars

\* Worker loops run, transactions end, time passes; a turn makes a bounded
\* number of transactions (bounded batches, polls and attempts), so one that
\* can end again and again does end.
Fairness ==
    /\ WF_vars(Tick)
    /\ \A w \in Workers :
          /\ WF_vars(BeginTx(w))
          /\ WF_vars(Claim(w))
          /\ SF_vars(EndTurn(w))

FairSpec == Spec /\ Fairness

-----------------------------------------------------------------------------
(* Properties.                                                             *)

\* The attempt ledger agrees with the job row: one row per claim, numbered and
\* fenced alike, every row but the last closed, and the last one open exactly
\* while the job is PROCESSING, else carrying the job's own outcome.
LedgerConsistent ==
    \A j \in Jobs :
        /\ Len(attempt[j]) = job[j].attempts
        /\ job[j].gen = job[j].attempts
        /\ \A n \in 1..Len(attempt[j]) :
              /\ attempt[j][n].gen = n
              /\ n < Len(attempt[j]) =>
                    attempt[j][n].result \in {"LEASE_EXPIRED", "RETRY_WAIT"}
              /\ n = Len(attempt[j]) =>
                    attempt[j][n].result =
                       IF job[j].status = "PROCESSING" THEN "OPEN" ELSE job[j].status

\* At most one process can commit a mutation of a job, whatever the age of the
\* open transactions and even when processes share a worker_id.
SingleMutator ==
    \A v, w \in Workers :
        Fenced(v) /\ Fenced(w) /\ token[v].job = token[w].job => v = w

\* At most one active job exists per document version, through every claim,
\* retry and reclaim.
OneActiveJobPerVersion ==
    \A j, k \in Jobs :
        /\ Document[j] = Document[k]
        /\ job[j].status \in Active
        /\ job[k].status \in Active
        => j = k

\* A job that waits for a retry can still be claimed, and only a job whose
\* budget is spent is dead-lettered.
RetryHasBudget ==
    \A j \in Jobs :
        /\ job[j].status \in {"PENDING", "RETRY_WAIT"} => job[j].attempts < MaxAttempts[j]
        /\ job[j].status = "DEAD_LETTER" => job[j].attempts = MaxAttempts[j]

\* The process whose transaction commits a change of a job row is the holder
\* of its current generation: a stale worker changes nothing.
Commits(w, j) ==
    /\ txAge[w] # Null /\ txAge'[w] = Null
    /\ job'[j] # job[j]
    /\ job'[j].gen = job[j].gen

OnlyTheOwnerMutates ==
    [][\A w \in Workers, j \in Jobs : Commits(w, j) =>
          /\ token[w] # Null
          /\ token[w].job = j
          /\ token[w].attempt = Len(attempt[j])
          /\ attempt[j][Len(attempt[j])].gen = token[w].gen]_vars

\* A job in a terminal status never changes again, and its ledger is closed
\* for good.
TerminalIsFinal ==
    [][\A j \in Jobs : job[j].status \in Terminal =>
          job'[j] = job[j] /\ attempt'[j] = attempt[j]]_vars

\* Ownership moves only when the lease has really run out, and a retry starts
\* only when its delay has really passed, although both are judged by a
\* transaction clock that may lag.
ClaimIsDue ==
    [][\A j \in Jobs : job'[j].gen # job[j].gen =>
          /\ job'[j].gen = job[j].gen + 1
          /\ job[j].status = "PROCESSING" => job[j].leaseLeft < 0
          /\ job[j].status = "RETRY_WAIT" => job[j].retryLeft <= 0]_vars

\* The last allowed attempt ended without a verdict: PROCESSING, no budget and
\* a lease that has run out.
Stranded(j) ==
    /\ job[j].status = "PROCESSING"
    /\ job[j].attempts = MaxAttempts[j]
    /\ job[j].leaseLeft < 0

\* Every job that is created and not cancelled comes to a terminal status,
\* unless its last attempt is lost: no crash, lost lease or retry strands it
\* while it has budget.
EveryJobSettles ==
    \A j \in Jobs :
        job[j].status \in Active ~>
            job[j].status \in Terminal \/ job[j].cancel \/ Stranded(j)

\* The queue implements the lifecycle it promises producers: whatever workers,
\* crashes, lagging clocks and stale owners do, a producer sees a job move only
\* along JobLifecycle (persistence/repository.py, application/coordinator.py).
Lifecycle == INSTANCE JobLifecycle
                WITH status <- [j \in Jobs |-> job[j].status],
                     tries  <- [j \in Jobs |-> job[j].attempts]

LifecycleSpec == Lifecycle!LifecycleSpec

\* "Retry exhaustion transitions to durable terminal/dead-letter evidence":
\* every job that is created and not cancelled comes to a terminal status.
ExhaustionIsTerminal ==
    \A j \in Jobs :
        job[j].status \in Active ~> job[j].status \in Terminal \/ job[j].cancel
=============================================================================
