------------------------------- MODULE Abort -------------------------------
(***************************************************************************)
(* AbortReconciliationRunner (application/abort_reconciliation.py): one or *)
(* more callers abort the ingestion session of a job while a delivery      *)
(* worker may finalize it and the server may let it expire.  Requests are  *)
(* lost, take effect late or are answered late.  The server is external;   *)
(* its states are those the client's contracts name.                       *)
(***************************************************************************)
EXTENDS Naturals

CONSTANTS
    Runners,            \* calls of abort()
    Bound,              \* those that name the session of the checkpoint
    MaxAbortAttempts,   \* max_abort_attempts
    MaxStatusPolls,     \* max_status_polls
    Null

\* The states of a session, those that end it, and what abort() tells of them.
Final    == {"COMPLETED", "FAILED", "ABORTED", "EXPIRED"}
Sessions == Final \cup {"ACTIVE", "FINALIZING"}
Verdicts == {"DIRECT_ACK", "RECONCILED_ABORTED", "ALREADY_TERMINAL", "AbortConflictError"}

ASSUME AbortAssumption ==
    /\ Bound \subseteq Runners
    /\ MaxAbortAttempts \in Nat \ {0}
    /\ MaxStatusPolls \in Nat \ {0}
    /\ Null \notin Sessions \cup Verdicts

VARIABLES
    pc,         \* where each call is
    last,       \* last_status
    attempts,   \* abort_attempts
    obs,        \* observations
    seen,       \* a status that has been read and not yet recorded
    end,        \* what the call returned or raised, or Null
    session,    \* the state of the session on the server
    recorded,   \* session_status_raw of the delivery checkpoint
    late        \* callers whose Abort is still on its way

local     == <<pc, last, attempts, obs, seen, end>>
abortVars == <<local, session, recorded, late>>

\* gRPC codes: those the runner takes for ambiguous, and some it does not, among
\* them ABORTED, with which the server tells INGESTION_SESSION_STATE_CHANGED.
AmbiguousAbortCodes == {"DEADLINE_EXCEEDED", "UNAVAILABLE", "CANCELLED", "UNKNOWN"}
Codes == AmbiguousAbortCodes \cup {"ABORTED", "FAILED_PRECONDITION", "INTERNAL"}

AbortInit ==
    /\ pc = [r \in Runners |-> "start"]
    /\ last = [r \in Runners |-> Null]
    /\ attempts = [r \in Runners |-> 0]
    /\ obs = [r \in Runners |-> 0]
    /\ seen = [r \in Runners |-> Null]
    /\ end = [r \in Runners |-> Null]
    /\ session = "ACTIVE"
    /\ recorded = "ACTIVE"
    /\ late = {}

-----------------------------------------------------------------------------
Goto(r, label) == pc' = [pc EXCEPT ![r] = label]

Ends(r, outcome) ==
    /\ Goto(r, "done")
    /\ end' = [end EXCEPT ![r] = outcome]

\* _assert_checkpoint_session
AssertCheckpointSession(r) ==
    /\ pc[r] = "start"
    /\ IF r \in Bound THEN Goto(r, "loop") /\ UNCHANGED end
                      ELSE Ends(r, "DeliveryIntegrityError")
    /\ UNCHANGED <<last, attempts, obs, seen, session, recorded, late>>

\* Mutation: whatever is terminal has been aborted.
Resolved_AnyEndIsAborted(status, direct) ==
    IF status \in Final THEN "RECONCILED_ABORTED" ELSE "AbortReconciliationPending"

\* _resolve_observed
Resolved(status, direct) ==
    CASE status = "ABORTED" -> IF direct THEN "DIRECT_ACK" ELSE "RECONCILED_ABORTED"
      [] status \in {"FAILED", "EXPIRED"} -> "ALREADY_TERMINAL"
      [] status = "COMPLETED" -> "AbortConflictError"
      [] OTHER -> "AbortReconciliationPending"

MayAbort(r) == attempts[r] < MaxAbortAttempts

MayPoll(r) == obs[r] < MaxStatusPolls

CallsAgain(r) == last[r] \in {Null, "ACTIVE"}

\* One turn of the while loop, up to its call.
Decide(r) ==
    /\ pc[r] = "loop"
    /\ \/ /\ CallsAgain(r) /\ MayAbort(r)
          /\ attempts' = [attempts EXCEPT ![r] = @ + 1]
          /\ Goto(r, "call")
          /\ UNCHANGED end
       \/ /\ ~CallsAgain(r) /\ last[r] = "FINALIZING" /\ MayPoll(r)
          /\ Goto(r, "observe")
          /\ UNCHANGED <<attempts, end>>
       \/ /\ \/ CallsAgain(r) /\ ~MayAbort(r)
             \/ ~CallsAgain(r) /\ last[r] = "FINALIZING" /\ ~MayPoll(r)
          /\ Ends(r, "AbortReconciliationPending")
          /\ UNCHANGED attempts
       \/ /\ ~CallsAgain(r) /\ last[r] # "FINALIZING"
          /\ Ends(r, Resolved(last[r], FALSE))
          /\ UNCHANGED attempts
    /\ UNCHANGED <<last, obs, seen, session, recorded, late>>

\* What an Abort does to the session when it arrives.
Aborted(s) == IF s = "ACTIVE" THEN "ABORTED" ELSE s

\* The server answers: an acknowledgement, or the state forbids it.
AbortAnswered(r) ==
    /\ pc[r] = "call"
    /\ session' = Aborted(session)
    /\ \/ /\ session' = "ABORTED"
          /\ seen' = [seen EXCEPT ![r] = "ABORTED"]
          /\ Goto(r, "recordAck")
          /\ UNCHANGED end
       \/ /\ session' # "ABORTED"
          /\ Ends(r, "FAILED_PRECONDITION")
          /\ UNCHANGED seen
    /\ UNCHANGED <<last, attempts, obs, recorded, late>>

\* Mutation: a call that failed ambiguously is taken for an acknowledgement.
AbortFails_IsAck(r) ==
    /\ pc[r] = "call"
    /\ \/ session' = Aborted(session) /\ UNCHANGED late
       \/ late' = late \cup {r} /\ UNCHANGED session
    /\ seen' = [seen EXCEPT ![r] = "ABORTED"]
    /\ Goto(r, "recordAck")
    /\ UNCHANGED <<last, attempts, obs, end, recorded>>

\* The call fails with a code that may mean anything, or another one.
AbortFails(r) ==
    /\ pc[r] = "call"
    /\ \/ session' = Aborted(session) /\ UNCHANGED late
       \/ late' = late \cup {r} /\ UNCHANGED session
       \/ UNCHANGED <<session, late>>
    /\ \E code \in Codes :
          IF code \in AmbiguousAbortCodes THEN Goto(r, "observe") /\ UNCHANGED end
                                          ELSE Ends(r, code)
    /\ UNCHANGED <<last, attempts, obs, seen, recorded>>

\* _observe_status: the query, which may fail or answer for another session,
ObserveStatus(r) ==
    /\ pc[r] = "observe"
    /\ \/ /\ seen' = [seen EXCEPT ![r] = session]
          /\ Goto(r, "record")
          /\ UNCHANGED end
       \/ /\ \E e \in {"QueryFailed", "DeliveryIntegrityError"} : Ends(r, e)
          /\ UNCHANGED seen
    /\ UNCHANGED <<last, attempts, obs, session, recorded, late>>

\* Mutation: an observation is not counted.
RecordStatus_NotCounted(r) ==
    /\ pc[r] = "record"
    /\ recorded' = seen[r]
    /\ last' = [last EXCEPT ![r] = seen[r]]
    /\ Goto(r, "loop")
    /\ UNCHANGED <<attempts, obs, seen, end, session, late>>

\* and the transaction that records what was read, maybe much later.
RecordStatus(r) ==
    /\ pc[r] = "record"
    /\ recorded' = seen[r]
    /\ last' = [last EXCEPT ![r] = seen[r]]
    /\ obs' = [obs EXCEPT ![r] = @ + 1]
    /\ Goto(r, "loop")
    /\ UNCHANGED <<attempts, seen, end, session, late>>

RecordAck(r) ==
    /\ pc[r] = "recordAck"
    /\ recorded' = seen[r]
    /\ Ends(r, Resolved(seen[r], TRUE))
    /\ UNCHANGED <<last, attempts, obs, seen, session, late>>

-----------------------------------------------------------------------------
(* The world outside: late requests, the delivery worker, the server.      *)

AbortLate(r) ==
    /\ r \in late
    /\ late' = late \ {r}
    /\ session' = Aborted(session)
    /\ UNCHANGED <<local, recorded>>

Finalize ==
    /\ session = "ACTIVE"
    /\ session' = "FINALIZING"
    /\ UNCHANGED <<local, recorded, late>>

FinishFinalize ==
    /\ session = "FINALIZING"
    /\ session' \in {"COMPLETED", "FAILED"}
    /\ UNCHANGED <<local, recorded, late>>

Expire ==
    /\ session = "ACTIVE"
    /\ session' = "EXPIRED"
    /\ UNCHANGED <<local, recorded, late>>

Terminated ==
    /\ \A r \in Runners : pc[r] = "done"
    /\ UNCHANGED abortVars

RunnerStep(r) ==
    \/ AssertCheckpointSession(r) \/ Decide(r) \/ AbortAnswered(r) \/ AbortFails(r)
    \/ ObserveStatus(r) \/ RecordStatus(r) \/ RecordAck(r)

AbortNext ==
    \/ \E r \in Runners : RunnerStep(r) \/ AbortLate(r)
    \/ Finalize \/ FinishFinalize \/ Expire \/ Terminated

AbortSpec == AbortInit /\ [][AbortNext]_abortVars

\* A call is a loop in one thread, every request of which has a deadline.
FairAbort == AbortSpec /\ \A r \in Runners : WF_abortVars(RunnerStep(r))

-----------------------------------------------------------------------------
(* Properties.                                                             *)

\* What abort() answers is true of the session and stays true: whoever wins the
\* race with Finalize, expiry and late requests, an answer is never overtaken.
VerdictIsTrue ==
    \A r \in Runners :
        /\ end[r] \in {"DIRECT_ACK", "RECONCILED_ABORTED"} => session = "ABORTED"
        /\ end[r] = "ALREADY_TERMINAL" => session \in {"FAILED", "EXPIRED"}
        /\ end[r] = "AbortConflictError" => session = "COMPLETED"

\* An end recorded in the checkpoint is the end of the session, although it is
\* recorded by any caller, after any delay and without a fence.
RecordedEndIsTrue == recorded \in Final => session = recorded

\* Every call ends, although the server may stay FINALIZING for ever.
AbortEnds == \A r \in Runners : <>(pc[r] = "done")
=============================================================================
