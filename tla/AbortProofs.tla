---------------------------- MODULE AbortProofs -----------------------------
(***************************************************************************)
(* Proofs about AbortReconciliationRunner, for any number of concurrent    *)
(* calls and any bounds on attempts and polls.                             *)
(*                                                                         *)
(* VerdictIsTrue and RecordedEndIsTrue are not inductive alone: a verdict  *)
(* is taken from a status read earlier, and a checkpoint is written from a *)
(* status read earlier by any caller.  ReadingsHold carries the missing    *)
(* fact: an end that some caller has read is the end of the session.       *)
(***************************************************************************)
EXTENDS TLAPS, Abort

Labels == {"start", "loop", "call", "observe", "record", "recordAck", "done"}

\* The calls a runner may still make: one query per Abort, beside those that the
\* poll budget allows.
QueryBudget(r) == attempts[r] + MaxStatusPolls

AbortTypeOK ==
    /\ pc \in [Runners -> Labels]
    /\ last \in [Runners -> Sessions \cup {Null}]
    /\ attempts \in [Runners -> 0..MaxAbortAttempts]
    /\ obs \in [Runners -> Nat]
    /\ seen \in [Runners -> Sessions \cup {Null}]
    /\ end = [r \in Runners |-> end[r]]
    /\ session \in Sessions
    /\ recorded \in Sessions
    /\ late \subseteq Runners

\* A status that was read before an end was reached may be out of date; an end
\* that was read is not.
ReadingsHold ==
    \A r \in Runners :
        /\ seen[r] \in Final => session = seen[r]
        /\ last[r] \in Final => session = last[r]
        /\ pc[r] \in {"record", "recordAck"} => seen[r] # Null
        /\ pc[r] = "recordAck" => seen[r] = "ABORTED"

\* abort() calls Abort at most MaxAbortAttempts times and asks for the status at
\* most MaxAbortAttempts + MaxStatusPolls times.
CallsAreBounded ==
    \A r \in Runners :
        /\ attempts[r] <= MaxAbortAttempts
        /\ obs[r] <= MaxAbortAttempts + MaxStatusPolls

\* The queries, relative to the Aborts that have been sent.
QueriesFollowCalls ==
    \A r \in Runners :
        /\ obs[r] <= QueryBudget(r)
        /\ pc[r] \in {"call", "observe", "record"} => obs[r] < QueryBudget(r)

AbortInv ==
    /\ AbortTypeOK
    /\ ReadingsHold
    /\ QueriesFollowCalls
    /\ VerdictIsTrue
    /\ RecordedEndIsTrue

-----------------------------------------------------------------------------
\* AbortReconciliationRunner wants positive bounds.
LEMMA BoundsAreNat == MaxAbortAttempts \in Nat \ {0} /\ MaxStatusPolls \in Nat \ {0}
BY AbortAssumption

\* The answers that are verdicts on the session, by the status they are drawn
\* from (_resolve_observed).
LEMMA ResolvedFacts ==
    ASSUME NEW s \in Sessions, NEW d \in BOOLEAN
    PROVE  /\ Resolved(s, d) \in {"DIRECT_ACK", "RECONCILED_ABORTED"} => s = "ABORTED"
           /\ Resolved(s, d) = "ALREADY_TERMINAL" => s \in {"FAILED", "EXPIRED"}
           /\ Resolved(s, d) = "AbortConflictError" => s = "COMPLETED"
BY DEF Resolved, Sessions, Final

\* No request brings a session back from its end.
LEMMA AbortedFacts ==
    ASSUME NEW s \in Sessions
    PROVE  Aborted(s) \in Sessions /\ (s \in Final => Aborted(s) = s)
BY DEF Aborted, Sessions, Final

\* Before any call: nothing is read, told or recorded.
LEMMA AbortInitInv == AbortInit => AbortInv
<1> SUFFICES ASSUME AbortInit PROVE AbortInv
  OBVIOUS
<1>1. AbortTypeOK
  BY AbortAssumption DEF AbortInit, AbortTypeOK, Sessions, Labels, Final
<1>2. \A r \in Runners :
         /\ pc[r] = "start" /\ last[r] = Null /\ seen[r] = Null /\ end[r] = Null
         /\ attempts[r] = 0 /\ obs[r] = 0
  BY DEF AbortInit
<1>3. Null \notin Final \cup Verdicts
  BY AbortAssumption DEF Sessions
<1>4. ReadingsHold
  BY <1>2, <1>3 DEF ReadingsHold
<1>5. VerdictIsTrue
  BY <1>2, <1>3 DEF VerdictIsTrue, Verdicts
<1>6. RecordedEndIsTrue
  BY DEF AbortInit, RecordedEndIsTrue, Final
<1>7. QueriesFollowCalls
  BY <1>2, BoundsAreNat DEF QueriesFollowCalls, QueryBudget
<1> QED
  BY <1>1, <1>4, <1>5, <1>6, <1>7 DEF AbortInv

\* A step of the world: the session moves, never away from an end.
LEMMA WorldStep ==
    ASSUME AbortInv, UNCHANGED <<local, recorded>>, late' \subseteq Runners,
           session' \in Sessions, session \in Final => session' = session
    PROVE  AbortInv'
<1>1. AbortTypeOK'
  BY DEF AbortInv, AbortTypeOK, local
<1>2. ReadingsHold' /\ RecordedEndIsTrue'
  BY DEF AbortInv, ReadingsHold, RecordedEndIsTrue, local
<1>3. VerdictIsTrue'
  BY DEF AbortInv, VerdictIsTrue, local, Final
<1>4. QueriesFollowCalls'
  BY DEF AbortInv, QueriesFollowCalls, QueryBudget, local
<1> QED
  BY <1>1, <1>2, <1>3, <1>4 DEF AbortInv

\* A call ends with an answer that holds of the session.
TrueAnswer(e) ==
    /\ e \in {"DIRECT_ACK", "RECONCILED_ABORTED"} => session = "ABORTED"
    /\ e = "ALREADY_TERMINAL" => session \in {"FAILED", "EXPIRED"}
    /\ e = "AbortConflictError" => session = "COMPLETED"

\* The state of one call, as the invariant sees it.
LocalInv(r) ==
    /\ pc[r] \in Labels
    /\ last[r] \in Sessions \cup {Null} /\ seen[r] \in Sessions \cup {Null}
    /\ attempts[r] \in 0..MaxAbortAttempts /\ obs[r] \in Nat
    /\ seen[r] \in Final => session = seen[r]
    /\ last[r] \in Final => session = last[r]
    /\ pc[r] \in {"record", "recordAck"} => seen[r] # Null
    /\ pc[r] = "recordAck" => seen[r] = "ABORTED"
    /\ obs[r] <= QueryBudget(r)
    /\ pc[r] \in {"call", "observe", "record"} => obs[r] < QueryBudget(r)
    /\ TrueAnswer(end[r])

\* A call changes its own variables only.
OwnVariables(r) ==
    /\ pc' = [pc EXCEPT ![r] = pc'[r]]
    /\ last' = [last EXCEPT ![r] = last'[r]]
    /\ attempts' = [attempts EXCEPT ![r] = attempts'[r]]
    /\ obs' = [obs EXCEPT ![r] = obs'[r]]
    /\ seen' = [seen EXCEPT ![r] = seen'[r]]
    /\ end' = [end EXCEPT ![r] = end'[r]]

\* A step of one call, judged by what it does to its own variables.
LEMMA CallStep ==
    ASSUME AbortInv, NEW r \in Runners, OwnVariables(r),
           session' \in Sessions, session \in Final => session' = session,
           recorded' \in Sessions, recorded' \in Final => session' = recorded',
           late' \subseteq Runners, LocalInv(r)'
    PROVE  AbortInv'
<1>1. AbortTypeOK'
  <2>1. /\ pc'[r] \in Labels /\ last'[r] \in Sessions \cup {Null}
        /\ seen'[r] \in Sessions \cup {Null}
        /\ attempts'[r] \in 0..MaxAbortAttempts /\ obs'[r] \in Nat
    BY DEF LocalInv
  <2>2. /\ pc' \in [Runners -> Labels]
        /\ last' \in [Runners -> Sessions \cup {Null}]
        /\ seen' \in [Runners -> Sessions \cup {Null}]
    BY <2>1 DEF AbortInv, AbortTypeOK, OwnVariables
  <2>3. /\ attempts' \in [Runners -> 0..MaxAbortAttempts]
        /\ obs' \in [Runners -> Nat]
    BY <2>1 DEF AbortInv, AbortTypeOK, OwnVariables
  <2>4. end' = [q \in Runners |-> end'[q]]
    <3>1. DOMAIN end = Runners
      BY DEF AbortInv, AbortTypeOK
    <3>2. DOMAIN [end EXCEPT ![r] = end'[r]] = Runners
      BY <3>1
    <3> QED
      BY <3>2 DEF OwnVariables
  <2> QED
    BY <2>2, <2>3, <2>4 DEF AbortTypeOK
<1>2. \A q \in Runners : q # r =>
         /\ pc'[q] = pc[q] /\ last'[q] = last[q] /\ attempts'[q] = attempts[q]
         /\ obs'[q] = obs[q] /\ seen'[q] = seen[q] /\ end'[q] = end[q]
  BY DEF AbortInv, AbortTypeOK, OwnVariables
<1>3. ReadingsHold'
  BY <1>2 DEF AbortInv, ReadingsHold, LocalInv
<1>4. VerdictIsTrue'
  BY <1>2 DEF AbortInv, VerdictIsTrue, LocalInv, TrueAnswer, Final
<1>5. QueriesFollowCalls'
  BY <1>2 DEF AbortInv, QueriesFollowCalls, QueryBudget, LocalInv
<1> QED
  BY <1>1, <1>3, <1>4, <1>5 DEF AbortInv, RecordedEndIsTrue

\* What the invariant says of the call that takes the step.
LEMMA LocalFacts ==
    ASSUME AbortInv, NEW r \in Runners
    PROVE  LocalInv(r) /\ session \in Sessions
BY DEF AbortInv, AbortTypeOK, ReadingsHold, QueriesFollowCalls, VerdictIsTrue, LocalInv, TrueAnswer

\* A call starts, or is refused because it names another session.
LEMMA AssertStep ==
    ASSUME AbortInv, NEW r \in Runners, AssertCheckpointSession(r)
    PROVE  AbortInv'
<1> USE LocalFacts
<1>1. OwnVariables(r)
  BY DEF AssertCheckpointSession, OwnVariables, Goto, Ends, LocalInv, Labels, AbortInv, AbortTypeOK
<1>2. LocalInv(r)'
  BY DEF AssertCheckpointSession, Goto, Ends, LocalInv, Labels, TrueAnswer, QueryBudget,
         AbortInv, AbortTypeOK
<1> QED
  BY <1>1, <1>2, CallStep DEF AssertCheckpointSession, AbortInv, AbortTypeOK, RecordedEndIsTrue

\* One turn of the loop: Abort again, ask again, or answer from the last status.
LEMMA DecideStep ==
    ASSUME AbortInv, NEW r \in Runners, Decide(r)
    PROVE  AbortInv'
<1> USE LocalFacts
<1>0. /\ pc[r] = "loop" /\ UNCHANGED <<last, obs, seen, session, recorded, late>>
      /\ \/ /\ MayAbort(r)
            /\ attempts' = [attempts EXCEPT ![r] = attempts[r] + 1]
            /\ pc' = [pc EXCEPT ![r] = "call"]
            /\ end' = end
         \/ /\ MayPoll(r)
            /\ pc' = [pc EXCEPT ![r] = "observe"]
            /\ UNCHANGED <<attempts, end>>
         \/ /\ pc' = [pc EXCEPT ![r] = "done"]
            /\ end' = [end EXCEPT ![r] = "AbortReconciliationPending"]
            /\ UNCHANGED attempts
         \/ /\ last[r] \in Final
            /\ pc' = [pc EXCEPT ![r] = "done"]
            /\ end' = [end EXCEPT ![r] = Resolved(last[r], FALSE)]
            /\ UNCHANGED attempts
  BY DEF Decide, Goto, Ends, CallsAgain, LocalInv, Sessions
<1>1. attempts'[r] \in 0..MaxAbortAttempts /\ attempts[r] <= attempts'[r]
  <2>1. attempts[r] \in 0..MaxAbortAttempts /\ DOMAIN attempts = Runners
    BY DEF LocalInv, AbortInv, AbortTypeOK
  <2>2. CASE MayAbort(r) /\ attempts' = [attempts EXCEPT ![r] = attempts[r] + 1]
    BY <2>1, <2>2, BoundsAreNat DEF MayAbort
  <2>3. CASE attempts' = attempts
    BY <2>1, <2>3
  <2> QED
    BY <1>0, <2>2, <2>3
<1>2. OwnVariables(r)
  BY <1>0 DEF OwnVariables, AbortInv, AbortTypeOK
<1>3. TrueAnswer(end[r])'
  <2>1. CASE end' = end
    BY <1>0, <2>1 DEF LocalInv, TrueAnswer
  <2>2. CASE end' = [end EXCEPT ![r] = "AbortReconciliationPending"]
    BY <2>2 DEF TrueAnswer, AbortInv, AbortTypeOK
  <2>3. CASE last[r] \in Final /\ end' = [end EXCEPT ![r] = Resolved(last[r], FALSE)]
    <3>1. last[r] \in Sessions /\ session = last[r] /\ session' = session
      BY <1>0, <2>3 DEF Sessions, LocalInv
    <3>2. end'[r] = Resolved(last[r], FALSE)
      BY <2>3 DEF AbortInv, AbortTypeOK
    <3> QED
      BY <3>1, <3>2, ResolvedFacts DEF TrueAnswer
  <2> QED
    BY <1>0, <2>1, <2>2, <2>3
<1>4. obs'[r] <= QueryBudget(r)' /\ (pc'[r] \in {"call", "observe"} => obs'[r] < QueryBudget(r)')
  <2>1. /\ obs[r] \in Nat /\ obs'[r] = obs[r] /\ obs[r] <= attempts[r] + MaxStatusPolls
        /\ attempts[r] \in Nat /\ attempts'[r] \in Nat
    BY <1>0, <1>1, BoundsAreNat DEF LocalInv, QueryBudget
  <2>2. /\ pc'[r] = "call" => attempts'[r] = attempts[r] + 1
        /\ pc'[r] = "observe" => obs[r] < MaxStatusPolls
    BY <1>0 DEF MayPoll, AbortInv, AbortTypeOK
  <2> QED
    BY <1>1, <2>1, <2>2, BoundsAreNat DEF QueryBudget
<1>5. LocalInv(r)'
  BY <1>0, <1>1, <1>3, <1>4 DEF LocalInv, Labels, AbortInv, AbortTypeOK
<1> QED
  BY <1>0, <1>2, <1>5, CallStep DEF AbortInv, AbortTypeOK, RecordedEndIsTrue

\* The server acknowledges the Abort, or its state forbids it.
LEMMA AnsweredStep ==
    ASSUME AbortInv, NEW r \in Runners, AbortAnswered(r)
    PROVE  AbortInv'
<1> USE LocalFacts
<1>1. session' \in Sessions /\ (session \in Final => session' = session)
  BY AbortedFacts DEF AbortAnswered
<1>2. OwnVariables(r)
  BY DEF AbortAnswered, OwnVariables, Goto, Ends, LocalInv, Labels, Sessions, Final,
         AbortInv, AbortTypeOK
<1>3. /\ last'[r] = last[r] /\ attempts'[r] = attempts[r] /\ obs'[r] = obs[r]
      /\ \/ /\ session' = "ABORTED" /\ seen'[r] = "ABORTED" /\ pc'[r] = "recordAck"
            /\ end'[r] = end[r]
         \/ /\ pc'[r] = "done" /\ seen'[r] = seen[r] /\ end'[r] = "FAILED_PRECONDITION"
  BY DEF AbortAnswered, Goto, Ends, AbortInv, AbortTypeOK
<1>4. TrueAnswer(end[r])'
  BY <1>1, <1>3 DEF LocalInv, TrueAnswer, Final
<1>5. "ABORTED" \in Sessions /\ Null \notin Sessions
  BY AbortAssumption DEF Sessions, Final
<1>6. LocalInv(r)'
  BY <1>1, <1>3, <1>4, <1>5, BoundsAreNat DEF LocalInv, Labels, QueryBudget
<1> QED
  BY <1>1, <1>2, <1>6, CallStep DEF AbortAnswered, AbortInv, AbortTypeOK, RecordedEndIsTrue

\* The Abort fails: it may have arrived, may still arrive, or is lost.
LEMMA FailsStep ==
    ASSUME AbortInv, NEW r \in Runners, AbortFails(r)
    PROVE  AbortInv'
<1> USE LocalFacts
<1>0. /\ pc[r] = "call" /\ UNCHANGED <<last, attempts, obs, seen, recorded>>
      /\ \/ pc' = [pc EXCEPT ![r] = "observe"] /\ end' = end
         \/ \E code \in Codes : /\ pc' = [pc EXCEPT ![r] = "done"]
                                /\ end' = [end EXCEPT ![r] = code]
  BY DEF AbortFails, Goto, Ends
<1>1. /\ session' \in Sessions /\ (session \in Final => session' = session)
      /\ late' \subseteq Runners
  BY AbortedFacts DEF AbortFails, AbortInv, AbortTypeOK
<1>2. OwnVariables(r)
  BY <1>0 DEF OwnVariables, LocalInv, Labels, AbortInv, AbortTypeOK
<1>3. TrueAnswer(end[r])'
  <2>1. CASE end' = end
    BY <1>1, <2>1 DEF LocalInv, TrueAnswer, Final
  <2>2. ASSUME NEW code \in Codes, end' = [end EXCEPT ![r] = code]
        PROVE  TrueAnswer(end[r])'
    BY <2>2 DEF Codes, AmbiguousAbortCodes, TrueAnswer, AbortInv, AbortTypeOK
  <2> QED
    BY <1>0, <2>1, <2>2
<1>4. LocalInv(r)'
  BY <1>0, <1>1, <1>3 DEF LocalInv, Labels, QueryBudget, AbortInv, AbortTypeOK
<1> QED
  BY <1>0, <1>1, <1>2, <1>4, CallStep DEF AbortInv, AbortTypeOK, RecordedEndIsTrue

\* The status is read.
LEMMA ObserveStep ==
    ASSUME AbortInv, NEW r \in Runners, ObserveStatus(r)
    PROVE  AbortInv'
<1> USE LocalFacts
<1>1. OwnVariables(r)
  BY DEF ObserveStatus, OwnVariables, Goto, Ends, LocalInv, Labels, AbortInv, AbortTypeOK
<1>2. Null \notin Sessions
  BY AbortAssumption
<1>3. LocalInv(r)'
  BY <1>2 DEF ObserveStatus, Goto, Ends, LocalInv, Labels, TrueAnswer, QueryBudget,
              AbortInv, AbortTypeOK
<1> QED
  BY <1>1, <1>3, CallStep DEF ObserveStatus, AbortInv, AbortTypeOK, RecordedEndIsTrue

\* What was read is recorded, maybe after the session has moved on.
LEMMA RecordStep ==
    ASSUME AbortInv, NEW r \in Runners, RecordStatus(r)
    PROVE  AbortInv'
<1> USE LocalFacts
<1>1. obs[r] + 1 \in Nat /\ seen[r] \in Sessions
  BY DEF RecordStatus, LocalInv
<1>2. OwnVariables(r)
  BY <1>1 DEF RecordStatus, OwnVariables, Goto, LocalInv, Labels, AbortInv, AbortTypeOK
<1>3. LocalInv(r)'
  BY <1>1, BoundsAreNat
     DEF RecordStatus, Goto, LocalInv, Labels, TrueAnswer, QueryBudget, AbortInv, AbortTypeOK
<1> QED
  BY <1>1, <1>2, <1>3, CallStep DEF RecordStatus, LocalInv, AbortInv, AbortTypeOK

\* The acknowledgement is recorded and answered.
LEMMA AckStep ==
    ASSUME AbortInv, NEW r \in Runners, RecordAck(r)
    PROVE  AbortInv'
<1> USE LocalFacts
<1>1. seen[r] = "ABORTED" /\ session = "ABORTED"
  BY DEF RecordAck, LocalInv, Final
<1>2. OwnVariables(r)
  BY DEF RecordAck, OwnVariables, Goto, Ends, LocalInv, Labels, AbortInv, AbortTypeOK
<1>3. end'[r] = Resolved("ABORTED", TRUE)
  BY <1>1 DEF RecordAck, Ends, AbortInv, AbortTypeOK
<1>4. end'[r] = "DIRECT_ACK"
  BY <1>3 DEF Resolved
<1>5. LocalInv(r)'
  BY <1>1, <1>4 DEF RecordAck, Ends, Goto, LocalInv, Labels, TrueAnswer, QueryBudget,
                    AbortInv, AbortTypeOK
<1> QED
  BY <1>1, <1>2, <1>5, CallStep DEF RecordAck, LocalInv, AbortInv, AbortTypeOK, Final

-----------------------------------------------------------------------------
\* The invariant is inductive.
LEMMA AbortNextInv == AbortInv /\ [AbortNext]_abortVars => AbortInv'
<1> SUFFICES ASSUME AbortInv, [AbortNext]_abortVars PROVE AbortInv'
  OBVIOUS
<1>0. session \in Sessions /\ late \subseteq Runners
  BY DEF AbortInv, AbortTypeOK
<1>1. ASSUME NEW r \in Runners, RunnerStep(r) PROVE AbortInv'
  BY <1>1, AssertStep, DecideStep, AnsweredStep, FailsStep, ObserveStep, RecordStep, AckStep
     DEF RunnerStep
<1>2. ASSUME NEW r \in Runners, AbortLate(r) PROVE AbortInv'
  BY <1>0, <1>2, AbortedFacts, WorldStep DEF AbortLate
<1>3. CASE Finalize \/ FinishFinalize \/ Expire
  BY <1>0, <1>3, WorldStep DEF Finalize, FinishFinalize, Expire, Sessions, Final
<1>4. CASE UNCHANGED abortVars
  BY <1>0, <1>4, WorldStep DEF abortVars
<1>5. CASE Terminated
  BY <1>4, <1>5 DEF Terminated
<1> QED
  BY <1>1, <1>2, <1>3, <1>4, <1>5 DEF AbortNext

\* The invariant holds in every reachable state.
THEOREM AbortInvariance == AbortSpec => []AbortInv
BY AbortInitInv, AbortNextInv, PTL DEF AbortSpec

\* Whatever abort() answers about the session, DIRECT_ACK, RECONCILED_ABORTED,
\* ALREADY_TERMINAL or AbortConflictError, is true and stays true, however many
\* callers race with each other, with Finalize and with expiry.
THEOREM VerdictsAreTrue == AbortSpec => []VerdictIsTrue
BY AbortInvariance, PTL DEF AbortInv

\* An end in session_status_raw is the end of the session, although observations
\* are written by any caller, late and without a fence.
THEOREM RecordedEndsAreTrue == AbortSpec => []RecordedEndIsTrue
BY AbortInvariance, PTL DEF AbortInv

\* The loop of abort() is bounded: at most max_abort_attempts Aborts and as many
\* queries more than max_status_polls.
THEOREM AbortCallsAreBounded == AbortSpec => []CallsAreBounded
<1>1. AbortInv => CallsAreBounded
  BY BoundsAreNat
     DEF AbortInv, AbortTypeOK, QueriesFollowCalls, QueryBudget, CallsAreBounded
<1> QED
  BY <1>1, AbortInvariance, PTL

\* What is recorded in the checkpoint never moves from one end to another: a
\* late writer can put an earlier, open status back, but never another end.
THEOREM RecordedEndsAgree ==
    AbortSpec => [][(recorded \in Final /\ recorded' \in Final) => recorded' = recorded]_abortVars
<1> DEFINE A == (recorded \in Final /\ recorded' \in Final) => recorded' = recorded
<1>1. ASSUME AbortInv, AbortInv', [AbortNext]_abortVars PROVE [A]_abortVars
  <2>1. session \in Final => session' = session
    <3>1. session \in Sessions
      BY <1>1 DEF AbortInv, AbortTypeOK
    <3> QED
      BY <1>1, <3>1, AbortedFacts
         DEF AbortNext, RunnerStep, AssertCheckpointSession, Decide, AbortAnswered, AbortFails,
             ObserveStatus, RecordStatus, RecordAck, AbortLate, Finalize, FinishFinalize, Expire,
             Terminated, abortVars, Final
  <2> QED
    BY <1>1, <2>1 DEF AbortInv, RecordedEndIsTrue
<1> QED
  BY <1>1, AbortInvariance, PTL DEF AbortSpec
=============================================================================
