------------------------------ MODULE Delivery ------------------------------
(***************************************************************************)
(* One delivery turn of a worker, from claim to verdict: the program of    *)
(* AstraVectorDeliveryCoordinator.deliver with its append, finalize,       *)
(* readiness and activation runners, on top of the job queue of JobLease.  *)
(*                                                                         *)
(* A worker is at a label of that program (pc).  Labels of TxLabels are    *)
(* transactions fenced by the lease; the others are calls to AstraVector   *)
(* or writes of observed statuses, which are not fenced.  The delivery     *)
(* tables are delivery_checkpoint (cp) and delivery_batch (rows).          *)
(*                                                                         *)
(* AstraVector is external, and is modelled from how the code uses it: an  *)
(* ingestion session per Start idempotency key, a vector lifecycle that    *)
(* runs after Finalize, and calls whose reply may be lost, whose request   *)
(* may be lost, or whose request may take effect after the caller gave up. *)
(***************************************************************************)
EXTENDS JobLease, FailurePolicy, FiniteSets

CONSTANTS
    BatchCount,            \* bound: batches of the longest plan
    PlanLength,            \* [Workers -> 1..BatchCount], batches of a worker's plan
    Content,               \* [w \in Workers -> [Plan(w) -> hash]], what its plan holds
    Compat,                \* [Workers -> fingerprint], its delivery compatibility
    RpcWindow,             \* rpc deadline + safety margin, in clock ticks
    MaxFinalizeAttempts,   \* of the finalize runner
    MaxStatusPolls,        \* of the finalize runner
    MaxActivePolls,        \* of the readiness and activation runners
    HashIsChecked,         \* AstraVector always compares its blocks with the final hash
    MaxLate                \* bound: calls in flight after their caller gave up

Batch   == 0..(BatchCount - 1)
Plan(w) == 0..(PlanLength[w] - 1)

\* Session and vector states of AstraVector.
Sessions == {"NONE", "ACTIVE", "FINALIZING", "COMPLETED", "FAILED"}
Vectors  == {"NONE", "SYNCING", "READY_TO_ACTIVATE", "ACTIVE", "FAILED"}

\* What a status query may say of a vector: an active one is ACTIVE, or still
\* READY_TO_ACTIVATE with a document that is ACTIVE and searchable.
Reports(v) == IF v = "ACTIVE" THEN {"ACTIVE", "READY_AND_ACTIVE"} ELSE {v}
Observed   == Vectors \cup {"READY_AND_ACTIVE"}

ASSUME DeliveryAssumption ==
    /\ Workers # {}
    /\ BatchCount \in Nat \ {0}
    /\ PlanLength \in [Workers -> 1..BatchCount]
    /\ Content = [w \in Workers |-> [i \in Plan(w) |-> Content[w][i]]]
    /\ \A w \in Workers : Content[w] # Null /\ \A i \in Plan(w) : Content[w][i] # Null
    /\ DOMAIN Compat = Workers /\ \A w \in Workers : Compat[w] # Null
    /\ RpcWindow \in Nat \ {0} /\ RpcWindow < LeaseSeconds
    /\ MaxFinalizeAttempts \in Nat \ {0}
    /\ MaxStatusPolls \in Nat \ {0}
    /\ MaxActivePolls \in Nat \ {0}
    /\ MaxLate \in Nat
    /\ HashIsChecked \in BOOLEAN
    /\ Null \notin Sessions \cup Observed
    /\ {"START", "APPEND", "FINALIZE", "READINESS", "ACTIVATE"} \subseteq Stages

VARIABLES
    pc,         \* where each worker is in the program of a turn
    loc,        \* its local variables: batch, finalize calls, polls, last status seen
    exc,        \* the exception that ended its turn, or Null
    checked,    \* it has checked the lease window and not yet used the check
    cp,         \* delivery_checkpoint
    rows,       \* delivery_batch
    remote,     \* AstraVector: session, batches and vector state per document
    late        \* calls in flight whose caller has given up

turnVars     == <<pc, loc, exc, checked>>
deliveryVars == <<vars, turnVars, cp, rows, remote, late>>

Loc0 == [batch |-> 0, finals |-> 0, polls |-> 0, seen |-> Null]

NoCheckpoint == [compat |-> Null, session |-> FALSE, next |-> 0, final |-> Null,
                 zone |-> FALSE, status |-> Null, vector |-> Null]
NoBatch      == [status |-> "ABSENT", hash |-> Null]
Docs         == {Document[j] : j \in Jobs}

DeliveryInit ==
    /\ Init
    /\ pc = [w \in Workers |-> "idle"]
    /\ loc = [w \in Workers |-> Loc0]
    /\ exc = [w \in Workers |-> Null]
    /\ checked = [w \in Workers |-> FALSE]
    /\ cp = [j \in Jobs |-> NoCheckpoint]
    /\ rows = [j \in Jobs |-> [i \in Batch |-> NoBatch]]
    /\ remote = [d \in Docs |-> [session |-> "NONE", vector |-> "NONE",
                                 batches |-> [i \in Batch |-> Null]]]
    /\ late = {}

-----------------------------------------------------------------------------
(* The shape of a turn.                                                    *)

J(w) == token[w].job
D(w) == Document[J(w)]

Goto(w, label) == pc' = [pc EXCEPT ![w] = label]
Local(w, l)    == loc' = [loc EXCEPT ![w] = l]

Raise(w, e) ==
    /\ Goto(w, "failed")
    /\ exc' = [exc EXCEPT ![w] = e]
    /\ Local(w, Loc0)
    /\ checked' = [checked EXCEPT ![w] = FALSE]

ToIdle(w) ==
    /\ Goto(w, "idle")
    /\ exc' = [exc EXCEPT ![w] = Null]
    /\ Local(w, Loc0)
    /\ checked' = [checked EXCEPT ![w] = FALSE]

\* Stages reported on the way, and the label that follows.
StageAt == [stageStart     |-> <<"START", "windowStart">>,
            stageAppend    |-> <<"APPEND", "rebind">>,
            stageFinalize  |-> <<"FINALIZE", "windowFinalize">>,
            stageReadiness |-> <<"READINESS", "stageActivate">>,
            stageActivate  |-> <<"ACTIVATE", "ready">>]

\* Lease window checks, and the call each one guards.
WindowAt == [windowStart |-> "start", windowAppend |-> "append",
             windowFinalize |-> "finalize"]

\* Transactions that only assert ownership.
OwnedAt == [load |-> "compat", rebind |-> "prepare",
            ownActivate |-> "activate", ownActive |-> "waitOwn"]

\* Status queries, and where the observed status is used.
QueryAt == [observe |-> "record", vectorStatus |-> "zone", pollReady |-> "ready",
            activeStatus |-> "waitOwn", pollActive |-> "waitRecord"]

TxLabels == {"idle", "compat", "session", "bind", "prepare", "accept", "finalHash",
             "zone", "waitOwn", "complete"}
            \cup DOMAIN StageAt \cup DOMAIN WindowAt \cup DOMAIN OwnedAt

\* A transaction begins; a failed turn opens one unless it only reconciles.
Begin(w) ==
    /\ \/ pc[w] \in TxLabels
       \/ pc[w] = "failed" /\ Classify(exc[w]) # "DOWNSTREAM_AMBIGUOUS"
    /\ BeginTx(w)
    /\ UNCHANGED <<turnVars, cp, rows, remote, late>>

ClaimJob(w) ==
    /\ pc[w] = "idle"
    /\ \E j \in Jobs : ClaimNext(w, j)
    /\ Goto(w, "load")
    /\ UNCHANGED <<loc, exc, checked, cp, rows, remote, late>>

NoJob(w) ==
    /\ pc[w] = "idle"
    /\ ClaimNothing(w)
    /\ UNCHANGED <<turnVars, cp, rows, remote, late>>

\* Mutation: a worker that lost its lease puts the job back in the queue.
LoseLease_ReleasesJob(w) ==
    /\ token[w] # Null /\ txAge[w] # Null
    /\ ~(Fenced(w) /\ AttemptIsOpen(w))
    /\ job' = [job EXCEPT ![J(w)].status = "PENDING"]
    /\ token' = [token EXCEPT ![w] = Null]
    /\ EndTx(w)
    /\ ToIdle(w)
    /\ UNCHANGED <<attempt, cp, rows, remote, late>>

\* Any fenced transaction of the turn that finds its lease gone.
LoseLease(w) ==
    /\ Abandon(w)
    /\ ToIdle(w)
    /\ UNCHANGED <<cp, rows, remote, late>>

Die(w) ==
    /\ Crash(w)
    /\ ToIdle(w)
    /\ UNCHANGED <<cp, rows, remote, late>>

\* The payload or the logical block graph is refused before the job is loaded,
\* the source hash or the compatibility fingerprint after.
RejectPayload(w) ==
    /\ pc[w] \in {"load", "compat"}
    /\ txAge[w] = Null
    /\ Raise(w, Error("ValueError"))
    /\ UNCHANGED <<vars, cp, rows, remote, late>>

ReportStage(w) ==
    /\ pc[w] \in DOMAIN StageAt
    /\ AdvanceStage(w, StageAt[pc[w]][1])
    /\ Goto(w, StageAt[pc[w]][2])
    /\ UNCHANGED <<loc, exc, checked, cp, rows, remote, late>>

AssertOwnership(w) ==
    /\ pc[w] \in DOMAIN OwnedAt
    /\ AssertOwned(w)
    /\ Goto(w, OwnedAt[pc[w]])
    /\ UNCHANGED <<loc, exc, checked, cp, rows, remote, late>>

WindowFits(w) == job[J(w)].leaseLeft + txAge[w] >= RpcWindow

CheckWindow(w) ==
    /\ pc[w] \in DOMAIN WindowAt
    /\ AssertOwned(w)
    /\ \/ /\ WindowFits(w)
          /\ Goto(w, WindowAt[pc[w]])
          /\ checked' = [checked EXCEPT ![w] = TRUE]
          /\ UNCHANGED <<loc, exc>>
       \/ /\ ~WindowFits(w)
          /\ Raise(w, Error("LeaseRpcWindowTooShort"))
    /\ UNCHANGED <<cp, rows, remote, late>>

-----------------------------------------------------------------------------
(* AstraVector (external).                                                 *)

StartCall(w)    == [op |-> "start",    doc |-> D(w), batch |-> 0, hash |-> Null]
AppendCall(w)   == [op |-> "append",   doc |-> D(w), batch |-> loc[w].batch,
                    hash |-> Content[w][loc[w].batch]]
FinalizeCall(w) == [op |-> "finalize", doc |-> D(w), batch |-> 0, hash |-> Content[w]]
ActivateCall(w) == [op |-> "activate", doc |-> D(w), batch |-> 0, hash |-> Null]

\* The batches are those of a plan, or begin with them.
Holds(batches, plan) ==
    \A i \in Batch : batches[i] = IF i \in DOMAIN plan THEN plan[i] ELSE Null
Begins(batches, plan) == \A i \in DOMAIN plan : batches[i] = plan[i]

\* The final hash is the one of the plan it is computed from.
FinalHashFits(d, plan) == HashIsChecked => Holds(remote[d].batches, plan)

\* Start is idempotent by its key, Append by index and hash, Activate by state.
Accepts(c) ==
    LET r == remote[c.doc]
    IN  CASE c.op = "start"    -> TRUE
          [] c.op = "append"   -> /\ r.session = "ACTIVE"
                                  /\ r.batches[c.batch] \in {Null, c.hash}
          [] c.op = "finalize" -> r.session = "ACTIVE" /\ FinalHashFits(c.doc, c.hash)
          [] c.op = "activate" -> r.vector \in {"READY_TO_ACTIVATE", "ACTIVE"}

\* A Finalize with another hash leaves the session ACTIVE, unless the server does
\* not look.
MayRefuse(c) ==
    ~Accepts(c) \/ (c.op = "finalize" /\ ~Holds(remote[c.doc].batches, c.hash))

Apply(c) ==
    LET r == remote[c.doc]
    IN  [remote EXCEPT ![c.doc] =
           CASE c.op = "start"    -> IF r.session = "NONE" THEN [r EXCEPT !.session = "ACTIVE"]
                                     ELSE r
             [] c.op = "append"   -> [r EXCEPT !.batches[c.batch] = c.hash]
             [] c.op = "finalize" -> [r EXCEPT !.session = "FINALIZING"]
             [] c.op = "activate" -> [r EXCEPT !.vector = "ACTIVE"]]

Refusal(c) ==
    LET r == remote[c.doc]
    IN  CASE c.op \in {"append", "finalize"} /\ r.session = "ACTIVE"
                -> Transport("FAILED_PRECONDITION", "HASH_MISMATCH")
          [] c.op # "activate" /\ r.session \in {"FINALIZING", "COMPLETED"}
                -> Transport("FAILED_PRECONDITION", "SESSION_STATE")
          [] OTHER -> Transport("FAILED_PRECONDITION", "OTHER")

Lost == {Transport(code, "OTHER") : code \in {"UNAVAILABLE", "DEADLINE_EXCEEDED"}}

\* The call takes effect and its reply arrives.
Acked(c) ==
    /\ Accepts(c)
    /\ remote' = Apply(c)
    /\ UNCHANGED late

\* The caller sees exception e: the server refused; or the request was lost,
\* the reply was lost, or the request is still under way.
Unanswered(c, e) ==
    \/ /\ MayRefuse(c)
       /\ e = Refusal(c)
       /\ UNCHANGED <<remote, late>>
    \/ /\ e \in Lost
       /\ \/ UNCHANGED <<remote, late>>
          \/ Accepts(c) /\ remote' = Apply(c) /\ UNCHANGED late
          \/ /\ Cardinality(late \cup {c}) <= MaxLate
             /\ late' = late \cup {c}
             /\ UNCHANGED remote

Failures(c) == Lost \cup {Refusal(c)}

ExecuteLate(c) ==
    /\ c \in late
    /\ late' = late \ {c}
    /\ \/ Accepts(c) /\ remote' = Apply(c)
       \/ MayRefuse(c) /\ UNCHANGED remote
    /\ UNCHANGED <<vars, turnVars, cp, rows>>

\* The server finishes an accepted Finalize, and later the vector lifecycle.
FinishFinalize(d) ==
    /\ remote[d].session = "FINALIZING"
    /\ \/ remote' = [remote EXCEPT ![d].session = "COMPLETED", ![d].vector = "SYNCING"]
       \/ remote' = [remote EXCEPT ![d].session = "FAILED"]
    /\ UNCHANGED <<vars, turnVars, cp, rows, late>>

SyncVectors(d) ==
    /\ remote[d].vector = "SYNCING"
    /\ \E v \in {"READY_TO_ACTIVATE", "FAILED"} : remote' = [remote EXCEPT ![d].vector = v]
    /\ UNCHANGED <<vars, turnVars, cp, rows, late>>

-----------------------------------------------------------------------------
(* Status queries: GetIngestionStatus, GetDocumentVectorStatus.            *)

QueryStatus(w) ==
    /\ pc[w] \in DOMAIN QueryAt
    /\ \/ /\ \E seen \in IF pc[w] = "observe" THEN {remote[D(w)].session}
                         ELSE Reports(remote[D(w)].vector) :
                Local(w, [loc[w] EXCEPT !.seen = seen])
          /\ Goto(w, QueryAt[pc[w]])
          /\ UNCHANGED <<exc, checked>>
       \/ \E e \in Lost : Raise(w, e)
    /\ UNCHANGED <<vars, cp, rows, remote, late>>

-----------------------------------------------------------------------------
(* Session.                                                                *)

PersistCompatibility(w) ==
    /\ pc[w] = "compat"
    /\ AssertOwned(w)
    /\ \/ /\ cp[J(w)].compat \in {Null, Compat[w]}
          /\ cp' = [cp EXCEPT ![J(w)].compat = Compat[w]]
          /\ Goto(w, "session")
          /\ UNCHANGED <<loc, exc, checked>>
       \/ /\ cp[J(w)].compat \notin {Null, Compat[w]}
          /\ Raise(w, Error("DeliveryIntegrityError"))
          /\ UNCHANGED cp
    /\ UNCHANGED <<rows, remote, late>>

ReadSession(w) ==
    /\ pc[w] = "session"
    /\ AssertOwned(w)
    /\ Goto(w, IF cp[J(w)].session THEN "stageAppend" ELSE "stageStart")
    /\ UNCHANGED <<loc, exc, checked, cp, rows, remote, late>>

UseWindow(w) == checked' = [checked EXCEPT ![w] = FALSE]

CallStart(w) ==
    /\ pc[w] = "start"
    /\ \/ /\ Acked(StartCall(w))
          /\ Goto(w, "bind")
          /\ Local(w, [loc[w] EXCEPT !.seen = remote'[D(w)].session])
          /\ UseWindow(w)
          /\ UNCHANGED exc
       \/ \E e \in Failures(StartCall(w)) : Unanswered(StartCall(w), e) /\ Raise(w, e)
    /\ UNCHANGED <<vars, cp, rows>>

BindSession(w) ==
    /\ pc[w] = "bind"
    /\ AssertOwned(w)
    /\ cp' = [cp EXCEPT ![J(w)].session = TRUE, ![J(w)].status = loc[w].seen]
    /\ Goto(w, "stageAppend")
    /\ Local(w, Loc0)
    /\ UNCHANGED <<exc, checked, rows, remote, late>>

-----------------------------------------------------------------------------
(* Append.                                                                 *)

Row(w)  == rows[J(w)][loc[w].batch]
Hash(w) == Content[w][loc[w].batch]

\* The batch after the current one, or the end of the plan.
NextBatch(w) ==
    IF loc[w].batch + 1 = PlanLength[w]
    THEN Local(w, Loc0) /\ Goto(w, "finalHash")
    ELSE Local(w, [loc[w] EXCEPT !.batch = @ + 1]) /\ Goto(w, "prepare")

\* Mutation: a row that exists is trusted whatever its hash.
PrepareBatch_TrustsLedger(w) ==
    /\ pc[w] = "prepare"
    /\ AssertOwned(w)
    /\ \/ /\ Row(w).status = "ACCEPTED"
          /\ NextBatch(w)
          /\ UNCHANGED <<exc, checked, rows>>
       \/ /\ Row(w).status # "ACCEPTED"
          /\ rows' = [rows EXCEPT ![J(w)][loc[w].batch] =
                        [status |-> "PREPARED", hash |-> Hash(w)]]
          /\ Goto(w, "windowAppend")
          /\ UNCHANGED <<loc, exc, checked>>
    /\ UNCHANGED <<cp, remote, late>>

\* ALREADY_ACCEPTED, REPLAY_PENDING or SEND; else the persisted history is not
\* the one of this plan.  Rows beyond the plan are not looked at.
PrepareBatch(w) ==
    /\ pc[w] = "prepare"
    /\ AssertOwned(w)
    /\ \/ /\ Row(w) = [status |-> "ACCEPTED", hash |-> Hash(w)]
          /\ cp[J(w)].next > loc[w].batch
          /\ NextBatch(w)
          /\ UNCHANGED <<exc, checked, rows>>
       \/ /\ Row(w) \in {NoBatch, [status |-> "PREPARED", hash |-> Hash(w)]}
          /\ cp[J(w)].next = loc[w].batch
          /\ rows' = [rows EXCEPT ![J(w)][loc[w].batch] =
                        [status |-> "PREPARED", hash |-> Hash(w)]]
          /\ Goto(w, "windowAppend")
          /\ UNCHANGED <<loc, exc, checked>>
       \/ /\ Row(w) # NoBatch
          /\ Row(w).hash # Hash(w)
          /\ Raise(w, Error("DeliveryIntegrityError"))
          /\ UNCHANGED rows
    /\ UNCHANGED <<cp, remote, late>>

\* Mutations: a lost reply counts as an acknowledgement; a hash conflict does.
CallAppend_LossIsAck(w) ==
    /\ pc[w] = "append"
    /\ \/ Acked(AppendCall(w))
       \/ \E e \in Lost : Unanswered(AppendCall(w), e)
    /\ Goto(w, "accept")
    /\ UseWindow(w)
    /\ UNCHANGED <<vars, loc, exc, cp, rows>>

CallAppend_ConflictIsAck(w) ==
    /\ pc[w] = "append"
    /\ \/ Acked(AppendCall(w))
       \/ remote[D(w)].session = "ACTIVE" /\ UNCHANGED <<remote, late>>
    /\ Goto(w, "accept")
    /\ UseWindow(w)
    /\ UNCHANGED <<vars, loc, exc, cp, rows>>

CallAppend(w) ==
    /\ pc[w] = "append"
    /\ \/ /\ Acked(AppendCall(w))
          /\ Goto(w, "accept")
          /\ UseWindow(w)
          /\ UNCHANGED <<loc, exc>>
       \/ \E e \in Failures(AppendCall(w)) : Unanswered(AppendCall(w), e) /\ Raise(w, e)
    /\ UNCHANGED <<vars, cp, rows>>

\* Mutations: the checkpoint is not advanced; the acknowledgement is committed
\* without asserting ownership.
AcceptBatch_NoAdvance(w) ==
    /\ pc[w] = "accept"
    /\ AssertOwned(w)
    /\ Row(w) = [status |-> "PREPARED", hash |-> Hash(w)]
    /\ rows' = [rows EXCEPT ![J(w)][loc[w].batch].status = "ACCEPTED"]
    /\ NextBatch(w)
    /\ UNCHANGED <<exc, checked, cp, remote, late>>

AcceptBatch_Unfenced(w) ==
    /\ pc[w] = "accept"
    /\ txAge[w] # Null
    /\ EndTx(w)
    /\ Row(w) = [status |-> "PREPARED", hash |-> Hash(w)]
    /\ cp[J(w)].next = loc[w].batch
    /\ rows' = [rows EXCEPT ![J(w)][loc[w].batch].status = "ACCEPTED"]
    /\ cp' = [cp EXCEPT ![J(w)].next = loc[w].batch + 1, ![J(w)].status = "ACTIVE"]
    /\ NextBatch(w)
    /\ UNCHANGED <<job, attempt, token, exc, checked, remote, late>>

AcceptBatch(w) ==
    /\ pc[w] = "accept"
    /\ AssertOwned(w)
    /\ Row(w) = [status |-> "PREPARED", hash |-> Hash(w)]
    /\ cp[J(w)].next = loc[w].batch
    /\ rows' = [rows EXCEPT ![J(w)][loc[w].batch].status = "ACCEPTED"]
    /\ cp' = [cp EXCEPT ![J(w)].next = loc[w].batch + 1, ![J(w)].status = "ACTIVE"]
    /\ NextBatch(w)
    /\ UNCHANGED <<exc, checked, remote, late>>

-----------------------------------------------------------------------------
(* Finalize.                                                               *)

\* Mutation: the hash of another plan replaces the persisted one.
PersistFinalHash_Overwrites(w) ==
    /\ pc[w] = "finalHash"
    /\ AssertOwned(w)
    /\ cp' = [cp EXCEPT ![J(w)].final = Content[w]]
    /\ Goto(w, "stageFinalize")
    /\ UNCHANGED <<loc, exc, checked, rows, remote, late>>

\* Another final hash was persisted by an owner whose plan was longer or shorter.
PersistFinalHash(w) ==
    /\ pc[w] = "finalHash"
    /\ AssertOwned(w)
    /\ \/ /\ cp[J(w)].final \in {Null, Content[w]}
          /\ cp' = [cp EXCEPT ![J(w)].final = Content[w]]
          /\ Goto(w, "stageFinalize")
          /\ UNCHANGED <<loc, exc, checked>>
       \/ /\ cp[J(w)].final \notin {Null, Content[w]}
          /\ Raise(w, Error("DeliveryIntegrityError"))
          /\ UNCHANGED cp
    /\ UNCHANGED <<rows, remote, late>>

\* A Finalize of a COMPLETED session is either replayed or refused.
CallFinalize(w) ==
    /\ pc[w] = "finalize"
    /\ UseWindow(w)
    /\ \/ /\ remote[D(w)].session \in {"ACTIVE", "COMPLETED"}
          /\ FinalHashFits(D(w), Content[w])
          /\ remote' = IF remote[D(w)].session = "COMPLETED" THEN remote
                       ELSE [remote EXCEPT ![D(w)].session = "COMPLETED",
                                           ![D(w)].vector = "SYNCING"]
          /\ Goto(w, "vectorStatus")
          /\ Local(w, Loc0)
          /\ UNCHANGED <<exc, late>>
       \/ /\ Accepts(FinalizeCall(w))
          /\ remote' = [remote EXCEPT ![D(w)].session = "FAILED"]
          /\ Raise(w, Error("RuntimeError"))
          /\ UNCHANGED late
       \/ \E e \in Failures(FinalizeCall(w)) :
             /\ Unanswered(FinalizeCall(w), e)
             /\ \/ /\ ShouldReconcileFinalize(e)
                   /\ Goto(w, "observe")
                   /\ Local(w, [loc[w] EXCEPT !.finals = @ + 1])
                   /\ UNCHANGED exc
                \/ /\ ~ShouldReconcileFinalize(e)
                   /\ Raise(w, e)
    /\ UNCHANGED <<vars, cp, rows>>

\* Mutation: a session that stays FINALIZING is polled for ever.
RecordSession_NoPollLimit(w) ==
    /\ pc[w] = "record"
    /\ cp' = [cp EXCEPT ![J(w)].status = loc[w].seen]
    /\ IF loc[w].seen = "FINALIZING"
       THEN /\ Goto(w, "observe")
            /\ Local(w, [loc[w] EXCEPT !.polls = @ + 1, !.seen = Null])
            /\ UNCHANGED <<exc, checked>>
       ELSE Raise(w, Error("FinalizeReconciliationPending"))
    /\ UNCHANGED <<vars, rows, remote, late>>

\* record_session_status, a transaction without a fence, and what follows from
\* the status.  The persisted zone is not consulted: COMPLETED has no identity
\* to go on with.
RecordSession(w) ==
    /\ pc[w] = "record"
    /\ cp' = [cp EXCEPT ![J(w)].status = loc[w].seen]
    /\ LET polls == loc[w].polls + 1
           l     == [loc[w] EXCEPT !.polls = polls, !.seen = Null]
           again == /\ loc[w].seen = "ACTIVE"
                    /\ loc[w].finals < MaxFinalizeAttempts
           poll  == /\ loc[w].seen = "FINALIZING"
                    /\ polls < MaxStatusPolls
       IN  \/ again /\ Goto(w, "finalize") /\ Local(w, l) /\ UNCHANGED <<exc, checked>>
           \/ poll /\ Goto(w, "observe") /\ Local(w, l) /\ UNCHANGED <<exc, checked>>
           \/ /\ ~again /\ ~poll
              /\ Raise(w, Error(CASE loc[w].seen = "COMPLETED" -> "DeliveryRecoveryContractGap"
                                  [] loc[w].seen = "FAILED"    -> "FinalizeTerminalError"
                                  [] OTHER -> "FinalizeReconciliationPending"))
    /\ UNCHANGED <<vars, rows, remote, late>>

PersistZone(w) ==
    /\ pc[w] = "zone"
    /\ AssertOwned(w)
    /\ cp' = [cp EXCEPT ![J(w)].zone = TRUE]
    /\ Goto(w, "stageReadiness")
    /\ UNCHANGED <<loc, exc, checked, rows, remote, late>>

-----------------------------------------------------------------------------
(* Readiness and activation.  record_vector_status is not fenced either.   *)

\* Mutation: the observations are not counted.
RecordReadiness_NoCount(w) ==
    /\ pc[w] = "ready"
    /\ cp' = [cp EXCEPT ![J(w)].vector = loc[w].seen]
    /\ LET verdict == Readiness(loc[w].seen, TRUE)
       IN  \/ /\ verdict \in {"SEARCHABLE", "READY_TO_ACTIVATE"}
              /\ Goto(w, IF verdict = "SEARCHABLE" THEN "complete" ELSE "ownActivate")
              /\ Local(w, Loc0)
              /\ UNCHANGED <<exc, checked>>
           \/ /\ verdict = "WAIT"
              /\ Goto(w, "pollReady")
              /\ Local(w, Loc0)
              /\ UNCHANGED <<exc, checked>>
           \/ verdict = "TERMINAL" /\ Raise(w, Error("VectorReadinessTerminalError"))
    /\ UNCHANGED <<vars, rows, remote, late>>

RecordReadiness(w) ==
    /\ pc[w] = "ready"
    /\ cp' = [cp EXCEPT ![J(w)].vector = loc[w].seen]
    /\ LET verdict == Readiness(loc[w].seen, TRUE)
           polls   == loc[w].polls + 1
       IN  \/ /\ verdict \in {"SEARCHABLE", "READY_TO_ACTIVATE"}
              /\ Goto(w, IF verdict = "SEARCHABLE" THEN "complete" ELSE "ownActivate")
              /\ Local(w, Loc0)
              /\ UNCHANGED <<exc, checked>>
           \/ /\ verdict = "WAIT" /\ polls < MaxActivePolls
              /\ Goto(w, "pollReady")
              /\ Local(w, [loc[w] EXCEPT !.polls = polls, !.seen = Null])
              /\ UNCHANGED <<exc, checked>>
           \/ /\ verdict = "WAIT" /\ polls = MaxActivePolls
              /\ Raise(w, Error("VectorReadinessPending"))
           \/ verdict = "TERMINAL" /\ Raise(w, Error("VectorReadinessTerminalError"))
    /\ UNCHANGED <<vars, rows, remote, late>>

CallActivate(w) ==
    /\ pc[w] = "activate"
    /\ \/ Acked(ActivateCall(w)) /\ Goto(w, "ownActive")
       \/ \E e \in Failures(ActivateCall(w)) :
             Unanswered(ActivateCall(w), e) /\ Goto(w, "activeStatus")
    /\ UNCHANGED <<vars, loc, exc, checked, cp, rows>>

WaitOwned(w) ==
    /\ pc[w] = "waitOwn"
    /\ AssertOwned(w)
    /\ Goto(w, IF loc[w].seen = Null THEN "pollActive" ELSE "waitRecord")
    /\ UNCHANGED <<loc, exc, checked, cp, rows, remote, late>>

RecordActivation(w) ==
    /\ pc[w] = "waitRecord"
    /\ cp' = [cp EXCEPT ![J(w)].vector = loc[w].seen]
    /\ LET searchable == Readiness(loc[w].seen, FALSE) = "SEARCHABLE"
           polls      == loc[w].polls + 1
       IN  \/ searchable /\ Goto(w, "complete") /\ Local(w, Loc0) /\ UNCHANGED <<exc, checked>>
           \/ /\ ~searchable /\ polls < MaxActivePolls
              /\ Goto(w, "waitOwn")
              /\ Local(w, [loc[w] EXCEPT !.polls = polls, !.seen = Null])
              /\ UNCHANGED <<exc, checked>>
           \/ /\ ~searchable /\ polls = MaxActivePolls
              /\ Raise(w, Error("VectorActivationPending"))
    /\ UNCHANGED <<vars, rows, remote, late>>

-----------------------------------------------------------------------------
(* The end of a turn.                                                      *)

CompleteJob(w) ==
    /\ pc[w] = "complete"
    /\ Complete(w)
    /\ ToIdle(w)
    /\ UNCHANGED <<cp, rows, remote, late>>

HandleFailure(w) ==
    /\ pc[w] = "failed"
    /\ LET class == Classify(exc[w])
       IN  \/ class = "DOWNSTREAM_AMBIGUOUS" /\ Reconcile(w)
           \/ class \in Retryable /\ (ScheduleRetry(w) \/ DeadLetter(w))
           \/ class \notin Retryable \cup {"DOWNSTREAM_AMBIGUOUS"} /\ FailPermanently(w)
    /\ ToIdle(w)
    /\ UNCHANGED <<cp, rows, remote, late>>

-----------------------------------------------------------------------------
Submit(j) ==
    /\ CreateOrGet(j)
    /\ UNCHANGED <<turnVars, cp, rows, remote, late>>

TimePasses ==
    /\ Tick
    /\ UNCHANGED <<turnVars, cp, rows, remote, late>>

\* The next step of the program of w.
Proceed(w) ==
    \/ Begin(w) \/ ClaimJob(w) \/ NoJob(w) \/ LoseLease(w)
    \/ ReportStage(w) \/ AssertOwnership(w) \/ CheckWindow(w)
    \/ QueryStatus(w)
    \/ PersistCompatibility(w) \/ ReadSession(w) \/ CallStart(w) \/ BindSession(w)
    \/ PrepareBatch(w) \/ CallAppend(w) \/ AcceptBatch(w)
    \/ PersistFinalHash(w) \/ CallFinalize(w) \/ RecordSession(w) \/ PersistZone(w)
    \/ RecordReadiness(w) \/ CallActivate(w) \/ WaitOwned(w) \/ RecordActivation(w)
    \/ CompleteJob(w) \/ HandleFailure(w)

Turn(w) == Proceed(w) \/ RejectPayload(w) \/ Die(w)

AstraVector ==
    \/ \E c \in late : ExecuteLate(c)
    \/ \E d \in Docs : FinishFinalize(d) \/ SyncVectors(d)

DeliveryNext ==
    \/ \E j \in Jobs : Submit(j)
    \/ \E w \in Workers : Turn(w)
    \/ AstraVector
    \/ TimePasses

DeliverySpec == DeliveryInit /\ [][DeliveryNext]_deliveryVars

\* A process that is not killed goes on with its program.
DeliveryFairSpec == DeliverySpec /\ \A w \in Workers : WF_deliveryVars(Proceed(w))

-----------------------------------------------------------------------------
(* Properties.                                                             *)

Labels   == TxLabels \cup DOMAIN QueryAt \cup
            {"start", "append", "finalize", "record", "ready", "activate", "waitRecord", "failed"}
Hashes   == UNION {{Content[w][i] : i \in Plan(w)} : w \in Workers}
Finals   == {Content[w] : w \in Workers}
MaxPolls == MaxStatusPolls + MaxFinalizeAttempts + MaxActivePolls

Raised == {"ValueError", "LeaseRpcWindowTooShort", "DeliveryIntegrityError", "RuntimeError",
           "DeliveryRecoveryContractGap", "FinalizeTerminalError",
           "FinalizeReconciliationPending", "VectorReadinessPending",
           "VectorReadinessTerminalError", "VectorActivationPending"}

Exceptions == [name : Raised \cup {"AstraVectorTransportError"},
               code : {"NONE", "UNAVAILABLE", "DEADLINE_EXCEEDED", "FAILED_PRECONDITION"},
               marker : Markers]

Calls == [op : {"start", "append", "finalize", "activate"}, doc : Docs, batch : Batch,
          hash : Hashes \cup Finals \cup {Null}]

Checkpoint == [compat : {Compat[w] : w \in Workers} \cup {Null}, session : BOOLEAN,
               next : 0..BatchCount, final : Finals \cup {Null},
               zone : BOOLEAN, status : Sessions \cup {Null}, vector : Observed \cup {Null}]

DeliveryTypeOK ==
    /\ pc \in [Workers -> Labels]
    /\ \A w \in Workers : pc[w] = "idle" <=> token[w] = Null
    /\ loc \in [Workers -> [batch : Batch, finals : 0..MaxFinalizeAttempts,
                            polls : 0..MaxPolls,
                            seen : Sessions \cup Observed \cup {Null}]]
    /\ exc \in [Workers -> Exceptions \cup {Null}]
    /\ checked \in [Workers -> BOOLEAN]
    /\ cp \in [Jobs -> Checkpoint]
    /\ rows \in [Jobs -> [Batch -> [status : {"ABSENT", "PREPARED", "ACCEPTED"},
                                    hash : Hashes \cup {Null}]]]
    /\ remote \in [Docs -> [session : Sessions, vector : Vectors,
                            batches : [Batch -> Hashes \cup {Null}]]]
    /\ late \subseteq Calls

\* The batch ledger is a prefix: exactly the batches below next_batch_index
\* are ACCEPTED, at most the one at next_batch_index is PREPARED, through
\* crashes, replays and changes of owner.
AcceptedPrefix ==
    \A j \in Jobs, i \in Batch :
        /\ rows[j][i].status = "ACCEPTED" <=> i < cp[j].next
        /\ rows[j][i].status = "PREPARED" => i = cp[j].next

\* What the ledger calls ACCEPTED is what AstraVector holds, with that hash.
AcceptedIsDelivered ==
    \A j \in Jobs, i \in Batch :
        rows[j][i].status = "ACCEPTED" => remote[Document[j]].batches[i] = rows[j][i].hash

\* The first n batches of a plan.
Part(w, n) == [i \in 0..(n - 1) |-> Content[w][i]]

\* A session holds the first batches of one plan: never batches of two plans and
\* never a gap, whatever late and replayed calls did.  Once it has left ACTIVE,
\* some plan is in it as a whole, and nothing but that plan where the server
\* compares the final hash.  (Without that check a shorter plan can close a
\* session that holds part of a longer one.)
FinalizedIsOnePlan ==
    \A d \in Docs :
        /\ \E w \in Workers, n \in 0..BatchCount :
              n <= PlanLength[w] /\ Holds(remote[d].batches, Part(w, n))
        /\ remote[d].session \notin {"NONE", "ACTIVE"} =>
              \E w \in Workers : /\ Begins(remote[d].batches, Content[w])
                                 /\ HashIsChecked => Holds(remote[d].batches, Content[w])

\* The current owner is never refused by its own history: whenever the stored
\* hash is the one of its plan, the row and next_batch_index allow the step it
\* is at.  (So the DeliverySequenceError branches of prepare_batch and
\* mark_accepted never fire, and the actions do not show them.)
HistoryFits ==
    \A w \in Workers : Fenced(w) =>
        /\ pc[w] = "prepare" /\ Row(w).hash \in {Null, Hash(w)} =>
              IF Row(w).status = "ACCEPTED" THEN loc[w].batch < cp[J(w)].next
              ELSE loc[w].batch = cp[J(w)].next
        /\ pc[w] = "accept" =>
              /\ Row(w) = [status |-> "PREPARED", hash |-> Hash(w)]
              /\ loc[w].batch = cp[J(w)].next

\* COMPLETED is truthful: the document is searchable in AstraVector, the zone is
\* recorded, and the plan of the recorded final hash is in the ledger and in the
\* session.  They hold nothing beyond it where the server compares the hash.
CompletedIsSearchable ==
    \A j \in Jobs : job[j].status = "COMPLETED" =>
        LET plan == cp[j].final
            held == remote[Document[j]].batches
        IN  /\ remote[Document[j]].session = "COMPLETED"
            /\ remote[Document[j]].vector = "ACTIVE"
            /\ cp[j].zone
            /\ plan # Null
            /\ Begins(held, plan) /\ \A i \in DOMAIN plan : i < cp[j].next
            /\ HashIsChecked => Holds(held, plan) /\ \A i \in 0..(cp[j].next - 1) : i \in DOMAIN plan

\* Delivery evidence is never rewritten: a compatibility fingerprint, session,
\* final hash or zone once persisted stays, and the ledger never goes back.
EvidenceIsFinal ==
    [][\A j \in Jobs :
          /\ cp[j].compat # Null => cp'[j].compat = cp[j].compat
          /\ cp[j].session => cp'[j].session
          /\ cp[j].final # Null => cp'[j].final = cp[j].final
          /\ cp[j].zone => cp'[j].zone
          /\ cp'[j].next >= cp[j].next]_deliveryVars

\* A delivery turn is a behaviour of the queue: whatever the delivery does, the
\* job, its attempts and its lease move only as JobLease allows.
QueueSpec == Spec

\* Every turn ends, also when AstraVector makes no progress and no lease runs
\* out: the finalize, readiness and activation loops are bounded, and the turn
\* is stuck nowhere.
TurnEnds == \A w \in Workers : pc[w] # "idle" ~> pc[w] = "idle"

\* The next two are what the documents say and the code does not keep (README,
\* section 3.3): no run checks them.

\* "A mutating RPC is not started when remaining lease < rpc deadline + safety
\* margin": every call that changes AstraVector follows a window check of its
\* own.
MutatingCallsAreWindowed ==
    \A w \in Workers : pc[w] \in {"start", "append", "finalize", "activate"} => checked[w]

\* "Every authoritative delivery mutation is lease-generation fenced": the
\* checkpoint of a job changes only in a step of the current generation.
CheckpointIsFenced ==
    [][\A w \in Workers :
          /\ token[w] # Null
          /\ pc'[w] # pc[w]
          /\ cp'[J(w)] # cp[J(w)]
          => token[w].gen = job[J(w)].gen]_deliveryVars

\* "COMPLETED: no second Finalize; continue only with available downstream
\* document identity": the contract gap is reported only while no zone is
\* persisted.
GapOnlyWithoutZone ==
    \A w \in Workers :
        pc[w] = "failed" /\ exc[w].name = "DeliveryRecoveryContractGap" => ~cp[J(w)].zone
=============================================================================
