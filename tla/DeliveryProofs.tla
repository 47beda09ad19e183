--------------------------- MODULE DeliveryProofs ---------------------------
(***************************************************************************)
(* Proofs about the delivery of a job, for any number of jobs, processes,  *)
(* batches, plans, retries and polls.                                      *)
(***************************************************************************)
EXTENDS Delivery, JobLeaseProofs

-----------------------------------------------------------------------------
(* The delivery implements the queue.                                      *)

\* advance_stage is called with stages of the queue.
LEMMA StageNames ==
    \A l \in DOMAIN StageAt : StageAt[l][1] \in Stages
BY DeliveryAssumption DEF StageAt

\* Every step of a turn is a step of the worker in the queue, or leaves the
\* queue alone.
LEMMA TurnRefines ==
    ASSUME NEW w \in Workers, Turn(w)
    PROVE  WorkerStep(w) \/ UNCHANGED vars
<1>1. CASE Begin(w)
  BY <1>1 DEF Begin, WorkerStep
<1>2. CASE ClaimJob(w) \/ NoJob(w)
  BY <1>2 DEF ClaimJob, NoJob, Claim, WorkerStep
<1>3. CASE LoseLease(w) \/ Die(w)
  BY <1>3 DEF LoseLease, Die, EndTurn, WorkerStep
<1>4. CASE ReportStage(w)
  BY <1>4, StageNames DEF ReportStage, WorkerStep
<1>5. CASE AssertOwnership(w) \/ CheckWindow(w) \/ PersistCompatibility(w) \/ ReadSession(w)
  BY <1>5 DEF AssertOwnership, CheckWindow, PersistCompatibility, ReadSession, WorkerStep
<1>6. CASE BindSession(w) \/ PrepareBatch(w) \/ AcceptBatch(w) \/ PersistFinalHash(w)
  BY <1>6 DEF BindSession, PrepareBatch, AcceptBatch, PersistFinalHash, WorkerStep
<1>7. CASE PersistZone(w) \/ WaitOwned(w)
  BY <1>7 DEF PersistZone, WaitOwned, WorkerStep
<1>8. CASE CompleteJob(w)
  BY <1>8 DEF CompleteJob, EndTurn, WorkerStep
<1>9. CASE HandleFailure(w)
  BY <1>9 DEF HandleFailure, EndTurn, WorkerStep
<1>10. CASE RejectPayload(w) \/ QueryStatus(w) \/ CallStart(w) \/ CallAppend(w) \/ CallFinalize(w)
  BY <1>10 DEF RejectPayload, QueryStatus, CallStart, CallAppend, CallFinalize
<1>11. CASE RecordSession(w) \/ RecordReadiness(w) \/ CallActivate(w) \/ RecordActivation(w)
  BY <1>11 DEF RecordSession, RecordReadiness, CallActivate, RecordActivation
<1> QED
  BY <1>1, <1>2, <1>3, <1>4, <1>5, <1>6, <1>7, <1>8, <1>9, <1>10, <1>11 DEF Turn, Proceed

\* Every step is a step of the queue or leaves it alone.
LEMMA StepRefines == [DeliveryNext]_deliveryVars => [Next]_vars
<1>1. ASSUME NEW j \in Jobs, Submit(j) PROVE Next
  BY <1>1 DEF Submit, Next
<1>2. ASSUME NEW w \in Workers, Turn(w) PROVE Next \/ UNCHANGED vars
  BY <1>2, TurnRefines DEF Next
<1>3. ASSUME AstraVector PROVE UNCHANGED vars
  BY <1>3 DEF AstraVector, ExecuteLate, FinishFinalize, SyncVectors
<1>4. TimePasses => Next
  BY DEF TimePasses, Next
<1>5. UNCHANGED deliveryVars => UNCHANGED vars
  BY DEF deliveryVars
<1> QED
  BY <1>1, <1>2, <1>3, <1>4, <1>5 DEF DeliveryNext

\* The delivery of deliver() and its runners moves jobs, attempts and leases
\* only as the queue allows, so every theorem about the queue holds of it.
THEOREM QueueRefinement == DeliverySpec => QueueSpec
<1>1. DeliveryInit => Init
  BY DEF DeliveryInit
<1> QED
  BY <1>1, StepRefines, PTL DEF DeliverySpec, QueueSpec, Spec

\* However a turn is interleaved with those of other processes, at most one
\* process at a time can pass the fence of a job (assert_owned in every
\* delivery transaction).
THEOREM DeliveryIsFenced == DeliverySpec => []SingleMutator
BY QueueRefinement, FenceIsExclusive, PTL DEF QueueSpec

-----------------------------------------------------------------------------
(* The inductive invariant.                                                *)

Opening   == {"idle", "load", "compat", "session", "stageStart", "windowStart", "start",
              "bind", "stageAppend", "rebind"}
Sending   == {"prepare", "windowAppend", "append", "accept"}
Finishing == {"finalHash", "stageFinalize", "windowFinalize", "finalize", "observe", "record"}
Waiting   == {"vectorStatus", "zone", "stageReadiness", "stageActivate", "ready", "pollReady",
              "ownActivate", "activate", "activeStatus", "ownActive", "waitOwn", "pollActive",
              "waitRecord"}

\* What an observed status of a searchable vector may be.
Live == {"ACTIVE", "READY_AND_ACTIVE"}

\* AstraVector holds batch i of the plan of w, and all of that plan; it has closed
\* the session over it.
Delivered(w, i) == remote[D(w)].batches[i] = Content[w][i]
Whole(w)        == \A i \in Plan(w) : Delivered(w, i)
Closed(w)       == /\ remote[D(w)].session = "COMPLETED"
                   /\ HashIsChecked => Holds(remote[D(w)].batches, Content[w])

\* What a process has achieved at its label.  All of it survives the steps of
\* the others, so it also holds of a process that has lost its lease.
Progress(w) ==
    /\ pc[w] \in Sending => \A i \in Batch : i < loc[w].batch => Delivered(w, i)
    /\ pc[w] = "accept" => Delivered(w, loc[w].batch)
    /\ pc[w] \in Finishing \cup Waiting \cup {"complete"} =>
          Whole(w) /\ cp[J(w)].next >= PlanLength[w]
    /\ pc[w] \in (Finishing \ {"finalHash"}) \cup Waiting \cup {"complete"} =>
          cp[J(w)].final = Content[w]
    /\ pc[w] \in Waiting \cup {"complete"} => Closed(w)
    /\ pc[w] \in (Waiting \ {"vectorStatus", "zone"}) \cup {"complete"} => cp[J(w)].zone
    /\ pc[w] \in Waiting /\ loc[w].seen \in Live => remote[D(w)].vector = "ACTIVE"
    /\ pc[w] = "complete" => remote[D(w)].vector = "ACTIVE"

\* How far the counters of the loops have come.
Bounds(w) ==
    /\ pc[w] \in Opening => loc[w].batch = 0
    /\ pc[w] \in Sending => loc[w].batch \in Plan(w)
    /\ pc[w] \in Finishing \ {"observe", "record"} =>
          /\ loc[w].finals < MaxFinalizeAttempts
          /\ loc[w].polls <= MaxStatusPolls + loc[w].finals
    /\ pc[w] \in {"observe", "record"} =>
          loc[w].finals >= 1 /\ loc[w].polls < MaxStatusPolls + loc[w].finals
    /\ pc[w] \in Waiting => loc[w].polls < MaxActivePolls
    /\ pc[w] \in {"bind", "record"} => loc[w].seen \in Sessions
    /\ pc[w] \in {"zone", "stageReadiness", "stageActivate", "ready", "waitRecord"} =>
          loc[w].seen \in Observed
    /\ pc[w] \in Waiting => loc[w].seen \in Observed \cup {Null}

Locals == [batch : Batch, finals : 0..MaxFinalizeAttempts, polls : 0..MaxPolls,
           seen : Sessions \cup Observed \cup {Null}]

\* The part of the invariant about one process.
LocalInv(w) ==
    /\ pc[w] \in Labels
    /\ pc[w] = "idle" <=> token[w] = Null
    /\ loc[w] \in Locals
    /\ exc[w] \in Exceptions \cup {Null}
    /\ checked[w] \in BOOLEAN
    /\ Progress(w)
    /\ Bounds(w)

TurnInv ==
    /\ pc = [w \in Workers |-> pc[w]]
    /\ loc = [w \in Workers |-> loc[w]]
    /\ exc = [w \in Workers |-> exc[w]]
    /\ checked = [w \in Workers |-> checked[w]]
    /\ \A w \in Workers : LocalInv(w)

BatchRow   == [status : {"ABSENT", "PREPARED", "ACCEPTED"}, hash : Hashes \cup {Null}]
RemoteDoc  == [session : Sessions, vector : Vectors, batches : [Batch -> Hashes \cup {Null}]]

\* The part about the delivery tables.
TableInv ==
    /\ cp \in [Jobs -> Checkpoint]
    /\ rows \in [Jobs -> [Batch -> BatchRow]]
    /\ \A j \in Jobs, i \in Batch : rows[j][i].status # "ABSENT" => rows[j][i].hash # Null
    /\ AcceptedPrefix

\* The batches begin one plan; they are one a session may be closed over.
OnePart(b) ==
    \E w \in Workers, n \in 0..BatchCount : n <= PlanLength[w] /\ Holds(b, Part(w, n))
Closes(b) ==
    \E w \in Workers : /\ Begins(b, Content[w])
                       /\ HashIsChecked => Holds(b, Content[w])

\* A call under way was made by a process that had delivered the batches before
\* it: an Append those below its own, a Finalize its plan.
Honest(c, b) ==
    /\ c.op = "append" =>
          \E w \in Workers : /\ c.batch \in Plan(w) /\ c.hash = Content[w][c.batch]
                             /\ \A i \in Batch : i < c.batch => b[i] = Content[w][i]
    /\ c.op = "finalize" => \E w \in Workers : c.hash = Content[w] /\ Begins(b, Content[w])

\* The part about AstraVector: the vector lifecycle begins when Finalize is
\* done, and the calls under way are honest.
ServerInv ==
    /\ remote \in [Docs -> RemoteDoc]
    /\ late \subseteq Calls
    /\ \A d \in Docs : remote[d].vector # "NONE" => remote[d].session = "COMPLETED"
    /\ \A c \in late : Honest(c, remote[c.doc].batches)
    /\ \A d \in Docs : /\ OnePart(remote[d].batches)
                       /\ remote[d].session \notin {"NONE", "ACTIVE"} => Closes(remote[d].batches)

\* What a completed job rests on: the plan of one process.
Done(j, w) ==
    /\ remote[Document[j]].session = "COMPLETED"
    /\ remote[Document[j]].vector = "ACTIVE"
    /\ cp[j].zone
    /\ cp[j].final = Content[w]
    /\ cp[j].next >= PlanLength[w]
    /\ Begins(remote[Document[j]].batches, Content[w])
    /\ HashIsChecked => Holds(remote[Document[j]].batches, Content[w])

DInv ==
    /\ IInv
    /\ TurnInv
    /\ TableInv
    /\ ServerInv
    /\ AcceptedIsDelivered
    /\ \A j \in Jobs : job[j].status = "COMPLETED" => \E w \in Workers : Done(j, w)

\* What no step undoes.
TableMono ==
    \A j \in Jobs :
        /\ cp[j].compat # Null => cp'[j].compat = cp[j].compat
        /\ cp[j].session => cp'[j].session
        /\ cp[j].final # Null => cp'[j].final = cp[j].final
        /\ cp[j].zone => cp'[j].zone
        /\ cp'[j].next >= cp[j].next

ServerMono ==
    \A d \in Docs :
        /\ \A i \in Batch : remote[d].batches[i] # Null =>
              remote'[d].batches[i] = remote[d].batches[i]
        /\ remote[d].session \notin {"NONE", "ACTIVE"} =>
              remote'[d].batches = remote[d].batches
        /\ remote[d].session = "COMPLETED" => remote'[d].session = "COMPLETED"
        /\ remote[d].vector = "ACTIVE" => remote'[d].vector = "ACTIVE"

-----------------------------------------------------------------------------
(* Facts about labels, exceptions and constants.                           *)

\* The labels, and where the tables of the program lead.
LEMMA LabelFacts ==
    /\ Labels = Opening \cup Sending \cup Finishing \cup Waiting \cup {"complete", "failed"}
    /\ \A l \in DOMAIN StageAt : StageAt[l][2] \in Labels \ {"idle"}
    /\ \A l \in DOMAIN WindowAt : WindowAt[l] \in Labels \ {"idle"}
    /\ \A l \in DOMAIN OwnedAt : OwnedAt[l] \in Labels \ {"idle"}
    /\ \A l \in DOMAIN QueryAt : QueryAt[l] \in Labels \ {"idle"}
<1>1. Labels = Opening \cup Sending \cup Finishing \cup Waiting \cup {"complete", "failed"}
  BY DEF Labels, TxLabels, StageAt, WindowAt, OwnedAt, QueryAt, Opening, Sending, Finishing, Waiting
<1>2. \A l \in DOMAIN StageAt : StageAt[l][2] \in Labels \ {"idle"}
  BY <1>1 DEF StageAt, Opening, Sending, Finishing, Waiting
<1>3. \A l \in DOMAIN WindowAt : WindowAt[l] \in Labels \ {"idle"}
  BY <1>1 DEF WindowAt, Opening, Sending, Finishing, Waiting
<1>4. \A l \in DOMAIN OwnedAt : OwnedAt[l] \in Labels \ {"idle"}
  BY <1>1 DEF OwnedAt, Opening, Sending, Finishing, Waiting
<1>5. \A l \in DOMAIN QueryAt : QueryAt[l] \in Labels \ {"idle"}
  BY <1>1 DEF QueryAt, Opening, Sending, Finishing, Waiting
<1> QED
  BY <1>1, <1>2, <1>3, <1>4, <1>5

\* What is raised is an exception the classifier knows.
LEMMA ExceptionFacts ==
    /\ \A n \in Raised : Error(n) \in Exceptions
    /\ Lost \subseteq Exceptions
    /\ \A c : Refusal(c) \in Exceptions
<1>1. \A n \in Raised : Error(n) \in Exceptions
  BY DEF Error, Exceptions, Markers
<1>2. Lost \subseteq Exceptions
  BY DEF Lost, Transport, Exceptions, Markers
<1>3. \A c : Refusal(c) \in {Transport("FAILED_PRECONDITION", m) : m \in Markers}
  BY DEF Refusal, Markers
<1>4. \A m \in Markers : Transport("FAILED_PRECONDITION", m) \in Exceptions
  BY DEF Transport, Exceptions
<1> QED
  BY <1>1, <1>2, <1>3, <1>4

\* The assumptions on the constants, in the form the proofs use.
LEMMA ConstantFacts ==
    /\ BatchCount \in Nat \ {0} /\ 0 \in Batch /\ Batch \subseteq Nat
    /\ MaxFinalizeAttempts \in Nat \ {0} /\ MaxStatusPolls \in Nat \ {0}
    /\ MaxActivePolls \in Nat \ {0}
    /\ MaxPolls = MaxStatusPolls + MaxFinalizeAttempts + MaxActivePolls
    /\ Null \notin Sessions \cup Observed /\ Vectors \subseteq Observed
    /\ Null \notin Live
BY DeliveryAssumption DEF Batch, MaxPolls, Observed, Live, Vectors

\* Plans are not empty and begin the batches of the longest one.
LEMMA PlanFacts ==
    ASSUME NEW w \in Workers
    PROVE  /\ PlanLength[w] \in Nat \ {0} /\ PlanLength[w] <= BatchCount
           /\ DOMAIN Content[w] = Plan(w) /\ Plan(w) \subseteq Batch /\ 0 \in Plan(w)
           /\ \A i \in Batch : i \in Plan(w) <=> i < PlanLength[w]
           /\ Content[w] # Null /\ Content[w] \in Finals
           /\ \A i \in Plan(w) : Content[w][i] \in Hashes /\ Content[w][i] # Null
<1>1. PlanLength[w] \in Nat \ {0} /\ PlanLength[w] <= BatchCount /\ BatchCount \in Nat
  BY DeliveryAssumption
<1>2. Plan(w) \subseteq Batch /\ 0 \in Plan(w) /\ \A i \in Batch : i \in Plan(w) <=> i < PlanLength[w]
  BY <1>1 DEF Plan, Batch
<1>3. DOMAIN Content[w] = Plan(w)
  <2>1. Content[w] = [i \in Plan(w) |-> Content[w][i]]
    BY DeliveryAssumption
  <2> QED
    BY <2>1
<1>4. Content[w] # Null /\ \A i \in Plan(w) : Content[w][i] # Null
  BY DeliveryAssumption
<1>5. Content[w] \in Finals /\ \A i \in Plan(w) : Content[w][i] \in Hashes
  BY DEF Finals, Hashes
<1> QED
  BY <1>1, <1>2, <1>3, <1>4, <1>5

\* A batch below one of a plan is one of the plan.
LEMMA PlanBelow ==
    ASSUME NEW w \in Workers, NEW k \in Plan(w), NEW i \in Batch, i < k
    PROVE  i \in Plan(w)
<1>1. k \in Batch /\ k < PlanLength[w] /\ PlanLength[w] \in Nat /\ Batch \subseteq Nat
  BY PlanFacts, ConstantFacts
<1> QED
  BY <1>1, PlanFacts

\* The first batches of a plan, batch by batch.
LEMMA PartFacts ==
    ASSUME NEW w \in Workers, NEW n \in Nat, n <= PlanLength[w], NEW b
    PROVE  Holds(b, Part(w, n)) <=>
              \A i \in Batch : b[i] = IF i < n THEN Content[w][i] ELSE Null
<1>1. DOMAIN Part(w, n) = 0..(n - 1) /\ \A i \in 0..(n - 1) : Part(w, n)[i] = Content[w][i]
  BY DEF Part
<1>2. \A i \in Batch : i \in 0..(n - 1) <=> i < n
  BY ConstantFacts
<1> QED
  BY <1>1, <1>2 DEF Holds

-----------------------------------------------------------------------------
(* AstraVector.                                                            *)

\* What one document may do in a step of the server.
DocStep(r, s) ==
    /\ s \in RemoteDoc
    /\ s.vector # "NONE" => s.session = "COMPLETED"
    /\ \A i \in Batch : r.batches[i] # Null => s.batches[i] = r.batches[i]
    /\ r.session \notin {"NONE", "ACTIVE"} => s.batches = r.batches
    /\ r.session = "COMPLETED" => s.session = "COMPLETED"
    /\ r.vector = "ACTIVE" => s.vector = "ACTIVE"
    /\ OnePart(s.batches)
    /\ s.session \notin {"NONE", "ACTIVE"} => Closes(s.batches)

\* A plan that is delivered stays delivered.
LEMMA WholePlanStays ==
    ASSUME NEW w \in Workers, NEW b, NEW a, Begins(b, Content[w]),
           \A i \in Batch : b[i] # Null => a[i] = b[i]
    PROVE  Begins(a, Content[w])
BY PlanFacts DEF Begins

\* A call under way stays honest.
LEMMA HonestStays ==
    ASSUME NEW c, NEW b, NEW a, Honest(c, b), \A i \in Batch : b[i] # Null => a[i] = b[i]
    PROVE  Honest(c, a)
<1>1. ASSUME c.op = "append"
      PROVE  \E w \in Workers : /\ c.batch \in Plan(w) /\ c.hash = Content[w][c.batch]
                                /\ \A i \in Batch : i < c.batch => a[i] = Content[w][i]
  <2>1. PICK w \in Workers : /\ c.batch \in Plan(w) /\ c.hash = Content[w][c.batch]
                             /\ \A i \in Batch : i < c.batch => b[i] = Content[w][i]
    BY <1>1 DEF Honest
  <2>2. \A i \in Batch : i < c.batch => i \in Plan(w)
    BY <2>1, PlanFacts DEF Plan, Batch
  <2>3. \A i \in Batch : i < c.batch => a[i] = Content[w][i]
    BY <2>1, <2>2, PlanFacts
  <2> QED
    BY <2>1, <2>3
<1>2. ASSUME c.op = "finalize"
      PROVE  \E w \in Workers : c.hash = Content[w] /\ Begins(a, Content[w])
  BY <1>2, WholePlanStays DEF Honest
<1> QED
  BY <1>1, <1>2 DEF Honest

\* A document that is left alone takes a step it may take.
LEMMA SameDoc ==
    ASSUME ServerInv, NEW d \in Docs
    PROVE  DocStep(remote[d], remote[d])
BY DEF ServerInv, DocStep

\* A step of one document, with calls that stay honest.
LEMMA ServerStep ==
    ASSUME ServerInv, NEW d \in Docs, NEW r, DocStep(remote[d], r),
           remote' = [remote EXCEPT ![d] = r],
           late' \subseteq Calls,
           \A c \in late' : c \in late \/ Honest(c, remote[c.doc].batches)
    PROVE  ServerInv' /\ ServerMono
<1>1. \A e \in Docs : DocStep(remote[e], remote'[e])
  BY SameDoc DEF ServerInv
<1>2. remote' \in [Docs -> RemoteDoc]
  BY DEF ServerInv, DocStep
<1>3. ServerMono
  BY <1>1 DEF DocStep, ServerMono
<1>4. \A e \in Docs : /\ OnePart(remote'[e].batches)
                      /\ remote'[e].session \notin {"NONE", "ACTIVE"} => Closes(remote'[e].batches)
  BY <1>1 DEF DocStep
<1>5. \A c \in late' : Honest(c, remote'[c.doc].batches)
  <2> SUFFICES ASSUME NEW c \in late' PROVE Honest(c, remote'[c.doc].batches)
    OBVIOUS
  <2>1. c.doc \in Docs
    BY DEF Calls
  <2>2. Honest(c, remote[c.doc].batches)
    BY DEF ServerInv
  <2>3. \A i \in Batch : remote[c.doc].batches[i] # Null =>
           remote'[c.doc].batches[i] = remote[c.doc].batches[i]
    BY <1>3, <2>1 DEF ServerMono
  <2> QED
    BY <2>2, <2>3, HonestStays
<1>6. \A e \in Docs : remote'[e].vector # "NONE" => remote'[e].session = "COMPLETED"
  BY <1>1 DEF DocStep
<1> QED
  BY <1>2, <1>3, <1>4, <1>5, <1>6 DEF ServerInv, OnePart, Closes, Honest

\* The server is left alone.
LEMMA ServerStutter ==
    ASSUME ServerInv, UNCHANGED <<remote, late>>
    PROVE  ServerInv' /\ ServerMono
BY DEF ServerInv, ServerMono

\* What an accepted call does to its document.
Effect(c) ==
    LET r == remote[c.doc]
    IN  CASE c.op = "start"    -> IF r.session = "NONE" THEN [r EXCEPT !.session = "ACTIVE"]
                                  ELSE r
          [] c.op = "append"   -> [r EXCEPT !.batches[c.batch] = c.hash]
          [] c.op = "finalize" -> [r EXCEPT !.session = "FINALIZING"]
          [] c.op = "activate" -> [r EXCEPT !.vector = "ACTIVE"]

\* An Append that fills a hole fills the first one, with the next batch of the plan
\* whose earlier batches are there.
LEMMA AppendedPart ==
    ASSUME NEW b \in [Batch -> Hashes \cup {Null}], OnePart(b),
           NEW w \in Workers, NEW k \in Plan(w),
           \A i \in Batch : i < k => b[i] = Content[w][i],
           b[k] = Null
    PROVE  OnePart([b EXCEPT ![k] = Content[w][k]])
<1>1. PICK v \in Workers, n \in 0..BatchCount : n <= PlanLength[v] /\ Holds(b, Part(v, n))
  BY DEF OnePart
<1>2. \A i \in Batch : b[i] = IF i < n THEN Content[v][i] ELSE Null
  BY <1>1, PartFacts
<1>3. /\ k \in Batch /\ k \in Nat /\ n \in Nat /\ PlanLength[w] \in Nat
      /\ k + 1 <= PlanLength[w] /\ k + 1 \in 0..BatchCount
  BY PlanFacts, ConstantFacts DEF Plan
<1>4. k >= n
  <2>1. \A i \in Batch : i < n => b[i] # Null
    BY <1>1, <1>2, PlanFacts, ConstantFacts
  <2> QED
    BY <1>3, <2>1
<1>5. \A i \in Batch : [b EXCEPT ![k] = Content[w][k]][i] =
                          IF i < k + 1 THEN Content[w][i] ELSE Null
  <2> SUFFICES ASSUME NEW i \in Batch
               PROVE  [b EXCEPT ![k] = Content[w][k]][i] = IF i < k + 1 THEN Content[w][i] ELSE Null
    OBVIOUS
  <2>1. i \in Nat
    BY ConstantFacts
  <2>2. CASE i < k
    BY <1>3, <2>1, <2>2
  <2>3. CASE i = k
    BY <1>3, <2>3
  <2>4. CASE i > k
    <3>1. b[i] = Null
      BY <1>2, <1>3, <1>4, <2>1, <2>4
    <3> QED
      BY <1>3, <2>1, <2>4, <3>1
  <2> QED
    BY <1>3, <2>1, <2>2, <2>3, <2>4
<1> DEFINE a == [b EXCEPT ![k] = Content[w][k]]
<1>6. Holds(a, Part(w, k + 1))
  <2>1. k + 1 \in Nat /\ k + 1 <= PlanLength[w]
    BY <1>3
  <2> HIDE DEF a
  <2>2. \A i \in Batch : a[i] = IF i < k + 1 THEN Content[w][i] ELSE Null
    BY <1>5 DEF a
  <2> QED
    BY <2>1, <2>2, PartFacts
<1> QED
  BY <1>3, <1>6 DEF OnePart

\* Every accepted call is a step of its document: Start changes a session that
\* does not exist, Append fills the first hole, Finalize meets a whole plan.
LEMMA AcceptedCall ==
    ASSUME ServerInv, NEW c \in Calls, Accepts(c), Honest(c, remote[c.doc].batches)
    PROVE  /\ Apply(c) = [remote EXCEPT ![c.doc] = Effect(c)]
           /\ DocStep(remote[c.doc], Effect(c))
<1> DEFINE r == remote[c.doc]
<1>1. /\ r \in RemoteDoc /\ c.doc \in Docs
      /\ r.vector # "NONE" => r.session = "COMPLETED"
      /\ OnePart(r.batches) /\ (r.session \notin {"NONE", "ACTIVE"} => Closes(r.batches))
  BY DEF ServerInv, Calls
<1>2. Apply(c) = [remote EXCEPT ![c.doc] = Effect(c)]
  BY DEF Apply, Effect
<1>3. CASE c.op = "start"
  <2>1. Effect(c) = IF r.session = "NONE" THEN [r EXCEPT !.session = "ACTIVE"] ELSE r
    BY <1>3 DEF Effect
  <2> QED
    BY <1>1, <1>2, <2>1 DEF DocStep, RemoteDoc, Sessions, Vectors
<1>4. CASE c.op = "append"
  <2>1. Effect(c) = [r EXCEPT !.batches[c.batch] = c.hash]
    BY <1>4 DEF Effect
  <2>2. r.session = "ACTIVE" /\ r.batches[c.batch] \in {Null, c.hash}
    BY <1>4 DEF Accepts
  <2>3. c.batch \in Batch /\ r.batches \in [Batch -> Hashes \cup {Null}]
    BY <1>1 DEF Calls, RemoteDoc
  <2>4. PICK w \in Workers : /\ c.batch \in Plan(w) /\ c.hash = Content[w][c.batch]
                             /\ \A i \in Batch : i < c.batch => r.batches[i] = Content[w][i]
    BY <1>4 DEF Honest
  <2>5. c.hash \in Hashes
    BY <2>4, PlanFacts
  <2> DEFINE b == [r.batches EXCEPT ![c.batch] = c.hash]
  <2>6. OnePart(b)
    <3>1. CASE r.batches[c.batch] = Null
      BY <2>3, <2>4, <1>1, <3>1, AppendedPart
    <3>2. CASE r.batches[c.batch] = c.hash
      <4>1. b = r.batches
        BY <2>3, <3>2
      <4> QED
        BY <1>1, <4>1
    <3> QED
      BY <2>2, <3>1, <3>2
  <2>7. b \in [Batch -> Hashes \cup {Null}] /\ \A i \in Batch : r.batches[i] # Null => b[i] = r.batches[i]
    BY <2>2, <2>3, <2>5
  <2>8. Effect(c) = [r EXCEPT !.batches = b]
    BY <1>1, <2>1 DEF RemoteDoc
  <2> HIDE DEF b
  <2> QED
    BY <1>1, <1>2, <2>2, <2>6, <2>7, <2>8 DEF DocStep, RemoteDoc
<1>5. CASE c.op = "finalize"
  <2>1. Effect(c) = [r EXCEPT !.session = "FINALIZING"]
    BY <1>5 DEF Effect
  <2>2. r.session = "ACTIVE" /\ FinalHashFits(c.doc, c.hash)
    BY <1>5 DEF Accepts
  <2>3. Closes(r.batches)
    <3>1. PICK w \in Workers : c.hash = Content[w] /\ Begins(r.batches, Content[w])
      BY <1>5 DEF Honest
    <3> QED
      BY <2>2, <3>1 DEF FinalHashFits, Closes
  <2> QED
    BY <1>1, <1>2, <2>1, <2>2, <2>3 DEF DocStep, RemoteDoc, Sessions
<1>6. CASE c.op = "activate"
  <2>1. Effect(c) = [r EXCEPT !.vector = "ACTIVE"]
    BY <1>6 DEF Effect
  <2>2. r.vector \in {"READY_TO_ACTIVATE", "ACTIVE"}
    BY <1>6 DEF Accepts
  <2> QED
    BY <1>1, <1>2, <2>1, <2>2 DEF DocStep, RemoteDoc, Vectors
<1> QED
  BY <1>3, <1>4, <1>5, <1>6 DEF Calls

\* A call of a process, answered or not.
LEMMA CallStep ==
    ASSUME ServerInv, NEW c \in Calls, Honest(c, remote[c.doc].batches),
           Acked(c) \/ \E e : Unanswered(c, e)
    PROVE  ServerInv' /\ ServerMono
<1>1. late \subseteq Calls /\ c.doc \in Docs
  BY DEF ServerInv, Calls
<1>2. ASSUME Accepts(c), remote' = Apply(c), UNCHANGED late
      PROVE  ServerInv' /\ ServerMono
  BY <1>1, <1>2, AcceptedCall, ServerStep
<1>3. ASSUME late' = late \cup {c}, UNCHANGED remote
      PROVE  ServerInv' /\ ServerMono
  <2>1. remote' = [remote EXCEPT ![c.doc] = remote[c.doc]]
    BY <1>1, <1>3 DEF ServerInv
  <2>2. DocStep(remote[c.doc], remote[c.doc])
    BY <1>1, SameDoc
  <2>3. late' \subseteq Calls
    BY <1>1, <1>3
  <2>4. \A k \in late' : k \in late \/ Honest(k, remote[k.doc].batches)
    BY <1>3
  <2> QED
    BY <1>1, <2>1, <2>2, <2>3, <2>4, ServerStep
<1> QED
  BY <1>2, <1>3, ServerStutter DEF Acked, Unanswered

\* AstraVector's own steps.
LEMMA VectorStep ==
    ASSUME ServerInv, AstraVector
    PROVE  ServerInv' /\ ServerMono
<1>1. ASSUME NEW c \in late, ExecuteLate(c) PROVE ServerInv' /\ ServerMono
  <2>1. c \in Calls /\ c.doc \in Docs /\ late' \subseteq Calls /\ late' \subseteq late
    BY <1>1 DEF ServerInv, ExecuteLate, Calls
  <2>2. Honest(c, remote[c.doc].batches)
    BY DEF ServerInv
  <2>3. CASE Accepts(c) /\ remote' = Apply(c)
    BY <2>1, <2>2, <2>3, AcceptedCall, ServerStep
  <2>4. CASE UNCHANGED remote
    <3>1. remote' = [remote EXCEPT ![c.doc] = remote[c.doc]]
      BY <2>1, <2>4 DEF ServerInv
    <3> QED
      BY <2>1, <3>1, SameDoc, ServerStep
  <2> QED
    BY <1>1, <2>3, <2>4 DEF ExecuteLate
<1>2. ASSUME NEW d \in Docs, FinishFinalize(d) PROVE ServerInv' /\ ServerMono
  <2> DEFINE r == remote[d]
  <2>1. /\ r \in RemoteDoc /\ r.session = "FINALIZING" /\ OnePart(r.batches) /\ Closes(r.batches)
        /\ r.vector # "NONE" => r.session = "COMPLETED"
        /\ late' = late /\ late \subseteq Calls
    BY <1>2 DEF ServerInv, FinishFinalize
  <2>2. PICK s : /\ s \in {[r EXCEPT !.session = "COMPLETED", !.vector = "SYNCING"],
                          [r EXCEPT !.session = "FAILED"]}
                 /\ remote' = [remote EXCEPT ![d] = s]
    BY <1>2 DEF FinishFinalize
  <2>3. DocStep(r, s)
    BY <2>1, <2>2 DEF DocStep, RemoteDoc, Sessions, Vectors
  <2> QED
    BY <2>1, <2>2, <2>3, ServerStep
<1>3. ASSUME NEW d \in Docs, SyncVectors(d) PROVE ServerInv' /\ ServerMono
  <2> DEFINE r == remote[d]
  <2>1. /\ r \in RemoteDoc /\ r.vector = "SYNCING" /\ OnePart(r.batches)
        /\ r.session \notin {"NONE", "ACTIVE"} => Closes(r.batches)
        /\ r.vector # "NONE" => r.session = "COMPLETED"
        /\ late' = late /\ late \subseteq Calls
    BY <1>3 DEF ServerInv, SyncVectors
  <2>2. PICK v \in {"READY_TO_ACTIVATE", "FAILED"} :
           remote' = [remote EXCEPT ![d] = [r EXCEPT !.vector = v]]
    BY <1>3 DEF SyncVectors
  <2>3. DocStep(r, [r EXCEPT !.vector = v])
    BY <2>1, <2>2 DEF DocStep, RemoteDoc, Sessions, Vectors
  <2> QED
    BY <2>1, <2>2, <2>3, ServerStep
<1> QED
  BY <1>1, <1>2, <1>3 DEF AstraVector

-----------------------------------------------------------------------------
(* The delivery tables.                                                    *)

\* The delivery tables are left alone.
LEMMA TableStutter ==
    ASSUME TableInv, UNCHANGED <<cp, rows>>
    PROVE  TableInv' /\ TableMono
<1>1. TableInv'
  BY DEF TableInv, AcceptedPrefix
<1>2. \A j \in Jobs : cp[j].next \in Nat
  BY ConstantFacts DEF TableInv, Checkpoint
<1> QED
  BY <1>1, <1>2 DEF TableMono

\* A checkpoint column is filled in or overwritten with what it holds.
LEMMA CheckpointStep ==
    ASSUME TableInv, NEW j \in Jobs, NEW c \in Checkpoint,
           cp' = [cp EXCEPT ![j] = c], UNCHANGED rows,
           c.next = cp[j].next,
           cp[j].compat # Null => c.compat = cp[j].compat,
           cp[j].session => c.session,
           cp[j].final # Null => c.final = cp[j].final,
           cp[j].zone => c.zone
    PROVE  TableInv' /\ TableMono
<1>1. cp' \in [Jobs -> Checkpoint]
  BY DEF TableInv
<1>2. \A k \in Jobs : cp'[k].next = cp[k].next /\ cp[k].next \in Nat
  BY ConstantFacts DEF TableInv, Checkpoint
<1>3. TableMono
  BY <1>2 DEF TableMono, TableInv
<1> QED
  BY <1>1, <1>2, <1>3 DEF TableInv, AcceptedPrefix

\* A batch is written ahead: only at next_batch_index, so the prefix stays.
LEMMA PrepareStep ==
    ASSUME TableInv, NEW j \in Jobs, NEW i \in Batch, NEW h \in Hashes, h # Null,
           rows[j][i].status \in {"ABSENT", "PREPARED"},
           cp[j].next = i,
           rows' = [rows EXCEPT ![j][i] = [status |-> "PREPARED", hash |-> h]],
           UNCHANGED cp
    PROVE  TableInv' /\ TableMono
<1> DEFINE row == [status |-> "PREPARED", hash |-> h]
<1>1. row \in BatchRow
  BY DEF BatchRow
<1>2. rows' \in [Jobs -> [Batch -> BatchRow]]
  BY <1>1 DEF TableInv
<1>3. \A k \in Jobs, n \in Batch :
         rows'[k][n] = IF k = j /\ n = i THEN row ELSE rows[k][n]
  BY DEF TableInv
<1>4. \A k \in Jobs : cp[k].next \in Nat
  BY ConstantFacts DEF TableInv, Checkpoint
<1>5. AcceptedPrefix'
  <2> SUFFICES ASSUME NEW k \in Jobs, NEW n \in Batch
               PROVE  /\ rows'[k][n].status = "ACCEPTED" <=> n < cp[k].next
                      /\ rows'[k][n].status = "PREPARED" => n = cp[k].next
    BY DEF AcceptedPrefix
  <2>1. CASE k = j /\ n = i
    <3>1. rows'[k][n].status = "PREPARED"
      BY <1>3, <2>1
    <3> QED
      BY <1>4, <2>1, <3>1
  <2>2. CASE ~ (k = j /\ n = i)
    <3>1. rows'[k][n] = rows[k][n]
      BY <1>3, <2>2
    <3> QED
      BY <3>1 DEF TableInv, AcceptedPrefix
  <2> QED
    BY <2>1, <2>2
<1>6. TableMono
  BY <1>4 DEF TableMono
<1> QED
  BY <1>2, <1>3, <1>5, <1>6 DEF TableInv

\* An acknowledgement moves the row and next_batch_index together.
LEMMA AcceptStep ==
    ASSUME TableInv, NEW j \in Jobs, NEW i \in Batch,
           rows[j][i].status = "PREPARED",
           cp[j].next = i,
           NEW c, c = [cp[j] EXCEPT !.next = i + 1, !.status = "ACTIVE"],
           NEW row, row = [rows[j][i] EXCEPT !.status = "ACCEPTED"],
           rows' = [rows EXCEPT ![j][i] = row],
           cp' = [cp EXCEPT ![j] = c]
    PROVE  TableInv' /\ TableMono
<1>1. cp[j] \in Checkpoint /\ rows[j][i] \in BatchRow /\ i \in Nat /\ i + 1 \in 0..BatchCount
  BY ConstantFacts DEF TableInv, Batch
<1>2. c \in Checkpoint
  BY <1>1 DEF Checkpoint, Sessions
<1>3. row \in BatchRow
  BY <1>1 DEF BatchRow
<1>4. row.status = "ACCEPTED" /\ row.hash = rows[j][i].hash
  BY <1>1 DEF BatchRow
<1>5. /\ c.next = i + 1 /\ c.compat = cp[j].compat /\ c.session = cp[j].session
      /\ c.final = cp[j].final /\ c.zone = cp[j].zone
  BY <1>1 DEF Checkpoint
<1>6. cp' \in [Jobs -> Checkpoint]
  BY <1>2 DEF TableInv
<1>7. rows' \in [Jobs -> [Batch -> BatchRow]]
  BY <1>3 DEF TableInv
<1>8. rows'[j][i] = row /\ \A k \in Jobs, n \in Batch : k # j \/ n # i => rows'[k][n] = rows[k][n]
  BY DEF TableInv
<1>9. cp'[j] = c /\ \A k \in Jobs \ {j} : cp'[k] = cp[k]
  BY DEF TableInv
<1>10. \A k \in Jobs : cp[k].next \in Nat
  BY ConstantFacts DEF TableInv, Checkpoint
<1>11. AcceptedPrefix'
  <2> SUFFICES ASSUME NEW k \in Jobs, NEW n \in Batch
               PROVE  /\ rows'[k][n].status = "ACCEPTED" <=> n < cp'[k].next
                      /\ rows'[k][n].status = "PREPARED" => n = cp'[k].next
    BY DEF AcceptedPrefix
  <2>1. n \in Nat
    BY ConstantFacts
  <2>2. /\ rows[k][n].status = "ACCEPTED" <=> n < cp[k].next
        /\ rows[k][n].status = "PREPARED" => n = cp[k].next
    BY DEF TableInv, AcceptedPrefix
  <2>3. CASE k # j
    BY <1>8, <1>9, <2>2, <2>3
  <2>4. CASE k = j /\ n = i
    <3>1. rows'[j][i].status = "ACCEPTED"
      BY <1>4, <1>8
    <3>2. cp'[j].next = i + 1
      BY <1>5, <1>9
    <3> QED
      BY <1>1, <2>4, <3>1, <3>2
  <2>5. CASE k = j /\ n # i
    <3>1. rows'[k][n] = rows[k][n]
      BY <1>8, <2>5
    <3>2. cp'[j].next = i + 1
      BY <1>5, <1>9
    <3> QED
      BY <1>1, <2>1, <2>2, <2>5, <3>1, <3>2
  <2> QED
    BY <2>3, <2>4, <2>5
<1>12. TableMono
  <2>1. cp'[j].next >= cp[j].next
    BY <1>1, <1>5, <1>9
  <2>2. \A k \in Jobs \ {j} : cp'[k].next >= cp[k].next
    BY <1>9, <1>10
  <2> QED
    BY <1>5, <1>9, <2>1, <2>2 DEF TableMono
<1>13. \A k \in Jobs, n \in Batch : rows'[k][n].status # "ABSENT" => rows'[k][n].hash # Null
  BY <1>4, <1>8 DEF TableInv
<1> QED
  BY <1>6, <1>7, <1>11, <1>12, <1>13 DEF TableInv

\* What was delivered stays delivered.
LEMMA DeliveredStays ==
    ASSUME TableInv, AcceptedIsDelivered, ServerMono,
           \A j \in Jobs, i \in Batch : rows'[j][i].status = "ACCEPTED" =>
              \/ rows'[j][i] = rows[j][i]
              \/ remote'[Document[j]].batches[i] = rows'[j][i].hash
    PROVE  AcceptedIsDelivered'
<1> SUFFICES ASSUME NEW j \in Jobs, NEW i \in Batch, rows'[j][i].status = "ACCEPTED",
                    rows'[j][i] = rows[j][i]
             PROVE  remote'[Document[j]].batches[i] = rows'[j][i].hash
  BY DEF AcceptedIsDelivered
<1>1. Document[j] \in Docs
  BY DEF Docs
<1>2. rows[j][i].hash # Null /\ remote[Document[j]].batches[i] = rows[j][i].hash
  BY DEF TableInv, AcceptedIsDelivered
<1> QED
  BY <1>1, <1>2 DEF ServerMono

\* What was completed stays done.
LEMMA CompletedStays ==
    ASSUME DInv, TableInv', TableMono, ServerMono,
           NEW j \in Jobs, job[j].status = "COMPLETED"
    PROVE  \E w \in Workers : Done(j, w)'
<1>1. PICK w \in Workers : Done(j, w)
  BY DEF DInv
<1>2. Document[j] \in Docs /\ Content[w] # Null
  BY PlanFacts DEF Docs
<1>3. remote'[Document[j]].batches = remote[Document[j]].batches
  BY <1>1, <1>2 DEF Done, ServerMono
<1>4. cp'[j].next >= PlanLength[w]
  <2>1. cp[j].next \in Nat /\ cp'[j].next \in Nat /\ PlanLength[w] \in Nat
    BY ConstantFacts, PlanFacts DEF DInv, TableInv, Checkpoint
  <2> QED
    BY <1>1, <2>1 DEF Done, TableMono
<1>5. Begins(remote'[Document[j]].batches, Content[w])
  BY <1>1, <1>3 DEF Done
<1>6. HashIsChecked => Holds(remote'[Document[j]].batches, Content[w])
  BY <1>1, <1>3 DEF Done
<1>7. /\ remote'[Document[j]].session = "COMPLETED" /\ remote'[Document[j]].vector = "ACTIVE"
      /\ cp'[j].zone /\ cp'[j].final = Content[w]
  BY <1>1, <1>2 DEF Done, ServerMono, TableMono
<1> QED
  BY <1>4, <1>5, <1>6, <1>7 DEF Done, Begins, Holds

-----------------------------------------------------------------------------
(* One process.                                                            *)

\* What a process has achieved is kept by every step that keeps its token.
Kept(w) ==
    /\ J(w) \in Jobs /\ D(w) \in Docs
    /\ J(w)' = J(w) /\ D(w)' = D(w)
    /\ \A i \in Plan(w) : Delivered(w, i) => Delivered(w, i)'
    /\ cp[J(w)].next >= PlanLength[w] => cp'[J(w)].next >= PlanLength[w]
    /\ cp[J(w)].final = Content[w] => cp'[J(w)].final = Content[w]
    /\ cp[J(w)].zone => cp'[J(w)].zone
    /\ Closed(w) => Closed(w)'
    /\ remote[D(w)].vector = "ACTIVE" => remote'[D(w)].vector = "ACTIVE"

\* A token names a job, and so a document.
LEMMA TokenJob ==
    ASSUME IInv, NEW w \in Workers, token[w] # Null
    PROVE  J(w) \in Jobs /\ D(w) \in Docs
BY DEF IInv, TypeOK, LeaseToken, J, D, Docs

\* What a process has achieved is not undone by a step of tables and server.
LEMMA KeptByAll ==
    ASSUME DInv, NEW w \in Workers, token[w] # Null, token'[w] = token[w],
           TableInv', TableMono, ServerMono
    PROVE  Kept(w)
<1>1. J(w) \in Jobs /\ D(w) \in Docs
  BY TokenJob DEF DInv
<1>2. J(w)' = J(w) /\ D(w)' = D(w)
  BY DEF J, D
<1>3. \A i \in Plan(w) : Delivered(w, i) => Delivered(w, i)'
  BY <1>1, <1>2, PlanFacts DEF Delivered, ServerMono
<1>4. cp[J(w)].next >= PlanLength[w] => cp'[J(w)].next >= PlanLength[w]
  <2>1. /\ cp'[J(w)].next \in 0..BatchCount /\ cp[J(w)].next \in 0..BatchCount
        /\ cp'[J(w)].next >= cp[J(w)].next
    BY <1>1 DEF DInv, TableInv, Checkpoint, TableMono
  <2> QED
    BY <2>1, ConstantFacts, PlanFacts
<1>5. cp[J(w)].final = Content[w] => cp'[J(w)].final = Content[w]
  BY <1>1, PlanFacts DEF TableMono
<1>6. Closed(w) => Closed(w)'
  <2> SUFFICES ASSUME Closed(w) PROVE Closed(w)'
    OBVIOUS
  <2>1. remote'[D(w)].session = "COMPLETED" /\ remote'[D(w)].batches = remote[D(w)].batches
    BY <1>1 DEF Closed, ServerMono
  <2> QED
    BY <1>2, <2>1 DEF Closed, Holds
<1> QED
  BY <1>1, <1>2, <1>3, <1>4, <1>5, <1>6 DEF Kept, TableMono, ServerMono

\* A process that takes no step keeps its part of the invariant.
LEMMA OtherProcess ==
    ASSUME DInv, NEW v \in Workers, token'[v] = token[v], pc'[v] = pc[v],
           loc'[v] = loc[v], exc'[v] = exc[v], checked'[v] = checked[v],
           TableInv', TableMono, ServerMono
    PROVE  LocalInv(v)'
<1>1. LocalInv(v)
  BY DEF DInv, TurnInv
<1>2. Bounds(v)'
  BY <1>1 DEF LocalInv, Bounds
<1>3. CASE token[v] = Null
  BY <1>1, <1>2, <1>3 DEF LocalInv, Progress, Sending, Finishing, Waiting
<1>4. CASE token[v] # Null
  <2>1. Kept(v)
    BY <1>4, KeptByAll
  <2>2. pc[v] \in Sending => \A i \in Batch : i < loc[v].batch => i \in Plan(v)
    BY <1>1, PlanBelow DEF LocalInv, Bounds
  <2>3. Progress(v)'
    BY <1>1, <2>1, <2>2 DEF LocalInv, Bounds, Progress, Whole, Kept, Locals, Sending
  <2> QED
    BY <1>1, <1>2, <2>3 DEF LocalInv
<1> QED
  BY <1>3, <1>4

\* The step of a process, as far as the others see it.
Frame(w) ==
    /\ \E x : pc' = [pc EXCEPT ![w] = x]
    /\ \E x : loc' = [loc EXCEPT ![w] = x]
    /\ \E x : exc' = [exc EXCEPT ![w] = x]
    /\ \E x : checked' = [checked EXCEPT ![w] = x]
    /\ \A v \in Workers \ {w} : token'[v] = token[v]

\* One process moves; the others keep what they have achieved.
LEMMA TurnStep ==
    ASSUME DInv, NEW w \in Workers, Frame(w), LocalInv(w)',
           TableInv', TableMono, ServerMono
    PROVE  TurnInv'
<1>1. \A v \in Workers \ {w} :
         /\ pc'[v] = pc[v] /\ loc'[v] = loc[v] /\ exc'[v] = exc[v] /\ checked'[v] = checked[v]
         /\ token'[v] = token[v]
  BY DEF Frame, DInv, TurnInv
<1>2. \A v \in Workers \ {w} : LocalInv(v)'
  BY <1>1, OtherProcess
<1>3. /\ pc' = [v \in Workers |-> pc'[v]] /\ loc' = [v \in Workers |-> loc'[v]]
      /\ exc' = [v \in Workers |-> exc'[v]] /\ checked' = [v \in Workers |-> checked'[v]]
  BY DEF Frame, DInv, TurnInv
<1> QED
  BY <1>2, <1>3 DEF TurnInv

\* A turn that ends keeps nothing.
LEMMA RaiseLocal ==
    ASSUME DInv, NEW w \in Workers, NEW e \in Exceptions, Raise(w, e),
           token[w] # Null, token'[w] = token[w]
    PROVE  LocalInv(w)'
<1>1. /\ pc'[w] = "failed" /\ loc'[w] = Loc0 /\ exc'[w] = e /\ checked'[w] = FALSE
  BY DEF DInv, TurnInv, Raise, Goto, Local
<1>2. Loc0 \in Locals
  BY ConstantFacts DEF Loc0, Locals
<1>3. Progress(w)' /\ Bounds(w)'
  BY <1>1 DEF Progress, Bounds, Opening, Sending, Finishing, Waiting
<1> QED
  BY <1>1, <1>2, <1>3, LabelFacts DEF LocalInv

\* A process that has left its turn has nothing to keep.
LEMMA IdleLocal ==
    ASSUME DInv, NEW w \in Workers, ToIdle(w), token'[w] = Null
    PROVE  LocalInv(w)'
<1>1. /\ pc'[w] = "idle" /\ loc'[w] = Loc0 /\ exc'[w] = Null /\ checked'[w] = FALSE
  BY DEF DInv, TurnInv, ToIdle, Goto, Local
<1>2. Loc0 \in Locals /\ Loc0.batch = 0
  BY ConstantFacts DEF Loc0, Locals
<1>3. Progress(w)' /\ Bounds(w)'
  BY <1>1, <1>2 DEF Progress, Bounds, Opening, Sending, Finishing, Waiting
<1> QED
  BY <1>1, <1>2, <1>3, LabelFacts DEF LocalInv, Opening

\* A turn changes the program counter and the locals of its process only.
LEMMA TurnFrame ==
    ASSUME DInv, NEW w \in Workers, Turn(w)
    PROVE  Frame(w)
<1>1. \A v \in Workers \ {w} : token'[v] = token[v]
  BY TurnRefines, OwnToken DEF DInv, vars
<1> DEFINE Same(f) == f = [f EXCEPT ![w] = f[w]]
<1>2. Same(pc) /\ Same(loc) /\ Same(exc) /\ Same(checked)
  BY DEF DInv, TurnInv
<1> DEFINE F == /\ \E x : pc' = [pc EXCEPT ![w] = x]
                /\ \E x : loc' = [loc EXCEPT ![w] = x]
                /\ \E x : exc' = [exc EXCEPT ![w] = x]
                /\ \E x : checked' = [checked EXCEPT ![w] = x]
<1>3. UNCHANGED turnVars => F
  BY <1>2 DEF turnVars
<1>4. ASSUME \E x : pc' = [pc EXCEPT ![w] = x],
             UNCHANGED loc \/ \E x : loc' = [loc EXCEPT ![w] = x],
             UNCHANGED exc,
             UNCHANGED checked \/ \E x : checked' = [checked EXCEPT ![w] = x]
      PROVE  F
  BY <1>2, <1>4
<1>5. ASSUME NEW e, Raise(w, e) PROVE F
  BY <1>5 DEF Raise, Goto, Local
<1>6. ToIdle(w) => F
  BY DEF ToIdle, Goto, Local
<1>7. NextBatch(w) /\ UNCHANGED <<exc, checked>> => F
  BY <1>4 DEF NextBatch, Goto, Local
<1> SUFFICES F
  BY <1>1 DEF Frame
<1> HIDE DEF F
<1>8. CASE Begin(w) \/ ClaimJob(w) \/ NoJob(w)
  BY <1>3, <1>4, <1>8 DEF Begin, ClaimJob, NoJob, Goto
<1>9. CASE LoseLease(w) \/ Die(w) \/ CompleteJob(w) \/ HandleFailure(w)
  BY <1>6, <1>9 DEF LoseLease, Die, CompleteJob, HandleFailure
<1>10. CASE ReportStage(w) \/ AssertOwnership(w) \/ CheckWindow(w) \/ RejectPayload(w)
  BY <1>4, <1>5, <1>10 DEF ReportStage, AssertOwnership, CheckWindow, RejectPayload, Goto
<1>11. CASE QueryStatus(w) \/ PersistCompatibility(w) \/ ReadSession(w) \/ BindSession(w)
  BY <1>4, <1>5, <1>11
     DEF QueryStatus, PersistCompatibility, ReadSession, BindSession, Goto, Local
<1>12. CASE CallStart(w) \/ CallAppend(w) \/ CallFinalize(w) \/ CallActivate(w)
  BY <1>4, <1>5, <1>12
     DEF CallStart, CallAppend, CallFinalize, CallActivate, Goto, Local, UseWindow
<1>13. CASE PrepareBatch(w) \/ AcceptBatch(w)
  BY <1>4, <1>5, <1>7, <1>13 DEF PrepareBatch, AcceptBatch, Goto
<1>14. CASE PersistFinalHash(w) \/ PersistZone(w) \/ WaitOwned(w)
  BY <1>4, <1>5, <1>14 DEF PersistFinalHash, PersistZone, WaitOwned, Goto
<1>15. CASE RecordSession(w) \/ RecordReadiness(w) \/ RecordActivation(w)
  BY <1>4, <1>5, <1>15 DEF RecordSession, RecordReadiness, RecordActivation, Goto, Local
<1> QED
  BY <1>8, <1>9, <1>10, <1>11, <1>12, <1>13, <1>14, <1>15 DEF Turn, Proceed

-----------------------------------------------------------------------------
(* The steps of a turn.                                                    *)

\* Everything a step keeps, but for the rows of the queue.
StepInv(w) ==
    /\ LocalInv(w)'
    /\ TableInv' /\ TableMono
    /\ ServerInv' /\ ServerMono
    /\ AcceptedIsDelivered'

\* A step that neither writes the tables nor reaches the server.
LEMMA QuietStep ==
    ASSUME DInv, UNCHANGED <<cp, rows, remote, late>>
    PROVE  /\ TableInv' /\ TableMono
           /\ ServerInv' /\ ServerMono
           /\ AcceptedIsDelivered'
BY TableStutter, ServerStutter DEF DInv, AcceptedIsDelivered

\* A transaction that passes the fence keeps the token.
LEMMA FencedToken ==
    ASSUME NEW w \in Workers, AssertOwned(w) \/ \E stage : AdvanceStage(w, stage)
    PROVE  token[w] # Null /\ token' = token
BY DEF AssertOwned, AdvanceStage, Fenced

\* A process that holds a job is not idle, and conversely.
LEMMA HoldsToken ==
    ASSUME DInv, NEW w \in Workers, pc[w] # "idle"
    PROVE  token[w] # Null /\ J(w) \in Jobs /\ D(w) \in Docs
<1>1. token[w] # Null
  BY DEF DInv, TurnInv, LocalInv
<1> QED
  BY <1>1, TokenJob DEF DInv

\* A move along the program that brings no new duty.
LEMMA Move ==
    ASSUME DInv, NEW w \in Workers, Kept(w), pc[w] # "idle", token'[w] = token[w],
           NEW l \in Labels, l # "idle", pc'[w] = l, loc'[w] = loc[w],
           exc'[w] = exc[w], checked'[w] \in BOOLEAN,
           l \in Opening => pc[w] \in Opening,
           l \in Sending => pc[w] \in Sending \/ pc[w] \in Opening,
           l # "accept",
           l \in Finishing => pc[w] \in Finishing \ {"finalHash", "observe", "record"},
           l \notin {"finalHash", "observe", "record", "bind"},
           l \in Waiting => pc[w] \in Waiting,
           l \in Waiting \ {"vectorStatus", "zone"} => pc[w] \notin {"vectorStatus", "zone"},
           l \in {"zone", "stageReadiness", "stageActivate", "ready"} =>
              pc[w] \in {"zone", "stageReadiness", "stageActivate", "ready"},
           l = "waitRecord" => loc[w].seen # Null,
           l # "complete"
    PROVE  LocalInv(w)'
<1>1. LocalInv(w) /\ token[w] # Null
  BY HoldsToken DEF DInv, TurnInv
<1>2. /\ Opening \cap Sending = {} /\ Opening \cap Finishing = {} /\ Opening \cap Waiting = {}
      /\ Sending \cap Finishing = {} /\ Sending \cap Waiting = {} /\ Finishing \cap Waiting = {}
      /\ "complete" \notin Opening \cup Sending \cup Finishing \cup Waiting
      /\ "failed" \notin Opening \cup Sending \cup Finishing \cup Waiting
      /\ "accept" \in Sending /\ "waitRecord" \in Waiting
  BY DEF Opening, Sending, Finishing, Waiting
<1>3. Progress(w)'
  <2>1. l \in Sending => /\ loc[w].batch \in Plan(w)
                         /\ \A i \in Batch : i < loc[w].batch => Delivered(w, i)'
    <3>1. CASE pc[w] \in Opening
      <4>1. loc[w].batch = 0
        BY <1>1, <3>1 DEF LocalInv, Bounds
      <4>2. Batch \subseteq Nat /\ 0 \in Plan(w)
        BY ConstantFacts, PlanFacts
      <4> QED
        BY <4>1, <4>2
    <3>2. CASE pc[w] \in Sending
      <4>1. loc[w].batch \in Plan(w)
        BY <1>1, <3>2 DEF LocalInv, Bounds
      <4>2. \A i \in Batch : i < loc[w].batch => i \in Plan(w)
        BY <4>1, PlanBelow
      <4> QED
        BY <1>1, <3>2, <4>1, <4>2 DEF LocalInv, Progress, Kept
    <3> QED
      BY <3>1, <3>2
  <2>2. l \in Finishing \cup Waiting =>
           /\ Whole(w)'
           /\ cp'[J(w)].next >= PlanLength[w]
           /\ cp'[J(w)].final = Content[w]
    BY <1>1, <1>2 DEF LocalInv, Progress, Kept, Whole
  <2>3. l \in Waiting =>
           /\ Closed(w)'
           /\ l \notin {"vectorStatus", "zone"} => cp'[J(w)].zone
           /\ loc[w].seen \in Live => remote'[D(w)].vector = "ACTIVE"
    BY <1>1 DEF LocalInv, Progress, Kept
  <2> QED
    BY <1>2, <2>1, <2>2, <2>3 DEF Progress, Kept
<1>4. Bounds(w)'
  <2>1. l \in Opening => loc[w].batch = 0
    BY <1>1 DEF LocalInv, Bounds
  <2>2. l \in Sending => loc[w].batch \in Plan(w)
    BY <1>1, PlanFacts DEF LocalInv, Bounds
  <2>3. l \in Finishing => /\ loc[w].finals < MaxFinalizeAttempts
                           /\ loc[w].polls <= MaxStatusPolls + loc[w].finals
    BY <1>1 DEF LocalInv, Bounds
  <2>4. l \in Waiting => loc[w].polls < MaxActivePolls /\ loc[w].seen \in Observed \cup {Null}
    BY <1>1 DEF LocalInv, Bounds
  <2>5. l \in {"zone", "stageReadiness", "stageActivate", "ready", "waitRecord"} =>
           loc[w].seen \in Observed
    BY <1>1, <1>2, <2>4 DEF LocalInv, Bounds
  <2> QED
    BY <2>1, <2>2, <2>3, <2>4, <2>5 DEF Bounds
<1> QED
  BY <1>1, <1>3, <1>4 DEF LocalInv

\* The transactions that only report a stage or ask for the lease.
LEMMA StageStep ==
    ASSUME DInv, NEW w \in Workers, ReportStage(w) \/ AssertOwnership(w) \/ ReadSession(w)
                                    \/ WaitOwned(w)
    PROVE  StepInv(w)
<1>1. /\ TableInv' /\ TableMono /\ ServerInv' /\ ServerMono /\ AcceptedIsDelivered'
  BY QuietStep DEF ReportStage, AssertOwnership, ReadSession, WaitOwned
<1>2. token[w] # Null /\ token'[w] = token[w]
  BY FencedToken DEF ReportStage, AssertOwnership, ReadSession, WaitOwned
<1>3. Kept(w) /\ LocalInv(w)
  BY <1>1, <1>2, KeptByAll DEF DInv, TurnInv
<1>4. /\ loc'[w] = loc[w] /\ exc'[w] = exc[w] /\ checked'[w] = checked[w]
      /\ checked'[w] \in BOOLEAN /\ pc[w] # "idle"
  BY <1>2, <1>3 DEF ReportStage, AssertOwnership, ReadSession, WaitOwned, LocalInv
<1>5. CASE ReportStage(w)
  <2>1. pc[w] \in DOMAIN StageAt /\ pc'[w] = StageAt[pc[w]][2]
    BY <1>5 DEF ReportStage, Goto, DInv, TurnInv
  <2> QED
    BY <1>1, <1>2, <1>3, <1>4, <2>1, Move, LabelFacts
       DEF StepInv, StageAt, Opening, Sending, Finishing, Waiting
<1>6. CASE AssertOwnership(w)
  <2>1. pc[w] \in DOMAIN OwnedAt /\ pc'[w] = OwnedAt[pc[w]]
    BY <1>6 DEF AssertOwnership, Goto, DInv, TurnInv
  <2> QED
    BY <1>1, <1>2, <1>3, <1>4, <2>1, Move, LabelFacts
       DEF StepInv, OwnedAt, Opening, Sending, Finishing, Waiting
<1>7. CASE ReadSession(w)
  <2>1. pc[w] = "session" /\ pc'[w] \in {"stageAppend", "stageStart"}
    BY <1>7 DEF ReadSession, Goto, DInv, TurnInv
  <2> QED
    BY <1>1, <1>2, <1>3, <1>4, <2>1, Move, LabelFacts
       DEF StepInv, Opening, Sending, Finishing, Waiting
<1>8. CASE WaitOwned(w)
  <2>1. pc[w] = "waitOwn" /\ pc'[w] = IF loc[w].seen = Null THEN "pollActive" ELSE "waitRecord"
    BY <1>8 DEF WaitOwned, Goto, DInv, TurnInv
  <2> QED
    BY <1>1, <1>2, <1>3, <1>4, <2>1, Move, LabelFacts
       DEF StepInv, Opening, Sending, Finishing, Waiting
<1> QED
  BY <1>5, <1>6, <1>7, <1>8

\* The steps that begin or end a turn.
LEMMA BoundaryStep ==
    ASSUME DInv, NEW w \in Workers,
           Begin(w) \/ ClaimJob(w) \/ NoJob(w) \/ LoseLease(w) \/ Die(w)
           \/ CompleteJob(w) \/ HandleFailure(w)
    PROVE  StepInv(w)
<1>1. /\ TableInv' /\ TableMono /\ ServerInv' /\ ServerMono /\ AcceptedIsDelivered'
  BY QuietStep DEF Begin, ClaimJob, NoJob, LoseLease, Die, CompleteJob, HandleFailure
<1>2. LocalInv(w)
  BY DEF DInv, TurnInv
<1>3. CASE Begin(w) \/ NoJob(w)
  <2>1. token'[w] = token[w]
    BY <1>3 DEF Begin, NoJob, BeginTx, ClaimNothing
  <2>2. LocalInv(w)'
    BY <1>1, <1>3, <2>1, OtherProcess DEF Begin, NoJob, turnVars
  <2> QED
    BY <1>1, <2>2 DEF StepInv
<1>4. CASE ClaimJob(w)
  <2>1. /\ pc[w] = "idle" /\ pc'[w] = "load" /\ loc'[w] = loc[w] /\ exc'[w] = exc[w]
        /\ checked'[w] = checked[w]
    BY <1>4 DEF ClaimJob, Goto, DInv, TurnInv
  <2>2. IInv'
    BY <1>4, ClaimStep DEF ClaimJob, DInv
  <2>3. token'[w] # Null
    <3>1. PICK j \in Jobs : ClaimNext(w, j)
      BY <1>4 DEF ClaimJob
    <3>2. token'[w] = [job |-> j, worker |-> WorkerId[w], gen |-> job[j].gen + 1,
                       attempt |-> job[j].attempts + 1]
      BY <3>1 DEF ClaimNext, DInv, IInv, TypeOK
    <3>3. token'[w] \in LeaseToken
      BY <3>2 DEF DInv, IInv, TypeOK, JobRow, LeaseToken, Ids
    <3> QED
      BY <3>3, NullFacts
  <2>4. Progress(w)' /\ Bounds(w)'
    BY <1>2, <2>1 DEF LocalInv, Progress, Bounds, Opening, Sending, Finishing, Waiting
  <2> QED
    BY <1>1, <1>2, <2>1, <2>3, <2>4, LabelFacts DEF StepInv, LocalInv, Opening
<1>5. CASE LoseLease(w) \/ Die(w) \/ CompleteJob(w) \/ HandleFailure(w)
  <2>1. ASSUME NEW status, NEW retry, Finish(w, status, retry)
        PROVE  token' = [token EXCEPT ![w] = Null]
    BY <2>1 DEF Finish
  <2>2. token' = [token EXCEPT ![w] = Null] /\ ToIdle(w)
    BY <1>5, <2>1 DEF LoseLease, Die, CompleteJob, HandleFailure, Abandon, Crash, Complete,
                      Reconcile, ScheduleRetry, DeadLetter, FailPermanently
  <2>3. token'[w] = Null
    BY <2>2 DEF DInv, IInv, TypeOK
  <2> QED
    BY <1>1, <2>2, <2>3, IdleLocal DEF StepInv
<1> QED
  BY <1>3, <1>4, <1>5

\* A payload that cannot be planned.
LEMMA RejectStep ==
    ASSUME DInv, NEW w \in Workers, RejectPayload(w)
    PROVE  StepInv(w)
<1>1. /\ TableInv' /\ TableMono /\ ServerInv' /\ ServerMono /\ AcceptedIsDelivered'
  BY QuietStep DEF RejectPayload
<1>2. token[w] # Null /\ token'[w] = token[w]
  BY HoldsToken DEF RejectPayload, vars
<1>3. LocalInv(w)'
  BY <1>2, RaiseLocal, ExceptionFacts DEF RejectPayload, Raised
<1> QED
  BY <1>1, <1>3 DEF StepInv

\* The check of the lease window before a mutating call.
LEMMA WindowStep ==
    ASSUME DInv, NEW w \in Workers, CheckWindow(w)
    PROVE  StepInv(w)
<1>1. /\ TableInv' /\ TableMono /\ ServerInv' /\ ServerMono /\ AcceptedIsDelivered'
  BY QuietStep DEF CheckWindow
<1>2. token[w] # Null /\ token'[w] = token[w] /\ pc[w] # "idle"
  BY FencedToken DEF CheckWindow, WindowAt
<1>3. Kept(w)
  BY <1>1, <1>2, KeptByAll
<1>4. CASE Raise(w, Error("LeaseRpcWindowTooShort"))
  BY <1>1, <1>2, <1>4, RaiseLocal, ExceptionFacts DEF StepInv, Raised
<1>5. CASE /\ Goto(w, WindowAt[pc[w]])
           /\ checked' = [checked EXCEPT ![w] = TRUE]
           /\ UNCHANGED <<loc, exc>>
  <2>1. pc[w] \in DOMAIN WindowAt /\ pc'[w] = WindowAt[pc[w]] /\ checked'[w] = TRUE
    BY <1>5 DEF CheckWindow, Goto, DInv, TurnInv
  <2>2. \/ pc[w] = "windowStart" /\ pc'[w] = "start"
        \/ pc[w] = "windowAppend" /\ pc'[w] = "append"
        \/ pc[w] = "windowFinalize" /\ pc'[w] = "finalize"
    BY <2>1 DEF WindowAt
  <2>3. /\ pc'[w] \in Labels /\ loc'[w] = loc[w] /\ exc'[w] = exc[w]
        /\ pc'[w] \notin Waiting
        /\ pc'[w] \notin {"idle", "accept", "finalHash", "observe", "record", "bind", "complete",
                         "zone", "stageReadiness", "stageActivate", "ready", "waitRecord"}
    BY <1>5, <2>2, LabelFacts DEF Opening, Sending, Finishing, Waiting
  <2>4. /\ pc'[w] \in Opening => pc[w] \in Opening
        /\ pc'[w] \in Sending => pc[w] \in Sending
        /\ pc'[w] \in Finishing => pc[w] \in Finishing \ {"finalHash", "observe", "record"}
    BY <2>2 DEF Opening, Sending, Finishing
  <2>5. LocalInv(w)'
    BY <1>2, <1>3, <2>1, <2>3, <2>4, Move
  <2> QED
    BY <1>1, <2>5 DEF StepInv
<1> QED
  BY <1>4, <1>5 DEF CheckWindow

\* A move after Finalize.
LEMMA WaitingLocal ==
    ASSUME DInv, NEW w \in Workers, Kept(w), token'[w] = token[w],
           pc[w] \in Waiting, NEW l \in Waiting \cup {"complete"}, pc'[w] = l,
           l \notin {"vectorStatus", "zone"} => cp'[J(w)].zone,
           NEW m \in Locals, loc'[w] = m,
           m.polls < MaxActivePolls,
           m.seen \in Observed \cup {Null},
           l \in {"zone", "stageReadiness", "stageActivate", "ready", "waitRecord"} =>
              m.seen \in Observed,
           m.seen \in Live \/ l = "complete" => remote'[D(w)].vector = "ACTIVE",
           exc'[w] = exc[w], checked'[w] = checked[w]
    PROVE  LocalInv(w)'
<1>1. LocalInv(w) /\ token[w] # Null
  BY HoldsToken DEF DInv, TurnInv, Waiting
<1>2. l \notin Opening \cup Sending \cup Finishing /\ l \notin {"accept", "bind", "record", "observe"}
  BY DEF Opening, Sending, Finishing, Waiting
<1>3. /\ Whole(w)'
      /\ cp'[J(w)].next >= PlanLength[w] /\ cp'[J(w)].final = Content[w]
      /\ Closed(w)'
  BY <1>1 DEF LocalInv, Progress, Kept, Whole
<1>4. Progress(w)'
  BY <1>2, <1>3 DEF Progress, Kept
<1>5. Bounds(w)'
  BY <1>2 DEF Bounds
<1>6. l \in Labels /\ l # "idle"
  BY LabelFacts DEF Waiting
<1> QED
  BY <1>1, <1>4, <1>5, <1>6 DEF LocalInv

\* An observed status is what AstraVector held, and ACTIVE is for good.
LEMMA QueryStep ==
    ASSUME DInv, NEW w \in Workers, QueryStatus(w)
    PROVE  StepInv(w)
<1>1. /\ TableInv' /\ TableMono /\ ServerInv' /\ ServerMono /\ AcceptedIsDelivered'
  BY QuietStep DEF QueryStatus
<1>2. token[w] # Null /\ token'[w] = token[w] /\ pc[w] # "idle" /\ D(w) \in Docs
  BY HoldsToken DEF QueryStatus, QueryAt, vars
<1>3. Kept(w) /\ LocalInv(w)
  BY <1>1, <1>2, KeptByAll DEF DInv, TurnInv
<1>4. CASE \E e \in Lost : Raise(w, e)
  BY <1>1, <1>2, <1>4, RaiseLocal, ExceptionFacts DEF StepInv
<1> DEFINE r == remote[D(w)]
<1>5. ASSUME NEW s \in IF pc[w] = "observe" THEN {r.session} ELSE Reports(r.vector),
             Local(w, [loc[w] EXCEPT !.seen = s]),
             Goto(w, QueryAt[pc[w]]),
             UNCHANGED <<exc, checked>>
      PROVE  StepInv(w)
  <2>1. r.session \in Sessions /\ r.vector \in Vectors
    BY <1>2 DEF DInv, ServerInv, RemoteDoc
  <2>2. /\ pc[w] \in DOMAIN QueryAt /\ pc'[w] = QueryAt[pc[w]]
        /\ loc'[w] = [loc[w] EXCEPT !.seen = s] /\ exc'[w] = exc[w] /\ checked'[w] = checked[w]
    BY <1>5 DEF QueryStatus, Goto, Local, DInv, TurnInv
  <2>3. IF pc[w] = "observe" THEN s \in Sessions
        ELSE s \in Observed /\ (s \in Live => r.vector = "ACTIVE")
    BY <1>5, <2>1 DEF Reports, Observed, Vectors, Live
  <2>4. /\ loc'[w] \in Locals /\ loc'[w].seen = s /\ loc'[w].polls = loc[w].polls
        /\ loc'[w].finals = loc[w].finals /\ loc'[w].batch = loc[w].batch
    BY <1>3, <2>2, <2>3 DEF LocalInv, Locals
  <2>5. CASE pc[w] = "observe"
    <3>1. pc'[w] = "record" /\ s \in Sessions
      BY <2>2, <2>3, <2>5 DEF QueryAt
    <3>2. Progress(w)'
      BY <1>3, <2>5, <3>1 DEF LocalInv, Progress, Kept, Whole, Sending, Finishing, Waiting
    <3>3. Bounds(w)'
      BY <1>3, <2>4, <2>5, <3>1 DEF LocalInv, Bounds, Opening, Sending, Finishing, Waiting
    <3> QED
      BY <1>1, <1>2, <1>3, <2>2, <2>4, <3>1, <3>2, <3>3, LabelFacts
         DEF StepInv, LocalInv, Finishing
  <2>6. CASE pc[w] # "observe"
    <3>1. /\ pc[w] \in Waiting /\ pc'[w] \in {"zone", "ready", "waitOwn", "waitRecord"}
          /\ s \in Observed
          /\ pc'[w] # "zone" => pc[w] \notin {"vectorStatus", "zone"}
      BY <2>2, <2>3, <2>6 DEF QueryAt, Waiting
    <3>2. s \in Live => remote'[D(w)].vector = "ACTIVE"
      BY <1>3, <2>3, <2>6 DEF Kept
    <3>3. cp[J(w)].zone => cp'[J(w)].zone
      BY <1>3 DEF Kept
    <3>4. pc'[w] # "zone" => cp'[J(w)].zone
      <4>1. pc[w] \in Waiting \ {"vectorStatus", "zone"} => cp[J(w)].zone
        BY <1>3 DEF LocalInv, Progress
      <4> QED
        BY <3>1, <3>3, <4>1
    <3>5. loc[w].polls < MaxActivePolls
      BY <1>3, <3>1 DEF LocalInv, Bounds
    <3>6. pc'[w] \in Waiting
      BY <3>1 DEF Waiting
    <3>7. loc'[w].seen \in Observed /\ (loc'[w].seen \in Live => remote'[D(w)].vector = "ACTIVE")
      BY <2>4, <3>1, <3>2
    <3>8. LocalInv(w)'
      BY <1>2, <1>3, <2>2, <2>4, <3>1, <3>4, <3>5, <3>6, <3>7, WaitingLocal
    <3> QED
      BY <1>1, <3>8 DEF StepInv
  <2> QED
    BY <2>5, <2>6
<1> QED
  BY <1>4, <1>5 DEF QueryStatus

\* Fenced writes of the checkpoint: a fingerprint or a session where there was
\* none, and a zone.
LEMMA SessionStep ==
    ASSUME DInv, NEW w \in Workers, PersistCompatibility(w) \/ BindSession(w)
    PROVE  StepInv(w)
<1>1. token[w] # Null /\ token'[w] = token[w] /\ pc[w] # "idle" /\ J(w) \in Jobs
  BY HoldsToken, FencedToken DEF PersistCompatibility, BindSession
<1>2. LocalInv(w) /\ cp[J(w)] \in Checkpoint
  BY <1>1 DEF DInv, TurnInv, TableInv
<1>3. ServerInv' /\ ServerMono /\ TableInv /\ UNCHANGED rows
  BY ServerStutter DEF DInv, PersistCompatibility, BindSession
<1>4. AcceptedIsDelivered'
  BY <1>3, DeliveredStays DEF DInv
<1>5. CASE PersistCompatibility(w) /\ Raise(w, Error("DeliveryIntegrityError"))
  <2>1. TableInv' /\ TableMono
    BY <1>1, <1>3, <1>5, TableStutter DEF PersistCompatibility, Raise, Goto, DInv, TurnInv
  <2> QED
    BY <1>1, <1>3, <1>4, <1>5, <2>1, RaiseLocal, ExceptionFacts DEF StepInv, Raised
<1>6. CASE /\ pc[w] = "compat" /\ cp[J(w)].compat \in {Null, Compat[w]}
           /\ cp' = [cp EXCEPT ![J(w)].compat = Compat[w]]
           /\ Goto(w, "session")
           /\ UNCHANGED <<loc, exc, checked>>
  <2> DEFINE c == [cp[J(w)] EXCEPT !.compat = Compat[w]]
  <2>1. c \in Checkpoint /\ c.compat = Compat[w] /\ c.session = cp[J(w)].session
        /\ c.next = cp[J(w)].next /\ c.final = cp[J(w)].final /\ c.zone = cp[J(w)].zone
    BY <1>2 DEF Checkpoint
  <2>2. cp' = [cp EXCEPT ![J(w)] = c]
    BY <1>6
  <2> HIDE DEF c
  <2>3. TableInv' /\ TableMono
    <3>1. cp[J(w)].compat # Null => c.compat = cp[J(w)].compat
      BY <1>6, <2>1
    <3> QED
      BY <1>1, <1>3, <2>1, <2>2, <3>1, CheckpointStep
  <2>4. pc'[w] = "session" /\ loc'[w] = loc[w] /\ exc'[w] = exc[w] /\ checked'[w] \in BOOLEAN
    BY <1>2, <1>6 DEF Goto, DInv, TurnInv, LocalInv
  <2>5. Kept(w)
    BY <1>1, <1>3, <2>3, KeptByAll
  <2>6. LocalInv(w)'
    BY <1>1, <1>6, <2>4, <2>5, Move, LabelFacts DEF Opening, Sending, Finishing, Waiting
  <2> QED
    BY <1>3, <1>4, <2>3, <2>6 DEF StepInv
<1>7. CASE BindSession(w)
  <2> DEFINE c == [cp[J(w)] EXCEPT !.session = TRUE, !.status = loc[w].seen]
  <2>1. loc[w].seen \in Sessions
    BY <1>2, <1>7 DEF BindSession, LocalInv, Bounds
  <2>2. c \in Checkpoint /\ c.compat = cp[J(w)].compat /\ c.session
        /\ c.next = cp[J(w)].next /\ c.final = cp[J(w)].final /\ c.zone = cp[J(w)].zone
    BY <1>2, <2>1 DEF Checkpoint
  <2>3. cp' = [cp EXCEPT ![J(w)] = c]
    BY <1>7 DEF BindSession
  <2> HIDE DEF c
  <2>4. TableInv' /\ TableMono
    BY <1>1, <1>3, <2>2, <2>3, CheckpointStep
  <2>5. pc'[w] = "stageAppend" /\ loc'[w] = Loc0 /\ exc'[w] = exc[w] /\ checked'[w] = checked[w]
    BY <1>7 DEF BindSession, Goto, Local, DInv, TurnInv
  <2>6. Progress(w)' /\ Bounds(w)' /\ Loc0 \in Locals
    BY <2>5, ConstantFacts DEF Progress, Bounds, Loc0, Locals, Opening, Sending, Finishing, Waiting
  <2>7. LocalInv(w)'
    BY <1>1, <1>2, <2>5, <2>6, LabelFacts DEF LocalInv, Opening
  <2> QED
    BY <1>3, <1>4, <2>4, <2>7 DEF StepInv
<1> QED
  BY <1>5, <1>6, <1>7 DEF PersistCompatibility

\* The access zone is persisted.
LEMMA ZoneStep ==
    ASSUME DInv, NEW w \in Workers, PersistZone(w)
    PROVE  StepInv(w)
<1>1. token[w] # Null /\ token'[w] = token[w] /\ pc[w] = "zone" /\ J(w) \in Jobs
  BY HoldsToken, FencedToken DEF PersistZone
<1>2. LocalInv(w) /\ cp[J(w)] \in Checkpoint
  BY <1>1 DEF DInv, TurnInv, TableInv
<1>3. ServerInv' /\ ServerMono /\ TableInv /\ UNCHANGED rows
  BY ServerStutter DEF DInv, PersistZone
<1>4. AcceptedIsDelivered'
  BY <1>3, DeliveredStays DEF DInv
<1> DEFINE c == [cp[J(w)] EXCEPT !.zone = TRUE]
<1>5. c \in Checkpoint /\ c.compat = cp[J(w)].compat /\ c.session = cp[J(w)].session
      /\ c.next = cp[J(w)].next /\ c.final = cp[J(w)].final /\ c.zone
  BY <1>2 DEF Checkpoint
<1>6. cp' = [cp EXCEPT ![J(w)] = c]
  BY DEF PersistZone
<1> HIDE DEF c
<1>7. TableInv' /\ TableMono
  BY <1>1, <1>3, <1>5, <1>6, CheckpointStep
<1>8. Kept(w)
  BY <1>1, <1>3, <1>7, KeptByAll
<1>9. /\ pc'[w] = "stageReadiness" /\ loc'[w] = loc[w] /\ exc'[w] = exc[w]
      /\ checked'[w] = checked[w] /\ cp'[J(w)].zone
  BY <1>1, <1>5, <1>6 DEF PersistZone, Goto, DInv, TurnInv, TableInv
<1>10. /\ loc[w] \in Locals /\ loc[w].polls < MaxActivePolls /\ loc[w].seen \in Observed
       /\ loc[w].seen \in Live => remote'[D(w)].vector = "ACTIVE"
  BY <1>1, <1>2, <1>8 DEF LocalInv, Bounds, Progress, Kept, Waiting
<1>11. LocalInv(w)'
  BY <1>1, <1>8, <1>9, <1>10, WaitingLocal DEF Waiting
<1> QED
  BY <1>3, <1>4, <1>7, <1>11 DEF StepInv

\* The statuses a process records, in transactions without a fence, are not
\* evidence: the rest of the checkpoint stays.
LEMMA StatusWrite ==
    ASSUME DInv, NEW w \in Workers, J(w) \in Jobs,
           NEW s, \/ s \in Sessions /\ cp' = [cp EXCEPT ![J(w)].status = s]
                  \/ s \in Observed /\ cp' = [cp EXCEPT ![J(w)].vector = s],
           UNCHANGED <<rows, remote, late>>
    PROVE  /\ TableInv' /\ TableMono
           /\ ServerInv' /\ ServerMono
           /\ AcceptedIsDelivered'
<1>1. ServerInv' /\ ServerMono /\ TableInv /\ cp[J(w)] \in Checkpoint
  BY ServerStutter DEF DInv, TableInv
<1>2. AcceptedIsDelivered'
  BY <1>1, DeliveredStays DEF DInv
<1>3. CASE s \in Sessions /\ cp' = [cp EXCEPT ![J(w)].status = s]
  <2> DEFINE c == [cp[J(w)] EXCEPT !.status = s]
  <2>1. c \in Checkpoint /\ c.compat = cp[J(w)].compat /\ c.session = cp[J(w)].session
        /\ c.next = cp[J(w)].next /\ c.final = cp[J(w)].final /\ c.zone = cp[J(w)].zone
    BY <1>1, <1>3 DEF Checkpoint
  <2>2. cp' = [cp EXCEPT ![J(w)] = c]
    BY <1>3
  <2> HIDE DEF c
  <2> QED
    BY <1>1, <1>2, <2>1, <2>2, CheckpointStep
<1>4. CASE s \in Observed /\ cp' = [cp EXCEPT ![J(w)].vector = s]
  <2> DEFINE c == [cp[J(w)] EXCEPT !.vector = s]
  <2>1. c \in Checkpoint /\ c.compat = cp[J(w)].compat /\ c.session = cp[J(w)].session
        /\ c.next = cp[J(w)].next /\ c.final = cp[J(w)].final /\ c.zone = cp[J(w)].zone
    BY <1>1, <1>4 DEF Checkpoint
  <2>2. cp' = [cp EXCEPT ![J(w)] = c]
    BY <1>4
  <2> HIDE DEF c
  <2> QED
    BY <1>1, <1>2, <2>1, <2>2, CheckpointStep
<1> QED
  BY <1>3, <1>4

\* After RecordReadiness and RecordActivation.
LEMMA ReadinessStep ==
    ASSUME DInv, NEW w \in Workers, RecordReadiness(w) \/ RecordActivation(w)
    PROVE  StepInv(w)
<1>1. /\ token[w] # Null /\ token'[w] = token[w] /\ pc[w] \in {"ready", "waitRecord"}
      /\ J(w) \in Jobs
  BY HoldsToken DEF RecordReadiness, RecordActivation, vars
<1>2. LocalInv(w) /\ loc[w].seen \in Observed /\ loc[w] \in Locals
  BY <1>1 DEF DInv, TurnInv, LocalInv, Bounds
<1>3. /\ TableInv' /\ TableMono /\ ServerInv' /\ ServerMono /\ AcceptedIsDelivered'
  BY <1>1, <1>2, StatusWrite DEF RecordReadiness, RecordActivation
<1>4. Kept(w)
  BY <1>1, <1>3, KeptByAll
<1>5. cp'[J(w)].zone /\ (loc[w].seen \in Live => remote'[D(w)].vector = "ACTIVE")
  BY <1>1, <1>2, <1>4 DEF LocalInv, Progress, Kept, Waiting
<1>6. /\ loc[w].polls < MaxActivePolls /\ loc[w].polls \in Nat
      /\ Null \notin Live /\ MaxActivePolls \in Nat
  BY <1>1, <1>2, ConstantFacts DEF LocalInv, Bounds, Locals, Waiting
<1>7. ASSUME NEW n \in Raised, Raise(w, Error(n)) PROVE StepInv(w)
  BY <1>1, <1>3, <1>7, RaiseLocal, ExceptionFacts DEF StepInv
<1>8. ASSUME NEW l \in {"complete", "ownActivate"}, Goto(w, l), Local(w, Loc0),
             UNCHANGED <<exc, checked>>, l = "complete" => loc[w].seen \in Live
      PROVE  StepInv(w)
  <2>1. pc'[w] = l /\ loc'[w] = Loc0 /\ exc'[w] = exc[w] /\ checked'[w] = checked[w]
    BY <1>8 DEF Goto, Local, DInv, TurnInv
  <2>2. Loc0 \in Locals /\ Loc0.polls < MaxActivePolls /\ Loc0.seen = Null
    BY ConstantFacts DEF Loc0, Locals
  <2>3. LocalInv(w)'
    BY <1>1, <1>4, <1>5, <1>6, <1>8, <2>1, <2>2, WaitingLocal DEF Waiting
  <2> QED
    BY <1>3, <2>3 DEF StepInv
<1>9. ASSUME NEW l \in {"pollReady", "waitOwn"}, Goto(w, l),
             Local(w, [loc[w] EXCEPT !.polls = loc[w].polls + 1, !.seen = Null]),
             loc[w].polls + 1 < MaxActivePolls, UNCHANGED <<exc, checked>>
      PROVE  StepInv(w)
  <2> DEFINE m == [loc[w] EXCEPT !.polls = loc[w].polls + 1, !.seen = Null]
  <2>1. pc'[w] = l /\ loc'[w] = m /\ exc'[w] = exc[w] /\ checked'[w] = checked[w]
    BY <1>9 DEF Goto, Local, DInv, TurnInv
  <2>2. loc[w].polls + 1 \in 0..MaxPolls
    BY <1>6, <1>9, ConstantFacts
  <2>3. m \in Locals /\ m.polls = loc[w].polls + 1 /\ m.seen = Null
    BY <1>2, <2>2 DEF Locals
  <2> HIDE DEF m
  <2>4. LocalInv(w)'
    BY <1>1, <1>4, <1>5, <1>6, <1>9, <2>1, <2>3, WaitingLocal DEF Waiting
  <2> QED
    BY <1>3, <2>4 DEF StepInv
<1>10. CASE RecordReadiness(w)
  <2>1. Readiness(loc[w].seen, TRUE) = "SEARCHABLE" => loc[w].seen \in Live
    BY <1>2 DEF Readiness, Observed, Vectors, Live
  <2> QED
    BY <1>7, <1>8, <1>9, <1>10, <2>1 DEF RecordReadiness, Raised
<1>11. CASE RecordActivation(w)
  <2>1. Readiness(loc[w].seen, FALSE) = "SEARCHABLE" => loc[w].seen \in Live
    BY <1>2 DEF Readiness, Observed, Vectors, Live
  <2> QED
    BY <1>7, <1>8, <1>9, <1>11, <2>1 DEF RecordActivation, Raised
<1> QED
  BY <1>10, <1>11

\* A call leaves the tables alone.
LEMMA CallTables ==
    ASSUME DInv, ServerMono, UNCHANGED <<cp, rows>>
    PROVE  TableInv' /\ TableMono /\ AcceptedIsDelivered'
BY TableStutter, DeliveredStays DEF DInv

\* Start, answered, refused or lost.
LEMMA StartStep ==
    ASSUME DInv, NEW w \in Workers, CallStart(w)
    PROVE  StepInv(w)
<1>1. /\ token[w] # Null /\ token'[w] = token[w] /\ pc[w] = "start" /\ D(w) \in Docs
      /\ LocalInv(w)
  BY HoldsToken DEF CallStart, vars, DInv, TurnInv
<1>2. StartCall(w) \in Calls /\ StartCall(w).op = "start"
  BY <1>1, ConstantFacts DEF StartCall, Calls
<1>3. ServerInv' /\ ServerMono
  BY <1>2, CallStep DEF CallStart, DInv, Honest
<1>4. TableInv' /\ TableMono /\ AcceptedIsDelivered'
  BY <1>3, CallTables DEF CallStart
<1>5. CASE \E e \in Failures(StartCall(w)) : Raise(w, e)
  BY <1>1, <1>3, <1>4, <1>5, RaiseLocal, ExceptionFacts DEF StepInv, Failures
<1> DEFINE s == remote'[D(w)].session
<1>6. CASE /\ Goto(w, "bind") /\ Local(w, [loc[w] EXCEPT !.seen = s])
           /\ UseWindow(w) /\ UNCHANGED exc
  <2>1. s \in Sessions
    BY <1>1, <1>3 DEF ServerInv, RemoteDoc
  <2> HIDE DEF s
  <2>2. /\ pc'[w] = "bind" /\ loc'[w] = [loc[w] EXCEPT !.seen = s] /\ exc'[w] = exc[w]
        /\ checked'[w] = FALSE
    BY <1>6 DEF Goto, Local, UseWindow, DInv, TurnInv
  <2>3. loc'[w] \in Locals /\ loc'[w].seen = s /\ loc'[w].batch = loc[w].batch
    BY <1>1, <2>1, <2>2 DEF LocalInv, Locals
  <2>4. loc[w].batch = 0
    BY <1>1 DEF LocalInv, Bounds, Opening
  <2>5. Progress(w)' /\ Bounds(w)'
    BY <2>1, <2>2, <2>3, <2>4 DEF Progress, Bounds, Opening, Sending, Finishing, Waiting
  <2>6. LocalInv(w)'
    BY <1>1, <2>2, <2>3, <2>5, LabelFacts DEF LocalInv, Opening
  <2> QED
    BY <1>3, <1>4, <2>6 DEF StepInv
<1> QED
  BY <1>5, <1>6 DEF CallStart

\* Activate, answered, refused or lost.
LEMMA ActivateStep ==
    ASSUME DInv, NEW w \in Workers, CallActivate(w)
    PROVE  StepInv(w)
<1>1. /\ token[w] # Null /\ token'[w] = token[w] /\ pc[w] = "activate" /\ D(w) \in Docs
      /\ LocalInv(w)
  BY HoldsToken DEF CallActivate, vars, DInv, TurnInv
<1>2. ActivateCall(w) \in Calls /\ ActivateCall(w).op = "activate"
  BY <1>1, ConstantFacts DEF ActivateCall, Calls
<1>3. ServerInv' /\ ServerMono
  BY <1>2, CallStep DEF CallActivate, DInv, Honest
<1>4. TableInv' /\ TableMono /\ AcceptedIsDelivered'
  BY <1>3, CallTables DEF CallActivate
<1>5. Kept(w)
  BY <1>1, <1>3, <1>4, KeptByAll
<1>6. /\ pc'[w] \in {"ownActive", "activeStatus"} /\ loc'[w] = loc[w] /\ exc'[w] = exc[w]
      /\ checked'[w] \in BOOLEAN
  BY <1>1 DEF CallActivate, Goto, DInv, TurnInv, LocalInv
<1>7. LocalInv(w)'
  BY <1>1, <1>5, <1>6, Move, LabelFacts DEF Opening, Sending, Finishing, Waiting
<1> QED
  BY <1>3, <1>4, <1>7 DEF StepInv

\* An acknowledged Append is in the document.
LEMMA AppendStep ==
    ASSUME DInv, NEW w \in Workers, CallAppend(w)
    PROVE  StepInv(w)
<1>1. /\ token[w] # Null /\ token'[w] = token[w] /\ pc[w] = "append" /\ D(w) \in Docs
      /\ LocalInv(w) /\ loc[w].batch \in Plan(w) /\ loc[w].batch \in Batch
  BY HoldsToken, PlanFacts DEF CallAppend, vars, DInv, TurnInv, LocalInv, Bounds, Sending
<1> DEFINE c == AppendCall(w)
<1>2. /\ c \in Calls /\ c.op = "append" /\ c.doc = D(w) /\ c.batch = loc[w].batch
      /\ c.hash = Content[w][loc[w].batch]
  BY <1>1, PlanFacts DEF AppendCall, Calls
<1>3. ServerInv' /\ ServerMono
  <2>1. \A i \in Batch : i < c.batch => remote[c.doc].batches[i] = Content[w][i]
    BY <1>1, <1>2 DEF LocalInv, Progress, Delivered, Sending
  <2>2. Honest(c, remote[c.doc].batches)
    BY <1>1, <1>2, <2>1 DEF Honest
  <2> QED
    BY <1>2, <2>2, CallStep DEF CallAppend, DInv
<1>4. TableInv' /\ TableMono /\ AcceptedIsDelivered'
  BY <1>3, CallTables DEF CallAppend
<1>5. CASE \E e \in Failures(c) : Raise(w, e)
  BY <1>1, <1>3, <1>4, <1>5, RaiseLocal, ExceptionFacts DEF StepInv, Failures
<1>6. CASE Acked(c) /\ Goto(w, "accept") /\ UseWindow(w) /\ UNCHANGED <<loc, exc>>
  <2>1. /\ pc'[w] = "accept" /\ loc'[w] = loc[w] /\ exc'[w] = exc[w] /\ checked'[w] = FALSE
    BY <1>6 DEF Goto, UseWindow, DInv, TurnInv
  <2>2. Kept(w)
    BY <1>1, <1>3, <1>4, KeptByAll
  <2>3. remote'[D(w)].batches[loc[w].batch] = Content[w][loc[w].batch]
    <3>1. remote' = [remote EXCEPT ![c.doc] = Effect(c)]
      BY <1>6 DEF Acked, Apply, Effect
    <3>2. Effect(c) = [remote[c.doc] EXCEPT !.batches[c.batch] = c.hash]
      BY <1>2 DEF Effect
    <3>3. remote \in [Docs -> RemoteDoc]
      BY DEF DInv, ServerInv
    <3> QED
      BY <1>1, <1>2, <3>1, <3>2, <3>3 DEF RemoteDoc
  <2>4. Delivered(w, loc[w].batch)'
    BY <2>1, <2>2, <2>3 DEF Delivered, Kept
  <2>5. \A i \in Batch : i < loc[w].batch => Delivered(w, i)'
    <3>1. \A i \in Batch : i < loc[w].batch => i \in Plan(w)
      BY <1>1, PlanBelow
    <3> QED
      BY <1>1, <2>2, <3>1 DEF LocalInv, Progress, Sending, Kept
  <2>6. Progress(w)' /\ Bounds(w)'
    BY <1>1, <2>1, <2>4, <2>5 DEF Progress, Bounds, Opening, Sending, Finishing, Waiting
  <2>7. LocalInv(w)'
    BY <1>1, <2>1, <2>6, LabelFacts DEF LocalInv, Sending
  <2> QED
    BY <1>3, <1>4, <2>7 DEF StepInv
<1> QED
  BY <1>5, <1>6 DEF CallAppend

\* The loop over the batches leaves only whole plans behind.
LEMMA NextBatchLocal ==
    ASSUME DInv, NEW w \in Workers, pc[w] \in {"prepare", "accept"}, token'[w] = token[w],
           Kept(w), TableInv', NextBatch(w), UNCHANGED <<exc, checked>>,
           remote'[D(w)].batches[loc[w].batch] = Content[w][loc[w].batch],
           cp'[J(w)].next > loc[w].batch
    PROVE  LocalInv(w)'
<1>1. LocalInv(w) /\ token[w] # Null
  BY HoldsToken DEF DInv, TurnInv
<1>2. /\ loc[w] \in Locals /\ loc[w].batch \in Plan(w) /\ loc[w].batch \in Nat
      /\ Plan(w) = 0..(PlanLength[w] - 1) /\ PlanLength[w] \in Nat \ {0}
      /\ Plan(w) \subseteq Batch /\ Batch \subseteq Nat
  BY <1>1, ConstantFacts, PlanFacts DEF LocalInv, Bounds, Sending, Plan
<1>3. \A i \in Batch : i < loc[w].batch => i \in Plan(w) /\ Delivered(w, i)'
  <2>1. \A i \in Batch : i < loc[w].batch => i \in Plan(w)
    BY <1>2, PlanBelow
  <2> QED
    BY <1>1, <2>1 DEF LocalInv, Progress, Sending, Kept
<1>4. \A i \in Batch : i < loc[w].batch + 1 => Delivered(w, i)'
  <2> SUFFICES ASSUME NEW i \in Batch, i < loc[w].batch + 1 PROVE Delivered(w, i)'
    OBVIOUS
  <2>1. i < loc[w].batch \/ i = loc[w].batch
    BY <1>2
  <2> QED
    BY <1>3, <2>1 DEF Delivered, Kept
<1>5. CASE loc[w].batch + 1 = PlanLength[w]
  <2>1. /\ pc'[w] = "finalHash" /\ loc'[w] = Loc0 /\ exc'[w] = exc[w] /\ checked'[w] = checked[w]
    BY <1>5 DEF NextBatch, Goto, Local, DInv, TurnInv
  <2>2. Whole(w)'
    BY <1>2, <1>4, <1>5 DEF Whole
  <2>3. cp'[J(w)].next >= PlanLength[w]
    <3>1. cp'[J(w)].next \in Nat
      BY ConstantFacts DEF TableInv, Checkpoint, Kept
    <3> QED
      BY <1>2, <1>5, <3>1
  <2>4. Loc0 \in Locals /\ Loc0.finals = 0 /\ Loc0.polls = 0
    BY ConstantFacts DEF Loc0, Locals
  <2>5. Progress(w)'
    BY <2>1, <2>2, <2>3 DEF Progress, Kept, Sending, Finishing, Waiting
  <2>6. 0 < MaxFinalizeAttempts /\ 0 <= MaxStatusPolls + 0
    BY ConstantFacts
  <2>7. Bounds(w)'
    BY <2>1, <2>4, <2>6 DEF Bounds, Opening, Sending, Finishing, Waiting
  <2> QED
    BY <1>1, <2>1, <2>4, <2>5, <2>7, LabelFacts DEF LocalInv, Finishing
<1>6. CASE loc[w].batch + 1 # PlanLength[w]
  <2> DEFINE m == [loc[w] EXCEPT !.batch = loc[w].batch + 1]
  <2>1. /\ pc'[w] = "prepare" /\ loc'[w] = m /\ exc'[w] = exc[w] /\ checked'[w] = checked[w]
    BY <1>6 DEF NextBatch, Goto, Local, DInv, TurnInv
  <2>2. loc[w].batch + 1 \in Plan(w) /\ loc[w].batch + 1 \in Batch
    BY <1>2, <1>6
  <2>3. m \in Locals /\ m.batch = loc[w].batch + 1
    BY <1>2, <2>2 DEF Locals
  <2> HIDE DEF m
  <2>4. Progress(w)'
    BY <1>4, <2>1, <2>3 DEF Progress, Sending, Finishing, Waiting
  <2>5. Bounds(w)'
    BY <2>1, <2>2, <2>3 DEF Bounds, Opening, Sending, Finishing, Waiting
  <2> QED
    BY <1>1, <2>1, <2>3, <2>4, <2>5, LabelFacts DEF LocalInv, Sending
<1> QED
  BY <1>5, <1>6

\* A batch is entered into the ledger.
LEMMA BatchPrepared ==
    ASSUME DInv, NEW w \in Workers, PrepareBatch(w)
    PROVE  StepInv(w)
<1>1. /\ token[w] # Null /\ token'[w] = token[w] /\ pc[w] = "prepare" /\ J(w) \in Jobs
      /\ LocalInv(w) /\ loc[w].batch \in Plan(w) /\ loc[w].batch \in Batch
  BY HoldsToken, FencedToken, PlanFacts DEF PrepareBatch, DInv, TurnInv, LocalInv, Bounds, Sending
<1>2. ServerInv' /\ ServerMono /\ UNCHANGED cp
  BY ServerStutter DEF PrepareBatch, DInv
<1>3. Hash(w) \in Hashes /\ Hash(w) # Null
  BY <1>1, PlanFacts DEF Hash
<1>4. CASE /\ Row(w) = [status |-> "ACCEPTED", hash |-> Hash(w)]
           /\ cp[J(w)].next > loc[w].batch
           /\ NextBatch(w)
           /\ UNCHANGED <<exc, checked, rows>>
  <2>1. TableInv' /\ TableMono /\ AcceptedIsDelivered'
    BY <1>2, <1>4, CallTables
  <2>2. Kept(w)
    BY <1>1, <1>2, <2>1, KeptByAll
  <2>3. rows[J(w)][loc[w].batch].status = "ACCEPTED"
        /\ rows[J(w)][loc[w].batch].hash = Content[w][loc[w].batch]
    BY <1>4 DEF Row, Hash
  <2>4. remote[D(w)].batches[loc[w].batch] = Content[w][loc[w].batch]
    BY <1>1, <2>3 DEF D, DInv, AcceptedIsDelivered
  <2>5. remote'[D(w)].batches[loc[w].batch] = Content[w][loc[w].batch]
    BY <2>4 DEF PrepareBatch
  <2>6. LocalInv(w)'
    BY <1>1, <1>2, <1>4, <2>1, <2>2, <2>5, NextBatchLocal
  <2> QED
    BY <1>2, <2>1, <2>6 DEF StepInv
<1>5. CASE /\ Row(w) \in {NoBatch, [status |-> "PREPARED", hash |-> Hash(w)]}
           /\ cp[J(w)].next = loc[w].batch
           /\ rows' = [rows EXCEPT ![J(w)][loc[w].batch] =
                         [status |-> "PREPARED", hash |-> Hash(w)]]
           /\ Goto(w, "windowAppend")
           /\ UNCHANGED <<loc, exc, checked>>
  <2>1. rows[J(w)][loc[w].batch].status \in {"ABSENT", "PREPARED"}
    BY <1>5 DEF Row, NoBatch
  <2>2. TableInv' /\ TableMono
    BY <1>1, <1>2, <1>3, <1>5, <2>1, PrepareStep DEF DInv
  <2>3. \A j \in Jobs, i \in Batch : rows'[j][i].status = "ACCEPTED" => rows'[j][i] = rows[j][i]
    BY <1>1, <1>5 DEF DInv, TableInv
  <2>4. AcceptedIsDelivered'
    BY <1>2, <2>3, DeliveredStays DEF DInv
  <2>5. Kept(w)
    BY <1>1, <1>2, <2>2, KeptByAll
  <2>6. /\ pc'[w] = "windowAppend" /\ loc'[w] = loc[w] /\ exc'[w] = exc[w]
        /\ checked'[w] \in BOOLEAN
    BY <1>1, <1>5 DEF Goto, DInv, TurnInv, LocalInv
  <2>7. LocalInv(w)'
    BY <1>1, <2>5, <2>6, Move, LabelFacts DEF Opening, Sending, Finishing, Waiting
  <2> QED
    BY <1>2, <2>2, <2>4, <2>7 DEF StepInv
<1>6. CASE Raise(w, Error("DeliveryIntegrityError")) /\ UNCHANGED rows
  <2>1. TableInv' /\ TableMono /\ AcceptedIsDelivered'
    BY <1>2, <1>6, CallTables
  <2> QED
    BY <1>1, <1>2, <1>6, <2>1, RaiseLocal, ExceptionFacts DEF StepInv, Raised
<1> QED
  BY <1>4, <1>5, <1>6 DEF PrepareBatch

\* A batch is marked ACCEPTED after its Append.
LEMMA BatchAccepted ==
    ASSUME DInv, NEW w \in Workers, AcceptBatch(w)
    PROVE  StepInv(w)
<1>1. /\ token[w] # Null /\ token'[w] = token[w] /\ pc[w] = "accept" /\ J(w) \in Jobs
      /\ LocalInv(w) /\ loc[w].batch \in Plan(w) /\ loc[w].batch \in Batch
  BY HoldsToken, FencedToken, PlanFacts DEF AcceptBatch, DInv, TurnInv, LocalInv, Bounds, Sending
<1>2. ServerInv' /\ ServerMono /\ remote' = remote
  BY ServerStutter DEF AcceptBatch, DInv
<1> DEFINE j == J(w)
           i == loc[w].batch
           c == [cp[j] EXCEPT !.next = i + 1, !.status = "ACTIVE"]
           row == [rows[j][i] EXCEPT !.status = "ACCEPTED"]
<1>3. /\ rows[j][i].status = "PREPARED" /\ rows[j][i].hash = Content[w][i]
      /\ cp[j].next = i
      /\ rows' = [rows EXCEPT ![j][i] = row]
      /\ cp' = [cp EXCEPT ![j] = c]
  <2>1. rows[j][i] = [status |-> "PREPARED", hash |-> Content[w][i]] /\ cp[j].next = i
    BY DEF AcceptBatch, Row, Hash
  <2>2. rows' = [rows EXCEPT ![j][i] = row]
    BY DEF AcceptBatch
  <2>3. cp' = [cp EXCEPT ![j] = c]
    BY DEF AcceptBatch
  <2> QED
    BY <2>1, <2>2, <2>3
<1>4. TableInv /\ c.next = i + 1 /\ row.hash = Content[w][i]
  BY <1>1, <1>3 DEF DInv, TableInv, Checkpoint, BatchRow
<1>5. TableInv' /\ TableMono
  BY <1>1, <1>3, <1>4, AcceptStep
<1>6. remote[D(w)].batches[i] = Content[w][i]
  BY <1>1 DEF LocalInv, Progress, Delivered
<1>7. rows'[j][i] = row /\ cp'[j] = c /\ \A k \in Jobs, n \in Batch :
         k # j \/ n # i => rows'[k][n] = rows[k][n]
  BY <1>1, <1>3, <1>4 DEF TableInv
<1>8. Document[j] = D(w)
  BY DEF D
<1> HIDE DEF c, row
<1>9. AcceptedIsDelivered'
  BY <1>2, <1>4, <1>6, <1>7, <1>8, DeliveredStays DEF DInv
<1>10. Kept(w)
  BY <1>1, <1>2, <1>5, KeptByAll
<1>11. cp'[J(w)].next > loc[w].batch
  <2>1. cp'[J(w)].next = loc[w].batch + 1
    BY <1>4, <1>7
  <2>2. loc[w].batch \in Nat
    BY <1>1, ConstantFacts
  <2> QED
    BY <2>1, <2>2
<1>12. LocalInv(w)'
  BY <1>1, <1>2, <1>5, <1>6, <1>10, <1>11, NextBatchLocal DEF AcceptBatch
<1> QED
  BY <1>2, <1>5, <1>9, <1>12 DEF StepInv

\* The final hash is persisted when the batches of the plan are in the ledger, or
\* is in conflict with the one of a longer or shorter plan.
LEMMA FinalHashStep ==
    ASSUME DInv, NEW w \in Workers, PersistFinalHash(w)
    PROVE  StepInv(w)
<1>1. /\ token[w] # Null /\ token'[w] = token[w] /\ pc[w] = "finalHash" /\ J(w) \in Jobs
      /\ LocalInv(w) /\ cp[J(w)] \in Checkpoint
  BY HoldsToken, FencedToken DEF PersistFinalHash, DInv, TurnInv, TableInv
<1>2. ServerInv' /\ ServerMono /\ TableInv /\ UNCHANGED rows
  BY ServerStutter DEF DInv, PersistFinalHash
<1>3. AcceptedIsDelivered'
  BY <1>2, DeliveredStays DEF DInv
<1>4. CASE Raise(w, Error("DeliveryIntegrityError")) /\ UNCHANGED cp
  <2>1. TableInv' /\ TableMono
    BY <1>2, <1>4, TableStutter
  <2> QED
    BY <1>1, <1>2, <1>3, <1>4, <2>1, RaiseLocal, ExceptionFacts DEF StepInv, Raised
<1>5. CASE /\ cp[J(w)].final \in {Null, Content[w]}
           /\ cp' = [cp EXCEPT ![J(w)].final = Content[w]]
           /\ Goto(w, "stageFinalize")
           /\ UNCHANGED <<loc, exc, checked>>
  <2> DEFINE c == [cp[J(w)] EXCEPT !.final = Content[w]]
  <2>1. /\ c \in Checkpoint /\ c.compat = cp[J(w)].compat /\ c.session = cp[J(w)].session
        /\ c.next = cp[J(w)].next /\ c.final = Content[w] /\ c.zone = cp[J(w)].zone
    BY <1>1, PlanFacts DEF Checkpoint
  <2>2. cp' = [cp EXCEPT ![J(w)] = c]
    BY <1>5
  <2> HIDE DEF c
  <2>3. TableInv' /\ TableMono
    <3>1. cp[J(w)].final # Null => c.final = cp[J(w)].final
      BY <1>5, <2>1
    <3> QED
      BY <1>1, <1>2, <2>1, <2>2, <3>1, CheckpointStep
  <2>4. Kept(w)
    BY <1>1, <1>2, <2>3, KeptByAll
  <2>5. /\ pc'[w] = "stageFinalize" /\ loc'[w] = loc[w] /\ exc'[w] = exc[w]
        /\ checked'[w] = checked[w]
    BY <1>5 DEF Goto, DInv, TurnInv
  <2>6. cp'[J(w)].final = Content[w]
    BY <1>1, <1>2, <2>1, <2>2 DEF TableInv
  <2>7. Progress(w)'
    BY <1>1, <2>4, <2>5, <2>6 DEF LocalInv, Progress, Kept, Whole, Sending, Finishing, Waiting
  <2>8. Bounds(w)'
    BY <1>1, <2>5 DEF LocalInv, Bounds, Opening, Sending, Finishing, Waiting
  <2>9. LocalInv(w)'
    BY <1>1, <2>5, <2>7, <2>8, LabelFacts DEF LocalInv, Finishing
  <2> QED
    BY <1>2, <1>3, <2>3, <2>9 DEF StepInv
<1> QED
  BY <1>4, <1>5 DEF PersistFinalHash

\* A Finalize is sent when the plan is delivered, so whatever becomes of it, the
\* session that leaves ACTIVE begins with that plan, and is that plan where the
\* server compares the final hash.
LEMMA FinalizeStep ==
    ASSUME DInv, NEW w \in Workers, CallFinalize(w)
    PROVE  StepInv(w)
<1>1. /\ token[w] # Null /\ token'[w] = token[w] /\ pc[w] = "finalize" /\ D(w) \in Docs
      /\ LocalInv(w) /\ loc[w] \in Locals
  BY HoldsToken DEF CallFinalize, vars, DInv, TurnInv, LocalInv
<1> DEFINE d == D(w)
           r == remote[d]
<1>2. /\ r \in RemoteDoc /\ (r.vector # "NONE" => r.session = "COMPLETED") /\ late \subseteq Calls
      /\ OnePart(r.batches)
  BY <1>1 DEF DInv, ServerInv
<1>3. Begins(r.batches, Content[w])
  BY <1>1, PlanFacts DEF LocalInv, Progress, Whole, Delivered, Begins, Finishing
<1>4. FinalizeCall(w) \in Calls /\ FinalizeCall(w).op = "finalize" /\ FinalizeCall(w).doc = d
      /\ FinalizeCall(w).hash = Content[w]
  BY <1>1, ConstantFacts, PlanFacts DEF FinalizeCall, Calls
<1>5. ASSUME ServerInv', ServerMono
      PROVE  TableInv' /\ TableMono /\ AcceptedIsDelivered' /\ Kept(w)
  <2>1. TableInv' /\ TableMono /\ AcceptedIsDelivered'
    BY <1>5, CallTables DEF CallFinalize
  <2> QED
    BY <1>1, <1>5, <2>1, KeptByAll
<1>6. ASSUME NEW s, DocStep(r, s), remote' = [remote EXCEPT ![d] = s], UNCHANGED late
      PROVE  ServerInv' /\ ServerMono
  BY <1>1, <1>2, <1>6, ServerStep DEF DInv
<1>7. FinalHashFits(d, Content[w]) =>
         Closes(r.batches) /\ (HashIsChecked => Holds(r.batches, Content[w]))
  BY <1>3 DEF FinalHashFits, Closes
<1>8. CASE /\ r.session \in {"ACTIVE", "COMPLETED"} /\ FinalHashFits(d, Content[w])
           /\ remote' = IF r.session = "COMPLETED" THEN remote
                        ELSE [remote EXCEPT ![d].session = "COMPLETED", ![d].vector = "SYNCING"]
           /\ Goto(w, "vectorStatus") /\ Local(w, Loc0) /\ UseWindow(w) /\ UNCHANGED <<exc, late>>
  <2> DEFINE s == IF r.session = "COMPLETED" THEN r
                  ELSE [r EXCEPT !.session = "COMPLETED", !.vector = "SYNCING"]
  <2>1. DocStep(r, s) /\ s.session = "COMPLETED" /\ s.batches = r.batches
    BY <1>2, <1>7, <1>8 DEF DocStep, RemoteDoc, Sessions, Vectors
  <2>2. remote' = [remote EXCEPT ![d] = s]
    BY <1>1, <1>8 DEF DInv, ServerInv
  <2> HIDE DEF s
  <2>3. ServerInv' /\ ServerMono
    BY <1>6, <1>8, <2>1, <2>2
  <2>4. TableInv' /\ TableMono /\ AcceptedIsDelivered' /\ Kept(w)
    BY <1>5, <2>3
  <2>5. Closed(w)'
    <3>1. remote'[d].session = "COMPLETED" /\ remote'[d].batches = r.batches
      BY <1>1, <2>1, <2>2 DEF DInv, ServerInv
    <3> QED
      BY <1>7, <1>8, <2>4, <3>1 DEF Closed, Holds, Kept
  <2>6. pc'[w] = "vectorStatus" /\ loc'[w] = Loc0 /\ exc'[w] = exc[w] /\ checked'[w] = FALSE
    BY <1>8 DEF Goto, Local, UseWindow, DInv, TurnInv
  <2>7. Loc0 \in Locals /\ Loc0.polls < MaxActivePolls /\ Loc0.seen = Null /\ Null \notin Live
    BY ConstantFacts DEF Loc0, Locals
  <2>8. Progress(w)'
    BY <1>1, <2>4, <2>5, <2>6, <2>7 DEF LocalInv, Progress, Kept, Whole, Sending, Finishing, Waiting
  <2>9. Bounds(w)'
    BY <2>6, <2>7 DEF Bounds, Opening, Sending, Finishing, Waiting
  <2>10. LocalInv(w)'
    BY <1>1, <2>6, <2>7, <2>8, <2>9, LabelFacts DEF LocalInv, Waiting
  <2> QED
    BY <2>3, <2>4, <2>10 DEF StepInv
<1>9. CASE /\ Accepts(FinalizeCall(w)) /\ remote' = [remote EXCEPT ![d].session = "FAILED"]
           /\ Raise(w, Error("RuntimeError")) /\ UNCHANGED late
  <2> DEFINE s == [r EXCEPT !.session = "FAILED"]
  <2>1. r.session = "ACTIVE" /\ FinalHashFits(d, Content[w])
    BY <1>4, <1>9 DEF Accepts
  <2>2. DocStep(r, s)
    BY <1>2, <1>7, <2>1 DEF DocStep, RemoteDoc, Sessions
  <2>3. remote' = [remote EXCEPT ![d] = s]
    BY <1>9
  <2> HIDE DEF s
  <2>4. ServerInv' /\ ServerMono
    BY <1>6, <1>9, <2>2, <2>3
  <2> QED
    BY <1>1, <1>5, <1>9, <2>4, RaiseLocal, ExceptionFacts DEF StepInv, Raised
<1>10. ASSUME NEW e \in Failures(FinalizeCall(w)), Unanswered(FinalizeCall(w), e), UseWindow(w),
              \/ /\ Goto(w, "observe")
                 /\ Local(w, [loc[w] EXCEPT !.finals = loc[w].finals + 1])
                 /\ UNCHANGED exc
              \/ Raise(w, e)
       PROVE  StepInv(w)
  <2>1. ServerInv' /\ ServerMono
    <3>1. Honest(FinalizeCall(w), remote[FinalizeCall(w).doc].batches)
      BY <1>3, <1>4 DEF Honest
    <3> QED
      BY <1>4, <1>10, <3>1, CallStep DEF DInv
  <2>2. TableInv' /\ TableMono /\ AcceptedIsDelivered' /\ Kept(w)
    BY <1>5, <2>1
  <2>3. CASE Raise(w, e)
    BY <1>1, <1>10, <2>1, <2>2, <2>3, RaiseLocal, ExceptionFacts DEF StepInv, Failures
  <2> DEFINE m == [loc[w] EXCEPT !.finals = loc[w].finals + 1]
  <2>4. CASE Goto(w, "observe") /\ Local(w, m) /\ UNCHANGED exc
    <3>1. pc'[w] = "observe" /\ loc'[w] = m /\ exc'[w] = exc[w] /\ checked'[w] = FALSE
      BY <1>10, <2>4 DEF Goto, Local, UseWindow, DInv, TurnInv
    <3>2. /\ loc[w].finals < MaxFinalizeAttempts /\ loc[w].polls <= MaxStatusPolls + loc[w].finals
          /\ loc[w].finals \in Nat /\ loc[w].polls \in Nat
      BY <1>1 DEF LocalInv, Bounds, Finishing, Locals
    <3>3. /\ loc[w].finals + 1 \in 0..MaxFinalizeAttempts /\ loc[w].finals + 1 >= 1
          /\ loc[w].polls < MaxStatusPolls + (loc[w].finals + 1)
      BY <3>2, ConstantFacts
    <3>4. m \in Locals /\ m.finals = loc[w].finals + 1 /\ m.polls = loc[w].polls
      BY <1>1, <3>3 DEF Locals
    <3> HIDE DEF m
    <3>5. Progress(w)'
      BY <1>1, <2>2, <3>1 DEF LocalInv, Progress, Kept, Whole, Sending, Finishing, Waiting
    <3>6. Bounds(w)'
      BY <3>1, <3>3, <3>4 DEF Bounds, Opening, Sending, Finishing, Waiting
    <3>7. LocalInv(w)'
      BY <1>1, <3>1, <3>4, <3>5, <3>6, LabelFacts DEF LocalInv, Finishing
    <3> QED
      BY <2>1, <2>2, <3>7 DEF StepInv
  <2> QED
    BY <1>10, <2>3, <2>4
<1> QED
  BY <1>8, <1>9, <1>10 DEF CallFinalize

\* The finalize runner sends and polls a bounded number of times.
LEMMA SessionStatusStep ==
    ASSUME DInv, NEW w \in Workers, RecordSession(w)
    PROVE  StepInv(w)
<1>1. /\ token[w] # Null /\ token'[w] = token[w] /\ pc[w] = "record" /\ J(w) \in Jobs
      /\ LocalInv(w) /\ loc[w] \in Locals /\ loc[w].seen \in Sessions
  BY HoldsToken DEF RecordSession, vars, DInv, TurnInv, LocalInv, Bounds
<1>2. /\ TableInv' /\ TableMono /\ ServerInv' /\ ServerMono /\ AcceptedIsDelivered'
  BY <1>1, StatusWrite DEF RecordSession
<1>3. Kept(w)
  BY <1>1, <1>2, KeptByAll
<1>4. /\ loc[w].finals \in Nat /\ loc[w].polls \in Nat /\ loc[w].finals >= 1
      /\ loc[w].finals <= MaxFinalizeAttempts /\ loc[w].polls < MaxStatusPolls + loc[w].finals
  BY <1>1, ConstantFacts DEF LocalInv, Bounds, Locals
<1> DEFINE m == [loc[w] EXCEPT !.polls = loc[w].polls + 1, !.seen = Null]
<1>5. ASSUME NEW n \in Raised, Raise(w, Error(n)) PROVE StepInv(w)
  BY <1>1, <1>2, <1>5, RaiseLocal, ExceptionFacts DEF StepInv
<1>6. ASSUME NEW l \in {"finalize", "observe"}, Goto(w, l), Local(w, m), UNCHANGED <<exc, checked>>,
             l = "finalize" => loc[w].finals < MaxFinalizeAttempts,
             l = "observe" => loc[w].polls + 1 < MaxStatusPolls
      PROVE  StepInv(w)
  <2>1. pc'[w] = l /\ loc'[w] = m /\ exc'[w] = exc[w] /\ checked'[w] = checked[w]
    BY <1>6 DEF Goto, Local, DInv, TurnInv
  <2>2. /\ loc[w].polls + 1 \in 0..MaxPolls
        /\ loc[w].polls + 1 <= MaxStatusPolls + loc[w].finals
        /\ l = "observe" => loc[w].polls + 1 < MaxStatusPolls + loc[w].finals
    BY <1>4, <1>6, ConstantFacts
  <2>3. m \in Locals /\ m.polls = loc[w].polls + 1 /\ m.finals = loc[w].finals
    BY <1>1, <2>2 DEF Locals
  <2> HIDE DEF m
  <2>4. Progress(w)'
    BY <1>1, <1>3, <2>1 DEF LocalInv, Progress, Kept, Whole, Sending, Finishing, Waiting
  <2>5. Bounds(w)'
    BY <1>4, <1>6, <2>1, <2>2, <2>3 DEF Bounds, Opening, Sending, Finishing, Waiting
  <2>6. LocalInv(w)'
    BY <1>1, <2>1, <2>3, <2>4, <2>5, LabelFacts DEF LocalInv, Finishing
  <2> QED
    BY <1>2, <2>6 DEF StepInv
<1> QED
  BY <1>5, <1>6 DEF RecordSession, Raised

-----------------------------------------------------------------------------
(* The invariant is inductive.                                             *)

\* A job becomes COMPLETED only at the end of its program.
LEMMA CompletedBy ==
    ASSUME DInv, NEW w \in Workers, Turn(w),
           NEW j \in Jobs, job'[j].status = "COMPLETED", job[j].status # "COMPLETED"
    PROVE  CompleteJob(w) /\ j = J(w)
<1>1. job \in [Jobs -> JobRow] /\ \A k \in Jobs : job[k] \in JobRow
  BY DEF DInv, IInv, TypeOK
<1>2. job' # job
  OBVIOUS
<1>3. ASSUME NEW status \in {"RETRY_WAIT", "FAILED", "DEAD_LETTER"}, NEW retry,
             Finish(w, status, retry)
      PROVE  FALSE
  BY <1>1, <1>3 DEF Finish, JobRow
<1>4. CASE ClaimJob(w)
  <2>1. PICK k \in Jobs : ClaimNext(w, k)
    BY <1>4 DEF ClaimJob
  <2> QED
    BY <1>1, <2>1 DEF ClaimNext, JobRow
<1>5. CASE ReportStage(w)
  BY <1>1, <1>5 DEF ReportStage, AdvanceStage, JobRow
<1>6. CASE HandleFailure(w)
  BY <1>2, <1>3, <1>6 DEF HandleFailure, Reconcile, ScheduleRetry, DeadLetter, FailPermanently
<1>7. CASE CompleteJob(w)
  BY <1>1, <1>7 DEF CompleteJob, Complete, Finish, J
<1>8. CASE Begin(w) \/ NoJob(w) \/ LoseLease(w) \/ Die(w)
  BY <1>2, <1>8 DEF Begin, BeginTx, NoJob, ClaimNothing, LoseLease, Abandon, Die, Crash
<1>9. CASE AssertOwnership(w) \/ CheckWindow(w) \/ PersistCompatibility(w) \/ ReadSession(w)
           \/ BindSession(w) \/ PrepareBatch(w) \/ AcceptBatch(w) \/ PersistFinalHash(w)
           \/ PersistZone(w) \/ WaitOwned(w)
  <2>1. AssertOwned(w)
    BY <1>9 DEF AssertOwnership, CheckWindow, PersistCompatibility, ReadSession, BindSession,
                PrepareBatch, AcceptBatch, PersistFinalHash, PersistZone, WaitOwned
  <2> QED
    BY <1>2, <2>1 DEF AssertOwned
<1>10. CASE RejectPayload(w) \/ QueryStatus(w) \/ CallStart(w) \/ CallAppend(w) \/ CallFinalize(w)
            \/ RecordSession(w) \/ RecordReadiness(w) \/ CallActivate(w) \/ RecordActivation(w)
  <2>1. UNCHANGED vars
    BY <1>10 DEF RejectPayload, QueryStatus, CallStart, CallAppend, CallFinalize,
                 RecordSession, RecordReadiness, CallActivate, RecordActivation
  <2> QED
    BY <1>2, <2>1 DEF vars
<1> QED
  BY <1>4, <1>5, <1>6, <1>7, <1>8, <1>9, <1>10 DEF Turn, Proceed

\* Every step of a turn keeps the parts of the invariant.
LEMMA TurnStepInv ==
    ASSUME DInv, NEW w \in Workers, Turn(w)
    PROVE  StepInv(w)
BY BoundaryStep, RejectStep, WindowStep, StageStep, QueryStep, SessionStep, ZoneStep,
   ReadinessStep, StartStep, ActivateStep, AppendStep, BatchPrepared, BatchAccepted,
   FinalHashStep, FinalizeStep, SessionStatusStep
   DEF Turn, Proceed

\* And so the whole of it.
LEMMA TurnKeepsDInv ==
    ASSUME DInv, NEW w \in Workers, Turn(w)
    PROVE  DInv'
<1>1. StepInv(w)
  BY TurnStepInv
<1>2. IInv'
  BY TurnRefines, NextIInv DEF DInv, Next
<1>3. TurnInv'
  BY <1>1, TurnFrame, TurnStep DEF StepInv
<1>4. ASSUME NEW j \in Jobs, job'[j].status = "COMPLETED"
      PROVE  \E v \in Workers : Done(j, v)'
  <2>1. CASE job[j].status = "COMPLETED"
    BY <1>1, <2>1, CompletedStays DEF StepInv
  <2>2. CASE job[j].status # "COMPLETED"
    <3>1. CompleteJob(w) /\ j = J(w) /\ D(w) = Document[j]
      BY <1>4, <2>2, CompletedBy DEF D
    <3>2. LocalInv(w) /\ pc[w] = "complete" /\ UNCHANGED <<cp, remote>>
      BY <3>1 DEF DInv, TurnInv, CompleteJob
    <3>3. /\ Whole(w) /\ Closed(w)
          /\ cp[j].next >= PlanLength[w] /\ cp[j].final = Content[w] /\ cp[j].zone
          /\ remote[Document[j]].vector = "ACTIVE"
      BY <3>1, <3>2 DEF LocalInv, Progress
    <3>4. Begins(remote[Document[j]].batches, Content[w])
      BY <3>1, <3>3, PlanFacts DEF Whole, Delivered, Begins
    <3>5. Done(j, w)
      BY <3>1, <3>3, <3>4 DEF Done, Closed
    <3> QED
      BY <3>2, <3>5 DEF Done, Begins, Holds
  <2> QED
    BY <2>1, <2>2
<1> QED
  BY <1>1, <1>2, <1>3, <1>4 DEF DInv, StepInv

\* The steps of nobody's turn: producers, time and AstraVector.
LEMMA EnvironmentStep ==
    ASSUME DInv, (\E j \in Jobs : Submit(j)) \/ TimePasses \/ AstraVector
    PROVE  DInv'
<1>1. UNCHANGED <<turnVars, cp, rows>> /\ token' = token
  BY DEF Submit, CreateOrGet, TimePasses, Tick, AstraVector, ExecuteLate, FinishFinalize,
         SyncVectors, vars
<1>2. ServerInv' /\ ServerMono
  BY VectorStep, ServerStutter DEF Submit, TimePasses, DInv
<1>3. TableInv' /\ TableMono /\ AcceptedIsDelivered'
  BY <1>1, <1>2, CallTables
<1>4. IInv'
  <2>1. [Next]_vars
    BY StepRefines DEF DeliveryNext
  <2> QED
    BY <2>1, NextIInv DEF DInv
<1>5. TurnInv'
  <2>1. \A w \in Workers : LocalInv(w)'
    BY <1>1, <1>2, <1>3, OtherProcess DEF turnVars
  <2> QED
    BY <1>1, <2>1 DEF DInv, TurnInv, turnVars
<1>6. ASSUME NEW j \in Jobs, job'[j].status = "COMPLETED" PROVE job[j].status = "COMPLETED"
  <2>1. job \in [Jobs -> JobRow] /\ \A k \in Jobs : job[k] \in JobRow
    BY DEF DInv, IInv, TypeOK
  <2>2. CASE \E k \in Jobs : Submit(k)
    BY <1>6, <2>1, <2>2 DEF Submit, CreateOrGet, JobRow
  <2>3. CASE TimePasses
    BY <1>6, <2>1, <2>3 DEF TimePasses, Tick, JobRow
  <2>4. CASE AstraVector
    BY <1>6, <2>4 DEF AstraVector, ExecuteLate, FinishFinalize, SyncVectors, vars
  <2> QED
    BY <2>2, <2>3, <2>4
<1>7. \A j \in Jobs : job'[j].status = "COMPLETED" => \E w \in Workers : Done(j, w)'
  BY <1>2, <1>3, <1>6, CompletedStays
<1> QED
  BY <1>2, <1>3, <1>4, <1>5, <1>7 DEF DInv

\* Nothing happens.
LEMMA StutterStep ==
    ASSUME DInv, UNCHANGED deliveryVars
    PROVE  DInv'
<1>1. UNCHANGED <<vars, turnVars, cp, rows, remote, late>>
  BY DEF deliveryVars
<1>2. /\ TableInv' /\ TableMono /\ ServerInv' /\ ServerMono /\ AcceptedIsDelivered'
  BY <1>1, QuietStep
<1>3. IInv'
  BY <1>1, NextIInv DEF DInv
<1>4. \A w \in Workers : LocalInv(w)'
  BY <1>1, <1>2, OtherProcess DEF turnVars, vars
<1>5. TurnInv'
  BY <1>1, <1>4 DEF DInv, TurnInv, turnVars
<1> QED
  BY <1>1, <1>2, <1>3, <1>5 DEF DInv, Done, Begins, Holds, vars

\* Before any job is claimed.
LEMMA InitDInv == DeliveryInit => DInv
<1> SUFFICES ASSUME DeliveryInit PROVE DInv
  OBVIOUS
<1>1. IInv
  BY InitIInv DEF DeliveryInit
<1>2. \A w \in Workers : LocalInv(w)
  <2> SUFFICES ASSUME NEW w \in Workers PROVE LocalInv(w)
    OBVIOUS
  <2>1. pc[w] = "idle" /\ loc[w] = Loc0 /\ exc[w] = Null /\ checked[w] = FALSE /\ token[w] = Null
    BY DEF DeliveryInit, Init
  <2>2. Loc0 \in Locals /\ Loc0.batch = 0
    BY ConstantFacts DEF Loc0, Locals
  <2>3. Progress(w) /\ Bounds(w)
    BY <2>1, <2>2 DEF Progress, Bounds, Opening, Sending, Finishing, Waiting
  <2> QED
    BY <2>1, <2>2, <2>3, LabelFacts DEF LocalInv, Opening
<1>3. TurnInv
  BY <1>2 DEF TurnInv, DeliveryInit
<1>4. TableInv
  <2>1. NoCheckpoint \in Checkpoint /\ NoCheckpoint.next = 0
    BY ConstantFacts DEF NoCheckpoint, Checkpoint
  <2>2. NoBatch \in BatchRow /\ NoBatch.status = "ABSENT"
    BY DEF NoBatch, BatchRow
  <2>3. \A j \in Jobs, i \in Batch : cp[j] = NoCheckpoint /\ rows[j][i] = NoBatch /\ i \in Nat
    BY ConstantFacts DEF DeliveryInit
  <2>4. AcceptedPrefix
    BY <2>1, <2>2, <2>3 DEF AcceptedPrefix
  <2> QED
    BY <2>1, <2>2, <2>3, <2>4 DEF TableInv, DeliveryInit
<1>5. ServerInv
  <2>1. \A d \in Docs : /\ remote[d].session = "NONE" /\ remote[d].vector = "NONE"
                        /\ remote[d].batches = [i \in Batch |-> Null]
    BY DEF DeliveryInit
  <2>2. OnePart([i \in Batch |-> Null])
    <3>1. PICK w \in Workers : 0 <= PlanLength[w] /\ 0 \in 0..BatchCount
      BY DeliveryAssumption, PlanFacts, ConstantFacts
    <3>2. \A i \in Batch : ~ (i < 0)
      BY ConstantFacts
    <3>3. Holds([i \in Batch |-> Null], Part(w, 0))
      BY <3>1, <3>2, PartFacts
    <3> QED
      BY <3>1, <3>3 DEF OnePart
  <2>3. remote \in [Docs -> RemoteDoc]
    BY DEF DeliveryInit, RemoteDoc, Sessions, Vectors
  <2>4. late = {}
    BY DEF DeliveryInit
  <2> QED
    BY <2>1, <2>2, <2>3, <2>4 DEF ServerInv
<1>6. AcceptedIsDelivered
  BY DEF DeliveryInit, AcceptedIsDelivered, NoBatch
<1>7. \A j \in Jobs : job[j].status # "COMPLETED"
  BY DEF DeliveryInit, Init, NoRow
<1> QED
  BY <1>1, <1>3, <1>4, <1>5, <1>6, <1>7 DEF DInv

\* Every step of processes, server and time keeps the invariant.
LEMMA NextDInv == DInv /\ [DeliveryNext]_deliveryVars => DInv'
BY TurnKeepsDInv, EnvironmentStep, StutterStep DEF DeliveryNext

\* DInv holds in every reachable state of the delivery.
THEOREM DeliveryInvariance == DeliverySpec => []DInv
BY InitDInv, NextDInv, PTL DEF DeliverySpec

-----------------------------------------------------------------------------
(* The properties.                                                         *)

\* Labels, locals, tables and the server keep their types; in particular the
\* finalize, readiness and activation loops never exceed their bounds.
THEOREM DeliveryTypeCorrect == DeliverySpec => []DeliveryTypeOK
<1>1. DInv => DeliveryTypeOK
  <2> SUFFICES ASSUME DInv PROVE DeliveryTypeOK
    OBVIOUS
  <2>1. /\ pc \in [Workers -> Labels] /\ loc \in [Workers -> Locals]
        /\ exc \in [Workers -> Exceptions \cup {Null}] /\ checked \in [Workers -> BOOLEAN]
        /\ \A w \in Workers : pc[w] = "idle" <=> token[w] = Null
    BY DEF DInv, TurnInv, LocalInv
  <2>2. /\ cp \in [Jobs -> Checkpoint] /\ rows \in [Jobs -> [Batch -> BatchRow]]
        /\ remote \in [Docs -> RemoteDoc] /\ late \subseteq Calls
    BY DEF DInv, TableInv, ServerInv
  <2> QED
    BY <2>1, <2>2 DEF DeliveryTypeOK, Locals, BatchRow, RemoteDoc
<1> QED
  BY <1>1, DeliveryInvariance, PTL

\* The batch ledger is a prefix of the plan (prepare_batch, mark_accepted in
\* persistence/delivery.py), through crashes, replays and changes of owner.
THEOREM LedgerIsPrefix == DeliverySpec => []AcceptedPrefix
<1>1. DInv => AcceptedPrefix
  BY DEF DInv, TableInv
<1> QED
  BY <1>1, DeliveryInvariance, PTL

\* A row that mark_accepted has set to ACCEPTED is held by AstraVector with
\* the hash of the row.
THEOREM LedgerIsTruthful == DeliverySpec => []AcceptedIsDelivered
<1>1. DInv => AcceptedIsDelivered
  BY DEF DInv
<1> QED
  BY <1>1, DeliveryInvariance, PTL

\* Every session of AstraVector holds the first batches of one plan, whatever
\* late and replayed calls of stale owners did, and is closed only over a plan
\* that is there as a whole (append and finalize runners).  That nothing but the
\* plan is there is AstraVector's own check of the final hash: without it the
\* planner does not look beyond its plan.
THEOREM NoMixedPlan == DeliverySpec => []FinalizedIsOnePlan
<1>1. DInv => FinalizedIsOnePlan
  BY DEF DInv, ServerInv, OnePart, Closes, FinalizedIsOnePlan
<1> QED
  BY <1>1, DeliveryInvariance, PTL

\* complete_job is reached only for a document that is searchable and holds the
\* plan of the recorded final hash, as does the ledger; where AstraVector checks
\* the final hash they hold nothing else.  It stays so.
THEOREM CompletionIsTruthful == DeliverySpec => []CompletedIsSearchable
<1>1. DInv => CompletedIsSearchable
  <2> SUFFICES ASSUME DInv, NEW j \in Jobs, job[j].status = "COMPLETED"
               PROVE  LET plan == cp[j].final
                          held == remote[Document[j]].batches
                      IN  /\ remote[Document[j]].session = "COMPLETED"
                          /\ remote[Document[j]].vector = "ACTIVE"
                          /\ cp[j].zone
                          /\ plan # Null
                          /\ Begins(held, plan) /\ \A i \in DOMAIN plan : i < cp[j].next
                          /\ HashIsChecked =>
                                Holds(held, plan) /\ \A i \in 0..(cp[j].next - 1) : i \in DOMAIN plan
    BY DEF CompletedIsSearchable
  <2>1. PICK w \in Workers : Done(j, w)
    BY DEF DInv
  <2>2. cp[j].next \in 0..BatchCount /\ BatchCount \in Nat
    BY ConstantFacts DEF DInv, TableInv, Checkpoint
  <2>3. \A i \in Plan(w) : i < cp[j].next
    BY <2>1, <2>2, PlanFacts DEF Done, Plan
  <2>4. ASSUME HashIsChecked, NEW i \in 0..(cp[j].next - 1) PROVE i \in Plan(w)
    <3>1. i \in Batch /\ i < cp[j].next
      BY <2>2 DEF Batch
    <3>2. rows[j][i].status = "ACCEPTED" /\ rows[j][i].hash # Null
      BY <3>1 DEF DInv, TableInv, AcceptedPrefix
    <3>3. remote[Document[j]].batches[i] # Null
      BY <3>1, <3>2 DEF DInv, AcceptedIsDelivered
    <3> QED
      BY <2>1, <2>4, <3>1, <3>3, PlanFacts DEF Done, Holds
  <2> QED
    BY <2>1, <2>3, <2>4, PlanFacts DEF Done
<1> QED
  BY <1>1, DeliveryInvariance, PTL

\* No step takes back a fingerprint, a session, a final hash, a zone or an
\* accepted batch (persistence/delivery.py).
THEOREM EvidenceStays == DeliverySpec => EvidenceIsFinal
<1>1. ASSUME DInv, [DeliveryNext]_deliveryVars PROVE TableMono
  <2>1. CASE \E w \in Workers : Turn(w)
    BY <1>1, <2>1, TurnStepInv DEF StepInv
  <2>2. CASE ~ \E w \in Workers : Turn(w)
    <3>1. UNCHANGED <<cp, rows>>
      BY <1>1, <2>2 DEF DeliveryNext, deliveryVars, Submit, TimePasses, AstraVector, ExecuteLate,
                        FinishFinalize, SyncVectors
    <3> QED
      BY <1>1, <3>1, TableStutter DEF DInv
  <2> QED
    BY <2>1, <2>2
<1>2. DInv /\ [DeliveryNext]_deliveryVars =>
        [\A j \in Jobs :
           /\ cp[j].compat # Null => cp'[j].compat = cp[j].compat
           /\ cp[j].session => cp'[j].session
           /\ cp[j].final # Null => cp'[j].final = cp[j].final
           /\ cp[j].zone => cp'[j].zone
           /\ cp'[j].next >= cp[j].next]_deliveryVars
  BY <1>1 DEF TableMono
<1> QED
  BY <1>2, DeliveryInvariance, PTL DEF DeliverySpec, EvidenceIsFinal

-----------------------------------------------------------------------------
(* The current owner continues its own history.                            *)

\* The process of the current generation: the fence would let it pass if its
\* lease has not run out.
Current(w) ==
    /\ token[w] # Null
    /\ job[J(w)].status = "PROCESSING"
    /\ job[J(w)].gen = token[w].gen

\* The current process is at or behind next_batch_index, and what it sends is
\* the batch it has written ahead.
OwnHistory(w) ==
    Current(w) /\ pc[w] \in Sending =>
        /\ loc[w].batch <= cp[J(w)].next
        /\ pc[w] # "prepare" =>
              /\ loc[w].batch = cp[J(w)].next
              /\ rows[J(w)][loc[w].batch] = [status |-> "PREPARED", hash |-> Content[w][loc[w].batch]]

HInv == DInv /\ \A w \in Workers : OwnHistory(w)

\* No two processes hold the generation of the row.
LEMMA OneCurrent ==
    ASSUME IInv, NEW v \in Workers, NEW w \in Workers, Current(v), Current(w), J(v) = J(w)
    PROVE  v = w
BY DEF IInv, TokensAreClaims, Current, J

\* Nobody becomes current but by a claim.
LEMMA CurrentBefore ==
    ASSUME IInv, NEW w \in Workers, token[w] # Null, token'[w] = token[w], Current(w)',
           \/ \E j \in Jobs : CreateOrGet(j)
           \/ Tick
           \/ \E v \in Workers : WorkerStep(v)
           \/ UNCHANGED vars
    PROVE  Current(w)
<1>1. J(w)' = J(w) /\ J(w) \in Jobs
  BY TokenJob DEF J
<1>2. /\ job'[J(w)].status = "PROCESSING" /\ job'[J(w)].gen = token[w].gen
      /\ token[w].gen <= job[J(w)].gen /\ token[w].gen \in Nat /\ job[J(w)].gen \in Nat
  BY <1>1 DEF Current, IInv, TypeOK, TokensAreClaims, LeaseToken, JobRow, J
<1>3. job \in [Jobs -> JobRow] /\ job[J(w)] \in JobRow
  BY <1>1 DEF IInv, TypeOK
<1>4. CASE job'[J(w)] = job[J(w)]
  BY <1>2, <1>4 DEF Current
<1>5. CASE \E j \in Jobs : CreateOrGet(j)
  BY <1>1, <1>2, <1>3, <1>5 DEF CreateOrGet, JobRow, Current
<1>6. CASE Tick
  BY <1>1, <1>2, <1>3, <1>6 DEF Tick, JobRow, Current
<1>7. ASSUME NEW v \in Workers, WorkerStep(v), job'[J(w)] # job[J(w)]
      PROVE  Current(w)
  <2>1. CASE ClaimNext(v, J(w))
    <3>1. job'[J(w)].gen = job[J(w)].gen + 1
      BY <1>1, <1>3, <2>1 DEF ClaimNext, JobRow
    <3> QED
      BY <1>2, <3>1
  <2>2. CASE Fenced(v) /\ token[v].job = J(w) /\ job'[J(w)].gen = job[J(w)].gen
    BY <1>2, <2>2 DEF Fenced, Current
  <2> QED
    BY <1>1, <1>7, <2>1, <2>2, RowChange
<1> QED
  BY <1>4, <1>5, <1>6, <1>7 DEF vars

\* next_batch_index and the rows of a job change only under its fence.
LEMMA LedgerIsFenced ==
    ASSUME DInv, NEW v \in Workers, Turn(v), NEW j \in Jobs,
           rows'[j] # rows[j] \/ cp'[j].next # cp[j].next
    PROVE  Current(v) /\ J(v) = j
<1>1. cp \in [Jobs -> Checkpoint] /\ rows \in [Jobs -> [Batch -> BatchRow]]
  BY DEF DInv, TableInv
<1>2. CASE PrepareBatch(v) \/ AcceptBatch(v)
  <2>1. Current(v)
    BY <1>2 DEF PrepareBatch, AcceptBatch, AssertOwned, Fenced, Current, J
  <2>2. J(v) = j
    <3>1. CASE PrepareBatch(v)
      BY <1>1, <3>1 DEF PrepareBatch
    <3>2. CASE AcceptBatch(v)
      BY <1>1, <3>2 DEF AcceptBatch
    <3> QED
      BY <1>2, <3>1, <3>2
  <2> QED
    BY <2>1, <2>2, Zenon
<1>3. ASSUME UNCHANGED rows, NEW c, cp' = [cp EXCEPT ![J(v)] = c], c.next = cp[J(v)].next
      PROVE  FALSE
  BY <1>1, <1>3
<1>4. ASSUME cp[J(v)] \in Checkpoint, NEW x
      PROVE  /\ [cp[J(v)] EXCEPT !.compat = x].next = cp[J(v)].next
             /\ [cp[J(v)] EXCEPT !.final = x].next = cp[J(v)].next
             /\ [cp[J(v)] EXCEPT !.zone = x].next = cp[J(v)].next
             /\ [cp[J(v)] EXCEPT !.status = x].next = cp[J(v)].next
             /\ [cp[J(v)] EXCEPT !.vector = x].next = cp[J(v)].next
             /\ [cp[J(v)] EXCEPT !.session = TRUE, !.status = x].next = cp[J(v)].next
  BY <1>4 DEF Checkpoint
<1>5. CASE PersistCompatibility(v) \/ BindSession(v) \/ PersistFinalHash(v) \/ PersistZone(v)
  <2>1. cp[J(v)] \in Checkpoint
    BY <1>1, <1>5, HoldsToken
       DEF PersistCompatibility, BindSession, PersistFinalHash, PersistZone
  <2>2. CASE PersistCompatibility(v)
    BY <1>3, <1>4, <2>1, <2>2 DEF PersistCompatibility
  <2>3. CASE BindSession(v)
    BY <1>3, <1>4, <2>1, <2>3 DEF BindSession
  <2>4. CASE PersistFinalHash(v)
    BY <1>3, <1>4, <2>1, <2>4 DEF PersistFinalHash
  <2>5. CASE PersistZone(v)
    BY <1>3, <1>4, <2>1, <2>5 DEF PersistZone
  <2> QED
    BY <1>5, <2>2, <2>3, <2>4, <2>5
<1>6. CASE RecordSession(v) \/ RecordReadiness(v) \/ RecordActivation(v)
  <2>1. cp[J(v)] \in Checkpoint
    BY <1>1, <1>6, HoldsToken DEF RecordSession, RecordReadiness, RecordActivation
  <2> QED
    BY <1>3, <1>4, <1>6, <2>1 DEF RecordSession, RecordReadiness, RecordActivation
<1>7. CASE Begin(v) \/ ClaimJob(v) \/ NoJob(v) \/ LoseLease(v) \/ Die(v) \/ CompleteJob(v)
           \/ HandleFailure(v) \/ RejectPayload(v) \/ ReportStage(v) \/ AssertOwnership(v)
  BY <1>7 DEF Begin, ClaimJob, NoJob, LoseLease, Die, CompleteJob, HandleFailure,
                    RejectPayload, ReportStage, AssertOwnership
<1>8. CASE CheckWindow(v) \/ QueryStatus(v) \/ ReadSession(v) \/ WaitOwned(v)
           \/ CallStart(v) \/ CallAppend(v) \/ CallFinalize(v) \/ CallActivate(v)
  BY <1>8 DEF CheckWindow, QueryStatus, ReadSession, WaitOwned, CallStart, CallAppend,
                    CallFinalize, CallActivate
<1> QED
  BY <1>2, <1>5, <1>6, <1>7, <1>8 DEF Turn, Proceed

\* The process that takes the step.
LEMMA OwnTurn ==
    ASSUME HInv, NEW w \in Workers, Turn(w)
    PROVE  OwnHistory(w)'
<1> SUFFICES ASSUME Current(w)', pc'[w] \in Sending
             PROVE  /\ loc'[w].batch <= cp'[J(w)'].next
                    /\ pc'[w] # "prepare" =>
                          /\ loc'[w].batch = cp'[J(w)'].next
                          /\ rows'[J(w)'][loc'[w].batch] =
                                [status |-> "PREPARED", hash |-> Content[w][loc'[w].batch]]
  BY DEF OwnHistory
<1> USE DEF HInv
<1>1. LocalInv(w)
  BY DEF DInv, TurnInv
<1>2. /\ pc = [v \in Workers |-> pc[v]] /\ loc = [v \in Workers |-> loc[v]]
  BY DEF DInv, TurnInv
<1>3. CASE Begin(w)
  BY <1>3 DEF Begin, BeginTx, turnVars, OwnHistory, Current, J
<1>4. CASE AssertOwnership(w)
  <2>1. pc[w] = "rebind" /\ pc'[w] = "prepare" /\ loc'[w] = loc[w] /\ cp' = cp /\ token' = token
    BY <1>2, <1>4 DEF AssertOwnership, AssertOwned, Goto, OwnedAt, Sending
  <2>2. loc[w].batch = 0
    BY <1>1, <2>1 DEF LocalInv, Bounds, Opening
  <2>3. J(w)' = J(w) /\ J(w) \in Jobs
    BY <2>1, HoldsToken DEF J
  <2>4. cp[J(w)].next \in Nat
    BY <2>3, ConstantFacts DEF DInv, TableInv, Checkpoint
  <2> QED
    BY <2>1, <2>2, <2>3, <2>4
<1>5. CASE CheckWindow(w) \/ CallAppend(w)
  <2>1. /\ pc[w] \in {"windowAppend", "append"} /\ loc'[w] = loc[w] /\ cp' = cp /\ rows' = rows
        /\ UNCHANGED <<job, token>> /\ pc'[w] # "prepare"
    BY <1>2, <1>5 DEF CheckWindow, CallAppend, AssertOwned, Goto, Raise, WindowAt, Sending, vars
  <2>2. Current(w) /\ J(w)' = J(w) /\ pc[w] \in Sending /\ pc[w] # "prepare"
    BY <2>1 DEF Current, J, Sending
  <2> QED
    BY <2>1, <2>2 DEF OwnHistory
<1>6. CASE PrepareBatch(w) \/ AcceptBatch(w)
  <2>1. /\ token' = token /\ J(w)' = J(w) /\ J(w) \in Jobs /\ loc[w].batch \in Batch
        /\ loc[w] \in Locals
    BY <1>1, <1>6, HoldsToken
       DEF PrepareBatch, AcceptBatch, AssertOwned, J, LocalInv, Locals
  <2>2. cp \in [Jobs -> Checkpoint] /\ rows \in [Jobs -> [Batch -> BatchRow]]
    BY DEF DInv, TableInv
  <2>3. loc[w].batch \in Nat /\ cp[J(w)].next \in Nat
    <3>1. cp[J(w)] \in Checkpoint
      BY <2>1, <2>2
    <3>2. cp[J(w)].next \in 0..BatchCount
      BY <3>1 DEF Checkpoint
    <3>3. Batch \subseteq Nat /\ BatchCount \in Nat
      BY ConstantFacts
    <3>4. loc[w].batch \in Nat
      BY <2>1, <3>3
    <3>5. cp[J(w)].next \in Nat
      BY <3>2, <3>3
    <3> QED
      BY <3>4, <3>5
  <2>4. CASE /\ cp[J(w)].next = loc[w].batch
             /\ rows' = [rows EXCEPT ![J(w)][loc[w].batch] =
                           [status |-> "PREPARED", hash |-> Hash(w)]]
             /\ UNCHANGED <<cp, loc>>
    BY <2>1, <2>2, <2>3, <2>4 DEF Hash
  <2>5. CASE NextBatch(w) /\ cp'[J(w)].next > loc[w].batch /\ cp'[J(w)].next \in Nat
    <3>1. pc'[w] = "prepare" /\ loc'[w].batch = loc[w].batch + 1
      BY <1>2, <2>1, <2>5 DEF NextBatch, Goto, Local, Locals, Sending
    <3> QED
      BY <2>1, <2>3, <2>5, <3>1
  <2>6. CASE PrepareBatch(w)
    BY <1>2, <2>3, <2>4, <2>5, <2>6 DEF PrepareBatch, Raise, Goto, Sending
  <2>7. CASE AcceptBatch(w)
    <3>1. cp'[J(w)].next = loc[w].batch + 1
      BY <2>1, <2>2, <2>7 DEF AcceptBatch, Checkpoint
    <3> QED
      BY <2>3, <2>5, <2>7, <3>1 DEF AcceptBatch
  <2> QED
    BY <1>6, <2>6, <2>7
<1>7. CASE ClaimJob(w) \/ LoseLease(w) \/ Die(w) \/ CompleteJob(w) \/ HandleFailure(w)
           \/ RejectPayload(w) \/ ReadSession(w) \/ WaitOwned(w)
  BY <1>2, <1>7 DEF ClaimJob, LoseLease, Die, CompleteJob, HandleFailure, RejectPayload,
                    ReadSession, WaitOwned, Goto, Raise, ToIdle, Sending
<1>8. CASE NoJob(w)
  BY <1>8 DEF NoJob, turnVars, Sending
<1>9. CASE ReportStage(w) \/ QueryStatus(w)
  BY <1>2, <1>9 DEF ReportStage, QueryStatus, StageAt, QueryAt, Goto, Raise, Sending
<1>10. CASE PersistCompatibility(w) \/ BindSession(w) \/ PersistFinalHash(w) \/ PersistZone(w)
  BY <1>2, <1>10 DEF PersistCompatibility, BindSession, PersistFinalHash, PersistZone, Goto,
                     Raise, Sending
<1>11. CASE CallStart(w) \/ CallFinalize(w) \/ CallActivate(w)
  BY <1>2, <1>11 DEF CallStart, CallFinalize, CallActivate, Goto, Raise, Sending
<1>12. CASE RecordSession(w) \/ RecordReadiness(w) \/ RecordActivation(w)
  BY <1>2, <1>12 DEF RecordSession, RecordReadiness, RecordActivation, Goto, Raise, Sending
<1> QED
  BY <1>3, <1>4, <1>5, <1>6, <1>7, <1>8, <1>9, <1>10, <1>11, <1>12 DEF Turn, Proceed

\* The others: a ledger that changed under somebody else's fence is not theirs.
LEMMA OthersHistory ==
    ASSUME HInv, [DeliveryNext]_deliveryVars, NEW v \in Workers,
           token'[v] = token[v], pc'[v] = pc[v], loc'[v] = loc[v],
           \A w \in Workers : Turn(w) => w # v
    PROVE  OwnHistory(v)'
<1> SUFFICES ASSUME Current(v)', pc[v] \in Sending
             PROVE  OwnHistory(v)'
  BY DEF OwnHistory
<1> USE DEF HInv
<1>1. token[v] # Null /\ J(v) \in Jobs /\ J(v)' = J(v)
  BY HoldsToken DEF J, Sending
<1>2. Current(v)
  <2>1. \/ \E j \in Jobs : CreateOrGet(j)
        \/ Tick
        \/ \E u \in Workers : WorkerStep(u)
        \/ UNCHANGED vars
    BY TurnRefines DEF DeliveryNext, Submit, TimePasses, AstraVector, ExecuteLate, FinishFinalize,
                       SyncVectors, deliveryVars
  <2> QED
    BY <1>1, <2>1, CurrentBefore DEF DInv
<1>3. rows'[J(v)] = rows[J(v)] /\ cp'[J(v)].next = cp[J(v)].next
  <2>1. CASE \E w \in Workers : Turn(w)
    <3>1. PICK w \in Workers : Turn(w)
      BY <2>1
    <3>2. w # v
      BY <3>1
    <3> QED
      BY <1>1, <1>2, <3>1, <3>2, LedgerIsFenced, OneCurrent DEF DInv
  <2>2. CASE ~ \E w \in Workers : Turn(w)
    BY <2>2 DEF DeliveryNext, deliveryVars, Submit, TimePasses, AstraVector, ExecuteLate,
                FinishFinalize, SyncVectors
  <2> QED
    BY <2>1, <2>2
<1> QED
  BY <1>1, <1>2, <1>3 DEF OwnHistory

\* Every step keeps what the current owner knows of its rows.
LEMMA NextHInv == HInv /\ [DeliveryNext]_deliveryVars => HInv'
<1> SUFFICES ASSUME HInv, [DeliveryNext]_deliveryVars PROVE HInv'
  OBVIOUS
<1>1. DInv'
  BY NextDInv DEF HInv
<1>2. \A v \in Workers : OwnHistory(v)'
  <2> SUFFICES ASSUME NEW v \in Workers PROVE OwnHistory(v)'
    OBVIOUS
  <2>1. CASE Turn(v)
    BY <2>1, OwnTurn
  <2>2. ASSUME NEW w \in Workers, Turn(w), ~Turn(v) PROVE OwnHistory(v)'
    <3>1. Frame(w) /\ v # w
      BY <2>2, TurnFrame DEF HInv
    <3>2. token'[v] = token[v] /\ pc'[v] = pc[v] /\ loc'[v] = loc[v]
      BY <3>1 DEF Frame, HInv, DInv, TurnInv
    <3> QED
      BY <2>2, <3>2, OthersHistory
  <2>3. CASE ~ \E w \in Workers : Turn(w)
    <3>1. token' = token /\ pc' = pc /\ loc' = loc
      BY <2>3 DEF DeliveryNext, Submit, CreateOrGet, TimePasses, Tick, AstraVector, ExecuteLate,
                  FinishFinalize, SyncVectors, deliveryVars, vars, turnVars
    <3> QED
      BY <2>3, <3>1, OthersHistory
  <2> QED
    BY <2>1, <2>2, <2>3
<1> QED
  BY <1>1, <1>2 DEF HInv

\* The owner of a job is never refused by the order of its own ledger, whatever
\* the lengths of the plans before it: the DeliverySequenceError branches of
\* prepare_batch and mark_accepted are unreachable for it.
THEOREM OwnHistoryFits == DeliverySpec => []HistoryFits
<1>1. DeliveryInit => HInv
  BY InitDInv DEF DeliveryInit, HInv, OwnHistory, Sending
<1>2. HInv => HistoryFits
  <2> SUFFICES ASSUME HInv, NEW w \in Workers, Fenced(w)
               PROVE  /\ pc[w] = "prepare" /\ Row(w).hash \in {Null, Hash(w)} =>
                            IF Row(w).status = "ACCEPTED" THEN loc[w].batch < cp[J(w)].next
                            ELSE loc[w].batch = cp[J(w)].next
                      /\ pc[w] = "accept" =>
                            /\ Row(w) = [status |-> "PREPARED", hash |-> Hash(w)]
                            /\ loc[w].batch = cp[J(w)].next
    BY DEF HistoryFits
  <2> USE DEF HInv
  <2>1. Current(w) /\ J(w) \in Jobs /\ D(w) \in Docs
    BY TokenJob DEF Fenced, Current, J, DInv
  <2>2. /\ loc[w].batch \in Batch /\ loc[w].batch \in Nat /\ cp[J(w)].next \in Nat
    BY <2>1, ConstantFacts DEF DInv, TurnInv, LocalInv, Locals, TableInv, Checkpoint
  <2>3. ASSUME pc[w] = "prepare"
        PROVE  IF Row(w).status = "ACCEPTED" THEN loc[w].batch < cp[J(w)].next
               ELSE loc[w].batch = cp[J(w)].next
    <3>1. loc[w].batch <= cp[J(w)].next
      BY <2>1, <2>3 DEF OwnHistory, Sending
    <3>2. Row(w).status = "ACCEPTED" <=> loc[w].batch < cp[J(w)].next
      BY <2>1, <2>2 DEF Row, DInv, TableInv, AcceptedPrefix
    <3> QED
      BY <2>2, <3>1, <3>2
  <2>4. ASSUME pc[w] = "accept"
        PROVE  /\ Row(w) = [status |-> "PREPARED", hash |-> Hash(w)]
               /\ loc[w].batch = cp[J(w)].next
    BY <2>1, <2>4 DEF OwnHistory, Sending, Row, Hash
  <2> QED
    BY <2>3, <2>4
<1> QED
  BY <1>1, <1>2, NextHInv, PTL DEF DeliverySpec
=============================================================================
