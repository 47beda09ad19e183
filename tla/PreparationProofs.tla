------------------------- MODULE PreparationProofs --------------------------
(***************************************************************************)
(* Proofs about the preparation of a job, for any number of jobs, workers, *)
(* contents, pipeline versions and artifact parts.                         *)
(*                                                                         *)
(* The publication is correct because every object a worker has passed is  *)
(* in the store for good (Progress, of workers with and without a lease),  *)
(* and the payload because checkpoint and source hash of a job change only *)
(* under its fence, so not behind the back of its current owner.           *)
(***************************************************************************)
EXTENDS Preparation, JobLeaseProofs

Writing == {"fence", "probe", "put"}
Labels  == TxLabels \cup {"acquire", "prepare", "probe", "put"}
Locals  == [source : Contents \cup {Null}, art : Artifacts \cup {Null}, obj : Objects]
States  == {"absent", "good", "bad"}

Written(a, o) == store[a][o] # "absent"
Published(a)  == \A o \in Objects : Written(a, o)

PreparationTypeOK ==
    /\ pc \in [Workers -> Labels]
    /\ loc \in [Workers -> Locals]
    /\ source \in [Jobs -> Contents]
    /\ hash \in [Jobs -> Contents \cup {Null}]
    /\ ckpt \in [Jobs -> PreparedArtifactCheckpoint \cup {Null}]
    /\ store \in [Artifacts -> [Objects -> States]]

\* A checkpoint repeats what its artifact is made of, and is no newer than the row.
CheckpointInv(j) ==
    ckpt[j] # Null =>
        /\ ckpt[j].source = ckpt[j].art.source
        /\ ckpt[j].compat = ckpt[j].art.compat
        /\ ckpt[j].gen <= job[j].gen

\* What a worker has achieved at its label, whether it still has its lease or not.
Progress(w) ==
    /\ pc[w] # "idle" => token[w] # Null
    /\ pc[w] \in {"record", "prepare"} => loc[w].source \in Contents
    /\ pc[w] \in Writing =>
          /\ loc[w].art \in Artifacts
          /\ \A o \in Objects : o < loc[w].obj => Written(loc[w].art, o)
    /\ pc[w] = "install" => loc[w].art \in Artifacts /\ Published(loc[w].art)
    /\ pc[w] \notin Writing \cup {"failed"} => loc[w].obj = 1

\* The payload of the current owner.
Payload(w) ==
    pc[w] = "deliver" /\ Current(w) =>
        /\ ckpt[J(w)] # Null
        /\ loc[w].art = ckpt[J(w)].art
        /\ loc[w].art.source = hash[J(w)]
        /\ loc[w].art.compat = Compat[w]

PInv ==
    /\ IInv
    /\ PreparationTypeOK
    /\ \A j \in Jobs : CheckpointInv(j)
    /\ \A w \in Workers : Progress(w) /\ Payload(w)

-----------------------------------------------------------------------------
(* The preparation implements the queue.                                   *)

\* Every step of a turn is a step of the worker in the queue, or leaves the
\* queue alone.
LEMMA TurnRefines ==
    ASSUME NEW w \in Workers, Proceed(w) \/ LeaveTurn(w)
    PROVE  WorkerStep(w) \/ UNCHANGED vars
<1>1. CASE Begin(w)
  BY <1>1 DEF Begin, WorkerStep
<1>2. CASE ClaimJob(w)
  BY <1>2 DEF ClaimJob, Claim, WorkerStep
<1>3. CASE LeaveTurn(w)
  BY <1>3 DEF LeaveTurn, EndTurn, WorkerStep
<1>4. CASE FailTurn(w) \/ Deliver(w)
  BY <1>4 DEF FailTurn, Deliver, EndTurn, WorkerStep
<1>5. CASE Resume(w) \/ FenceObject(w) \/ Install(w)
  BY <1>5 DEF Resume, FenceObject, Install, OwnsForInstall, WorkerStep
<1>6. CASE RecordAcquired(w)
  BY <1>6, PreparationAssumption DEF RecordAcquired, WorkerStep
<1>7. CASE Acquire(w) \/ Prepare(w) \/ ProbeObject(w) \/ PutObject(w)
  BY <1>7 DEF Acquire, Prepare, ProbeObject, PutObject
<1> QED
  BY <1>1, <1>2, <1>3, <1>4, <1>5, <1>6, <1>7 DEF Proceed

\* Every step is a step of the queue or leaves it alone.
LEMMA StepRefines == [PreparationNext]_preparationVars => [Next]_vars
<1>1. ASSUME NEW j \in Jobs, Submit(j) \/ Overwrite(j) PROVE [Next]_vars
  BY <1>1 DEF Submit, Overwrite, Next
<1>2. ASSUME NEW w \in Workers, Proceed(w) \/ LeaveTurn(w) PROVE [Next]_vars
  BY <1>2, TurnRefines DEF Next
<1>3. ASSUME NEW a \in Artifacts, NEW o \in Objects, Damage(a, o) PROVE UNCHANGED vars
  BY <1>3 DEF Damage
<1>4. TimePasses => Next
  BY DEF TimePasses, Next
<1>5. UNCHANGED preparationVars => UNCHANGED vars
  BY DEF preparationVars
<1> QED
  BY <1>1, <1>2, <1>3, <1>4, <1>5 DEF PreparationNext

\* The preparation moves jobs, attempts and leases only as the queue allows
\* (acquisition_checkpoint, prepared_artifact_checkpoint and the resumer all go
\* through the fence), so every theorem about the queue holds of it.
THEOREM PreparationRefinesQueue == PreparationSpec => PreparationKeepsQueue
<1>1. PreparationInit => Init
  BY DEF PreparationInit
<1> QED
  BY <1>1, StepRefines, PTL DEF PreparationSpec, PreparationKeepsQueue, Spec

-----------------------------------------------------------------------------
(* Facts about the operators of the model.                                 *)

\* The parts in their order, and the manifest after them.
LEMMA ObjectFacts ==
    /\ Manifest \in Objects /\ 1 \in Objects /\ Objects \subseteq Nat
    /\ \A o \in Objects : o <= Manifest
    /\ \A o \in Objects : o # Manifest => o + 1 \in Objects
BY PreparationAssumption DEF Objects, Manifest

\* The memory of a process outside a turn.
LEMMA LocFacts == Loc0 \in Locals /\ Loc0.obj = 1 /\ Loc0.art = Null
BY ObjectFacts DEF Loc0, Locals

\* The job of a token.
LEMMA TokenJob ==
    ASSUME IInv, NEW w \in Workers, token[w] # Null
    PROVE  J(w) \in Jobs /\ token[w] \in LeaseToken /\ token[w].gen \in Nat \ {0}
BY DEF IInv, TypeOK, LeaseToken, J

\* There is one current owner of a job, and who passes the fence is current.
LEMMA OneOwner ==
    ASSUME IInv, NEW v \in Workers, NEW w \in Workers, Fenced(v), Current(w), J(v) = J(w)
    PROVE  v = w
BY DEF IInv, TokensAreClaims, Fenced, Current, J

\* Nobody becomes current but by a claim of its own.
LEMMA CurrentBefore ==
    ASSUME IInv, [Next]_vars, NEW w \in Workers, token'[w] = token[w], Current(w)'
    PROVE  Current(w) /\ J(w)' = J(w)
<1>1. token[w] # Null /\ J(w)' = J(w) /\ token[w].gen = job'[J(w)].gen
  BY DEF Current, J
<1>2. J(w) \in Jobs /\ token[w].gen \in Nat
  BY <1>1, TokenJob
<1>3. /\ job[J(w)].gen \in Nat /\ job'[J(w)].gen \in Nat /\ job[J(w)].gen <= job'[J(w)].gen
      /\ token[w].gen <= job[J(w)].gen
  BY <1>1, <1>2, GenGrows DEF IInv, TokensAreClaims, J
<1> QED
  BY <1>1, <1>2, <1>3 DEF Current

-----------------------------------------------------------------------------
(* A step of one worker, and what it leaves to the others.                 *)

\* Checkpoint and source hash change under the fence only, and no object goes.
Keeps(w) ==
    /\ \A v \in Workers \ {w} : token'[v] = token[v]
    /\ \A j \in Jobs : ckpt'[j] # ckpt[j] \/ hash'[j] # hash[j] => Fenced(w) /\ J(w) = j
    /\ \A a \in Artifacts, o \in Objects : Written(a, o) => Written(a, o)'

\* A worker changes its own program counter and locals only.
OwnLocals(w) ==
    /\ pc' = [pc EXCEPT ![w] = pc'[w]] /\ pc'[w] \in Labels
    /\ loc' = [loc EXCEPT ![w] = loc'[w]] /\ loc'[w] \in Locals

\* The tables, the store and the producer's objects keep their types.
TablesOK ==
    /\ source \in [Jobs -> Contents]
    /\ hash \in [Jobs -> Contents \cup {Null}]
    /\ ckpt \in [Jobs -> PreparedArtifactCheckpoint \cup {Null}]
    /\ store \in [Artifacts -> [Objects -> States]]

\* A worker that stays where it is keeps what it has achieved, and its payload.
LEMMA StaysPut ==
    ASSUME PInv, [Next]_vars, NEW v \in Workers,
           token'[v] = token[v], pc'[v] = pc[v], loc'[v] = loc[v],
           Current(v) => ckpt'[J(v)] = ckpt[J(v)] /\ hash'[J(v)] = hash[J(v)],
           \A a \in Artifacts, o \in Objects : Written(a, o) => Written(a, o)'
    PROVE  Progress(v)' /\ Payload(v)'
<1>1. Progress(v) /\ Payload(v) /\ IInv
  BY DEF PInv
<1>2. \A a \in Artifacts : Published(a) => Published(a)'
  BY DEF Published
<1>3. Progress(v)'
  BY <1>1, <1>2 DEF Progress
<1>4. Payload(v)'
  <2> SUFFICES ASSUME pc[v] = "deliver", Current(v)'
               PROVE  /\ ckpt'[J(v)'] # Null
                      /\ loc[v].art = ckpt'[J(v)'].art
                      /\ loc[v].art.source = hash'[J(v)']
                      /\ loc[v].art.compat = Compat[v]
    BY DEF Payload
  <2>1. Current(v) /\ J(v)' = J(v)
    BY <1>1, CurrentBefore
  <2> QED
    BY <1>1, <2>1 DEF Payload
<1> QED
  BY <1>3, <1>4

\* The steps of one worker leave the others where they are.
LEMMA OtherWorker ==
    ASSUME PInv, [Next]_vars, NEW v \in Workers, NEW w \in Workers, v # w, Keeps(w),
           pc'[v] = pc[v], loc'[v] = loc[v]
    PROVE  Progress(v)' /\ Payload(v)'
<1>1. Current(v) => ckpt'[J(v)] = ckpt[J(v)] /\ hash'[J(v)] = hash[J(v)]
  BY TokenJob, OneOwner DEF PInv, Keeps, Current
<1> QED
  BY <1>1, StaysPut DEF Keeps

\* A step of one worker keeps the invariant, if it does for its own part.
LEMMA TurnStep ==
    ASSUME PInv, [Next]_vars, NEW w \in Workers, OwnLocals(w), Keeps(w), TablesOK',
           \A j \in Jobs : CheckpointInv(j)', Progress(w)', Payload(w)'
    PROVE  PInv'
<1>1. IInv'
  BY NextIInv DEF PInv
<1>2. PreparationTypeOK'
  BY DEF PInv, PreparationTypeOK, OwnLocals, TablesOK
<1>3. \A v \in Workers \ {w} : pc'[v] = pc[v] /\ loc'[v] = loc[v]
  BY DEF PInv, PreparationTypeOK, OwnLocals
<1>4. \A v \in Workers : Progress(v)' /\ Payload(v)'
  BY <1>3, OtherWorker
<1> QED
  BY <1>1, <1>2, <1>4 DEF PInv

\* Where tables and store are left alone, so are checkpoints and objects.
LEMMA QuietTables ==
    ASSUME PInv, [Next]_vars, UNCHANGED <<source, hash, ckpt, store>>
    PROVE  /\ TablesOK' /\ \A j \in Jobs : CheckpointInv(j)'
           /\ \A a \in Artifacts, o \in Objects : Written(a, o) => Written(a, o)'
<1>1. TablesOK'
  BY DEF PInv, PreparationTypeOK, TablesOK
<1>2. \A a \in Artifacts, o \in Objects : Written(a, o) => Written(a, o)'
  BY DEF Written
<1>3. ASSUME NEW j \in Jobs PROVE CheckpointInv(j)'
  <2>1. job[j].gen \in Nat /\ job'[j].gen \in Nat /\ job[j].gen <= job'[j].gen
    BY GenGrows DEF PInv
  <2>2. ckpt[j] # Null => ckpt[j].gen \in Nat
    BY DEF PInv, PreparationTypeOK, PreparedArtifactCheckpoint
  <2> QED
    BY <2>1, <2>2 DEF PInv, CheckpointInv
<1> QED
  BY <1>1, <1>2, <1>3

\* A move of a worker that touches neither tables nor store.
LEMMA QuietStep ==
    ASSUME PInv, NEW w \in Workers, WorkerStep(w) \/ UNCHANGED vars,
           UNCHANGED <<source, hash, ckpt, store>>, OwnLocals(w), Progress(w)', Payload(w)'
    PROVE  PInv'
<1>1. [Next]_vars
  BY DEF Next
<1>2. \A v \in Workers \ {w} : token'[v] = token[v]
  BY OwnToken DEF PInv, vars
<1>3. Keeps(w)
  BY <1>1, <1>2, QuietTables DEF Keeps
<1> QED
  BY <1>1, <1>3, QuietTables, TurnStep

-----------------------------------------------------------------------------
(* One lemma per kind of step.                                             *)

\* What the invariant says of one worker.
LEMMA AtLabel ==
    ASSUME PInv, NEW w \in Workers
    PROVE  /\ IInv /\ TypeOK /\ Progress(w) /\ Payload(w) /\ TablesOK
           /\ pc \in [Workers -> Labels] /\ loc \in [Workers -> Locals] /\ loc[w] \in Locals
BY DEF PInv, IInv, PreparationTypeOK, TablesOK

\* A transaction begins, or the claim finds nothing.
LEMMA BeginStep ==
    ASSUME PInv, NEW w \in Workers, Begin(w) \/ ClaimJob(w)
    PROVE  PInv'
<1>1. IInv /\ Progress(w) /\ pc \in [Workers -> Labels] /\ loc \in [Workers -> Locals]
  BY AtLabel
<1>2. UNCHANGED <<source, hash, ckpt, store>> /\ (WorkerStep(w) \/ UNCHANGED vars)
  BY TurnRefines DEF Proceed, Begin, ClaimJob
<1>3. CASE Begin(w) \/ (ClaimJob(w) /\ ClaimNothing(w) /\ UNCHANGED pc)
  <2>1. pc' = pc /\ loc' = loc /\ token' = token
    BY <1>3 DEF Begin, ClaimJob, BeginTx, ClaimNothing, turnVars
  <2>2. Progress(w)' /\ Payload(w)'
    BY <1>2, <2>1, StaysPut, QuietTables DEF Next
  <2>3. OwnLocals(w)
    BY <1>1, <2>1 DEF OwnLocals
  <2> QED
    BY <1>2, <2>2, <2>3, QuietStep
<1>4. CASE \E j \in Jobs : ClaimNext(w, j) /\ pc[w] = "idle" /\ Goto(w, "resume") /\ UNCHANGED loc
  <2>1. pc[w] = "idle" /\ pc' = [pc EXCEPT ![w] = "resume"] /\ loc' = loc /\ token'[w] # Null
    BY <1>1, <1>4, ClaimToken DEF Goto
  <2>2. Progress(w)' /\ Payload(w)'
    BY <1>1, <2>1 DEF Progress, Payload, Writing
  <2>3. OwnLocals(w)
    BY <1>1, <2>1 DEF OwnLocals, Labels, TxLabels
  <2> QED
    BY <1>2, <2>2, <2>3, QuietStep
<1> QED
  BY <1>3, <1>4 DEF ClaimJob

\* The turn ends: by a verdict, a lost lease or a crash.
LEMMA EndStep ==
    ASSUME PInv, NEW w \in Workers, LeaveTurn(w) \/ FailTurn(w) \/ Deliver(w)
    PROVE  PInv'
<1>1. IInv /\ pc \in [Workers -> Labels] /\ loc \in [Workers -> Locals]
  BY AtLabel
<1>2. UNCHANGED <<source, hash, ckpt, store>> /\ (WorkerStep(w) \/ UNCHANGED vars) /\ ToIdle(w)
  BY TurnRefines DEF Proceed, LeaveTurn, FailTurn, Deliver
<1>3. token'[w] = Null
  BY <1>1, TurnDropsToken DEF LeaveTurn, FailTurn, Deliver, EndTurn
<1>4. pc' = [pc EXCEPT ![w] = "idle"] /\ loc' = [loc EXCEPT ![w] = Loc0]
  BY <1>2 DEF ToIdle, Goto
<1>5. Progress(w)' /\ Payload(w)'
  BY <1>1, <1>4, LocFacts DEF Progress, Payload, Writing
<1>6. OwnLocals(w)
  BY <1>1, <1>4, LocFacts DEF OwnLocals, Labels, TxLabels
<1> QED
  BY <1>2, <1>5, <1>6, QuietStep

\* A fenced transaction on the job of w keeps the token.
LEMMA OwnedStep ==
    ASSUME IInv, NEW w \in Workers, AssertOwned(w)
    PROVE  /\ token[w] # Null /\ token' = token /\ job' = job
           /\ Fenced(w) /\ Current(w) /\ J(w) \in Jobs /\ WorkerStep(w)
BY TokenJob DEF AssertOwned, Fenced, Current, J, WorkerStep

\* The checkpoint is read and verified: the payload is the artifact it names.
LEMMA ResumeStep ==
    ASSUME PInv, NEW w \in Workers, Resume(w)
    PROVE  PInv'
<1> DEFINE c == ckpt[J(w)]
           outcome == ResumeOutcome(w)
<1>1. /\ IInv /\ pc \in [Workers -> Labels] /\ loc \in [Workers -> Locals] /\ loc[w] \in Locals
      /\ TablesOK /\ Progress(w)
  BY AtLabel
<1>2. /\ pc[w] = "resume" /\ AssertOwned(w) /\ UNCHANGED <<source, hash, ckpt, store>>
      /\ \/ outcome = "reprocess" /\ Goto(w, "acquire") /\ UNCHANGED loc
         \/ /\ outcome = "replay"
            /\ Goto(w, "deliver")
            /\ loc' = [loc EXCEPT ![w].art = c.art]
         \/ Goto(w, "failed") /\ UNCHANGED loc
  BY DEF Resume, Raise
<1>3. /\ token[w] # Null /\ token' = token /\ job' = job /\ Current(w) /\ J(w) \in Jobs
      /\ WorkerStep(w)
  BY <1>1, <1>2, OwnedStep
<1>4. loc[w].obj = 1
  BY <1>1, <1>2 DEF Progress, Writing
<1>5. CASE pc' = [pc EXCEPT ![w] = "acquire"] \/ pc' = [pc EXCEPT ![w] = "failed"]
  <2>1. loc' = loc
    BY <1>1, <1>2, <1>5 DEF Goto
  <2>2. OwnLocals(w)
    BY <1>1, <1>5, <2>1 DEF OwnLocals, Labels, TxLabels
  <2>3. Progress(w)' /\ Payload(w)'
    BY <1>1, <1>3, <1>4, <1>5, <2>1 DEF Progress, Payload, Writing
  <2> QED
    BY <1>2, <1>3, <2>2, <2>3, QuietStep
<1>6. CASE outcome = "replay" /\ Goto(w, "deliver") /\ loc' = [loc EXCEPT ![w].art = c.art]
  <2>1. /\ c # Null /\ LineageFits(J(w)) /\ ManifestIsSound(c) /\ ReplayDecision(c, w) # "REPROCESS"
    BY <1>6 DEF ResumeOutcome
  <2>2. /\ c \in PreparedArtifactCheckpoint /\ c.art \in Artifacts
        /\ c.art.source = c.source /\ c.art.compat = c.compat
    BY <1>1, <1>3, <2>1 DEF PInv, TablesOK, CheckpointInv, PreparedArtifactCheckpoint
  <2>3. c.source = hash[J(w)] /\ c.compat = Compat[w]
    BY <2>1 DEF LineageFits, ReplayDecision
  <2>4. /\ pc'[w] = "deliver" /\ loc'[w] = [loc[w] EXCEPT !.art = c.art]
        /\ loc'[w] \in Locals /\ loc'[w].art = c.art /\ loc'[w].obj = 1
    BY <1>1, <1>4, <1>6, <2>2 DEF Goto, Locals
  <2>5. OwnLocals(w)
    BY <1>1, <1>6, <2>4 DEF OwnLocals, Goto, Labels, TxLabels
  <2>6. J(w)' = J(w) /\ ckpt'[J(w)] = c /\ hash'[J(w)] = hash[J(w)]
    BY <1>2, <1>3 DEF J
  <2>7. Progress(w)'
    BY <1>3, <2>4 DEF Progress, Writing
  <2>8. Payload(w)'
    BY <2>1, <2>2, <2>3, <2>4, <2>6 DEF Payload
  <2> QED
    BY <1>2, <1>3, <2>5, <2>7, <2>8, QuietStep
<1> QED
  BY <1>2, <1>5, <1>6 DEF Goto

\* The source is downloaded, or not.
LEMMA AcquireStep ==
    ASSUME PInv, NEW w \in Workers, Acquire(w)
    PROVE  PInv'
<1>1. /\ IInv /\ pc \in [Workers -> Labels] /\ loc \in [Workers -> Locals] /\ loc[w] \in Locals
      /\ TablesOK /\ Progress(w)
  BY AtLabel
<1>2. /\ pc[w] = "acquire" /\ UNCHANGED vars /\ UNCHANGED <<source, hash, ckpt, store>>
      /\ \/ /\ pc' = [pc EXCEPT ![w] = "record"]
            /\ loc' = [loc EXCEPT ![w].source = source[J(w)]]
         \/ pc' = [pc EXCEPT ![w] = "failed"] /\ loc' = loc
  BY DEF Acquire, Raise, Goto
<1>3. token[w] # Null /\ token' = token /\ loc[w].obj = 1
  BY <1>1, <1>2 DEF Progress, Writing, vars
<1>4. source[J(w)] \in Contents
  BY <1>1, <1>3, TokenJob DEF TablesOK
<1>5. loc'[w] \in Locals /\ loc'[w].obj = 1 /\ (pc'[w] = "record" => loc'[w].source \in Contents)
  BY <1>1, <1>2, <1>3, <1>4 DEF Locals
<1>6. OwnLocals(w)
  BY <1>1, <1>2, <1>5 DEF OwnLocals, Labels, TxLabels
<1>7. Progress(w)' /\ Payload(w)'
  BY <1>1, <1>2, <1>3, <1>5 DEF Progress, Payload, Writing
<1> QED
  BY <1>2, <1>6, <1>7, QuietStep

\* The source hash is recorded, under the fence.
LEMMA RecordStep ==
    ASSUME PInv, NEW w \in Workers, RecordAcquired(w)
    PROVE  PInv'
<1>1. /\ IInv /\ pc \in [Workers -> Labels] /\ loc \in [Workers -> Locals] /\ loc[w] \in Locals
      /\ TablesOK /\ Progress(w)
  BY AtLabel
<1>2. /\ pc[w] = "record" /\ Fenced(w) /\ token' = token
      /\ hash' = [hash EXCEPT ![J(w)] = loc[w].source]
      /\ pc' = [pc EXCEPT ![w] = "prepare"]
      /\ UNCHANGED <<loc, source, ckpt, store>>
  BY DEF RecordAcquired, AdvanceStage, Goto
<1>3. WorkerStep(w)
  BY PreparationAssumption DEF RecordAcquired, WorkerStep
<1>4. [Next]_vars
  BY <1>3 DEF Next
<1>5. token[w] # Null /\ J(w) \in Jobs /\ loc[w].source \in Contents /\ loc[w].obj = 1
  BY <1>1, <1>2, TokenJob DEF Fenced, Progress, Writing
<1>6. TablesOK'
  BY <1>1, <1>2, <1>5 DEF TablesOK
<1>7. Keeps(w)
  BY <1>1, <1>2, <1>5 DEF Keeps, Written, TablesOK
<1>8. ASSUME NEW j \in Jobs PROVE CheckpointInv(j)'
  <2>1. job[j].gen \in Nat /\ job'[j].gen \in Nat /\ job[j].gen <= job'[j].gen
    BY <1>1, <1>4, GenGrows
  <2>2. ckpt[j] # Null => ckpt[j].gen \in Nat
    BY <1>1 DEF TablesOK, PreparedArtifactCheckpoint
  <2> QED
    BY <1>2, <2>1, <2>2 DEF PInv, CheckpointInv
<1>9. OwnLocals(w)
  BY <1>1, <1>2 DEF OwnLocals, Labels, TxLabels
<1>10. Progress(w)' /\ Payload(w)'
  BY <1>1, <1>2, <1>5 DEF Progress, Payload, Writing
<1> QED
  BY <1>4, <1>6, <1>7, <1>8, <1>9, <1>10, TurnStep

\* The pipeline runs and the artifact gets its identity.
LEMMA PrepareStep ==
    ASSUME PInv, NEW w \in Workers, Prepare(w)
    PROVE  PInv'
<1>1. /\ IInv /\ pc \in [Workers -> Labels] /\ loc \in [Workers -> Locals] /\ loc[w] \in Locals
      /\ TablesOK /\ Progress(w)
  BY AtLabel
<1>2. PICK out \in Outputs :
         loc' = [loc EXCEPT ![w].art = [doc |-> Document[J(w)], source |-> loc[w].source,
                                        compat |-> Compat[w], out |-> out]]
  BY DEF Prepare
<1>3. /\ pc[w] = "prepare" /\ pc' = [pc EXCEPT ![w] = "fence"]
      /\ UNCHANGED vars /\ UNCHANGED <<source, hash, ckpt, store>>
  BY DEF Prepare, Goto
<1>4. token[w] # Null /\ token' = token /\ loc[w].obj = 1 /\ loc[w].source \in Contents
  BY <1>1, <1>3 DEF Progress, Writing, vars
<1>5. Document[J(w)] \in Docs
  BY <1>1, <1>4, TokenJob DEF Docs
<1> DEFINE a == [doc |-> Document[J(w)], source |-> loc[w].source,
                 compat |-> Compat[w], out |-> out]
<1>6. a \in Artifacts
  BY <1>4, <1>5 DEF Artifacts
<1> HIDE DEF a
<1>7. loc' = [loc EXCEPT ![w].art = a]
  BY <1>2 DEF a
<1>8. loc'[w] \in Locals /\ loc'[w].obj = 1 /\ loc'[w].art = a
  BY <1>1, <1>4, <1>6, <1>7 DEF Locals
<1>9. OwnLocals(w)
  BY <1>1, <1>3, <1>7, <1>8 DEF OwnLocals, Labels, TxLabels
<1>10. \A o \in Objects : ~(o < 1)
  BY PreparationAssumption DEF Objects, Manifest
<1>11. Progress(w)' /\ Payload(w)'
  BY <1>1, <1>3, <1>4, <1>6, <1>8, <1>10 DEF Progress, Payload, Writing
<1> QED
  BY <1>3, <1>9, <1>11, QuietStep

\* The lease is asked for before an object.
LEMMA FenceStep ==
    ASSUME PInv, NEW w \in Workers, FenceObject(w)
    PROVE  PInv'
<1>1. /\ IInv /\ pc \in [Workers -> Labels] /\ loc \in [Workers -> Locals] /\ loc[w] \in Locals
      /\ TablesOK /\ Progress(w)
  BY AtLabel
<1>2. /\ pc[w] = "fence" /\ pc' = [pc EXCEPT ![w] = "probe"] /\ AssertOwned(w)
      /\ UNCHANGED <<loc, source, hash, ckpt, store>>
  BY DEF FenceObject, Goto
<1>3. token[w] # Null /\ token' = token /\ WorkerStep(w)
  BY <1>1, <1>2, OwnedStep
<1>4. OwnLocals(w)
  BY <1>1, <1>2 DEF OwnLocals, Labels, TxLabels
<1>5. Progress(w)' /\ Payload(w)'
  BY <1>1, <1>2, <1>3 DEF Progress, Payload, Writing, Written
<1> QED
  BY <1>2, <1>3, <1>4, <1>5, QuietStep

\* An object is in the store: the worker goes on with the next one, or has
\* published them all.
LEMMA NextObjectLocal ==
    ASSUME PInv, NEW w \in Workers, pc[w] \in Writing, NextObject(w), token' = token,
           NEW a, NEW n, a = loc[w].art, n = loc[w].obj, Written(a, n)',
           \A o \in Objects : Written(a, o) => Written(a, o)'
    PROVE  OwnLocals(w) /\ Progress(w)' /\ Payload(w)'
<1> DEFINE m == IF n = Manifest THEN 1 ELSE n + 1
<1>1. /\ pc \in [Workers -> Labels] /\ loc \in [Workers -> Locals] /\ loc[w] \in Locals
      /\ Progress(w)
  BY AtLabel
<1>2. n \in Objects /\ a \in Artifacts /\ token[w] # Null
  BY <1>1 DEF Locals, Progress, Writing
<1>3. m \in Objects
  BY <1>2, ObjectFacts
<1>4. /\ pc' = [pc EXCEPT ![w] = IF n = Manifest THEN "install" ELSE "fence"]
      /\ loc' = [loc EXCEPT ![w] = [loc[w] EXCEPT !.obj = m]]
  BY DEF NextObject, Goto
<1> HIDE DEF m
<1>5. loc'[w] \in Locals /\ loc'[w].obj = m /\ loc'[w].art = a
  BY <1>1, <1>3, <1>4 DEF Locals
<1>6. OwnLocals(w)
  BY <1>1, <1>4, <1>5 DEF OwnLocals, Labels, TxLabels
<1>7. \A o \in Objects : o <= n => Written(a, o)'
  <2> SUFFICES ASSUME NEW o \in Objects, o <= n PROVE Written(a, o)'
    OBVIOUS
  <2>1. CASE o = n
    BY <2>1
  <2>2. CASE o < n
    <3>1. Written(a, o)
      BY <1>1, <2>2 DEF Progress
    <3> QED
      BY <3>1
  <2> QED
    BY <1>2, <2>1, <2>2, ObjectFacts
<1>8. CASE n = Manifest
  <2>1. m = 1 /\ Published(a)'
    BY <1>7, <1>8, ObjectFacts DEF Published, m
  <2>2. pc'[w] = "install"
    BY <1>1, <1>4, <1>8
  <2> QED
    BY <1>2, <1>5, <1>6, <2>1, <2>2 DEF Progress, Payload, Writing
<1>9. CASE n # Manifest
  <2>1. m = n + 1 /\ \A o \in Objects : o < m => Written(a, o)'
    BY <1>2, <1>7, <1>9, ObjectFacts DEF m
  <2>2. pc'[w] = "fence"
    BY <1>1, <1>4, <1>9
  <2> QED
    BY <1>2, <1>5, <1>6, <2>1, <2>2 DEF Progress, Payload, Writing
<1> QED
  BY <1>8, <1>9

\* A worker gives up before there is a payload: nothing is left to keep.
LEMMA RaiseLocal ==
    ASSUME PInv, NEW w \in Workers, NEW e, pc[w] # "idle", Raise(w, e), token' = token
    PROVE  OwnLocals(w) /\ Progress(w)' /\ Payload(w)'
<1>1. /\ pc \in [Workers -> Labels] /\ loc \in [Workers -> Locals] /\ Progress(w)
  BY AtLabel
<1>2. pc' = [pc EXCEPT ![w] = "failed"] /\ loc' = loc /\ token[w] # Null
  BY <1>1 DEF Raise, Goto, Progress
<1> QED
  BY <1>1, <1>2 DEF OwnLocals, Labels, TxLabels, Progress, Payload, Writing

\* What the store says of the next object decides whether it is put.
LEMMA ProbeStep ==
    ASSUME PInv, NEW w \in Workers, ProbeObject(w)
    PROVE  PInv'
<1>1. /\ IInv /\ pc \in [Workers -> Labels] /\ loc \in [Workers -> Locals] /\ loc[w] \in Locals
      /\ TablesOK /\ Progress(w)
  BY AtLabel
<1>2. pc[w] = "probe" /\ UNCHANGED vars /\ UNCHANGED <<source, hash, ckpt, store>> /\ token' = token
  BY DEF ProbeObject, vars
<1> DEFINE found == store[loc[w].art][loc[w].obj]
<1>3. found \in States
  BY <1>1, <1>2 DEF TablesOK, Progress, Writing, Locals
<1>4. CASE found = "absent"
  <2>1. pc' = [pc EXCEPT ![w] = "put"] /\ loc' = loc
    BY <1>4 DEF ProbeObject, Goto
  <2>2. OwnLocals(w)
    BY <1>1, <2>1 DEF OwnLocals, Labels, TxLabels
  <2>3. Progress(w)' /\ Payload(w)'
    BY <1>1, <1>2, <2>1 DEF Progress, Payload, Writing, Written
  <2> QED
    BY <1>2, <2>2, <2>3, QuietStep
<1>5. CASE found = "good"
  <2>1. NextObject(w)
    BY <1>5 DEF ProbeObject
  <2>2. /\ Written(loc[w].art, loc[w].obj) /\ pc[w] \in Writing
        /\ \A a, o : Written(a, o) => Written(a, o)'
    BY <1>2, <1>5 DEF Written, Writing
  <2>3. OwnLocals(w) /\ Progress(w)' /\ Payload(w)'
    BY <1>2, <2>1, <2>2, NextObjectLocal
  <2> QED
    BY <1>2, <2>3, QuietStep
<1>6. CASE found = "bad"
  <2>1. Raise(w, "ArtifactPublicationConflict")
    BY <1>6 DEF ProbeObject
  <2>2. OwnLocals(w) /\ Progress(w)' /\ Payload(w)'
    BY <1>2, <2>1, RaiseLocal
  <2> QED
    BY <1>2, <2>2, QuietStep
<1> QED
  BY <1>3, <1>4, <1>5, <1>6 DEF States

\* A put writes one object and takes none away.
LEMMA PutStep ==
    ASSUME PInv, NEW w \in Workers, PutObject(w)
    PROVE  PInv'
<1>1. /\ IInv /\ pc \in [Workers -> Labels] /\ loc \in [Workers -> Locals] /\ loc[w] \in Locals
      /\ TablesOK /\ Progress(w)
  BY AtLabel
<1>2. /\ pc[w] = "put" /\ pc[w] \in Writing /\ UNCHANGED vars /\ token' = token /\ job' = job
      /\ UNCHANGED <<source, hash, ckpt>>
  BY DEF PutObject, vars, Writing
<1>3. PICK a, n : a = loc[w].art /\ n = loc[w].obj
  OBVIOUS
<1>4. a \in Artifacts /\ n \in Objects
  BY <1>1, <1>2, <1>3 DEF Progress, Locals
<1> DEFINE written == [store EXCEPT ![a][n] = "good"]
<1>5. store' \in {store, written}
  BY <1>3 DEF PutObject
<1>6. /\ TablesOK'
      /\ \A b \in Artifacts, o \in Objects : Written(b, o) => Written(b, o)'
      /\ store' = written => Written(a, n)'
  <2>1. CASE store' = store
    <3>1. TablesOK' /\ \A b, o : Written(b, o)' = Written(b, o)
      BY <1>1, <1>2, <2>1 DEF TablesOK, Written
    <3>2. store = written => Written(a, n)
      BY <1>1, <1>4 DEF TablesOK, Written
    <3> QED
      BY <2>1, <3>1, <3>2
  <2>2. CASE store' = written
    <3>1. /\ written \in [Artifacts -> [Objects -> States]] /\ written[a][n] = "good"
          /\ \A b \in Artifacts, o \in Objects : written[b][o] \in {store[b][o], "good"}
      BY <1>1, <1>4 DEF TablesOK, States
    <3> HIDE DEF written
    <3> QED
      BY <1>1, <1>2, <1>4, <2>2, <3>1 DEF TablesOK, Written
  <2> QED
    BY <1>5, <2>1, <2>2
<1>7. Keeps(w)
  BY <1>2, <1>6 DEF Keeps
<1>8. \A j \in Jobs : CheckpointInv(j)'
  BY <1>2 DEF PInv, CheckpointInv
<1>9. OwnLocals(w) /\ Progress(w)' /\ Payload(w)'
  <2>1. CASE store' = written /\ NextObject(w)
    BY <1>2, <1>3, <1>4, <1>6, <2>1, NextObjectLocal
  <2>2. CASE Raise(w, "HTTPError")
    BY <1>2, <2>2, RaiseLocal
  <2> QED
    BY <1>3, <2>1, <2>2 DEF PutObject
<1> QED
  BY <1>2, <1>6, <1>7, <1>8, <1>9, TurnStep

\* The checkpoint is installed under the fence, for the artifact published.
LEMMA InstallStep ==
    ASSUME PInv, NEW w \in Workers, Install(w)
    PROVE  PInv'
<1>1. /\ IInv /\ pc \in [Workers -> Labels] /\ loc \in [Workers -> Locals] /\ loc[w] \in Locals
      /\ TablesOK /\ Progress(w)
  BY AtLabel
<1>2. /\ pc[w] = "install" /\ UNCHANGED <<source, hash, store>> /\ AssertOwned(w)
  BY DEF Install, OwnsForInstall
<1>3. /\ token[w] # Null /\ token' = token /\ job' = job
      /\ Fenced(w) /\ Current(w) /\ J(w) \in Jobs /\ WorkerStep(w)
  BY <1>1, <1>2, OwnedStep
<1>4. CASE Raise(w, "PreparedArtifactIdentityMismatch") /\ UNCHANGED ckpt
  <2>1. OwnLocals(w) /\ Progress(w)' /\ Payload(w)'
    BY <1>2, <1>3, <1>4, RaiseLocal
  <2> QED
    BY <1>2, <1>3, <1>4, <2>1, QuietStep
<1>5. ASSUME NEW c, c = [art |-> loc[w].art, source |-> loc[w].art.source,
                         compat |-> loc[w].art.compat, ttl |-> StoredTtl(J(w)),
                         gen |-> token[w].gen],
             ckpt' = [ckpt EXCEPT ![J(w)] = c], Goto(w, "resume"), UNCHANGED loc
      PROVE  PInv'
  <2>1. loc[w].art \in Artifacts /\ loc[w].obj = 1
    BY <1>1, <1>2 DEF Progress, Writing
  <2>2. StoredTtl(J(w)) \in Nat /\ token[w].gen \in Nat \ {0}
    BY <1>1, <1>3, TokenJob, PreparationAssumption DEF StoredTtl
  <2>3. c \in PreparedArtifactCheckpoint
    BY <1>5, <2>1, <2>2 DEF PreparedArtifactCheckpoint, Artifacts
  <2>4. /\ c.source = c.art.source /\ c.compat = c.art.compat /\ c.gen = job[J(w)].gen
        /\ job[J(w)].gen \in Nat
    BY <1>3, <1>5, <2>2 DEF Current
  <2>5. TablesOK'
    BY <1>1, <1>2, <1>3, <1>5, <2>3 DEF TablesOK
  <2>6. \A j \in Jobs : CheckpointInv(j)'
    BY <1>1, <1>3, <1>5, <2>4 DEF PInv, CheckpointInv, TablesOK
  <2>7. Keeps(w)
    BY <1>1, <1>2, <1>3, <1>5 DEF Keeps, Written, TablesOK
  <2>8. OwnLocals(w)
    BY <1>1, <1>5 DEF OwnLocals, Goto, Labels, TxLabels
  <2>9. Progress(w)' /\ Payload(w)'
    BY <1>1, <1>3, <1>5, <2>1 DEF Progress, Payload, Goto, Writing
  <2> QED
    BY <1>3, <2>5, <2>6, <2>7, <2>8, <2>9, TurnStep DEF Next
<1> QED
  BY <1>4, <1>5 DEF Install

\* What is outside the turns: producers, time and damage.
LEMMA WorldStep ==
    ASSUME PInv, [Next]_vars, token' = token, UNCHANGED <<turnVars, hash, ckpt>>,
           source' \in [Jobs -> Contents], store' \in [Artifacts -> [Objects -> States]],
           \A a \in Artifacts, o \in Objects : Written(a, o) => Written(a, o)'
    PROVE  PInv'
<1>1. IInv' /\ IInv
  BY NextIInv DEF PInv
<1>2. PreparationTypeOK'
  BY DEF PInv, PreparationTypeOK, turnVars
<1>3. ASSUME NEW j \in Jobs PROVE CheckpointInv(j)'
  <2>1. job[j].gen \in Nat /\ job'[j].gen \in Nat /\ job[j].gen <= job'[j].gen
    BY <1>1, GenGrows
  <2>2. ckpt[j] # Null => ckpt[j].gen \in Nat
    BY DEF PInv, PreparationTypeOK, PreparedArtifactCheckpoint
  <2> QED
    BY <2>1, <2>2 DEF PInv, CheckpointInv
<1>4. ASSUME NEW v \in Workers PROVE Progress(v)' /\ Payload(v)'
  BY StaysPut DEF turnVars
<1> QED
  BY <1>1, <1>2, <1>3, <1>4 DEF PInv

-----------------------------------------------------------------------------
(* The invariant.                                                          *)

\* Before any job is claimed.
LEMMA InitPInv == PreparationInit => PInv
<1> SUFFICES ASSUME PreparationInit PROVE PInv
  OBVIOUS
<1>1. IInv
  BY InitIInv DEF PreparationInit
<1>2. PreparationTypeOK
  BY LocFacts DEF PreparationInit, PreparationTypeOK, Labels, TxLabels, States
<1>3. \A j \in Jobs : CheckpointInv(j)
  BY DEF PreparationInit, CheckpointInv
<1>4. \A w \in Workers : Progress(w) /\ Payload(w)
  BY LocFacts DEF PreparationInit, Progress, Payload, Writing
<1> QED
  BY <1>1, <1>2, <1>3, <1>4 DEF PInv

\* Every step of processes, producers and store keeps the invariant.
LEMMA NextPInv == PInv /\ [PreparationNext]_preparationVars => PInv'
<1> SUFFICES ASSUME PInv, [PreparationNext]_preparationVars PROVE PInv'
  OBVIOUS
<1> USE StepRefines
<1>1. ASSUME NEW w \in Workers, Proceed(w) \/ LeaveTurn(w) PROVE PInv'
  BY <1>1, BeginStep, EndStep, ResumeStep, AcquireStep, RecordStep, PrepareStep, FenceStep,
     ProbeStep, PutStep, InstallStep DEF Proceed
<1>2. ASSUME NEW j \in Jobs, Submit(j) PROVE PInv'
  BY <1>2, QuietTables, WorldStep DEF Submit, CreateOrGet, TablesOK
<1>3. ASSUME NEW j \in Jobs, Overwrite(j) PROVE PInv'
  <2>1. /\ token' = token /\ UNCHANGED <<turnVars, hash, ckpt, store>>
        /\ source' \in [Jobs -> Contents]
    BY <1>3 DEF Overwrite, vars, PInv, PreparationTypeOK
  <2> QED
    BY <2>1, WorldStep DEF Written, PInv, PreparationTypeOK
<1>4. ASSUME NEW a \in Artifacts, NEW o \in Objects, Damage(a, o) PROVE PInv'
  <2>1. /\ token' = token /\ UNCHANGED <<turnVars, hash, ckpt, source>>
        /\ store' = [store EXCEPT ![a][o] = "bad"]
    BY <1>4 DEF Damage, vars
  <2>2. /\ store' \in [Artifacts -> [Objects -> States]]
        /\ \A b \in Artifacts, p \in Objects : Written(b, p) => Written(b, p)'
    BY <2>1 DEF PInv, PreparationTypeOK, States, Written
  <2> QED
    BY <2>1, <2>2, WorldStep DEF PInv, PreparationTypeOK
<1>5. CASE TimePasses
  BY <1>5, QuietTables, WorldStep DEF TimePasses, Tick, TablesOK
<1>6. CASE UNCHANGED preparationVars
  BY <1>6, QuietTables, WorldStep DEF preparationVars, vars, TablesOK
<1> QED
  BY <1>1, <1>2, <1>3, <1>4, <1>5, <1>6 DEF PreparationNext

\* PInv is an invariant of the preparation.
THEOREM PreparationInvariance == PreparationSpec => []PInv
BY InitPInv, NextPInv, PTL DEF PreparationSpec

\* The payload the current owner delivers is the artifact of its checkpoint, made
\* by its own pipeline version from the recorded source, however many workers
\* that lost their lease still publish (durable_prepared_resume, resume).
THEOREM PayloadsAreAuthoritative == PreparationSpec => []PayloadIsAuthoritative
<1>1. PInv => PayloadIsAuthoritative
  BY DEF PInv, Payload, PayloadIsAuthoritative
<1> QED
  BY <1>1, PreparationInvariance, PTL

-----------------------------------------------------------------------------
(* Types, the fence, and the two action properties.                        *)

\* Every variable of the preparation keeps its type.
THEOREM PreparationTypeCorrect == PreparationSpec => []PreparationTypeOK
<1>1. PInv => PreparationTypeOK
  BY DEF PInv
<1> QED
  BY <1>1, PreparationInvariance, PTL

\* At most one worker passes the fence of a job, during the preparation too.
THEOREM PreparationIsFenced == PreparationSpec => []SingleMutator
BY PreparationRefinesQueue, FenceIsExclusive, PTL DEF PreparationKeepsQueue

\* Only Install changes a checkpoint.
LEMMA OnlyInstallPoints ==
    ASSUME PInv, [PreparationNext]_preparationVars, NEW j \in Jobs, ckpt'[j] # ckpt[j]
    PROVE  \E w \in Workers : Install(w)
<1>1. ckpt' # ckpt
  OBVIOUS
<1> QED
  BY <1>1 DEF PreparationNext, Proceed, Submit, Overwrite, Damage, TimePasses, preparationVars,
     LeaveTurn, Begin, ClaimJob, FailTurn, Deliver, Resume, Acquire, RecordAcquired, Prepare,
     FenceObject, ProbeObject, PutObject

\* What an installation does to the checkpoints.
LEMMA Installed ==
    ASSUME PInv, NEW w \in Workers, Install(w), ckpt' # ckpt
    PROVE  /\ J(w) \in Jobs /\ token[w].gen = job[J(w)].gen /\ UNCHANGED store
           /\ loc[w].art \in Artifacts /\ Published(loc[w].art)
           /\ ckpt' = [ckpt EXCEPT ![J(w)] =
                          [art |-> loc[w].art, source |-> loc[w].art.source,
                           compat |-> loc[w].art.compat, ttl |-> StoredTtl(J(w)),
                           gen |-> token[w].gen]]
           /\ ckpt'[J(w)] \in PreparedArtifactCheckpoint /\ ckpt'[J(w)].gen = token[w].gen
           /\ ckpt'[J(w)].art = loc[w].art
<1>1. /\ IInv /\ TablesOK /\ Progress(w)
  BY AtLabel
<1>2. /\ pc[w] = "install" /\ UNCHANGED <<source, hash, store>> /\ AssertOwned(w)
      /\ ckpt' = [ckpt EXCEPT ![J(w)] =
                          [art |-> loc[w].art, source |-> loc[w].art.source,
                           compat |-> loc[w].art.compat, ttl |-> StoredTtl(J(w)),
                           gen |-> token[w].gen]]
  BY DEF Install, OwnsForInstall
<1>3. token[w] # Null /\ J(w) \in Jobs /\ Current(w)
  BY <1>1, <1>2, OwnedStep
<1>4. loc[w].art \in Artifacts /\ Published(loc[w].art)
  BY <1>1, <1>2 DEF Progress
<1>5. StoredTtl(J(w)) \in Nat /\ token[w].gen \in Nat \ {0}
  BY <1>1, <1>3, TokenJob, PreparationAssumption DEF StoredTtl
<1>6. ckpt'[J(w)] = [art |-> loc[w].art, source |-> loc[w].art.source,
                     compat |-> loc[w].art.compat, ttl |-> StoredTtl(J(w)),
                     gen |-> token[w].gen]
  BY <1>1, <1>2, <1>3 DEF TablesOK
<1>7. ckpt'[J(w)] \in PreparedArtifactCheckpoint
  BY <1>4, <1>5, <1>6 DEF PreparedArtifactCheckpoint, Artifacts
<1> QED
  BY <1>2, <1>3, <1>4, <1>6, <1>7 DEF Current

\* The replay pointer of a job is only ever set by the holder of the generation
\* in its row, and never goes back to an older one (PreparedArtifactCheckpoint is
\* written under the row lock and the fence), whoever else is still publishing.
THEOREM PointersAreFenced == PreparationSpec => PointerIsFenced
<1>1. ASSUME PInv, [PreparationNext]_preparationVars, NEW j \in Jobs, ckpt'[j] # ckpt[j]
      PROVE  ckpt'[j].gen = job[j].gen /\ (ckpt[j] # Null => ckpt[j].gen <= ckpt'[j].gen)
  <2>1. PICK w \in Workers : Install(w)
    BY <1>1, OnlyInstallPoints
  <2>2. /\ J(w) \in Jobs /\ token[w].gen = job[J(w)].gen /\ ckpt'[J(w)].gen = token[w].gen
        /\ \A k \in Jobs : k # J(w) => ckpt'[k] = ckpt[k]
    BY <1>1, <2>1, Installed, AtLabel DEF TablesOK
  <2>3. j = J(w)
    BY <1>1, <2>2
  <2> QED
    BY <1>1, <2>2, <2>3 DEF PInv, CheckpointInv
<1>2. PInv /\ [PreparationNext]_preparationVars =>
      [\A j \in Jobs : ckpt'[j] # ckpt[j] =>
          /\ ckpt'[j].gen = job[j].gen
          /\ ckpt[j] # Null => ckpt[j].gen <= ckpt'[j].gen]_preparationVars
  BY <1>1
<1> QED
  BY <1>2, PreparationInvariance, PTL DEF PreparationSpec, PointerIsFenced

-----------------------------------------------------------------------------
(* The preparation implements the replay pointer.                          *)

\* The refinement mapping: the complete artifacts, and what each job points at.
CompleteSet == {a \in Artifacts : \A o \in Objects : store[a][o] # "absent"}
PointerOf == [j \in Jobs |-> IF ckpt[j] = Null THEN Null ELSE ckpt[j].art]

\* A step that writes no object and moves no checkpoint is invisible.
LEMMA PointerInvisible ==
    ASSUME UNCHANGED ckpt, CompleteSet' = CompleteSet
    PROVE  UNCHANGED Pointer!pointerVars
<1>1. PointerOf' = PointerOf
  BY DEF PointerOf
<1> QED
  BY <1>1 DEF CompleteSet, PointerOf, Pointer!pointerVars

\* What is damaged or left alone has been written all the same.
LEMMA SameObjects ==
    ASSUME \A a \in Artifacts, o \in Objects : Written(a, o)' <=> Written(a, o)
    PROVE  CompleteSet' = CompleteSet
BY DEF CompleteSet, Written

\* A put publishes the artifact if it writes the last object that was missing.
LEMMA PutRefines ==
    ASSUME PInv, NEW w \in Workers, PutObject(w)
    PROVE  [Pointer!PointerNext]_(Pointer!pointerVars)
<1>1. /\ pc[w] = "put" /\ UNCHANGED ckpt /\ TablesOK /\ Progress(w) /\ loc[w] \in Locals
  BY AtLabel DEF PutObject
<1>2. PICK a \in Artifacts, n \in Objects : a = loc[w].art /\ n = loc[w].obj
  BY <1>1 DEF Progress, Writing, Locals
<1>3. store' \in {store, [store EXCEPT ![a][n] = "good"]}
  BY <1>2 DEF PutObject
<1>4. \A b \in Artifacts, o \in Objects :
         (Written(b, o)' <=> Written(b, o)) \/ (b = a /\ o = n /\ Written(b, o)')
  BY <1>1, <1>3 DEF Written, TablesOK
<1>5. CASE CompleteSet' = CompleteSet
  BY <1>1, <1>5, PointerInvisible
<1>6. CASE CompleteSet' # CompleteSet
  <2>1. CompleteSet' = CompleteSet \cup {a}
    <3>1. \A b \in Artifacts \ {a} : b \in CompleteSet' <=> b \in CompleteSet
      BY <1>4 DEF CompleteSet, Written
    <3>2. a \in CompleteSet => a \in CompleteSet'
      BY <1>4 DEF CompleteSet, Written
    <3>3. CompleteSet \subseteq Artifacts /\ CompleteSet' \subseteq Artifacts
      BY DEF CompleteSet
    <3>4. a \in CompleteSet'
      BY <1>6, <3>1, <3>2, <3>3
    <3> QED
      BY <3>1, <3>3, <3>4
  <2>2. PointerOf' = PointerOf
    BY <1>1 DEF PointerOf
  <2>3. Pointer!Publish(a)
    BY <2>1, <2>2 DEF CompleteSet, PointerOf, Pointer!Publish
  <2> QED
    BY <2>3 DEF Pointer!PointerNext
<1> QED
  BY <1>5, <1>6

\* An installation points the job at a complete artifact.
LEMMA InstallRefines ==
    ASSUME PInv, NEW w \in Workers, Install(w), ckpt' # ckpt
    PROVE  Pointer!PointerNext
<1> DEFINE j == J(w)
           a == loc[w].art
<1>1. /\ j \in Jobs /\ a \in Artifacts /\ Published(a) /\ UNCHANGED store
      /\ ckpt'[j] # Null /\ ckpt'[j].art = a
      /\ \A k \in Jobs : k # j => ckpt'[k] = ckpt[k]
  BY Installed, AtLabel, NullIsNoCheckpoint DEF TablesOK
<1> HIDE DEF j, a
<1>2. PICK i \in Jobs, b \in Artifacts : i = j /\ b = a
  BY <1>1
<1>3. PointerOf' = [PointerOf EXCEPT ![i] = b]
  <2>1. /\ PointerOf' = [k \in Jobs |-> PointerOf'[k]] /\ PointerOf = [k \in Jobs |-> PointerOf[k]]
        /\ PointerOf'[i] = b /\ \A k \in Jobs : k # i => PointerOf'[k] = PointerOf[k]
    BY <1>1, <1>2 DEF PointerOf
  <2> QED
    BY <2>1, DifferAtOne
<1>4. CompleteSet' = CompleteSet /\ b \in CompleteSet
  BY <1>1, <1>2 DEF CompleteSet, Published, Written
<1>5. Pointer!Point(i, b)
  BY <1>3, <1>4 DEF CompleteSet, PointerOf, Pointer!Point
<1> QED
  BY <1>2, <1>5 DEF Pointer!PointerNext

\* Every step publishes an artifact, points a job at one, or is invisible.
LEMMA PointerStep ==
    PInv /\ [PreparationNext]_preparationVars => [Pointer!PointerNext]_(Pointer!pointerVars)
<1> SUFFICES ASSUME PInv, [PreparationNext]_preparationVars
             PROVE  [Pointer!PointerNext]_(Pointer!pointerVars)
  OBVIOUS
<1>1. CASE \E w \in Workers : PutObject(w)
  BY <1>1, PutRefines
<1>2. CASE \E w \in Workers : Install(w)
  <2>1. CASE ckpt' # ckpt
    BY <1>2, <2>1, InstallRefines
  <2>2. CASE ckpt' = ckpt
    <3>1. store' = store
      BY <1>2 DEF Install
    <3> QED
      BY <2>2, <3>1, SameObjects, PointerInvisible DEF Written
  <2> QED
    BY <2>1, <2>2
<1>3. ASSUME NEW a \in Artifacts, NEW o \in Objects, Damage(a, o)
      PROVE  UNCHANGED Pointer!pointerVars
  <2>1. /\ store[a][o] = "good" /\ store' = [store EXCEPT ![a][o] = "bad"] /\ UNCHANGED ckpt
        /\ store \in [Artifacts -> [Objects -> States]]
    BY <1>3 DEF Damage, PInv, PreparationTypeOK
  <2>2. \A b \in Artifacts, p \in Objects : Written(b, p)' <=> Written(b, p)
    BY <2>1 DEF Written
  <2> QED
    BY <2>1, <2>2, SameObjects, PointerInvisible
<1>4. CASE UNCHANGED <<ckpt, store>>
  BY <1>4, SameObjects, PointerInvisible DEF Written
<1> QED
  BY <1>1, <1>2, <1>3, <1>4 DEF PreparationNext, Proceed, Submit, Overwrite, TimePasses,
     preparationVars, LeaveTurn, Begin, ClaimJob, FailTurn, Deliver, Resume, Acquire,
     RecordAcquired, Prepare, FenceObject, ProbeObject

\* The preparation implements ReplayPointer: although artifacts are written
\* object by object, by workers that crash and lose their lease, a job points at
\* complete artifacts only, and what is complete stays so (publish, install).
THEOREM PointerRefinement == PreparationSpec => PointerSpec
<1>1. ASSUME PreparationInit PROVE Pointer!PointerInit
  <2>1. CompleteSet = {}
    BY <1>1, ObjectFacts DEF PreparationInit, CompleteSet
  <2>2. PointerOf = [j \in Jobs |-> Null]
    BY <1>1 DEF PreparationInit, PointerOf
  <2> QED
    BY <2>1, <2>2 DEF CompleteSet, PointerOf, Pointer!PointerInit
<1> QED
  BY <1>1, PointerStep, PreparationInvariance, PTL
     DEF PreparationSpec, PointerSpec, Pointer!PointerSpec
=============================================================================
