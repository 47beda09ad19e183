------------------------- MODULE AcquisitionProofs --------------------------
(***************************************************************************)
(* Proofs about the acquisition of a source, for any number of jobs,       *)
(* workers and contents, any sizes and limits.                             *)
(*                                                                         *)
(* A workspace belongs to one token because no two tokens share job and    *)
(* generation, and is empty when it is claimed because nobody wrote to a   *)
(* generation before (Claimed).  It is bounded because a file that passed  *)
(* the budget lacks only what the buffer holds (Files).  The recorded hash *)
(* is stable because the holder of the current generation still expects    *)
(* what the row says (Expectation): evidence changes under its own fence   *)
(* only.                                                                   *)
(***************************************************************************)
EXTENDS Acquisition, JobLeaseProofs

Labels   == {"idle", "head", "open", "stream", "enforce", "validate", "record", "use", "unlink",
             "failed"}
Objects  == Contents \cup {Null}
Hashes   == (Contents \X Nat) \cup {Null}
Counts   == Nat \cup {Null}
Locals   == [expected : Hashes, etag : Objects, size : Counts, body : Objects, count : Nat]
Evidence == [hash : Hashes, size : Counts, etag : Objects]
Dirs     == [exists : BOOLEAN, old : BOOLEAN, part : Counts, validated : Counts]

AcquisitionTypeOK ==
    /\ pc \in [Workers -> Labels]
    /\ loc \in [Workers -> Locals]
    /\ source \in [Jobs -> Objects]
    /\ evidence \in [Jobs -> Evidence]
    /\ disk \in [Workspaces -> Dirs]
    /\ scav \in Workspaces \cup {Null}

\* The holder of the row's generation, whatever its lease.
Current(w) == token[w] # Null /\ token[w].gen = job[J(w)].gen

\* What a worker has read at its label, whether it still has its lease or not.
Download(w) ==
    /\ pc[w] # "idle" => token[w] # Null
    /\ pc[w] \in {"idle", "head", "open"} => loc[w].count = 0
    /\ pc[w] \in {"open", "stream", "enforce", "validate", "record", "use"} =>
          loc[w].etag \in Contents /\ loc[w].size \in {Null, Size[loc[w].etag]}
    /\ pc[w] \in {"stream", "enforce", "validate", "record", "use"} => loc[w].body \in Contents
    /\ pc[w] \in {"validate", "record", "use"} =>
          loc[w].count # 0 /\ SizeFits(w) /\ HashFits(w)

\* What it has in its workspace.  A part file that is being written lacks what the
\* buffer holds; one that passed the budget was no longer than it.
Files(w) ==
    LET d == disk[Ws(w)]
        n == loc[w].count
    IN  /\ pc[w] \in {"head", "open", "record", "use", "failed"} => d.part = Null
        /\ pc[w] \in {"stream", "enforce", "validate"} /\ d.part # Null =>
              d.part <= n /\ n <= d.part + BufferBytes /\ n <= MaxSourceBytes
        /\ pc[w] \in {"stream", "validate"} /\ d.part # Null => n <= MaxAttemptBytes + BufferBytes
        /\ pc[w] = "enforce" /\ d.part # Null => n <= MaxAttemptBytes + BufferBytes + 1
        /\ pc[w] = "validate" => d.part \in {Null, n}
        /\ pc[w] \in {"record", "use"} => d.validated \in {Null, n}

\* Until it records its own, the current owner expects the hash of the row.
Expectation(w) ==
    Current(w) /\ pc[w] \in {"head", "open", "stream", "enforce", "validate", "record"} =>
        loc[w].expected = evidence[J(w)].hash

Bounded(x) ==
    /\ disk[x].part # Null => /\ disk[x].part <= MaxAttemptBytes + BufferBytes + 1
                             /\ disk[x].part <= MaxSourceBytes
                             /\ disk[x].validated = Null
    /\ disk[x].validated # Null => /\ disk[x].validated <= MaxAttemptBytes + BufferBytes
                                  /\ disk[x].validated <= MaxSourceBytes

\* A workspace that was written to belongs to a generation that was claimed.
Claimed(x) == disk[x].exists \/ disk[x].part # Null => x[2] <= job[x[1]].gen

AInv ==
    /\ IInv
    /\ AcquisitionTypeOK
    /\ \A w \in Workers : Download(w) /\ Files(w) /\ Expectation(w)
    /\ \A x \in Workspaces : Bounded(x) /\ Claimed(x)

-----------------------------------------------------------------------------
(* The acquisition implements the queue.                                   *)

\* Every step of a turn is a step of the worker in the queue, or leaves the
\* queue alone.
LEMMA TurnRefines ==
    ASSUME NEW w \in Workers, WorkerTurn(w)
    PROVE  WorkerStep(w) \/ UNCHANGED vars
<1>1. CASE Begin(w) \/ ClaimJob(w) \/ KeepLease(w)
  BY <1>1 DEF Begin, ClaimJob, KeepLease, Claim, WorkerStep
<1>2. CASE LoseLease(w) \/ Die(w) \/ Conclude(w)
  BY <1>2 DEF LoseLease, Die, Conclude, EndTurn, WorkerStep
<1>3. CASE Record(w)
  BY <1>3, AcquisitionAssumption DEF Record, WorkerStep
<1>4. CASE \/ HeadObject(w) \/ Open(w) \/ StreamChunk(w) \/ EnforceUsage(w) \/ StreamEnds(w)
           \/ DownloadFails(w) \/ ValidateSource(w) \/ UnlinkPart(w)
  BY <1>4 DEF HeadObject, Open, StreamChunk, EnforceUsage, StreamEnds, DownloadFails,
              ValidateSource, UnlinkPart
<1> QED
  BY <1>1, <1>2, <1>3, <1>4 DEF WorkerTurn

\* Every step is a step of the queue or leaves it alone.
LEMMA StepRefines == [AcquisitionNext]_acquisitionVars => [Next]_vars
<1>1. ASSUME NEW j \in Jobs, Submit(j) \/ Overwrite(j) PROVE [Next]_vars
  BY <1>1 DEF Submit, Overwrite, Next
<1>2. ASSUME NEW w \in Workers, WorkerTurn(w) PROVE [Next]_vars
  BY <1>2, TurnRefines DEF Next
<1>3. ASSUME NEW x \in Workspaces, ScavengeJudge(x) PROVE UNCHANGED vars
  BY <1>3 DEF ScavengeJudge
<1>4. ScavengeDelete => UNCHANGED vars
  BY DEF ScavengeDelete
<1>5. TimePasses => Next
  BY DEF TimePasses, Next
<1>6. UNCHANGED acquisitionVars => UNCHANGED vars
  BY DEF acquisitionVars
<1> QED
  BY <1>1, <1>2, <1>3, <1>4, <1>5, <1>6 DEF AcquisitionNext

\* Acquisition, its checkpoint and the scavenger move jobs and leases only as
\* the queue allows (AcquisitionCheckpoint.record goes through the fence), so
\* every theorem about the queue holds of them.
THEOREM AcquisitionKeepsQueue == AcquisitionSpec => Spec
<1>1. AcquisitionInit => Init
  BY DEF AcquisitionInit
<1> QED
  BY <1>1, StepRefines, PTL DEF AcquisitionSpec, Spec

-----------------------------------------------------------------------------
(* Facts about the operators of the model.                                 *)

\* The parts of the name of a workspace.
LEMMA WorkspaceParts ==
    ASSUME NEW x \in Workspaces
    PROVE  /\ x = <<x[1], x[2]>> /\ x[1] \in Jobs /\ MaxAttempts[x[1]] \in Nat
           /\ x[2] \in 1..MaxAttempts[x[1]] /\ x[2] \in Nat
BY QueueAssumption DEF Workspaces, Generations

\* Every token names a workspace, and no two the same.
LEMMA TokenWorkspace ==
    ASSUME IInv, NEW w \in Workers, token[w] # Null
    PROVE  /\ J(w) \in Jobs /\ token[w].gen \in Nat \ {0} /\ token[w].gen <= job[J(w)].gen
           /\ job[J(w)].gen \in Nat
           /\ Ws(w) \in Workspaces /\ Ws(w)[1] = J(w) /\ Ws(w)[2] = token[w].gen
           /\ \A v \in Workers : v # w /\ token[v] # Null => Ws(v) # Ws(w)
<1>1. /\ J(w) \in Jobs /\ token[w].gen \in Nat \ {0} /\ token[w].gen <= job[J(w)].gen
      /\ Ws(w) = <<J(w), token[w].gen>>
  BY DEF IInv, TypeOK, LeaseToken, TokensAreClaims, J, Ws
<1>2. /\ job[J(w)].gen \in Nat /\ job[J(w)].gen <= MaxAttempts[J(w)]
      /\ MaxAttempts[J(w)] \in Nat
  BY <1>1, QueueAssumption DEF IInv, TypeOK, JobRow, LedgerConsistent
<1>3. token[w].gen \in Generations(J(w))
  BY <1>1, <1>2 DEF Generations
<1>4. Ws(w) \in Workspaces
  BY <1>1, <1>3 DEF Workspaces
<1>5. \A v \in Workers : v # w /\ token[v] # Null => Ws(v) # Ws(w)
  BY DEF IInv, TokensAreClaims, Ws
<1> QED
  BY <1>1, <1>2, <1>4, <1>5

\* A workspace that does not exist, and the memory of a process outside a turn.
LEMMA NoDirFacts ==
    /\ NoDir \in Dirs /\ NoDir.part = Null /\ NoDir.validated = Null /\ NoDir.exists = FALSE
    /\ Loc0 \in Locals /\ Loc0.count = 0
BY DEF NoDir, Dirs, Loc0, Locals, Counts, Hashes, Objects

\* Nobody becomes current but by a claim of its own.
LEMMA CurrentBefore ==
    ASSUME IInv, [Next]_vars, NEW w \in Workers, token'[w] = token[w], Current(w)'
    PROVE  Current(w) /\ J(w)' = J(w)
<1>1. token[w] # Null /\ J(w)' = J(w) /\ token[w].gen = job'[J(w)].gen
  BY DEF Current, J
<1>2. J(w) \in Jobs /\ token[w].gen \in Nat /\ token[w].gen <= job[J(w)].gen
  BY <1>1, TokenWorkspace
<1>3. job[J(w)].gen \in Nat /\ job'[J(w)].gen \in Nat /\ job[J(w)].gen <= job'[J(w)].gen
  BY <1>2, GenGrows
<1> QED
  BY <1>1, <1>2, <1>3 DEF Current

\* There is one current owner of a job, and who passes the fence is current.
LEMMA OneOwner ==
    ASSUME IInv, NEW v \in Workers, NEW w \in Workers, Fenced(v), Current(w), J(v) = J(w)
    PROVE  v = w
BY DEF IInv, TokensAreClaims, Fenced, Current, J

-----------------------------------------------------------------------------
(* A step of one worker, and what it leaves to the others.                 *)

\* A worker changes its own program counter and locals only.
OwnLocals(w) ==
    /\ pc' = [pc EXCEPT ![w] = pc'[w]] /\ pc'[w] \in Labels
    /\ loc' = [loc EXCEPT ![w] = loc'[w]] /\ loc'[w] \in Locals

\* It writes evidence under its fence, and to no workspace but its own.
OwnTables(w) ==
    /\ UNCHANGED <<source, scav>>
    /\ evidence' \in [Jobs -> Evidence] /\ disk' \in [Workspaces -> Dirs]
    /\ \A j \in Jobs : evidence'[j] # evidence[j] => Fenced(w) /\ J(w) = j
    /\ \A x \in Workspaces : disk'[x] # disk[x] => token[w] # Null /\ x = Ws(w) /\ Bounded(x)'

\* What the invariant says of one worker.
LEMMA AtLabel ==
    ASSUME AInv, NEW w \in Workers
    PROVE  /\ IInv /\ AcquisitionTypeOK /\ Download(w) /\ Files(w) /\ Expectation(w)
           /\ pc \in [Workers -> Labels] /\ loc \in [Workers -> Locals] /\ loc[w] \in Locals
           /\ token[w] # Null => /\ Ws(w) \in Workspaces /\ disk[Ws(w)] \in Dirs
                                 /\ Bounded(Ws(w)) /\ J(w) \in Jobs
BY TokenWorkspace DEF AInv, AcquisitionTypeOK

\* Whatever is no step of v leaves it what it has.
LEMMA StaysPut ==
    ASSUME AInv, [Next]_vars, NEW v \in Workers,
           token'[v] = token[v], pc'[v] = pc[v], loc'[v] = loc[v],
           Current(v) => evidence'[J(v)] = evidence[J(v)],
           token[v] # Null => /\ disk'[Ws(v)].part \in {Null, disk[Ws(v)].part}
                              /\ disk'[Ws(v)].validated \in {Null, disk[Ws(v)].validated}
    PROVE  Download(v)' /\ Files(v)' /\ Expectation(v)'
<1>1. Download(v) /\ Files(v) /\ Expectation(v) /\ IInv /\ pc[v] \in Labels
  BY AtLabel
<1>2. Download(v)'
  BY <1>1 DEF Download, SizeFits, HashFits
<1>3. Files(v)'
  <2>1. Ws(v)' = Ws(v)
    BY DEF Ws
  <2> QED
    BY <1>1, <2>1 DEF Files, Download
<1>4. Expectation(v)'
  <2> SUFFICES ASSUME Current(v)', pc[v] \in {"head", "open", "stream", "enforce", "validate", "record"}
               PROVE  loc[v].expected = evidence'[J(v)'].hash
    BY DEF Expectation
  <2>1. Current(v) /\ J(v)' = J(v)
    BY <1>1, CurrentBefore
  <2> QED
    BY <1>1, <2>1 DEF Expectation
<1> QED
  BY <1>2, <1>3, <1>4

\* A step of one worker keeps the invariant, if it does for its own part.
LEMMA TurnStep ==
    ASSUME AInv, NEW w \in Workers, WorkerStep(w) \/ UNCHANGED vars, OwnLocals(w), OwnTables(w),
           Download(w)', Files(w)', Expectation(w)'
    PROVE  AInv'
<1>1. [Next]_vars
  BY DEF Next
<1>2. IInv' /\ IInv
  BY <1>1, NextIInv DEF AInv
<1>3. AcquisitionTypeOK'
  BY DEF AInv, AcquisitionTypeOK, OwnLocals, OwnTables
<1>4. \A v \in Workers \ {w} : token'[v] = token[v] /\ pc'[v] = pc[v] /\ loc'[v] = loc[v]
  BY <1>2, OwnToken DEF AInv, AcquisitionTypeOK, OwnLocals, vars
<1>5. ASSUME NEW v \in Workers, v # w PROVE Download(v)' /\ Files(v)' /\ Expectation(v)'
  <2>1. token'[v] = token[v] /\ pc'[v] = pc[v] /\ loc'[v] = loc[v]
    BY <1>4, <1>5
  <2>2. Current(v) => evidence'[J(v)] = evidence[J(v)]
    BY <1>2, <1>5, TokenWorkspace, OneOwner DEF OwnTables, Current
  <2>3. token[v] # Null => disk'[Ws(v)] = disk[Ws(v)]
    BY <1>2, <1>5, TokenWorkspace DEF OwnTables
  <2> QED
    BY <1>1, <2>1, <2>2, <2>3, StaysPut
<1>6. ASSUME NEW x \in Workspaces PROVE Bounded(x)' /\ Claimed(x)'
  <2>1. /\ x[1] \in Jobs /\ x[2] \in Nat /\ job[x[1]].gen \in Nat /\ job'[x[1]].gen \in Nat
        /\ job[x[1]].gen <= job'[x[1]].gen
    BY <1>1, <1>2, WorkspaceParts, GenGrows
  <2>2. CASE disk'[x] = disk[x]
    BY <2>1, <2>2 DEF AInv, Bounded, Claimed
  <2>3. CASE disk'[x] # disk[x]
    <3>1. token[w] # Null /\ x = Ws(w) /\ Bounded(x)'
      BY <2>3 DEF OwnTables
    <3>2. x[2] <= job[x[1]].gen
      BY <1>2, <3>1, TokenWorkspace
    <3> QED
      BY <2>1, <3>1, <3>2 DEF Claimed
  <2> QED
    BY <2>2, <2>3
<1> QED
  BY <1>2, <1>3, <1>5, <1>6 DEF AInv

-----------------------------------------------------------------------------
(* One lemma per kind of step.                                             *)

\* A transaction begins, a claim finds nothing, or the lease is renewed.
LEMMA IdleStep ==
    ASSUME AInv, NEW w \in Workers, WorkerStep(w), token' = token,
           UNCHANGED <<pc, loc, source, evidence, disk, scav>>
    PROVE  AInv'
<1>1. IInv /\ AcquisitionTypeOK /\ (token[w] # Null => J(w) \in Jobs)
  BY AtLabel
<1>2. OwnLocals(w) /\ OwnTables(w)
  BY <1>1 DEF AcquisitionTypeOK, OwnLocals, OwnTables
<1>3. Download(w)' /\ Files(w)' /\ Expectation(w)'
  BY StaysPut DEF Next
<1> QED
  BY <1>2, <1>3, TurnStep

\* A claim gets an empty workspace, and expects what an earlier attempt found.
LEMMA ClaimedStep ==
    ASSUME AInv, NEW w \in Workers, NEW j \in Jobs, pc[w] = "idle", ClaimNext(w, j),
           Goto(w, "head"), loc' = [loc EXCEPT ![w].expected = evidence[j].hash],
           UNCHANGED <<source, evidence, disk, scav>>
    PROVE  AInv'
<1>1. IInv /\ AcquisitionTypeOK /\ Download(w) /\ loc[w] \in Locals
  BY AtLabel
<1>2. WorkerStep(w) /\ [Next]_vars
  BY DEF WorkerStep, Claim, Next
<1>3. IInv'
  BY <1>1, <1>2, NextIInv
<1>4. /\ token'[w] # Null /\ J(w)' = j /\ token'[w].gen = job[j].gen + 1 /\ job[j].gen \in Nat
  BY <1>1, ClaimToken DEF J, IInv, TypeOK, JobRow
<1>5. /\ Ws(w)' \in Workspaces /\ Ws(w)'[1] = j /\ Ws(w)'[2] = job[j].gen + 1
  <2>1. job'[j].gen = job[j].gen + 1
    BY <1>1, ClaimToken
  <2>2. job'[j].gen <= MaxAttempts[j] /\ MaxAttempts[j] \in Nat
    BY <1>3, QueueAssumption DEF IInv, TypeOK, LedgerConsistent
  <2>3. job[j].gen + 1 \in Generations(j)
    BY <1>4, <2>1, <2>2 DEF Generations
  <2>4. Ws(w)' = <<j, job[j].gen + 1>>
    BY <1>4 DEF Ws, J
  <2> QED
    BY <2>3, <2>4 DEF Workspaces
<1>6. disk[Ws(w)'].part = Null
  BY <1>4, <1>5 DEF AInv, Claimed
<1>7. /\ pc' = [pc EXCEPT ![w] = "head"] /\ loc'[w] \in Locals /\ loc'[w].count = 0
      /\ loc'[w].expected = evidence[j].hash
  BY <1>1 DEF AcquisitionTypeOK, Evidence, Locals, Download, Goto
<1>8. OwnLocals(w) /\ OwnTables(w)
  BY <1>1, <1>7 DEF AcquisitionTypeOK, OwnLocals, OwnTables, Labels
<1>9. pc'[w] = "head"
  BY <1>1, <1>7 DEF AcquisitionTypeOK
<1>10. Download(w)' /\ Files(w)' /\ Expectation(w)'
  BY <1>4, <1>6, <1>7, <1>9 DEF Download, Files, Expectation
<1> QED
  BY <1>2, <1>8, <1>10, TurnStep

\* The turn ends, and the workspace is cleaned up or left.
LEMMA EndStep ==
    ASSUME AInv, NEW w \in Workers, LoseLease(w) \/ Die(w) \/ Conclude(w)
    PROVE  AInv'
<1>1. IInv /\ AcquisitionTypeOK
  BY AtLabel
<1>2. WorkerStep(w) /\ (EndTurn(w) \/ Crash(w)) /\ ToIdle(w) /\ UNCHANGED <<source, evidence, scav>>
  BY DEF LoseLease, Die, Conclude, EndTurn, WorkerStep
<1>3. token'[w] = Null /\ token[w] # Null
  <2>1. ASSUME NEW status, NEW retry, Finish(w, status, retry) PROVE token[w] # Null
    BY <2>1 DEF Finish, Fenced
  <2>2. token[w] # Null
    BY <2>1 DEF LoseLease, Die, Conclude, Abandon, Crash, Complete, ScheduleRetry, FailPermanently
  <2> QED
    BY <1>1, <1>2, <2>2, TurnDropsToken
<1>4. disk' = disk \/ disk' = [disk EXCEPT ![Ws(w)] = NoDir]
  BY DEF LoseLease, Die, Conclude, CleanupWorkspace
<1>5. Ws(w) \in Workspaces
  BY <1>1, <1>3, TokenWorkspace
<1>6. OwnTables(w)
  BY <1>1, <1>2, <1>3, <1>4, <1>5, NoDirFacts DEF AcquisitionTypeOK, OwnTables, Bounded
<1>7. pc' = [pc EXCEPT ![w] = "idle"] /\ loc' = [loc EXCEPT ![w] = Loc0]
  BY <1>2 DEF ToIdle, Goto
<1>8. OwnLocals(w) /\ pc'[w] = "idle" /\ loc'[w] = Loc0
  BY <1>1, <1>7, NoDirFacts DEF AcquisitionTypeOK, OwnLocals, Labels
<1>9. Download(w)' /\ Files(w)' /\ Expectation(w)'
  BY <1>8, NoDirFacts DEF Download, Files, Expectation
<1> QED
  BY <1>2, <1>6, <1>8, <1>9, TurnStep

\* A step of acquire() leaves the queue and the tables alone: what is left to
\* show is where it goes with which part file.
LEMMA AcquireStep ==
    ASSUME AInv, NEW w \in Workers, UNCHANGED <<vars, source, evidence, scav>>,
           pc[w] # "idle", NEW l \in Labels, Goto(w, l), OwnLocals(w),
           disk' \in [Workspaces -> Dirs],
           \A x \in Workspaces : disk'[x] # disk[x] => x = Ws(w) /\ Bounded(x)',
           loc'[w].expected = loc[w].expected \/ l \in {"unlink", "failed"},
           l \notin {"idle", "use"}, l = "failed" \/ pc[w] \notin {"use", "unlink", "failed"},
           Download(w)', Files(w)'
    PROVE  AInv'
<1>1. IInv /\ AcquisitionTypeOK /\ Download(w) /\ Expectation(w) /\ pc[w] \in Labels
  BY AtLabel DEF AcquisitionTypeOK
<1>2. token[w] # Null /\ token' = token /\ job' = job /\ evidence' = evidence /\ J(w) \in Jobs
  BY <1>1, TokenWorkspace DEF Download, vars
<1>3. OwnTables(w)
  BY <1>1, <1>2 DEF OwnTables, AcquisitionTypeOK
<1>4. Expectation(w)'
  <2>1. pc'[w] = l
    BY <1>1 DEF Goto, AcquisitionTypeOK
  <2> QED
    BY <1>1, <1>2, <2>1 DEF Expectation, Current, J, Labels
<1> QED
  BY <1>3, <1>4, TurnStep

\* acquire() raises: what it leaves in its workspace is not looked at again
\* before the part file is unlinked.
LEMMA RaiseStep ==
    ASSUME AInv, NEW w \in Workers, UNCHANGED <<vars, source, evidence, scav>>,
           pc[w] \in {"head", "open", "stream", "enforce", "validate"},
           NEW l \in {"unlink", "failed"}, Raise(w, l), disk' \in [Workspaces -> Dirs],
           \A x \in Workspaces : disk'[x] # disk[x] => x = Ws(w) /\ Bounded(x)',
           l = "failed" => disk'[Ws(w)].part = Null
    PROVE  AInv'
<1>1. AcquisitionTypeOK /\ Download(w) /\ token[w] # Null
  BY AtLabel DEF Download
<1>2. OwnLocals(w) /\ pc'[w] = l /\ Goto(w, l) /\ l \in Labels
  BY <1>1, NoDirFacts DEF Raise, Goto, OwnLocals, AcquisitionTypeOK, Labels
<1>3. token' = token /\ Ws(w)' = Ws(w)
  BY DEF vars, Ws
<1>4. Download(w)' /\ Files(w)'
  BY <1>1, <1>2, <1>3 DEF Download, Files
<1> QED
  BY <1>2, <1>4, AcquireStep

\* The part file is closed with all that was written.
LEMMA CloseFile ==
    ASSUME AInv, NEW w \in Workers, UNCHANGED vars, pc[w] \in {"stream", "enforce"}, Close(w)
    PROVE  /\ disk' \in [Workspaces -> Dirs]
           /\ disk'[Ws(w)].part = IF disk[Ws(w)].part = Null THEN Null ELSE loc[w].count
           /\ \A x \in Workspaces : disk'[x] # disk[x] => x = Ws(w) /\ Bounded(x)'
<1> DEFINE d == disk[Ws(w)]
           e == Closed(d, loc[w].count)
<1>1. /\ AcquisitionTypeOK /\ Files(w) /\ Ws(w) \in Workspaces /\ d \in Dirs /\ Bounded(Ws(w))
      /\ loc[w].count \in Nat
  BY AtLabel DEF Download, Locals
<1>2. /\ e \in Dirs /\ e.validated = d.validated
      /\ e.part = IF d.part = Null THEN Null ELSE loc[w].count
  BY <1>1 DEF Closed, Dirs, Counts
<1>3. disk' = [disk EXCEPT ![Ws(w)] = e]
  BY DEF Close
<1> HIDE DEF e
<1>4. /\ disk' \in [Workspaces -> Dirs] /\ disk'[Ws(w)] = e
      /\ \A x \in Workspaces : x # Ws(w) => disk'[x] = disk[x]
  BY <1>1, <1>2, <1>3 DEF AcquisitionTypeOK
<1>5. e.part # Null => loc[w].count <= MaxAttemptBytes + BufferBytes + 1
                       /\ loc[w].count <= MaxSourceBytes
  BY <1>1, <1>2, AcquisitionAssumption DEF Files
<1>6. ASSUME NEW x \in Workspaces, x = Ws(w) PROVE Bounded(x)'
  BY <1>1, <1>2, <1>4, <1>5, <1>6 DEF Bounded
<1> QED
  BY <1>2, <1>4, <1>6

\* HEAD answers: the etag is that of a content, the size its size or left out.
LEMMA HeadStep ==
    ASSUME AInv, NEW w \in Workers, HeadObject(w)
    PROVE  AInv'
<1>1. /\ IInv /\ AcquisitionTypeOK /\ Download(w) /\ Files(w) /\ loc[w] \in Locals
      /\ pc[w] = "head" /\ token[w] # Null /\ J(w) \in Jobs
      /\ UNCHANGED <<vars, source, evidence, disk, scav>>
  BY AtLabel DEF Download, HeadObject
<1>2. /\ disk' \in [Workspaces -> Dirs] /\ \A x \in Workspaces : disk'[x] = disk[x]
      /\ disk'[Ws(w)].part = Null
  BY <1>1 DEF AcquisitionTypeOK, Files
<1>3. CASE Raise(w, "failed")
  BY <1>1, <1>2, <1>3, RaiseStep
<1>4. CASE ~Raise(w, "failed")
  <2>1. PICK size \in {Null, Size[source[J(w)]]} :
           loc' = [loc EXCEPT ![w].etag = source[J(w)], ![w].size = size]
    BY <1>4 DEF HeadObject
  <2>2. source[J(w)] # Null /\ Goto(w, "open")
    BY <1>4 DEF HeadObject
  <2>3. source[J(w)] \in Contents /\ size \in Counts
    BY <1>1, <2>2, AcquisitionAssumption DEF AcquisitionTypeOK, Objects, Counts
  <2>4. /\ loc'[w] \in Locals /\ loc'[w].etag = source[J(w)] /\ loc'[w].size = size
        /\ loc'[w].count = 0 /\ loc'[w].expected = loc[w].expected
    BY <1>1, <2>1, <2>3 DEF Locals, Objects, AcquisitionTypeOK, Download
  <2>5. OwnLocals(w) /\ pc'[w] = "open"
    BY <1>1, <2>1, <2>2, <2>4 DEF OwnLocals, Goto, AcquisitionTypeOK, Labels
  <2>6. token' = token /\ Ws(w)' = Ws(w) /\ source' = source
    BY <1>1 DEF vars, Ws
  <2>7. Download(w)' /\ Files(w)'
    BY <1>1, <1>2, <2>3, <2>4, <2>5, <2>6 DEF Download, Files
  <2> QED
    BY <1>1, <1>2, <2>2, <2>4, <2>5, <2>7, AcquireStep DEF Labels
<1> QED
  BY <1>3, <1>4

\* The workspace is made anew and the body taken.
LEMMA OpenStep ==
    ASSUME AInv, NEW w \in Workers, Open(w)
    PROVE  AInv'
<1>1. /\ IInv /\ AcquisitionTypeOK /\ Download(w) /\ loc[w] \in Locals
      /\ pc[w] = "open" /\ token[w] # Null /\ J(w) \in Jobs /\ Ws(w) \in Workspaces
  BY AtLabel DEF Download, Open
<1> DEFINE d == [exists |-> TRUE, old |-> FALSE, part |-> 0, validated |-> Null]
<1>2. d \in Dirs /\ d.part = 0 /\ d.validated = Null
  BY DEF Dirs, Counts
<1>3. disk' = [disk EXCEPT ![Ws(w)] = d] /\ UNCHANGED <<vars, source, evidence, scav>>
  BY DEF Open
<1> HIDE DEF d
<1>4. /\ disk' \in [Workspaces -> Dirs] /\ disk'[Ws(w)] = d
      /\ \A x \in Workspaces : disk'[x] # disk[x] => x = Ws(w) /\ Bounded(x)'
  BY <1>1, <1>2, <1>3, AcquisitionAssumption DEF AcquisitionTypeOK, Bounded
<1>5. CASE source[J(w)] # Null
  <2>1. loc' = [loc EXCEPT ![w].body = source[J(w)]] /\ Goto(w, "stream")
    BY <1>5 DEF Open
  <2>2. source[J(w)] \in Contents
    BY <1>1, <1>5 DEF AcquisitionTypeOK, Objects
  <2>3. /\ loc'[w] \in Locals /\ loc'[w].etag = loc[w].etag /\ loc'[w].size = loc[w].size
        /\ loc'[w].count = 0 /\ loc'[w].expected = loc[w].expected
        /\ loc'[w].body = source[J(w)]
    BY <1>1, <2>1, <2>2 DEF Locals, Objects, AcquisitionTypeOK, Download
  <2>4. OwnLocals(w) /\ pc'[w] = "stream"
    BY <1>1, <2>1, <2>3 DEF OwnLocals, Goto, AcquisitionTypeOK, Labels
  <2>5. token' = token /\ Ws(w)' = Ws(w)
    BY <1>3 DEF vars, Ws
  <2>6. Download(w)' /\ Files(w)'
    BY <1>1, <1>2, <1>4, <2>2, <2>3, <2>4, <2>5, AcquisitionAssumption DEF Download, Files
  <2> QED
    BY <1>1, <1>3, <1>4, <2>1, <2>3, <2>4, <2>6, AcquireStep DEF Labels
<1>6. CASE source[J(w)] = Null
  BY <1>1, <1>3, <1>4, <1>6, RaiseStep DEF Open
<1> QED
  BY <1>5, <1>6

\* A chunk is counted and written, but for what the buffer keeps.
LEMMA ChunkStep ==
    ASSUME AInv, NEW w \in Workers, StreamChunk(w)
    PROVE  AInv'
<1> DEFINE d == disk[Ws(w)]
           n == loc[w].count + 1
<1>1. /\ IInv /\ AcquisitionTypeOK /\ Download(w) /\ Files(w) /\ loc[w] \in Locals
      /\ pc[w] = "stream" /\ token[w] # Null /\ Ws(w) \in Workspaces /\ d \in Dirs
      /\ Bounded(Ws(w)) /\ UNCHANGED <<vars, source, evidence, scav>>
  BY AtLabel DEF Download, StreamChunk
<1>2. PICK e \in Written(d, n) : disk' = [disk EXCEPT ![Ws(w)] = e]
  BY DEF StreamChunk
<1>3. /\ loc' = [loc EXCEPT ![w].count = n] /\ Goto(w, "enforce") /\ n <= MaxSourceBytes
      /\ loc[w].count \in Nat /\ n \in Nat
  BY <1>1 DEF StreamChunk, Locals
<1>4. d.part # Null => n <= MaxAttemptBytes + BufferBytes + 1
  BY <1>1, <1>3, AcquisitionAssumption DEF Files
<1>5. /\ e \in Dirs /\ e.validated = d.validated /\ (e.part = Null <=> d.part = Null)
      /\ e.part # Null => e.part \in Nat /\ e.part <= n /\ n <= e.part + BufferBytes
  <2>1. CASE d.part = Null
    BY <1>1, <1>2, <2>1 DEF Written
  <2>2. CASE d.part # Null
    <3>1. d.part \in Nat
      BY <1>1, <2>2 DEF Dirs, Counts
    <3>2. PICK k \in d.part..n : n - k <= BufferBytes /\ e = [d EXCEPT !.part = k]
      BY <1>2, <2>2 DEF Written
    <3>3. k \in Nat /\ k <= n /\ n <= k + BufferBytes /\ k # Null
      BY <1>3, <3>1, <3>2, NullFacts, AcquisitionAssumption
    <3> QED
      BY <1>1, <2>2, <3>2, <3>3 DEF Dirs, Counts
  <2> QED
    BY <2>1, <2>2
<1>6. /\ disk' \in [Workspaces -> Dirs] /\ disk'[Ws(w)] = e
      /\ \A x \in Workspaces : x # Ws(w) => disk'[x] = disk[x]
  BY <1>1, <1>2, <1>5 DEF AcquisitionTypeOK
<1>7. ASSUME NEW x \in Workspaces, x = Ws(w) PROVE Bounded(x)'
  BY <1>1, <1>3, <1>4, <1>5, <1>6, <1>7, AcquisitionAssumption DEF Bounded
<1>8. /\ loc'[w] \in Locals /\ loc'[w].etag = loc[w].etag /\ loc'[w].size = loc[w].size
      /\ loc'[w].count = n /\ loc'[w].expected = loc[w].expected
      /\ loc'[w].body = loc[w].body
  BY <1>1, <1>3 DEF Locals, AcquisitionTypeOK
<1>9. OwnLocals(w) /\ pc'[w] = "enforce"
  BY <1>1, <1>3, <1>8 DEF OwnLocals, Goto, AcquisitionTypeOK, Labels
<1>10. token' = token /\ Ws(w)' = Ws(w)
  BY <1>1 DEF vars, Ws
<1>11. Download(w)'
  BY <1>1, <1>8, <1>9, <1>10 DEF Download
<1>12. Files(w)'
  BY <1>3, <1>4, <1>5, <1>6, <1>8, <1>9, <1>10 DEF Files
<1> QED
  BY <1>1, <1>3, <1>6, <1>7, <1>8, <1>9, <1>11, <1>12, AcquireStep DEF Labels

\* The usage is within the budget: what the file lacks is in the buffer.
LEMMA EnforceStep ==
    ASSUME AInv, NEW w \in Workers, EnforceUsage(w)
    PROVE  AInv'
<1> DEFINE d == disk[Ws(w)]
<1>1. /\ IInv /\ AcquisitionTypeOK /\ Download(w) /\ Files(w) /\ loc[w] \in Locals
      /\ pc[w] = "enforce" /\ token[w] # Null /\ Ws(w) \in Workspaces /\ d \in Dirs
      /\ Bounded(Ws(w)) /\ UNCHANGED <<vars, source, evidence, scav>>
  BY AtLabel DEF Download, EnforceUsage
<1>2. CASE Close(w) /\ Raise(w, "unlink")
  BY <1>1, <1>2, CloseFile, RaiseStep
<1>3. CASE WithinBudget(d) /\ Goto(w, "stream") /\ UNCHANGED <<loc, disk>>
  <2>1. d.part # Null => d.part <= MaxAttemptBytes
    BY <1>1, <1>3, NullFacts, AcquisitionAssumption
       DEF WithinBudget, Usage, Bytes, Bounded, Dirs, Counts
  <2>2. d.part # Null => loc[w].count <= MaxAttemptBytes + BufferBytes
    BY <1>1, <2>1, AcquisitionAssumption DEF Files, Locals, Dirs, Counts
  <2>3. OwnLocals(w) /\ pc'[w] = "stream"
    BY <1>1, <1>3 DEF OwnLocals, Goto, AcquisitionTypeOK, Labels
  <2>4. token' = token /\ Ws(w)' = Ws(w)
    BY <1>1 DEF vars, Ws
  <2>5. Download(w)' /\ Files(w)'
    BY <1>1, <1>3, <2>2, <2>3, <2>4 DEF Download, Files
  <2>6. disk' \in [Workspaces -> Dirs] /\ \A x \in Workspaces : disk'[x] = disk[x]
    BY <1>1, <1>3 DEF AcquisitionTypeOK
  <2> QED
    BY <1>1, <1>3, <2>3, <2>5, <2>6, AcquireStep DEF Labels
<1> QED
  BY <1>2, <1>3 DEF EnforceUsage

\* The body ends, and its count and hash are checked.
LEMMA BodyEndsStep ==
    ASSUME AInv, NEW w \in Workers, StreamEnds(w)
    PROVE  AInv'
<1>1. /\ IInv /\ AcquisitionTypeOK /\ Download(w) /\ Files(w) /\ loc[w] \in Locals
      /\ pc[w] = "stream" /\ token[w] # Null /\ UNCHANGED <<vars, source, evidence, scav>>
      /\ Close(w)
  BY AtLabel DEF Download, StreamEnds
<1>2. /\ disk' \in [Workspaces -> Dirs]
      /\ disk'[Ws(w)].part = IF disk[Ws(w)].part = Null THEN Null ELSE loc[w].count
      /\ \A x \in Workspaces : disk'[x] # disk[x] => x = Ws(w) /\ Bounded(x)'
  BY <1>1, CloseFile
<1>3. CASE Raise(w, "unlink")
  BY <1>1, <1>2, <1>3, RaiseStep
<1>4. CASE loc[w].count > 0 /\ SizeFits(w) /\ HashFits(w) /\ Goto(w, "validate") /\ UNCHANGED loc
  <2>1. OwnLocals(w) /\ pc'[w] = "validate"
    BY <1>1, <1>4 DEF OwnLocals, Goto, AcquisitionTypeOK, Labels
  <2>2. token' = token /\ Ws(w)' = Ws(w) /\ loc[w].count # 0 /\ loc[w].count \in Nat
    BY <1>1, <1>4 DEF vars, Ws, Locals
  <2>3. SizeFits(w)' /\ HashFits(w)'
    BY <1>4 DEF SizeFits, HashFits
  <2>4. Download(w)'
    BY <1>1, <1>4, <2>1, <2>2, <2>3 DEF Download
  <2>5. Files(w)'
    BY <1>1, <1>2, <1>4, <2>1, <2>2, AcquisitionAssumption DEF Files
  <2> QED
    BY <1>1, <1>2, <1>4, <2>1, <2>4, <2>5, AcquireStep DEF Labels
<1> QED
  BY <1>3, <1>4 DEF StreamEnds

\* The download fails on its way.
LEMMA CutStep ==
    ASSUME AInv, NEW w \in Workers, DownloadFails(w)
    PROVE  AInv'
BY CloseFile, RaiseStep DEF DownloadFails

\* The part file, if it is still there, is promoted.
LEMMA ValidateStep ==
    ASSUME AInv, NEW w \in Workers, ValidateSource(w)
    PROVE  AInv'
<1> DEFINE d == disk[Ws(w)]
<1>1. /\ IInv /\ AcquisitionTypeOK /\ Download(w) /\ Files(w) /\ loc[w] \in Locals
      /\ pc[w] = "validate" /\ token[w] # Null /\ Ws(w) \in Workspaces /\ d \in Dirs
      /\ Bounded(Ws(w)) /\ UNCHANGED <<vars, source, evidence, scav>>
  BY AtLabel DEF Download, ValidateSource
<1>2. CASE Raise(w, "unlink") /\ UNCHANGED disk
  BY <1>1, <1>2, RaiseStep DEF AcquisitionTypeOK
<1>3. CASE ~(Raise(w, "unlink") /\ UNCHANGED disk)
  <2> DEFINE e == [d EXCEPT !.validated = d.part, !.part = Null, !.old = FALSE]
  <2>1. /\ d.part # Null /\ disk' = [disk EXCEPT ![Ws(w)] = e]
        /\ Goto(w, "record") /\ UNCHANGED loc
    BY <1>3 DEF ValidateSource
  <2>2. e \in Dirs /\ e.part = Null /\ e.validated = d.part
    BY <1>1 DEF Dirs, Counts
  <2>3. /\ d.part = loc[w].count /\ d.part <= MaxAttemptBytes + BufferBytes
        /\ d.part <= MaxSourceBytes
    BY <1>1, <2>1 DEF Files
  <2> HIDE DEF e
  <2>4. token' = token /\ Ws(w)' = Ws(w)
    BY <1>1 DEF vars, Ws
  <2>5. /\ disk' \in [Workspaces -> Dirs] /\ disk'[Ws(w)] = e
        /\ \A x \in Workspaces : disk'[x] # disk[x] => x = Ws(w) /\ Bounded(x)'
    BY <1>1, <2>1, <2>2, <2>3, <2>4 DEF AcquisitionTypeOK, Bounded
  <2>6. OwnLocals(w) /\ pc'[w] = "record"
    BY <1>1, <2>1 DEF OwnLocals, Goto, AcquisitionTypeOK, Labels
  <2>7. SizeFits(w)' /\ HashFits(w)'
    BY <1>1, <2>1 DEF Download, SizeFits, HashFits
  <2>8. Download(w)' /\ Files(w)'
    BY <1>1, <2>1, <2>2, <2>3, <2>4, <2>5, <2>6, <2>7 DEF Download, Files
  <2> QED
    BY <1>1, <2>1, <2>5, <2>6, <2>8, AcquireStep DEF Labels
<1> QED
  BY <1>2, <1>3

\* The handler unlinks the part file.
LEMMA UnlinkStep ==
    ASSUME AInv, NEW w \in Workers, UnlinkPart(w)
    PROVE  AInv'
<1> DEFINE e == [disk[Ws(w)] EXCEPT !.part = Null]
<1>1. /\ IInv /\ AcquisitionTypeOK /\ Download(w) /\ loc[w] \in Locals /\ token[w] # Null
      /\ Ws(w) \in Workspaces /\ disk[Ws(w)] \in Dirs /\ Bounded(Ws(w)) /\ pc[w] = "unlink"
  BY AtLabel DEF Download, UnlinkPart
<1>2. /\ Goto(w, "failed") /\ disk' = [disk EXCEPT ![Ws(w)] = e]
      /\ UNCHANGED <<vars, loc, source, evidence, scav>>
  BY DEF UnlinkPart
<1>3. e \in Dirs /\ e.part = Null /\ e.validated = disk[Ws(w)].validated
  BY <1>1 DEF Dirs, Counts
<1> HIDE DEF e
<1>4. /\ disk' \in [Workspaces -> Dirs] /\ disk'[Ws(w)].part = Null
      /\ \A x \in Workspaces : disk'[x] # disk[x] => x = Ws(w) /\ Bounded(x)'
  BY <1>1, <1>2, <1>3 DEF AcquisitionTypeOK, Bounded
<1>5. OwnLocals(w) /\ pc'[w] = "failed" /\ token' = token /\ Ws(w)' = Ws(w)
  BY <1>1, <1>2 DEF OwnLocals, Goto, AcquisitionTypeOK, Labels, vars, Ws
<1>6. Download(w)' /\ Files(w)'
  BY <1>1, <1>4, <1>5 DEF Download, Files
<1> QED
  BY <1>1, <1>2, <1>4, <1>5, <1>6, AcquireStep DEF Labels

\* The checkpoint: evidence is written under the fence, and where the row had a
\* hash it is the same.
LEMMA RecordStep ==
    ASSUME AInv, NEW w \in Workers, Record(w)
    PROVE  /\ AInv'
           /\ J(w) \in Jobs /\ \A j \in Jobs : j # J(w) => evidence'[j] = evidence[j]
           /\ evidence[J(w)].hash # Null => evidence'[J(w)].hash = evidence[J(w)].hash
<1> DEFINE e == [hash |-> Digest(loc[w].body, loc[w].count), size |-> loc[w].count,
                 etag |-> loc[w].etag]
<1>1. /\ IInv /\ AcquisitionTypeOK /\ Download(w) /\ Files(w) /\ Expectation(w)
      /\ loc[w] \in Locals /\ pc[w] = "record" /\ token[w] # Null /\ J(w) \in Jobs
  BY AtLabel DEF Download, Record
<1>2. /\ Fenced(w) /\ token' = token /\ evidence' = [evidence EXCEPT ![J(w)] = e]
      /\ pc' = [pc EXCEPT ![w] = "use"] /\ UNCHANGED <<loc, source, disk, scav>>
  BY DEF Record, AdvanceStage, Goto
<1>3. WorkerStep(w)
  BY AcquisitionAssumption DEF Record, WorkerStep
<1>4. e \in Evidence /\ e.hash = Digest(loc[w].body, loc[w].count)
  BY <1>1 DEF Evidence, Locals, Counts, Digest, Hashes, Download
<1> HIDE DEF e
<1>5. OwnLocals(w) /\ pc'[w] = "use"
  BY <1>1, <1>2 DEF OwnLocals, AcquisitionTypeOK, Labels
<1>6. OwnTables(w)
  BY <1>1, <1>2, <1>4 DEF OwnTables, AcquisitionTypeOK
<1>7. SizeFits(w)' /\ HashFits(w)' /\ Ws(w)' = Ws(w)
  BY <1>1, <1>2 DEF Download, SizeFits, HashFits, Ws
<1>8. Download(w)' /\ Files(w)' /\ Expectation(w)'
  BY <1>1, <1>2, <1>5, <1>7 DEF Download, Files, Expectation
<1>9. AInv'
  BY <1>3, <1>5, <1>6, <1>8, TurnStep
<1>10. evidence[J(w)].hash # Null => Digest(loc[w].body, loc[w].count) = evidence[J(w)].hash
  BY <1>1, <1>2 DEF Fenced, Current, J, Expectation, Download, HashFits
<1> QED
  BY <1>1, <1>2, <1>4, <1>9, <1>10 DEF AcquisitionTypeOK

\* What is outside the turns: a workspace is at most deleted.
LEMMA WorldStep ==
    ASSUME AInv, [Next]_vars, token' = token, UNCHANGED <<pc, loc, evidence>>,
           source' \in [Jobs -> Objects], disk' \in [Workspaces -> Dirs],
           scav' \in Workspaces \cup {Null},
           \A x \in Workspaces : /\ disk'[x].part \in {Null, disk[x].part}
                                 /\ disk'[x].validated \in {Null, disk[x].validated}
                                 /\ disk'[x].exists => disk[x].exists
    PROVE  AInv'
<1>1. IInv' /\ IInv
  BY NextIInv DEF AInv
<1>2. AcquisitionTypeOK'
  BY DEF AInv, AcquisitionTypeOK
<1>3. ASSUME NEW v \in Workers PROVE Download(v)' /\ Files(v)' /\ Expectation(v)'
  BY <1>1, StaysPut, TokenWorkspace
<1>4. ASSUME NEW x \in Workspaces PROVE Bounded(x)' /\ Claimed(x)'
  <2>1. /\ x[1] \in Jobs /\ x[2] \in Nat /\ job[x[1]].gen \in Nat /\ job'[x[1]].gen \in Nat
        /\ job[x[1]].gen <= job'[x[1]].gen
    BY <1>1, WorkspaceParts, GenGrows
  <2> QED
    BY <2>1 DEF AInv, Bounded, Claimed
<1> QED
  BY <1>1, <1>2, <1>3, <1>4 DEF AInv

\* The scavenger judges: an old directory whose attempt is dead.
LEMMA JudgeStep ==
    ASSUME AInv, NEW x \in Workspaces, ScavengeJudge(x)
    PROVE  AInv'
<1>1. /\ scav' = x /\ UNCHANGED <<vars, pc, loc, source, evidence, disk>> /\ disk[x].exists
      /\ AcquisitionTypeOK
  BY DEF ScavengeJudge, AInv
<1> QED
  BY <1>1, WorldStep DEF AcquisitionTypeOK, vars

\* The scavenger deletes what it judged.
LEMMA DeleteStep ==
    ASSUME AInv, ScavengeDelete
    PROVE  AInv'
<1>1. /\ disk' = [disk EXCEPT ![scav] = NoDir] /\ scav' = Null
      /\ UNCHANGED <<vars, pc, loc, source, evidence>> /\ AcquisitionTypeOK
  BY DEF ScavengeDelete, AInv
<1>2. /\ disk' \in [Workspaces -> Dirs]
      /\ \A x \in Workspaces : disk'[x] = disk[x] \/ disk'[x] = NoDir
  BY <1>1, NoDirFacts DEF AcquisitionTypeOK
<1>3. token' = token
  BY <1>1 DEF vars
<1> QED
  BY <1>1, <1>2, <1>3, NoDirFacts, WorldStep DEF AcquisitionTypeOK

\* Time passes over the directories.
LEMMA AgeStep ==
    ASSUME AInv, TimePasses
    PROVE  AInv'
<1>1. /\ disk' = [x \in Workspaces |-> [disk[x] EXCEPT !.old = disk[x].exists]] /\ Tick
      /\ UNCHANGED <<pc, loc, source, evidence, scav>> /\ AcquisitionTypeOK
  BY DEF TimePasses, AInv
<1>2. ASSUME NEW x \in Workspaces
      PROVE  /\ disk'[x] \in Dirs /\ disk'[x].part = disk[x].part
             /\ disk'[x].validated = disk[x].validated /\ disk'[x].exists = disk[x].exists
  <2>1. disk'[x] = [disk[x] EXCEPT !.old = disk[x].exists] /\ disk[x] \in Dirs
    BY <1>1 DEF AcquisitionTypeOK
  <2> QED
    BY <2>1 DEF Dirs
<1>3. disk' \in [Workspaces -> Dirs]
  BY <1>1, <1>2
<1>4. [Next]_vars /\ token' = token
  BY <1>1 DEF Next, Tick
<1> QED
  BY <1>1, <1>2, <1>3, <1>4, WorldStep DEF AcquisitionTypeOK

-----------------------------------------------------------------------------
(* The invariant.                                                          *)

\* Before any job is claimed.
LEMMA InitAInv == AcquisitionInit => AInv
<1> SUFFICES ASSUME AcquisitionInit PROVE AInv
  OBVIOUS
<1>1. IInv
  BY InitIInv DEF AcquisitionInit
<1>2. NoEvidence \in Evidence
  BY DEF NoEvidence, Evidence, Hashes, Objects, Counts
<1>3. AcquisitionTypeOK
  BY <1>2, NoDirFacts DEF AcquisitionInit, AcquisitionTypeOK, Labels, Objects
<1>4. \A w \in Workers : Download(w) /\ Files(w) /\ Expectation(w)
  BY NoDirFacts DEF AcquisitionInit, Download, Files, Expectation
<1>5. \A x \in Workspaces : Bounded(x) /\ Claimed(x)
  BY NoDirFacts DEF AcquisitionInit, Bounded, Claimed
<1> QED
  BY <1>1, <1>3, <1>4, <1>5 DEF AInv

\* Every step of processes, scavenger, producers and time keeps the invariant.
LEMMA NextAInv == AInv /\ [AcquisitionNext]_acquisitionVars => AInv'
<1> SUFFICES ASSUME AInv, [AcquisitionNext]_acquisitionVars PROVE AInv'
  OBVIOUS
<1>0. [Next]_vars /\ AcquisitionTypeOK
  BY StepRefines DEF AInv
<1>1. ASSUME NEW w \in Workers, Begin(w) \/ KeepLease(w) \/ ClaimJob(w) PROVE AInv'
  <2>1. CASE \E j \in Jobs : ClaimNext(w, j) /\ ClaimJob(w) /\ ~ClaimNothing(w)
    BY <2>1, ClaimedStep DEF ClaimJob
  <2>2. CASE Begin(w) \/ KeepLease(w) \/ (ClaimJob(w) /\ ClaimNothing(w) /\ UNCHANGED <<pc, loc>>)
    <3>1. WorkerStep(w) /\ token' = token /\ UNCHANGED <<pc, loc, source, evidence, disk, scav>>
      BY <2>2 DEF Begin, KeepLease, ClaimJob, BeginTx, Heartbeat, ClaimNothing, Claim, WorkerStep
    <3> QED
      BY <3>1, IdleStep
  <2>3. ~ClaimNothing(w) /\ ClaimJob(w) => \E j \in Jobs : ClaimNext(w, j)
    BY DEF ClaimJob
  <2>4. CASE ClaimJob(w) /\ ClaimNothing(w) /\ ~UNCHANGED <<pc, loc>>
    BY <2>4, ClaimedStep DEF ClaimJob
  <2> QED
    BY <1>1, <2>1, <2>2, <2>3, <2>4
<1>2. ASSUME NEW w \in Workers, WorkerTurn(w) PROVE AInv'
  BY <1>1, <1>2, EndStep, HeadStep, OpenStep, ChunkStep, EnforceStep, BodyEndsStep, CutStep,
     ValidateStep, UnlinkStep, RecordStep DEF WorkerTurn
<1>3. ASSUME NEW j \in Jobs, Submit(j) \/ Overwrite(j) PROVE AInv'
  <2>1. /\ token' = token /\ UNCHANGED <<pc, loc, evidence, disk, scav>>
        /\ source' \in [Jobs -> Objects]
    BY <1>0, <1>3 DEF Submit, CreateOrGet, Overwrite, vars, AcquisitionTypeOK, Objects
  <2> QED
    BY <1>0, <2>1, WorldStep DEF AcquisitionTypeOK
<1>4. CASE UNCHANGED acquisitionVars
  <2>1. token' = token /\ UNCHANGED <<pc, loc, evidence, disk, scav, source>>
    BY <1>4 DEF acquisitionVars, vars
  <2> QED
    BY <1>0, <2>1, WorldStep DEF AcquisitionTypeOK
<1> QED
  BY <1>2, <1>3, <1>4, JudgeStep, DeleteStep, AgeStep DEF AcquisitionNext

\* AInv is an invariant of the acquisition.
THEOREM AcquisitionInvariance == AcquisitionSpec => []AInv
BY InitAInv, NextAInv, PTL DEF AcquisitionSpec

\* Every variable of the acquisition keeps its type.
THEOREM AcquisitionTypeCorrect == AcquisitionSpec => []AcquisitionTypeOK
<1>1. AInv => AcquisitionTypeOK
  BY DEF AInv
<1> QED
  BY <1>1, AcquisitionInvariance, PTL

\* A download that was cut short never becomes parser input where an announced
\* size of an object that was not replaced since, or the recorded hash of all of
\* it, can tell, and the input file is what was counted and hashed
\* (SafeAcquisitionService.acquire), for all sizes and limits.
THEOREM PartialsAreNeverInput == AcquisitionSpec => []PartialIsNeverInput
<1>1. AInv => PartialIsNeverInput
  <2> SUFFICES ASSUME AInv, NEW w \in Workers, pc[w] \in {"record", "use"}
               PROVE  /\ disk[Ws(w)].validated \in {Null, loc[w].count}
                      /\ \/ loc[w].size # Null /\ loc[w].etag = loc[w].body
                         \/ IsWhole(loc[w].expected)
                         => loc[w].count = Size[loc[w].body]
    BY DEF PartialIsNeverInput
  <2>1. Download(w) /\ Files(w)
    BY AtLabel
  <2> QED
    BY <2>1 DEF Download, Files, SizeFits, HashFits, IsWhole, Digest
<1> QED
  BY <1>1, AcquisitionInvariance, PTL

\* A workspace exceeds the budget of an attempt by no more than what the buffer
\* holds and one chunk, never the limit of a source, and no part file is left
\* where acquire() has returned or raised, whatever the scavenger and other owners
\* of the job do meanwhile (enforce_attempt_usage after the write, unlink).
THEOREM WorkspacesAreBounded == AcquisitionSpec => []WorkspaceIsBounded
<1>1. AInv => WorkspaceIsBounded
  <2> SUFFICES ASSUME AInv PROVE WorkspaceIsBounded
    OBVIOUS
  <2>1. ASSUME NEW x \in Workspaces
        PROVE  /\ Bytes(disk[x].part) <= MaxAttemptBytes + BufferBytes + 1
               /\ Bytes(disk[x].validated) <= MaxAttemptBytes + BufferBytes
               /\ Usage(disk[x]) <= MaxSourceBytes
    <3>1. disk[x] \in Dirs /\ Bounded(x)
      BY DEF AInv, AcquisitionTypeOK
    <3> QED
      BY <3>1, NullFacts, AcquisitionAssumption DEF Bounded, Bytes, Usage, Dirs, Counts
  <2>2. ASSUME NEW w \in Workers, pc[w] \in {"record", "use", "failed"}
        PROVE  disk[Ws(w)].part = Null
    BY <2>2 DEF AInv, Files
  <2> QED
    BY <2>1, <2>2 DEF WorkspaceIsBounded
<1> QED
  BY <1>1, AcquisitionInvariance, PTL

\* Only the checkpoint writes evidence.
LEMMA OnlyRecordWrites ==
    ASSUME AInv, [AcquisitionNext]_acquisitionVars
    PROVE  evidence' = evidence \/ \E w \in Workers : Record(w)
BY DEF AcquisitionNext, WorkerTurn, Submit, Overwrite, ScavengeJudge, ScavengeDelete, TimePasses,
   acquisitionVars, Begin, ClaimJob, KeepLease, LoseLease, Die, Conclude, HeadObject, Open,
   StreamChunk, EnforceUsage, StreamEnds, DownloadFails, ValidateSource, UnlinkPart

\* The source hash of a job is recorded once and never changes, although its
\* object may be replaced at any time and owners that lost their lease go on
\* downloading (AcquisitionCheckpoint.record, expected_sha256).
THEOREM HashesAreStable == AcquisitionSpec => HashIsStable
<1>1. AInv /\ [AcquisitionNext]_acquisitionVars =>
      [\A j \in Jobs : evidence[j].hash # Null => evidence'[j].hash = evidence[j].hash]_acquisitionVars
  BY OnlyRecordWrites, RecordStep
<1> QED
  BY <1>1, AcquisitionInvariance, PTL DEF AcquisitionSpec, HashIsStable

=============================================================================
