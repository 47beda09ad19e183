---------------------------- MODULE Acquisition ----------------------------
(***************************************************************************)
(* SafeAcquisitionService, AcquisitionCheckpoint and WorkspaceManager      *)
(* (acquisition/service.py, acquisition/workspace.py,                      *)
(* application/acquisition_checkpoint.py) on top of the job queue: HEAD,   *)
(* the streamed download into the workspace of the attempt, validation,    *)
(* the fenced checkpoint, and a scavenger beside the workers.              *)
(*                                                                         *)
(* A content stands for its bytes, etag and version id; it is streamed in  *)
(* chunks of one unit.  Free disk space and the deadline are choices.  A   *)
(* workspace is named by job and lease generation, as processing_attempt   *)
(* ids are.                                                                *)
(***************************************************************************)
EXTENDS JobLease

CONSTANTS
    Contents,           \* contents the source object may have
    Size,               \* [Contents -> Nat], in chunks
    Valid,              \* the contents whose format is accepted by _validate
    MaxSourceBytes,     \* policy.max_source_bytes, in chunks
    MaxAttemptBytes,    \* policy.max_attempt_bytes, in chunks
    BufferBytes         \* what open("xb") may hold back of what was written

ASSUME AcquisitionAssumption ==
    /\ Null \notin Contents
    /\ Size \in [Contents -> Nat]
    /\ Valid \subseteq Contents
    /\ MaxSourceBytes \in Nat \ {0}
    /\ MaxAttemptBytes \in Nat \ {0}
    /\ BufferBytes \in Nat
    /\ "ACQUIRED" \in Stages

VARIABLES
    pc,         \* where each worker is in its turn
    loc,        \* its locals: expected hash, HEAD answer, body and byte count
    source,     \* the content of the source object, Null when it is absent
    evidence,   \* the source_* columns of indexation_job
    disk,       \* the workspaces, by job and generation
    scav        \* the workspace the scavenger found dead and will delete

acquisitionVars == <<vars, pc, loc, source, evidence, disk, scav>>

Generations(j) == 1..MaxAttempts[j]
Workspaces == UNION {{<<j, g>> : g \in Generations(j)} : j \in Jobs}

\* The SHA-256 of the first n chunks of a content, no two of which begin alike.
Digest(c, n) == <<c, n>>

\* A workspace is named by a pair; Null is not one.
ASSUME NullIsNoWorkspace == Null \notin Workspaces

NoEvidence == [hash |-> Null, size |-> Null, etag |-> Null]
NoDir      == [exists |-> FALSE, old |-> FALSE, part |-> Null, validated |-> Null]
Loc0       == [expected |-> Null, etag |-> Null, size |-> Null, body |-> Null,
               count |-> 0]

AcquisitionInit ==
    /\ Init
    /\ pc = [w \in Workers |-> "idle"]
    /\ loc = [w \in Workers |-> Loc0]
    /\ source \in [Jobs -> Contents \cup {Null}]
    /\ evidence = [j \in Jobs |-> NoEvidence]
    /\ disk = [x \in Workspaces |-> NoDir]
    /\ scav = Null

-----------------------------------------------------------------------------
(* The shape of a turn.                                                    *)

J(w)  == token[w].job
Ws(w) == <<token[w].job, token[w].gen>>

Goto(w, label) == pc' = [pc EXCEPT ![w] = label]

ToIdle(w) ==
    /\ Goto(w, "idle")
    /\ loc' = [loc EXCEPT ![w] = Loc0]

Begin(w) ==
    /\ pc[w] \in {"idle", "record", "use", "failed"}
    /\ BeginTx(w)
    /\ UNCHANGED <<pc, loc, source, evidence, disk, scav>>

Submit(j) ==
    /\ CreateOrGet(j)
    /\ UNCHANGED <<pc, loc, source, evidence, disk, scav>>

\* The hash of an earlier attempt is what the acquisition must find again.
ClaimJob(w) ==
    /\ pc[w] = "idle"
    /\ \/ \E j \in Jobs :
             /\ ClaimNext(w, j)
             /\ Goto(w, "head")
             /\ loc' = [loc EXCEPT ![w].expected = evidence[j].hash]
       \/ ClaimNothing(w) /\ UNCHANGED <<pc, loc>>
    /\ UNCHANGED <<source, evidence, disk, scav>>

KeepLease(w) ==
    /\ pc[w] \in {"record", "use"}
    /\ Heartbeat(w)
    /\ UNCHANGED <<pc, loc, source, evidence, disk, scav>>

\* cleanup_workspace is for the caller of the service to call, or to forget.
CleanupWorkspace(w) == disk' \in {disk, [disk EXCEPT ![Ws(w)] = NoDir]}

\* A fenced transaction finds its lease gone and the turn ends.
LoseLease(w) ==
    /\ Abandon(w)
    /\ CleanupWorkspace(w)
    /\ ToIdle(w)
    /\ UNCHANGED <<source, evidence, scav>>

\* The process dies and leaves everything where it is.
Die(w) ==
    /\ Crash(w)
    /\ ToIdle(w)
    /\ UNCHANGED <<source, evidence, disk, scav>>

\* A verdict on the job.
Conclude(w) ==
    /\ pc[w] \in {"use", "failed"}
    /\ \/ pc[w] = "use" /\ (Complete(w) \/ ScheduleRetry(w))
       \/ pc[w] = "failed" /\ FailPermanently(w)
    /\ CleanupWorkspace(w)
    /\ ToIdle(w)
    /\ UNCHANGED <<source, evidence, scav>>

-----------------------------------------------------------------------------
(* acquire()                                                               *)

\* A file that the scavenger has unlinked is still written to and closed.
\* Closing it writes out what the buffer held back of the first n chunks.
Closed(d, n) == [d EXCEPT !.part = IF @ = Null THEN Null ELSE n]

\* What the directory can hold when n chunks were written.
Written(d, n) ==
    IF d.part = Null THEN {d}
    ELSE {[d EXCEPT !.part = k] : k \in {m \in d.part..n : n - m <= BufferBytes}}

\* The part file is closed, whether the body ended or an exception leaves the
\* with statement.
Close(w) == disk' = [disk EXCEPT ![Ws(w)] = Closed(@, loc[w].count)]

\* An exception of acquire(): its locals are gone.
Raise(w, label) == Goto(w, label) /\ loc' = [loc EXCEPT ![w] = Loc0]

\* Every exception after the part file was opened unlinks it.
UnlinkPart(w) ==
    /\ pc[w] = "unlink"
    /\ Goto(w, "failed")
    /\ disk' = [disk EXCEPT ![Ws(w)].part = Null]
    /\ UNCHANGED <<vars, loc, source, evidence, scav>>

\* WorkspaceManager.preflight with the expected size; free space is a choice.
Preflight(size) == size # Null => size <= MaxAttemptBytes

\* HEAD: not found, too large, no room or a timeout end the acquisition.  A
\* store may leave out the size.
HeadObject(w) ==
    /\ pc[w] = "head"
    /\ \/ /\ source[J(w)] # Null
          /\ \E size \in {Null, Size[source[J(w)]]} :
                /\ size # Null => size <= MaxSourceBytes
                /\ Preflight(size)
                /\ loc' = [loc EXCEPT ![w].etag = source[J(w)], ![w].size = size]
          /\ Goto(w, "open")
       \/ Raise(w, "failed")
    /\ UNCHANGED <<vars, source, evidence, disk, scav>>

\* The directories are made, leftovers unlinked, the part file created, and the
\* GET sent: its body is the object as it is now.
Open(w) ==
    /\ pc[w] = "open"
    /\ disk' = [disk EXCEPT ![Ws(w)] =
                  [exists |-> TRUE, old |-> FALSE, part |-> 0, validated |-> Null]]
    /\ \/ /\ source[J(w)] # Null
          /\ loc' = [loc EXCEPT ![w].body = source[J(w)]]
          /\ Goto(w, "stream")
       \/ /\ source[J(w)] = Null
          /\ Raise(w, "unlink")
    /\ UNCHANGED <<vars, source, evidence, scav>>

\* The limit of the source, the deadline and errors of the transport end the
\* download anywhere.
DownloadFails(w) ==
    /\ pc[w] = "stream"
    /\ Close(w)
    /\ Raise(w, "unlink")
    /\ UNCHANGED <<vars, source, evidence, scav>>

\* One chunk is counted, and written if it is within the limit of a source.
StreamChunk(w) ==
    /\ pc[w] = "stream"
    /\ loc[w].count < Size[loc[w].body]
    /\ loc[w].count + 1 <= MaxSourceBytes
    /\ loc' = [loc EXCEPT ![w].count = @ + 1]
    /\ \E d \in Written(disk[Ws(w)], loc[w].count + 1) : disk' = [disk EXCEPT ![Ws(w)] = d]
    /\ Goto(w, "enforce")
    /\ UNCHANGED <<vars, source, evidence, scav>>

Bytes(file) == IF file = Null THEN 0 ELSE file

\* The bytes enforce_attempt_usage finds in the directory.
Usage(d) == Bytes(d.part) + Bytes(d.validated)

\* Mutation: the usage is that before the chunk.
WithinBudget_Before(d) == Usage(d) <= MaxAttemptBytes + 1

WithinBudget(d) == Usage(d) <= MaxAttemptBytes

\* After the write the directory is measured: it holds the chunk already, but
\* for what is still in the buffer.
EnforceUsage(w) ==
    /\ pc[w] = "enforce"
    /\ \/ /\ WithinBudget(disk[Ws(w)])
          /\ Goto(w, "stream")
          /\ UNCHANGED <<loc, disk>>
       \/ /\ ~WithinBudget(disk[Ws(w)])
          /\ Close(w)
          /\ Raise(w, "unlink")
    /\ UNCHANGED <<vars, source, evidence, scav>>

\* Mutation: the byte count is not compared with the HEAD.
SizeFits_Unchecked(w) == TRUE

SizeFits(w) == loc[w].size \in {Null, loc[w].count}

\* Mutation: the expected hash is not compared.
HashFits_Unchecked(w) == TRUE

\* The digest of the bytes read is what the row expects; a body cut where an
\* earlier one was cut has its digest.
HashFits(w) ==
    loc[w].expected \in {Null, Digest(loc[w].body, loc[w].count)}

\* The body ends; a connection that is closed early and has announced no length
\* looks the same.  The file is closed with all that was written, which nothing
\* measures any more, and the checks on count and hash follow.
StreamEnds(w) ==
    /\ pc[w] = "stream"
    /\ Close(w)
    /\ \/ /\ loc[w].count > 0
          /\ SizeFits(w)
          /\ HashFits(w)
          /\ Goto(w, "validate")
          /\ UNCHANGED loc
       \/ /\ loc[w].count = 0 \/ ~SizeFits(w) \/ ~HashFits(w)
          /\ Raise(w, "unlink")
    /\ UNCHANGED <<vars, source, evidence, scav>>

\* _validate reads the part file, os.replace promotes it; both fail if it is
\* gone, and the deadline may have passed.
ValidateSource(w) ==
    /\ pc[w] = "validate"
    /\ \/ /\ loc[w].body \in Valid
          /\ disk[Ws(w)].part # Null
          /\ disk' = [disk EXCEPT ![Ws(w)] =
                        [@ EXCEPT !.validated = disk[Ws(w)].part, !.part = Null, !.old = FALSE]]
          /\ Goto(w, "record")
          /\ UNCHANGED loc
       \/ Raise(w, "unlink") /\ UNCHANGED disk
    /\ UNCHANGED <<vars, source, evidence, scav>>

\* AcquisitionCheckpoint.record
Record(w) ==
    /\ pc[w] = "record"
    /\ AdvanceStage(w, "ACQUIRED")
    /\ evidence' = [evidence EXCEPT ![J(w)] =
                      [hash |-> Digest(loc[w].body, loc[w].count),
                       size |-> loc[w].count, etag |-> loc[w].etag]]
    /\ Goto(w, "use")
    /\ UNCHANGED <<loc, source, disk, scav>>

-----------------------------------------------------------------------------
(* The scavenger, and the world outside.                                   *)

\* The attempt owns its job: open, current, with an unexpired lease by the
\* clock of a transaction of the given age.
LiveAttempt(x, age) ==
    LET row == job[x[1]]
    IN  /\ row.status = "PROCESSING"
        /\ row.gen = x[2]
        /\ row.leaseLeft # Null /\ row.leaseLeft + age >= 0
        /\ \E n \in 1..Len(attempt[x[1]]) :
              /\ attempt[x[1]][n].gen = x[2]
              /\ attempt[x[1]][n].result = "OPEN"
              /\ attempt[x[1]][n].worker = row.worker

\* The scavenger asks the database about an old directory ...
ScavengeJudge(x) ==
    /\ scav = Null
    /\ disk[x].exists /\ disk[x].old
    /\ \E age \in 0..MaxTxAge : ~LiveAttempt(x, age)
    /\ scav' = x
    /\ UNCHANGED <<vars, pc, loc, source, evidence, disk>>

\* ... and deletes it, which may take until later.
ScavengeDelete ==
    /\ scav # Null
    /\ disk' = [disk EXCEPT ![scav] = NoDir]
    /\ scav' = Null
    /\ UNCHANGED <<vars, pc, loc, source, evidence>>

\* The producer's object is replaced or removed.
Overwrite(j) ==
    /\ \E c \in (Contents \cup {Null}) \ {source[j]} : source' = [source EXCEPT ![j] = c]
    /\ UNCHANGED <<vars, pc, loc, evidence, disk, scav>>

\* A tick is as long as orphan_grace_seconds.
TimePasses ==
    /\ Tick
    /\ disk' = [x \in Workspaces |-> [disk[x] EXCEPT !.old = disk[x].exists]]
    /\ UNCHANGED <<pc, loc, source, evidence, scav>>

WorkerTurn(w) ==
    \/ Begin(w) \/ ClaimJob(w) \/ KeepLease(w) \/ LoseLease(w) \/ Die(w) \/ Conclude(w)
    \/ HeadObject(w) \/ Open(w) \/ StreamChunk(w) \/ EnforceUsage(w) \/ StreamEnds(w)
    \/ DownloadFails(w) \/ ValidateSource(w) \/ UnlinkPart(w) \/ Record(w)

AcquisitionNext ==
    \/ \E j \in Jobs : Submit(j) \/ Overwrite(j)
    \/ \E w \in Workers : WorkerTurn(w)
    \/ \E x \in Workspaces : ScavengeJudge(x)
    \/ ScavengeDelete
    \/ TimePasses

AcquisitionSpec == AcquisitionInit /\ [][AcquisitionNext]_acquisitionVars

-----------------------------------------------------------------------------
(* Properties.                                                             *)

\* The digest of all of a content.
IsWhole(digest) == digest # Null /\ digest[2] = Size[digest[1]]

\* Partial downloads are never parser input where the checks can tell: the file
\* that is left, unless the scavenger took it, is what was counted and hashed,
\* and it is all of the object if the store announced its size and the object
\* was not replaced between HEAD and GET, or if an attempt that recorded all of
\* it went before.  (A body that announces no size and is cut on the first
\* attempt is recorded, and found again by a later one that is cut alike.)
PartialIsNeverInput ==
    \A w \in Workers : pc[w] \in {"record", "use"} =>
        /\ disk[Ws(w)].validated \in {Null, loc[w].count}
        /\ \/ loc[w].size # Null /\ loc[w].etag = loc[w].body
           \/ IsWhole(loc[w].expected)
           => loc[w].count = Size[loc[w].body]

\* What an attempt leaves on the disk.  The budget is enforced after the write
\* and without the bytes in the buffer, so a part file exceeds it by what the
\* buffer holds and one chunk, an accepted source by what the buffer held; and
\* there is no part file after acquire(), unless the process died in it.
WorkspaceIsBounded ==
    /\ \A x \in Workspaces :
          /\ Bytes(disk[x].part) <= MaxAttemptBytes + BufferBytes + 1
          /\ Bytes(disk[x].validated) <= MaxAttemptBytes + BufferBytes
          /\ Usage(disk[x]) <= MaxSourceBytes
    /\ \A w \in Workers : token[w] # Null /\ pc[w] \in {"record", "use", "failed"} =>
          disk[Ws(w)].part = Null

\* The hash of a document version is recorded once: later attempts find the
\* same bytes or fail, although the object may be replaced at any time and an
\* owner that lost its lease may still be on its way to the checkpoint.
HashIsStable ==
    [][\A j \in Jobs : evidence[j].hash # Null =>
          evidence'[j].hash = evidence[j].hash]_acquisitionVars

\* "A live non-expired lease prevents scavenger deletion regardless of directory
\* age", also if the deletion comes long after the question.
LiveWorkspaceIsKept ==
    [][\A x \in Workspaces : disk[x].exists /\ scav = x /\ scav' = Null =>
          ~LiveAttempt(x, 0)]_acquisitionVars
=============================================================================
