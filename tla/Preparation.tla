----------------------------- MODULE Preparation ----------------------------
(***************************************************************************)
(* The part of a turn before delivery, on top of the job queue: resume     *)
(* from a prepared artifact, or acquire the source, prepare it and publish *)
(* the artifact (prepared_artifacts/service.py,                            *)
(* application/prepared_artifact_checkpoint.py,                            *)
(* application/prepared_artifact_replay.py,                                *)
(* application/durable_prepared_resume.py,                                 *)
(* application/acquisition_checkpoint.py).                                 *)
(*                                                                         *)
(* An artifact is addressed by its content, so it is identified with what  *)
(* its id is a hash of: document, source, compatibility and output.  The   *)
(* object store holds its parts 1..PartCount and the manifest, which is    *)
(* written last.  What the parser, OCR, normalizer and splitter do is one  *)
(* choice here, delivery another; modules of their own have the detail.    *)
(* The access zone of a job never changes and is left out.                 *)
(***************************************************************************)
EXTENDS JobLease, FiniteSets

CONSTANTS
    Contents,       \* contents the object at source_uri may have, by their hash
    Outputs,        \* results the pipeline may have for one content
    Mappable,       \* the outputs that map to logical blocks
    Compat,         \* [Workers -> compatibility fingerprint of its pipeline]
    Ttl,            \* [Jobs -> requested_ttl_days], Null if the producer gave none
    PartCount,      \* parts of an artifact
    MaxBad          \* bound: objects that are damaged at one time

ASSUME PreparationAssumption ==
    /\ Null \notin Contents
    /\ Mappable \subseteq Outputs
    /\ DOMAIN Compat = Workers
    /\ Ttl \in [Jobs -> Nat \cup {Null}]
    /\ PartCount \in Nat \ {0}
    /\ MaxBad \in Nat
    /\ "ACQUIRED" \in Stages

VARIABLES
    pc,         \* where each worker is in its turn
    loc,        \* its local variables: source hash, artifact, next object
    exc,        \* what ended its turn, or Null
    source,     \* the content now stored at the source_uri of a job
    hash,       \* source_content_hash of indexation_job
    ckpt,       \* prepared_artifact_checkpoint, or Null
    store       \* the objects of every artifact

turnVars == <<pc, loc, exc>>
preparationVars == <<vars, turnVars, source, hash, ckpt, store>>

Docs      == {Document[j] : j \in Jobs}
Manifest  == PartCount + 1
Objects   == 1..Manifest
Artifacts == [doc : Docs, source : Contents, compat : {Compat[w] : w \in Workers},
              out : Outputs]
PreparedArtifactCheckpoint ==
    [art : Artifacts, source : Contents, compat : {Compat[w] : w \in Workers},
     ttl : Nat \cup {Null}, gen : Nat \ {0}]
Loc0      == [source |-> Null, art |-> Null, obj |-> 1]

\* A checkpoint is a record; Null is not one.
ASSUME NullIsNoCheckpoint == Null \notin PreparedArtifactCheckpoint

PreparationInit ==
    /\ Init
    /\ pc = [w \in Workers |-> "idle"]
    /\ loc = [w \in Workers |-> Loc0]
    /\ exc = [w \in Workers |-> Null]
    /\ source \in [Jobs -> Contents]
    /\ hash \in [Jobs -> Contents \cup {Null}]
    /\ ckpt = [j \in Jobs |-> Null]
    /\ store = [a \in Artifacts |-> [o \in Objects |-> "absent"]]

-----------------------------------------------------------------------------
(* The shape of a turn.                                                    *)

J(w) == token[w].job

\* The holder of the row's generation, whatever its lease.
Current(w) == token[w] # Null /\ token[w].gen = job[J(w)].gen

Goto(w, label) == pc' = [pc EXCEPT ![w] = label]

ToIdle(w) ==
    /\ Goto(w, "idle")
    /\ loc' = [loc EXCEPT ![w] = Loc0]
    /\ exc' = [exc EXCEPT ![w] = Null]

Raise(w, e) ==
    /\ Goto(w, "failed")
    /\ exc' = [exc EXCEPT ![w] = e]
    /\ UNCHANGED loc

TxLabels == {"idle", "resume", "record", "fence", "install", "deliver", "failed"}

Begin(w) ==
    /\ pc[w] \in TxLabels
    /\ BeginTx(w)
    /\ UNCHANGED <<turnVars, source, hash, ckpt, store>>

Submit(j) ==
    /\ CreateOrGet(j)
    /\ UNCHANGED <<turnVars, source, hash, ckpt, store>>

ClaimJob(w) ==
    /\ pc[w] = "idle"
    /\ \/ /\ \E j \in Jobs : ClaimNext(w, j)
          /\ Goto(w, "resume")
       \/ ClaimNothing(w) /\ UNCHANGED pc
    /\ UNCHANGED <<loc, exc, source, hash, ckpt, store>>

\* A fenced transaction finds its lease gone, or the process dies.
LeaveTurn(w) ==
    /\ Abandon(w) \/ Crash(w)
    /\ ToIdle(w)
    /\ UNCHANGED <<source, hash, ckpt, store>>

\* Whatever is raised before there is a payload fails the job for good
\* (RuntimeWorker._execute_claimed passes PERMANENT_INPUT).
FailTurn(w) ==
    /\ pc[w] = "failed"
    /\ FailPermanently(w)
    /\ ToIdle(w)
    /\ UNCHANGED <<source, hash, ckpt, store>>

\* The delivery turn, by its possible ends.
Deliver(w) ==
    /\ pc[w] = "deliver"
    /\ Complete(w) \/ ScheduleRetry(w) \/ DeadLetter(w) \/ FailPermanently(w)
    /\ ToIdle(w)
    /\ UNCHANGED <<source, hash, ckpt, store>>

-----------------------------------------------------------------------------
(* Resuming from the checkpoint.                                           *)

StoredTtl(j) == IF Ttl[j] = Null THEN 0 ELSE Ttl[j]

LineageFits(j) == ckpt[j].source = hash[j] /\ ckpt[j].ttl = Ttl[j]

\* Every part is read and verified by size, hash and record count.
PartsAreSound(a) == \A o \in Objects \ {Manifest} : store[a][o] = "good"

\* load_manifest: the manifest has the hash the checkpoint tells, and the ids and
\* digests in it are those of its contents.
ManifestIsSound(c) == store[c.art][Manifest] = "good" /\ c.art.compat = c.compat

\* Mutation: any artifact is replayed.
ReplayDecision_Any(c, w) == "REPLAY"

\* replay_decision
ReplayDecision(c, w) == IF c.compat = Compat[w] THEN "REPLAY" ELSE "REPROCESS"

\* PreparedArtifactDeliveryInputFactory.build
Build(a, j) ==
    CASE a.doc # Document[j] -> "PreparedArtifactIdentityMismatch"
      [] a.doc = Document[j] /\ a.out \notin Mappable -> "PreparedArtifactDeliveryMappingError"
      [] OTHER -> "replay"

\* The job row is locked during the whole of it, and objects are immutable, so
\* it is one step.  "reprocess" is PreparedArtifactReprocessRequired.
ResumeOutcome(w) ==
    LET c == ckpt[J(w)]
    IN  IF c = Null THEN "reprocess"
        ELSE IF ~LineageFits(J(w)) THEN "PreparedArtifactLineageMismatch"
        ELSE IF ~ManifestIsSound(c) THEN "ArtifactCorruptionError"
        ELSE IF ReplayDecision(c, w) = "REPROCESS" THEN "reprocess"
        ELSE IF ~PartsAreSound(c.art) THEN "ArtifactCorruptionError"
        ELSE Build(c.art, J(w))

Resume(w) ==
    /\ pc[w] = "resume"
    /\ AssertOwned(w)
    /\ LET outcome == ResumeOutcome(w)
       IN  CASE outcome = "reprocess" -> Goto(w, "acquire") /\ UNCHANGED <<loc, exc>>
             [] outcome = "replay" ->
                  /\ Goto(w, "deliver")
                  /\ loc' = [loc EXCEPT ![w].art = ckpt[J(w)].art]
                  /\ UNCHANGED exc
             [] OTHER -> Raise(w, outcome)
    /\ UNCHANGED <<source, hash, ckpt, store>>

-----------------------------------------------------------------------------
(* Acquiring and preparing.                                                *)

\* The download takes what is stored now.  The caller may ask for the hash the
\* job row has; the acquisition may also fail for reasons of its own.
Acquire(w) ==
    /\ pc[w] = "acquire"
    /\ \/ \E expected \in {Null, hash[J(w)]} :
             IF expected \in {Null, source[J(w)]}
             THEN /\ Goto(w, "record")
                  /\ loc' = [loc EXCEPT ![w].source = source[J(w)]]
                  /\ UNCHANGED exc
             ELSE Raise(w, "AcquisitionError")
       \/ Raise(w, "AcquisitionError")
    /\ UNCHANGED <<vars, source, hash, ckpt, store>>

\* Mutation: the acquisition checkpoint is written without the fence.
RecordAcquired_Unfenced(w) ==
    /\ pc[w] = "record"
    /\ token[w] # Null /\ txAge[w] # Null
    /\ EndTx(w)
    /\ hash' = [hash EXCEPT ![J(w)] = loc[w].source]
    /\ Goto(w, "prepare")
    /\ UNCHANGED <<job, attempt, token, loc, exc, source, ckpt, store>>

\* The source the job row had before is overwritten, not compared.
RecordAcquired(w) ==
    /\ pc[w] = "record"
    /\ AdvanceStage(w, "ACQUIRED")
    /\ hash' = [hash EXCEPT ![J(w)] = loc[w].source]
    /\ Goto(w, "prepare")
    /\ UNCHANGED <<loc, exc, source, ckpt, store>>

\* Parse, normalize, split, and encode the parts.
Prepare(w) ==
    /\ pc[w] = "prepare"
    /\ \E out \in Outputs :
          loc' = [loc EXCEPT ![w].art = [doc |-> Document[J(w)], source |-> loc[w].source,
                                         compat |-> Compat[w], out |-> out]]
    /\ Goto(w, "fence")
    /\ UNCHANGED <<vars, exc, source, hash, ckpt, store>>

-----------------------------------------------------------------------------
(* Publishing: the parts in order, then the manifest; the lease is asked   *)
(* for before each object, in a transaction that has ended when it is put. *)

FenceObject(w) ==
    /\ pc[w] = "fence"
    /\ AssertOwned(w)
    /\ Goto(w, "probe")
    /\ UNCHANGED <<loc, exc, source, hash, ckpt, store>>

NextObject(w) ==
    /\ Goto(w, IF loc[w].obj = Manifest THEN "install" ELSE "fence")
    /\ loc' = [loc EXCEPT ![w].obj = IF @ = Manifest THEN 1 ELSE @ + 1]

\* put_if_absent asks first; an object that is there must have the same bytes.
ProbeObject(w) ==
    /\ pc[w] = "probe"
    /\ LET found == store[loc[w].art][loc[w].obj]
       IN  CASE found = "absent" -> Goto(w, "put") /\ UNCHANGED <<loc, exc>>
             [] found = "good"   -> NextObject(w) /\ UNCHANGED exc
             [] found = "bad"    -> Raise(w, "ArtifactPublicationConflict")
    /\ UNCHANGED <<vars, source, hash, ckpt, store>>

\* Mutation: a put that fails is repeated without end.
PutObject_Repeats(w) ==
    /\ pc[w] = "put"
    /\ \/ /\ store' = [store EXCEPT ![loc[w].art][loc[w].obj] = "good"]
          /\ NextObject(w)
       \/ Goto(w, "fence") /\ UNCHANGED <<store, loc>>
    /\ UNCHANGED <<vars, exc, source, hash, ckpt>>

\* Mutation: a put that fails is passed over.
PutObject_IgnoresFailure(w) ==
    /\ pc[w] = "put"
    /\ store' \in {store, [store EXCEPT ![loc[w].art][loc[w].obj] = "good"]}
    /\ NextObject(w)
    /\ UNCHANGED <<vars, exc, source, hash, ckpt>>

\* The put overwrites whatever came since.  A put that fails may have written.
PutObject(w) ==
    /\ pc[w] = "put"
    /\ LET written == [store EXCEPT ![loc[w].art][loc[w].obj] = "good"]
       IN  \/ store' = written /\ NextObject(w) /\ UNCHANGED exc
           \/ store' \in {store, written} /\ Raise(w, "HTTPError")
    /\ UNCHANGED <<vars, source, hash, ckpt>>

\* Mutation: the checkpoint is installed by whoever has a token.
OwnsForInstall_AnyToken(w) ==
    /\ token[w] # Null /\ txAge[w] # Null
    /\ EndTx(w)
    /\ UNCHANGED <<job, attempt, token>>

\* The row is locked and the fence checked again.
OwnsForInstall(w) == AssertOwned(w)

\* The checkpoint is written under the lock of the job row.  A TTL that was not
\* requested is stored as 0.
Install(w) ==
    /\ pc[w] = "install"
    /\ OwnsForInstall(w)
    /\ LET a   == loc[w].art
           ttl == StoredTtl(J(w))
           old == ckpt[J(w)]
       IN  \/ /\ a.doc = Document[J(w)] /\ a.source = hash[J(w)]
              /\ old # Null => old.ttl \in {Null, ttl}
              /\ ckpt' = [ckpt EXCEPT ![J(w)] =
                            [art |-> a, source |-> a.source, compat |-> a.compat,
                             ttl |-> ttl, gen |-> token[w].gen]]
              /\ Goto(w, "resume")
              /\ UNCHANGED <<loc, exc>>
           \/ /\ \/ a.doc # Document[J(w)] \/ a.source # hash[J(w)]
                 \/ old # Null /\ old.ttl \notin {Null, ttl}
              /\ Raise(w, "PreparedArtifactIdentityMismatch")
              /\ UNCHANGED ckpt
    /\ UNCHANGED <<source, hash, store>>

-----------------------------------------------------------------------------
(* The world outside.                                                      *)

\* The producer's object is replaced.
Overwrite(j) ==
    /\ \E c \in Contents \ {source[j]} : source' = [source EXCEPT ![j] = c]
    /\ UNCHANGED <<vars, turnVars, hash, ckpt, store>>

Bad == {x \in Artifacts \X Objects : store[x[1]][x[2]] = "bad"}

\* An object is damaged in the store.
Damage(a, o) ==
    /\ store[a][o] = "good"
    /\ Cardinality(Bad) < MaxBad
    /\ store' = [store EXCEPT ![a][o] = "bad"]
    /\ UNCHANGED <<vars, turnVars, source, hash, ckpt>>

TimePasses ==
    /\ Tick
    /\ UNCHANGED <<turnVars, source, hash, ckpt, store>>

Proceed(w) ==
    \/ Begin(w) \/ ClaimJob(w) \/ FailTurn(w) \/ Deliver(w) \/ Resume(w)
    \/ Acquire(w) \/ RecordAcquired(w) \/ Prepare(w)
    \/ FenceObject(w) \/ ProbeObject(w) \/ PutObject(w) \/ Install(w)

PreparationNext ==
    \/ \E j \in Jobs : Submit(j) \/ Overwrite(j)
    \/ \E w \in Workers : Proceed(w) \/ LeaveTurn(w)
    \/ \E a \in Artifacts, o \in Objects : Damage(a, o)
    \/ TimePasses

PreparationSpec == PreparationInit /\ [][PreparationNext]_preparationVars

\* A process goes on with its turn, and a fenced transaction whose lease is
\* gone ends in LeaseLostError.
FairPreparation ==
    PreparationSpec /\ \A w \in Workers :
        WF_preparationVars(Proceed(w) \/ (LeaveTurn(w) /\ ~Fenced(w) /\ txAge[w] # Null))

-----------------------------------------------------------------------------
(* Properties.                                                             *)

\* The payload the current owner delivers is the artifact its checkpoint names,
\* made by its own pipeline version from the source the job row records
\* (install and resume check it; no stale worker may change it meanwhile).
PayloadIsAuthoritative ==
    \A w \in Workers : pc[w] = "deliver" /\ Current(w) =>
        /\ ckpt[J(w)] # Null
        /\ loc[w].art = ckpt[J(w)].art
        /\ loc[w].art.source = hash[J(w)]
        /\ loc[w].art.compat = Compat[w]

\* The replay pointer moves forward only: it is set by the holder of the
\* current generation, never put back by an older one.
PointerIsFenced ==
    [][\A j \in Jobs : ckpt'[j] # ckpt[j] =>
          /\ ckpt'[j].gen = job[j].gen
          /\ ckpt[j] # Null => ckpt[j].gen <= ckpt'[j].gen]_preparationVars

\* The preparation keeps to the job queue: every step of it is a step of
\* JobLease or leaves the queue alone.
PreparationKeepsQueue == Spec

\* A job points at no artifact or at a complete one, and complete artifacts
\* stay, although they are written object by object by workers that may crash.
Pointer == INSTANCE ReplayPointer
              WITH published <- {a \in Artifacts : \A o \in Objects : store[a][o] # "absent"},
                   pointer   <- [j \in Jobs |-> IF ckpt[j] = Null THEN Null ELSE ckpt[j].art]

PointerSpec == Pointer!PointerSpec

\* Every turn ends, whatever the store and the producers do.
PreparationEnds == \A w \in Workers : pc[w] # "idle" ~> pc[w] = "idle"

\* "A reclaimed worker reuses a compatible M7 artifact without parser/OCR
\* rerun": the intent of a job never changes, so the lineage of its own
\* checkpoint fails only if another source has been recorded since.
LineageBreaksOnlyBySource ==
    \A w \in Workers : exc[w] = "PreparedArtifactLineageMismatch" /\ Current(w) =>
        ckpt[J(w)].source # hash[J(w)]
=============================================================================
