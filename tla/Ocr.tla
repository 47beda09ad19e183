-------------------------------- MODULE Ocr --------------------------------
(***************************************************************************)
(* OcrPipelineService.process (ocr/service.py) with its decision policy,   *)
(* its resolver and IsolatedPaddleOcrEngine (ocr/engine.py): one process   *)
(* call walks over the candidates of a document while the recognition      *)
(* worker, a process of its own behind two queues, runs, fails and dies on *)
(* its own account.                                                        *)
(*                                                                         *)
(* A text is a sequence of characters, its words apart by one " ", as      *)
(* _normalize_for_match leaves it.  An image stands for its bytes and so   *)
(* for its hash; boxes are left out.  A confidence is "drop", "low" or     *)
(* "good": under hard_confidence_floor, under min_confidence, or above.    *)
(* PaddleOCR itself is external: it finds the texts of the image, answers  *)
(* with an invalid confidence, or raises.                                  *)
(***************************************************************************)
EXTENDS Integers, Sequences, FiniteSets, SequencesExt, NoValue

CONSTANTS
    Documents,      \* the parsed documents process() may be called with
    Images,         \* the images candidates resolve to
    ImageOf,        \* [Images -> record]: width, height, bytes, texts
    MinSide, MinPixels, MaxPagePixels, MaxTotalPixels, MaxPages, MaxDerivedBytes,
    MemoryHardLimit

Scopes   == {"PAGE", "REGION", "EMBEDDED_IMAGE"}
Modes    == {"DISABLED", "IF_NEEDED", "FORCE"}
Invalid  == "invalid"

\* The limits of OcrProfile, and of the images a resolver hands over.
LimitsAreValid ==
    /\ {MinSide, MinPixels, MaxPagePixels, MaxTotalPixels, MaxPages,
        MaxDerivedBytes, MemoryHardLimit} \subseteq Nat
    /\ \A x \in Images : /\ {ImageOf[x].width, ImageOf[x].height} \subseteq Nat \ {0}
                          /\ ImageOf[x].bytes \in Nat

\* Candidates and texts come in tuples, and a candidate shows one of the images.
DocumentsAreValid ==
    /\ \A d \in Documents :
          /\ Len(d.candidates) \in Nat
          /\ \A n \in 1..Len(d.candidates) : d.candidates[n].image \in Images
    /\ \A x \in Images :
          Len(ImageOf[x].texts) \in Nat /\ DOMAIN ImageOf[x].texts = 1..Len(ImageOf[x].texts)

VARIABLES
    doc,        \* the document of the call
    pc,         \* where process() is
    i,          \* the candidate it is at
    results,    \* a result per candidate so far
    spent,      \* pixels, pages and derived bytes so far
    cache,      \* image_cache, by image
    scratch,    \* the candidates whose rendered file is on disk
    late,       \* timeout_per_job_seconds has passed
    worker,     \* the recognition process and the request it holds
    requests,   \* the two queues between them
    responses,
    accepted,   \* accepted_ocr_elements
    merged,     \* the elements of the enriched document
    status      \* its quality status

engineVars == <<worker, requests, responses>>
outputVars == <<accepted, merged, status>>
ocrVars == <<doc, pc, i, results, spent, cache, scratch, late, engineVars, outputVars>>

NoWorker == [state |-> "none", holds |-> Null]

OcrInit ==
    /\ doc \in Documents
    /\ pc = "validate" /\ i = 1 /\ results = <<>>
    /\ spent = [pixels |-> 0, pages |-> 0, bytes |-> 0]
    /\ cache = [x \in Images |-> Null]
    /\ scratch = {}
    /\ late = FALSE
    /\ worker = NoWorker /\ requests = <<>> /\ responses = <<>>
    /\ accepted = <<>> /\ merged = <<>> /\ status = Null

Candidate == doc.candidates[i]
Pic       == ImageOf[Candidate.image]
Pixels(x) == ImageOf[x].width * ImageOf[x].height

-----------------------------------------------------------------------------
(* _validate_pipeline_inputs and the decision policy.                      *)

\* doc.sameSource: hash and format are those of the source, and the engine knows
\* the languages of the profile.
ElementIds == {doc.native[n].id : n \in 1..Len(doc.native)}

ValidInputs ==
    /\ doc.sameSource
    /\ \A a, b \in 1..Len(doc.candidates) :
          doc.candidates[a].id = doc.candidates[b].id => a = b
    /\ \A a \in 1..Len(doc.candidates) :
          doc.candidates[a].element \in ElementIds \cup {Null}

PageMode(c) ==
    IF c.page # Null /\ c.page <= Len(doc.pageModes) THEN doc.pageModes[c.page] ELSE Null

IfNeeded(c) ==
    IF /\ c.scope = "PAGE"
       /\ PageMode(c) = "NATIVE_TEXT"
       /\ c.reason \notin {"standalone_image", "low_native_text"}
    THEN "NOT_REQUIRED"
    ELSE "REQUIRED"

\* An optional image of a healthy document may stay unread when OCR is off.
Decide(c) ==
    IF c.scope \notin Scopes THEN "UNSUPPORTED"
    ELSE IF doc.mode = "FORCE" THEN "REQUIRED"
    ELSE IF doc.mode = "IF_NEEDED" THEN IfNeeded(c)
    ELSE IF c.scope = "EMBEDDED_IMAGE" /\ doc.status # "OCR_REQUIRED" THEN "NOT_REQUIRED"
    ELSE IF IfNeeded(c) = "REQUIRED" THEN "REQUIRED_BUT_DISABLED"
    ELSE IfNeeded(c)

-----------------------------------------------------------------------------
(* The end of a candidate's turn: its result, and the scratch file of the  *)
(* resolver is unlinked.                                                   *)

\* Mutation: the file is kept.
Unlink_Keeps(files) == files

Unlink(files) == files \ {i}

NextCandidate(n) == IF n > Len(doc.candidates) THEN "reconcile" ELSE "candidate"

Result(decision, observations, warned) ==
    [id |-> Candidate.id, decision |-> decision,
     observations |-> observations, warned |-> warned]

EndTurn(result) ==
    /\ results' = Append(results, result)
    /\ scratch' = Unlink(scratch)
    /\ i' = i + 1
    /\ pc' = NextCandidate(i + 1)

Reject(decision) == EndTurn(Result(decision, <<>>, FALSE))
Warn             == EndTurn(Result("REQUIRED", <<>>, TRUE))

Validate ==
    /\ pc = "validate"
    /\ pc' = IF ValidInputs THEN NextCandidate(1) ELSE "raised"
    /\ UNCHANGED <<doc, i, results, spent, cache, scratch, late, engineVars, outputVars>>

\* The policy, the deadline of the job and the page budget come before the render.
TooManyPages == Candidate.scope = "PAGE" /\ spent.pages >= MaxPages

Skip ==
    /\ pc = "candidate"
    /\ \/ Decide(Candidate) # "REQUIRED" /\ Reject(Decide(Candidate))
       \/ /\ Decide(Candidate) = "REQUIRED"
          /\ late \/ TooManyPages
          /\ Reject("REJECTED_RESOURCE_LIMIT")
    /\ UNCHANGED <<doc, spent, cache, late, engineVars, outputVars>>

\* resolve(): what cannot be rendered at all, and a file that cannot be read
\* back, end the turn; the partial file is unlinked.
Resolvable ==
    \/ doc.format = "IMAGE"
    \/ doc.format = "PDF" /\ Candidate.scope \in {"PAGE", "REGION"}
    \/ doc.format = "OFFICE" /\ Candidate.scope = "EMBEDDED_IMAGE"

Render ==
    /\ pc = "candidate"
    /\ Decide(Candidate) = "REQUIRED" /\ ~late /\ ~TooManyPages
    /\ \/ Resolvable /\ scratch' = scratch \cup {i} /\ pc' = "rendered"
          /\ UNCHANGED <<i, results>>
       \/ Warn
    /\ UNCHANGED <<doc, spent, cache, late, engineVars, outputVars>>

RenderFails ==
    /\ pc = "rendered"
    /\ Warn
    /\ UNCHANGED <<doc, spent, cache, late, engineVars, outputVars>>

-----------------------------------------------------------------------------
(* The budgets, and the image cache.                                       *)

TooSmall(x) ==
    ImageOf[x].width < MinSide \/ ImageOf[x].height < MinSide \/ Pixels(x) < MinPixels

OverBudget ==
    \/ Pixels(Candidate.image) > MaxPagePixels
    \/ spent.pixels + Pixels(Candidate.image) > MaxTotalPixels
    \/ spent.bytes + Pic.bytes > MaxDerivedBytes
    \/ Pixels(Candidate.image) * 4 > MemoryHardLimit

\* Mutation: only pages are counted, pixels are not added up.
Charge_LastOnly == [pixels |-> Pixels(Candidate.image),
                    pages  |-> spent.pages + IF Candidate.scope = "PAGE" THEN 1 ELSE 0,
                    bytes  |-> spent.bytes + Pic.bytes]

Charge == [pixels |-> spent.pixels + Pixels(Candidate.image),
           pages  |-> spent.pages + IF Candidate.scope = "PAGE" THEN 1 ELSE 0,
           bytes  |-> spent.bytes + Pic.bytes]

\* The members of s that are in T, in their order.
Kept(s, T) ==
    LET upTo[n \in 0..Len(s)] ==
            IF n = 0 THEN <<>>
            ELSE IF s[n] \in T THEN Append(upTo[n - 1], s[n]) ELSE upTo[n - 1]
    IN  upTo[Len(s)]

\* What is not under the floor.
Retained(observations) ==
    Kept(observations, {o \in ToSet(observations) : o.conf # "drop"})

\* A recognized or reused result is charged, and loses what is under the floor.
Record(observations) ==
    /\ spent' = Charge
    /\ EndTurn(Result("REQUIRED", Retained(observations), FALSE))

\* Mutation: the cached observations as they are.
Project_AsCached(observations) == observations

\* _project_observations: the candidate and the page are the occurrence's own.
Project(observations) ==
    [n \in DOMAIN observations |->
        [observations[n] EXCEPT !.candidate = Candidate.id,
                                !.element   = Candidate.element,
                                !.page      = Candidate.page]]

Admit ==
    /\ pc = "rendered"
    /\ IF TooSmall(Candidate.image) THEN Reject("NOT_REQUIRED") /\ UNCHANGED spent
       ELSE IF OverBudget THEN Reject("REJECTED_RESOURCE_LIMIT") /\ UNCHANGED spent
       ELSE IF cache[Candidate.image] # Null THEN Record(Project(cache[Candidate.image]))
       ELSE pc' = "recognize" /\ UNCHANGED <<i, results, scratch, spent>>
    /\ UNCHANGED <<doc, cache, late, engineVars, outputVars>>

-----------------------------------------------------------------------------
(* IsolatedPaddleOcrEngine: the caller's side.                             *)

Alive == worker.state \notin {"none", "dead"}

\* Mutation: the caller gives up and leaves the worker running.
Stop_KeepsWorker == UNCHANGED engineVars

\* terminate, kill, and forget the process and both of its queues
Stop == worker' = NoWorker /\ requests' = <<>> /\ responses' = <<>>

EnsureStarted ==
    /\ pc = "recognize"
    /\ IF Alive
       THEN pc' = "send" /\ UNCHANGED engineVars
       ELSE /\ worker' = [state |-> "starting", holds |-> Null]
            /\ requests' = <<>> /\ responses' = <<>>
            /\ pc' = "starting"
    /\ UNCHANGED <<doc, i, results, spent, cache, scratch, late, outputVars>>

Started ==
    /\ pc = "starting" /\ responses # <<>>
    /\ \/ /\ Head(responses).tag = "READY"
          /\ responses' = Tail(responses)
          /\ pc' = "send"
          /\ UNCHANGED <<i, results, scratch, worker, requests>>
       \/ Head(responses).tag # "READY" /\ Stop /\ Warn
    /\ UNCHANGED <<doc, spent, cache, late, outputVars>>

Send ==
    /\ pc = "send"
    /\ requests' = Append(requests, i)
    /\ pc' = "waiting"
    /\ UNCHANGED <<doc, i, results, spent, cache, scratch, late, worker, responses, outputVars>>

\* Mutation: a blocking get on the queue of a worker that still lives.
MayTimeOut_OnlyDead == responses = <<>> /\ ~Alive

\* queue.Empty, while starting and while recognizing
MayTimeOut == responses = <<>>

TimeOut ==
    /\ pc \in {"starting", "waiting"}
    /\ MayTimeOut
    /\ Stop
    /\ Warn
    /\ UNCHANGED <<doc, spent, cache, late, outputVars>>

\* _normalize_observations: the candidate's provenance and the order of the answer.
Normalize(observations, c) ==
    [n \in DOMAIN observations |->
        [text |-> observations[n].text, conf |-> observations[n].conf, order |-> n,
         candidate |-> c.id, element |-> c.element, page |-> c.page]]

\* `image_hash in image_cache` tells a reading, an empty one too, from nothing.
NullIsNoReading ==
    \A d \in Documents : \A n \in 1..Len(d.candidates) : \A x \in Images :
        Normalize(ImageOf[x].texts, d.candidates[n]) # Null

\* The id of a recognized element is hashed from its candidate, its order and its text.
ElementId(candidate, order, text) == <<candidate, order, text>>

\* Parsers name an element after its place (deterministic_element_id), so no two
\* alike, and no other hash is one of their names.
ElementIdsAreValid ==
    \A d \in Documents :
        /\ Len(d.native) \in Nat /\ DOMAIN d.native = 1..Len(d.native)
        /\ \A a, b \in 1..Len(d.native) : d.native[a].id = d.native[b].id => a = b
        /\ \A a \in 1..Len(d.native) :
              /\ d.native[a].id # Null
              /\ \A n \in 1..Len(d.candidates) : \A x \in Images :
                    \A k \in 1..Len(ImageOf[x].texts) :
                       d.native[a].id # ElementId(d.candidates[n].id, k, ImageOf[x].texts[k].text)

ASSUME OcrAssumption ==
    LimitsAreValid /\ DocumentsAreValid /\ NullIsNoReading /\ ElementIdsAreValid

Receive ==
    /\ pc = "waiting" /\ responses # <<>>
    /\ responses' = Tail(responses)
    /\ LET answer == Head(responses) IN
       IF answer.tag = "OK" /\ answer.payload # Invalid
       THEN LET found == Normalize(ImageOf[answer.payload].texts, Candidate)
            IN  /\ cache' = [cache EXCEPT ![Candidate.image] = found]
                /\ Record(found)
       ELSE Warn /\ UNCHANGED <<spent, cache>>
    /\ UNCHANGED <<doc, late, worker, requests, outputVars>>

-----------------------------------------------------------------------------
(* _isolated_worker: the other process.                                    *)

Respond(tag, payload) ==
    responses' = Append(responses, [tag |-> tag, payload |-> payload])

WorkerStarts ==
    /\ worker.state = "starting"
    /\ \/ worker' = [worker EXCEPT !.state = "ready"] /\ Respond("READY", Null)
       \/ worker' = [worker EXCEPT !.state = "dead"] /\ Respond("INIT_ERR", Null)
    /\ UNCHANGED <<doc, pc, i, results, spent, cache, scratch, late, requests, outputVars>>

WorkerTakes ==
    /\ worker.state = "ready" /\ requests # <<>>
    /\ worker' = [state |-> "busy", holds |-> Head(requests)]
    /\ requests' = Tail(requests)
    /\ UNCHANGED <<doc, pc, i, results, spent, cache, scratch, late, responses, outputVars>>

\* The answer is what the image shows, an invalid output or an exception.
WorkerAnswers ==
    /\ worker.state = "busy"
    /\ worker' = [state |-> "ready", holds |-> Null]
    /\ \/ Respond("OK", doc.candidates[worker.holds].image)
       \/ Respond("OK", Invalid)
       \/ Respond("ERR", Null)
    /\ UNCHANGED <<doc, pc, i, results, spent, cache, scratch, late, requests, outputVars>>

WorkerDies ==
    /\ Alive
    /\ worker' = [worker EXCEPT !.state = "dead"]
    /\ UNCHANGED <<doc, pc, i, results, spent, cache, scratch, late, requests, responses,
                   outputVars>>

JobDeadline ==
    /\ ~late /\ pc \notin {"done", "raised"}
    /\ late' = TRUE
    /\ UNCHANGED <<doc, pc, i, results, spent, cache, scratch, engineVars, outputVars>>

-----------------------------------------------------------------------------
(* Reconciliation with the native text, the merge and the verdict.         *)

\* a in b: as characters, wherever the words of b begin.
Inside(a, b) == \E k \in 0..(Len(b) - Len(a)) : SubSeq(b, k + 1, k + Len(a)) = a

\* text.split()
Words(text) ==
    {SubSeq(text, r[1], r[2]) :
        r \in {r \in (DOMAIN text) \X (DOMAIN text) :
                 /\ r[1] <= r[2] /\ \A k \in r[1]..r[2] : text[k] # " "
                 /\ r[1] = 1 \/ text[r[1] - 1] = " "
                 /\ r[2] = Len(text) \/ text[r[2] + 1] = " "}}

\* _similarity(a, b) >= 0.86
Similar(a, b) ==
    /\ a # <<>> /\ b # <<>>
    /\ \/ Inside(a, b) \/ Inside(b, a)
       \/ 100 * Cardinality(Words(a) \cap Words(b))
             >= 86 * Cardinality(Words(a) \cup Words(b))

NativeOn(page) == {doc.native[n].text :
                      n \in {m \in DOMAIN doc.native : doc.native[m].page = page}}

DuplicateNative(o) == \E text \in NativeOn(o.page) : Similar(o.text, text)

ScopeOf(id) == (CHOOSE c \in ToSet(doc.candidates) : c.id = id).scope

DuplicateOcr(sofar, o) ==
    /\ \E n \in DOMAIN sofar : sofar[n].page = o.page /\ sofar[n].text = o.text
    /\ ScopeOf(o.candidate) # "EMBEDDED_IMAGE"

Element(o) == [id |-> ElementId(o.candidate, o.order, o.text), page |-> o.page, text |-> o.text,
               parent |-> o.element, candidate |-> o.candidate]

Accept(sofar, o) ==
    IF DuplicateNative(o) \/ DuplicateOcr(sofar, o) THEN sofar
    ELSE Append(sofar, Element(o))

Observations == FlattenSeq([n \in DOMAIN results |-> results[n].observations])

\* The observations one by one, against what was accepted before them.
Accepted ==
    LET upTo[n \in 0..Len(Observations)] ==
            IF n = 0 THEN <<>> ELSE Accept(upTo[n - 1], Observations[n])
    IN  upTo[Len(Observations)]

Reconcile ==
    /\ pc = "reconcile"
    /\ accepted' = Accepted
    /\ pc' = "merge"
    /\ UNCHANGED <<doc, i, results, spent, cache, scratch, late, engineVars, merged, status>>

Children(parent) == {e \in ToSet(accepted) : e.parent = parent}

\* Mutation: elements without a parent are forgotten.
InsertsUnder_NoTail(parent) == Kept(accepted, Children(parent) \ Children(Null))

\* inserts_by_parent.get(parent, [])
InsertsUnder(parent) == Kept(accepted, Children(parent))

Merged ==
    FlattenSeq([n \in DOMAIN doc.native |->
                    <<doc.native[n].id>> \o
                    [k \in DOMAIN InsertsUnder(doc.native[n].id) |->
                        InsertsUnder(doc.native[n].id)[k].id]])
    \o [k \in DOMAIN InsertsUnder(Null) |-> InsertsUnder(Null)[k].id]

\* Mutation: the warnings of a candidate are not looked at.
Unresolved_NoWarnings(r) == r.decision \in {"REQUIRED_BUT_DISABLED", "REJECTED_RESOURCE_LIMIT"}

Unresolved(r) ==
    r.decision \in {"REQUIRED_BUT_DISABLED", "REJECTED_RESOURCE_LIMIT"} \/ r.warned

Verdict ==
    IF \E n \in DOMAIN results : Unresolved(results[n]) THEN "PARTIAL"
    ELSE IF doc.status = "OCR_REQUIRED"
         THEN IF accepted # <<>> THEN "GOOD" ELSE "LOW_SIGNAL"
    ELSE doc.status

Merge ==
    /\ pc = "merge"
    /\ merged' = Merged
    /\ status' = Verdict
    /\ pc' = "done"
    /\ UNCHANGED <<doc, i, results, spent, cache, scratch, late, engineVars, accepted>>

\* The call has returned or raised; the worker process waits for the next one.
Returned == pc \in {"done", "raised"} /\ UNCHANGED ocrVars

Service ==
    \/ Validate \/ Skip \/ Render \/ RenderFails \/ Admit
    \/ EnsureStarted \/ Started \/ Send \/ TimeOut \/ Receive
    \/ Reconcile \/ Merge

WorkerStep == WorkerStarts \/ WorkerTakes \/ WorkerAnswers \/ WorkerDies

OcrNext == Service \/ WorkerStep \/ JobDeadline \/ Returned

OcrSpec == OcrInit /\ [][OcrNext]_ocrVars

-----------------------------------------------------------------------------
(* Properties.                                                             *)

\* The text credited to a candidate is the text of its own image, with its own
\* page and element: not the late answer to an earlier request that timed out
\* (engine.py:210-217, 243-250), nor the provenance of the occurrence an image
\* was first read for (service.py:104-121).
AnswersBelongToTheirImage ==
    \A n \in DOMAIN results :
        LET c     == doc.candidates[n]
            shown == Retained(ImageOf[c.image].texts)
            got   == results[n].observations
        IN  got # <<>> =>
              /\ Len(got) = Len(shown)
              /\ \A k \in DOMAIN got :
                    /\ got[k].text = shown[k].text
                    /\ got[k].candidate = c.id
                    /\ got[k].page = c.page /\ got[k].element = c.element

\* A rendered file lives exactly as long as the turn of its candidate, on every
\* way out of the turn (service.py:311-435, resolver.py:173-175), and a live
\* worker never holds a request whose file is gone.
ScratchLivesWithItsTurn ==
    /\ scratch \subseteq {i}
    /\ pc \in {"candidate", "reconcile", "merge", "done"} => scratch = {}
    /\ Alive /\ worker.holds # Null => worker.holds \in scratch
    /\ Alive => \A n \in DOMAIN requests : requests[n] \in scratch

SumOf(s) == LET upTo[n \in 0..Len(s)] == IF n = 0 THEN 0 ELSE upTo[n - 1] + s[n]
            IN  upTo[Len(s)]

\* What the candidates that were read cost, by place.
IsRead(r)  == r.decision = "REQUIRED" /\ ~r.warned
PixelsRead == [n \in 1..Len(results) |->
                  IF IsRead(results[n]) THEN Pixels(doc.candidates[n].image) ELSE 0]
BytesRead  == [n \in 1..Len(results) |->
                  IF IsRead(results[n]) THEN ImageOf[doc.candidates[n].image].bytes ELSE 0]
PagesRead  == [n \in 1..Len(results) |->
                  IF IsRead(results[n]) /\ doc.candidates[n].scope = "PAGE" THEN 1 ELSE 0]

\* What the results hold, recognized or reused, fits the budgets of the job
\* together (service.py:283, 327-341, 419-422).
BudgetHolds ==
    /\ SumOf(PixelsRead) <= MaxTotalPixels
    /\ SumOf(BytesRead) <= MaxDerivedBytes
    /\ SumOf(PagesRead) <= MaxPages

\* Recognized text is credited to the candidate it was read for, whatever the
\* worker process does and when, no rendered file outlives the turn of its
\* candidate, and the results fit the budgets of the job together.
RecognitionIsCredited ==
    AnswersBelongToTheirImage /\ ScratchLivesWithItsTurn /\ BudgetHolds

\* The enriched document keeps the native elements in their order, holds every
\* accepted OCR element once, behind its parent and before the next native
\* element, and the ones without a parent at the end (service.py:503-511).
MergeKeepsOrder ==
    pc = "done" =>
      LET Native(k)  == merged[k] \in ElementIds
          natives    == Kept(merged, ElementIds)
          AtElement(e) == {k \in DOMAIN merged : merged[k] = e.id}
          Behind(k)  == {m \in 1..k : Native(m)}
      IN  /\ natives = [n \in DOMAIN doc.native |-> doc.native[n].id]
          /\ Len(merged) = Len(doc.native) + Len(accepted)
          /\ \A n \in DOMAIN accepted :
                \E k \in AtElement(accepted[n]) :
                   /\ AtElement(accepted[n]) = {k}
                   /\ IF accepted[n].parent = Null
                      THEN \A m \in k..Len(merged) : ~Native(m)
                      ELSE merged[Max(Behind(k))] = accepted[n].parent

\* A document that is not PARTIAL has had every image read that needed it, save
\* the decorative ones (service.py:513-517, policy.py:40-71).
ImagesAreAccountedFor ==
    pc = "done" /\ status # "PARTIAL" =>
        \A n \in 1..Len(doc.candidates) :
            Decide(doc.candidates[n]) \in {"REQUIRED", "REQUIRED_BUT_DISABLED"} =>
                LET x == doc.candidates[n].image IN TooSmall(x) \/ cache[x] # Null

\* And one that needed OCR is GOOD only with text from it (service.py:518-523).
PartialIsTold ==
    /\ ImagesAreAccountedFor
    /\ pc = "done" /\ status # "PARTIAL" /\ doc.status = "OCR_REQUIRED" =>
          (status = "GOOD") = (\E k \in DOMAIN merged : merged[k] \notin ElementIds)

\* The enriched document holds native and accepted elements in their order, and
\* is called complete only if every image that needed it has been read.
EnrichedDocumentIsTold == MergeKeepsOrder /\ PartialIsTold
=============================================================================
