----------------------------- MODULE MCPipeline -----------------------------
(***************************************************************************)
(* The stages a document goes through between download and delivery, side  *)
(* by side for TLC: a behaviour is one call of one stage on one of the     *)
(* inputs of PipelineInputs.  The stages are functions of their input that *)
(* share no state (OCR alone has a second process), so one run covers them *)
(* all; the variables of the stages that are not called stay at rest.      *)
(* Normalization comes in as an instance, the stages that theorems are     *)
(* about with their own names.                                             *)
(***************************************************************************)
EXTENDS PipelineInputs, SourceFormat, Ocr, BatchPlan, Sentence, Splitter

VARIABLES
    component,  \* the stage that is called
    document, normalized, rows, hyphens, suppressed, done           \* Normalization

Normalizer == INSTANCE Normalization
    WITH Documents <- NormalizationDocuments, Window <- 3, MinPages <- 2, PagesNum <- 3,
         PagesDen <- 5

ASSUME NormalizationIsValid == Normalizer!ProfileIsValid

normalVars   == <<document, normalized, rows, hyphens, suppressed, done>>
pipelineVars == <<component, formatVars, ocrVars, normalVars, sentenceVars, splitVars, planVars>>

-----------------------------------------------------------------------------
NoFormat   == /\ file = [kind |-> Null] /\ at = 0 /\ total = 0 /\ depth = 0 /\ escaped = FALSE
              /\ pending = FALSE /\ verdict = Null
NoOcr      == /\ doc = Null /\ pc = "idle" /\ i = 1 /\ results = <<>> /\ spent = Null
              /\ cache = Null /\ scratch = {} /\ late = FALSE /\ worker = NoWorker
              /\ requests = <<>> /\ responses = <<>> /\ accepted = <<>> /\ merged = <<>>
              /\ status = Null
NoNormal   == /\ document = Null /\ normalized = Null /\ rows = Null /\ hyphens = Null
              /\ suppressed = Null /\ done = Null
NoSentence == /\ text = <<>> /\ language = Null /\ begin = 1 /\ scan = 1 /\ out = <<>>
              /\ cut = TRUE
NoSplit    == /\ elements = <<>> /\ pos = 0 /\ hierarchy = <<>> /\ units = <<>>
              /\ taken = 0 /\ buffer = <<>> /\ groups = <<>> /\ joined = <<>>
              /\ index = 0 /\ made = <<>> /\ phase = "done" /\ raised = Null
NoPlan     == /\ fragments = Null /\ blocks = <<>> /\ stage = "idle" /\ start = 1
              /\ current = Null /\ seen = {} /\ packed = 0 /\ chunk = <<>>
              /\ batches = <<>> /\ error = Null

PipelineInit ==
    \/ /\ component = "format"
       /\ FormatInit /\ NoOcr /\ NoNormal /\ NoSentence /\ NoSplit /\ NoPlan
    \/ /\ component = "ocr"
       /\ NoFormat /\ OcrInit /\ NoNormal /\ NoSentence /\ NoSplit /\ NoPlan
    \/ /\ component = "normalize"
       /\ NoFormat /\ NoOcr /\ Normalizer!NormalizationInit /\ NoSentence /\ NoSplit /\ NoPlan
    \/ /\ component = "sentence"
       /\ NoFormat /\ NoOcr /\ NoNormal /\ SentenceInit /\ NoSplit /\ NoPlan
    \/ /\ component = "split"
       /\ NoFormat /\ NoOcr /\ NoNormal /\ NoSentence /\ SplitInit /\ NoPlan
    \/ /\ component = "plan"
       /\ NoFormat /\ NoOcr /\ NoNormal /\ NoSentence /\ NoSplit /\ PlanInit

FormatStep ==
    /\ component = "format" /\ FormatNext
    /\ UNCHANGED <<component, ocrVars, normalVars, sentenceVars, splitVars, planVars>>

OcrServiceStep ==
    /\ component = "ocr" /\ Service
    /\ UNCHANGED <<component, formatVars, normalVars, sentenceVars, splitVars, planVars>>

OcrWorkerStep ==
    /\ component = "ocr"
    /\ WorkerStep \/ JobDeadline \/ Returned
    /\ UNCHANGED <<component, formatVars, normalVars, sentenceVars, splitVars, planVars>>

NormalizeStep ==
    /\ component = "normalize" /\ Normalizer!NormalizationNext
    /\ UNCHANGED <<component, formatVars, ocrVars, sentenceVars, splitVars, planVars>>

SentenceStep ==
    /\ component = "sentence" /\ SentenceNext
    /\ UNCHANGED <<component, formatVars, ocrVars, normalVars, splitVars, planVars>>

SplitStep ==
    /\ component = "split" /\ SplitNext
    /\ UNCHANGED <<component, formatVars, ocrVars, normalVars, sentenceVars, planVars>>

PlannerStep ==
    /\ component = "plan" /\ PlanNext
    /\ UNCHANGED <<component, formatVars, ocrVars, normalVars, sentenceVars, splitVars>>

PipelineNext ==
    \/ FormatStep \/ OcrServiceStep \/ OcrWorkerStep \/ NormalizeStep \/ SentenceStep
    \/ SplitStep \/ PlannerStep

\* The OCR service and the planner are sequential code that is run to its end;
\* Queue.get(timeout) returns whatever the OCR worker does, of which nothing is
\* assumed.  The other stages are loops over their input.
PipelineSpec ==
    /\ PipelineInit /\ [][PipelineNext]_pipelineVars
    /\ WF_pipelineVars(OcrServiceStep) /\ WF_pipelineVars(PlannerStep)

-----------------------------------------------------------------------------
(* Properties.                                                             *)

\* "Normalize representation; do not normalize meaning": words stay as they are,
\* letters are composed, normalizing again changes nothing, protected tokens stay
\* whole, and only what repeats at the edges of enough pages is kept out of the
\* index; with the exceptions each of these names.
NormalizationKeepsMeaning ==
    component = "normalize" =>
        /\ Normalizer!MeaningIsKept
        /\ Normalizer!TextIsComposed
        /\ Normalizer!NormalFormIsStable
        /\ Normalizer!ProtectedTokensAreKept
        /\ Normalizer!OnlyFurnitureIsSuppressed

\* A four-digit code survives dehyphenation, as M6.1 has it of protected tokens.
CodesSurviveDehyphenation ==
    component = "normalize" => Normalizer!WrappedCodesAreKept

\* OCR ends although its worker may never answer (each wait on its queues is
\* bounded), and so does the validation of blocks whose parents form a cycle.
LoopsEnd ==
    <>(\/ component \notin {"ocr", "plan"}
       \/ component = "ocr" /\ pc \in {"done", "raised"}
       \/ component = "plan" /\ stage = "done")
=============================================================================
