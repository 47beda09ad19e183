----------------------------- MODULE OcrProofs ------------------------------
(***************************************************************************)
(* Proofs about OcrPipelineService.process and its recognition worker, for *)
(* documents with any number of candidates and images, all limits and any  *)
(* timing of the other process.                                            *)
(*                                                                         *)
(* EngineInv is what makes an answer the answer to the request at hand:    *)
(* between two turns both queues are empty and a live worker holds         *)
(* nothing; during a turn there is at most one request or answer between   *)
(* them, and it is of this turn.  ReadInv says what may stand in the cache *)
(* and in the results, BudgetInv that what was spent is what the results   *)
(* hold, OutcomeInv what became of a candidate that had to be read.        *)
(* MergeInv adds what the last steps leave behind; that the merge is a     *)
(* document in its order is a proof about the data: every accepted element *)
(* has an id and a parent of its own, so each native element can be put    *)
(* down with its part behind it, and the ones without a parent at the end. *)
(***************************************************************************)
EXTENDS Ocr, DataInduction, FiniteSetTheorems, SequenceTheorems, TLAPS

Count == Len(doc.candidates)

\* The places of process() between the render and the end of the turn.
Rendered == {"rendered", "recognize", "starting", "send", "waiting"}

\* Something append() makes one longer.
IsTuple(s) == \E S : s \in Seq(S)

TurnInv ==
    /\ doc \in Documents
    /\ pc \in Rendered \cup {"validate", "candidate", "reconcile", "merge", "done", "raised"}
    /\ IsTuple(results) /\ i \in Nat \ {0} /\ Len(results) = i - 1
    /\ i <= Count + 1
    /\ pc \in Rendered \cup {"candidate"} => i <= Count
    /\ pc = "validate" => i = 1
    /\ pc \in {"reconcile", "merge", "done"} => i = Count + 1
    /\ scratch = IF pc \in Rendered THEN {i} ELSE {}

\* The worker in one of the states, with nothing in its hands.
IdleIn(states) == \E st \in states : worker = [state |-> st, holds |-> Null]

Quiet == IdleIn({"none", "ready", "dead"}) /\ requests = <<>> /\ responses = <<>>

\* The only message under way.
Told(tag, payload) == responses = <<[tag |-> tag, payload |-> payload]>>

StartingUp ==
    /\ requests = <<>>
    /\ \/ IdleIn({"starting", "dead"}) /\ responses = <<>>
       \/ IdleIn({"ready", "dead"}) /\ \E tag \in {"READY", "INIT_ERR"} : Told(tag, Null)

Recognizing ==
    \/ IdleIn({"none", "ready", "dead"}) /\ requests = <<i>> /\ responses = <<>>
    \/ /\ \E st \in {"busy", "dead"} : worker = [state |-> st, holds |-> i]
       /\ requests = <<>> /\ responses = <<>>
    \/ /\ IdleIn({"ready", "dead"}) /\ requests = <<>>
       /\ Told("OK", Candidate.image) \/ Told("OK", Invalid) \/ Told("ERR", Null)

EngineInv ==
    CASE pc = "starting" -> StartingUp
      [] pc = "waiting"  -> Recognizing
      [] OTHER           -> Quiet

\* What recognizing an image for a candidate gives.
Reading(x, c) == Normalize(ImageOf[x].texts, c)

CacheInv ==
    /\ cache = [x \in Images |-> cache[x]]
    /\ \A x \in Images : cache[x] # Null =>
          \E n \in 1..Count : cache[x] = Reading(x, doc.candidates[n])

Credit(r, c) == r.observations = <<>> \/ r.observations = Retained(Reading(c.image, c))

ReadInv ==
    /\ CacheInv
    /\ \A n \in 1..Len(results) : Credit(results[n], doc.candidates[n])

BudgetInv ==
    /\ spent.pixels = SumOf(PixelsRead) /\ spent.pixels \in 0..MaxTotalPixels
    /\ spent.bytes = SumOf(BytesRead) /\ spent.bytes \in 0..MaxDerivedBytes
    /\ spent.pages = SumOf(PagesRead) /\ spent.pages \in 0..MaxPages
    /\ pc \in Rendered => ~TooManyPages
    /\ pc \in Rendered \ {"rendered"} => ~OverBudget

\* What became of a candidate.
Settled(r, c) ==
    Decide(c) \in {"REQUIRED", "REQUIRED_BUT_DISABLED"} =>
        Unresolved(r) \/ TooSmall(c.image) \/ cache[c.image] # Null

OutcomeInv ==
    /\ \A n \in 1..Len(results) : Settled(results[n], doc.candidates[n])
    /\ pc \in Rendered => Decide(Candidate) = "REQUIRED"
    /\ pc = "done" /\ status # "PARTIAL" => \A n \in 1..Len(results) : ~Unresolved(results[n])

OcrInv == TurnInv /\ EngineInv /\ ReadInv /\ BudgetInv /\ OutcomeInv

-----------------------------------------------------------------------------
(* The helpers.                                                            *)

\* append()
LEMMA AppendTuple ==
    ASSUME NEW s, IsTuple(s), NEW e
    PROVE  /\ IsTuple(Append(s, e))
           /\ Len(s) \in Nat /\ Len(Append(s, e)) = Len(s) + 1
           /\ Append(s, e)[Len(s) + 1] = e
           /\ \A k \in 1..Len(s) : Append(s, e)[k] = s[k]
<1>1. PICK S : s \in Seq(S)
  BY DEF IsTuple
<1>2. s \in Seq(S \cup {e})
  BY <1>1
<1>3. Append(s, e) \in Seq(S \cup {e})
  BY <1>2
<1>4. IsTuple(Append(s, e))
  BY <1>3 DEF IsTuple
<1> QED
  BY <1>2, <1>4

\* What SumOf computes, one number at a time.
LEMMA SumOfFacts ==
    ASSUME NEW s \in Seq(Int)
    PROVE  \E u \in [0..Len(s) -> Int] :
              /\ SumOf(s) = u[Len(s)] /\ u[0] = 0
              /\ \A k \in 1..Len(s) : u[k] = u[k - 1] + s[k]
<1> DEFINE n == Len(s)
           Solves(f) == f = [k \in 0..Len(s) |-> IF k = 0 THEN 0 ELSE f[k - 1] + s[k]]
           u == CHOOSE f : Solves(f)
<1>1. n \in Nat /\ s \in [1..n -> Int]
  OBVIOUS
<1>2. \E f : Solves(f)
  BY <1>1, SumSolution
<1>3. Solves(u)
  BY <1>2
<1>4. SumOf(s) = u[n]
  BY DEF SumOf
<1> HIDE DEF u
<1>5. u[0] = 0 /\ \A k \in 1..n : u[k] = u[k - 1] + s[k]
  <2>1. \A k \in 0..n : u[k] = IF k = 0 THEN 0 ELSE u[k - 1] + s[k]
    BY <1>3
  <2>2. 0 \in 0..n /\ \A k \in 1..n : k \in 0..n /\ k # 0
    BY <1>1
  <2> QED
    BY <2>1, <2>2
<1>6. \A k \in 0..n : u[k] \in Int
  <2> DEFINE S == {k \in 0..n : u[k] \in Int}
  <2>1. 0 \in S
    BY <1>1, <1>5
  <2>2. \A k \in 1..n : k - 1 \in S => k \in S
    BY <1>1, <1>5
  <2> HIDE DEF S
  <2>3. \A k \in 0..n : k \in S
    BY <1>1, <2>1, <2>2, InductionUpTo
  <2> QED
    BY <2>3 DEF S
<1>7. u \in [0..n -> Int]
  BY <1>3, <1>6
<1> QED
  BY <1>4, <1>5, <1>7

\* Nothing adds up to nothing.
LEMMA SumOfNone == ASSUME NEW s, s = <<>> PROVE SumOf(s) = 0
<1>1. s \in Seq(Int) /\ Len(s) = 0
  OBVIOUS
<1> QED
  BY <1>1, SumOfFacts

\* One more number is added.
LEMMA SumOfAppend ==
    ASSUME NEW s \in Seq(Int), NEW x \in Int
    PROVE  SumOf(s) \in Int /\ SumOf(Append(s, x)) = SumOf(s) + x
<1> DEFINE n == Len(s)
           t == Append(s, x)
<1>1. PICK u \in [0..n -> Int] :
              /\ SumOf(s) = u[n] /\ u[0] = 0
              /\ \A k \in 1..n : u[k] = u[k - 1] + s[k]
  BY SumOfFacts
<1>2. t \in Seq(Int) /\ Len(t) = n + 1 /\ n \in Nat /\ t[n + 1] = x
      /\ \A k \in 1..n : t[k] = s[k]
  OBVIOUS
<1>3. PICK v \in [0..(n + 1) -> Int] :
              /\ SumOf(t) = v[n + 1] /\ v[0] = 0
              /\ \A k \in 1..n + 1 : v[k] = v[k - 1] + t[k]
  <2> HIDE DEF t
  <2>1. \E v \in [0..Len(t) -> Int] :
              /\ SumOf(t) = v[Len(t)] /\ v[0] = 0
              /\ \A k \in 1..Len(t) : v[k] = v[k - 1] + t[k]
    BY <1>2, SumOfFacts
  <2> QED
    BY <1>2, <2>1
<1>4. u[n] = v[n]
  <2> DEFINE S == {k \in 0..n : u[k] = v[k]}
  <2>1. 0 \in S /\ \A k \in 1..n : k - 1 \in S => k \in S
    BY <1>1, <1>2, <1>3
  <2> HIDE DEF S
  <2>2. n \in S
    BY <1>2, <2>1, InductionUpTo, n \in 0..n
  <2> QED
    BY <2>2 DEF S
<1>5. v[n + 1] = v[n] + x /\ u[n] \in Int
  <2>1. n + 1 \in 1..n + 1 /\ (n + 1) - 1 = n /\ n \in 0..n
    BY <1>2
  <2> QED
    BY <1>1, <1>2, <1>3, <2>1
<1> HIDE DEF t
<1>6. SumOf(t) = SumOf(s) + x
  BY <1>1, <1>3, <1>4, <1>5
<1> QED
  BY <1>1, <1>5, <1>6 DEF t

\* What Kept computes, one member at a time.
IsSelection(u, s, n, T, B) ==
    /\ u \in [0..n -> Seq(B)]
    /\ Kept(s, T) = u[n]
    /\ u[0] = <<>>
    /\ \A k \in 1..n : u[k] = IF s[k] \in T THEN Append(u[k - 1], s[k]) ELSE u[k - 1]

\* It has such a sequence of partial results.
LEMMA KeptFacts ==
    ASSUME NEW n \in Nat, NEW s, Len(s) = n, NEW T, NEW B, \A k \in 1..n : s[k] \in B
    PROVE  \E u : IsSelection(u, s, n, T, B)
<1> DEFINE Solves(f) == f = [k \in 0..Len(s) |->
                               IF k = 0 THEN <<>>
                               ELSE IF s[k] \in T THEN Append(f[k - 1], s[k]) ELSE f[k - 1]]
           u == CHOOSE f : Solves(f)
           step == [k \in 1..n |-> [x \in Seq(B) |->
                       IF s[k] \in T THEN Append(x, s[k]) ELSE x]]
<1>1. PICK f : IsRecursion(f, n, Seq(B), <<>>, step)
  <2>1. IsStep(step, n, Seq(B)) /\ <<>> \in Seq(B)
    BY DEF IsStep
  <2> HIDE DEF step
  <2> QED
    BY <2>1, RecursionUpTo
<1>2. f \in [0..n -> Seq(B)] /\ f[0] = <<>>
      /\ \A k \in 1..n : f[k] = IF s[k] \in T THEN Append(f[k - 1], s[k]) ELSE f[k - 1]
  <2>1. f \in [0..n -> Seq(B)] /\ f[0] = <<>> /\ \A k \in 1..n : f[k] = step[k][f[k - 1]]
    <3> HIDE DEF step
    <3> QED
      BY <1>1 DEF IsRecursion
  <2>2. ASSUME NEW k \in 1..n
        PROVE  f[k] = IF s[k] \in T THEN Append(f[k - 1], s[k]) ELSE f[k - 1]
    <3>1. k - 1 \in 0..n
      OBVIOUS
    <3>2. f[k - 1] \in Seq(B)
      BY <2>1, <3>1
    <3>3. step[k][f[k - 1]] = IF s[k] \in T THEN Append(f[k - 1], s[k]) ELSE f[k - 1]
      BY <3>2
    <3> QED
      BY <2>1, <3>3
  <2> QED
    BY <2>1, <2>2
<1>3. Solves(f)
  <2>1. f = [k \in 0..n |-> f[k]]
    BY <1>2
  <2>2. \A k \in 0..n : f[k] = IF k = 0 THEN <<>>
                               ELSE IF s[k] \in T THEN Append(f[k - 1], s[k]) ELSE f[k - 1]
    <3> TAKE k \in 0..n
    <3>1. k = 0 \/ k \in 1..n
      OBVIOUS
    <3> QED
      BY <1>2, <3>1
  <2> QED
    BY <2>1, <2>2
<1>4. Solves(u)
  BY <1>3
<1>5. Kept(s, T) = u[n]
  BY DEF Kept
<1> HIDE DEF u
<1>6. \A k \in 0..n : u[k] = IF k = 0 THEN <<>>
                             ELSE IF s[k] \in T THEN Append(u[k - 1], s[k]) ELSE u[k - 1]
  BY <1>4
<1>7. \A k \in 0..n : u[k] \in Seq(B)
  <2> DEFINE S == {k \in 0..n : u[k] \in Seq(B)}
  <2>1. 0 \in S
    <3>1. 0 \in 0..n /\ <<>> \in Seq(B)
      OBVIOUS
    <3>2. u[0] = <<>>
      BY <1>6, <3>1
    <3> QED
      BY <3>1, <3>2
  <2>2. ASSUME NEW k \in 1..n, k - 1 \in S PROVE k \in S
    <3>1. u[k] = IF s[k] \in T THEN Append(u[k - 1], s[k]) ELSE u[k - 1]
      BY <1>6
    <3>2. u[k - 1] \in Seq(B) /\ s[k] \in B /\ k \in 0..n
      BY <2>2
    <3>3. Append(u[k - 1], s[k]) \in Seq(B)
      BY <3>2
    <3> QED
      BY <3>1, <3>2, <3>3
  <2> HIDE DEF S
  <2>3. \A k \in 0..n : k \in S
    BY <2>1, <2>2, InductionUpTo
  <2> QED
    BY <2>3 DEF S
<1>8. u \in [0..n -> Seq(B)]
  BY <1>4, <1>7
<1>9. u[0] = <<>> /\ \A k \in 1..n : u[k] = IF s[k] \in T THEN Append(u[k - 1], s[k]) ELSE u[k - 1]
  BY <1>6
<1> QED
  BY <1>5, <1>8, <1>9 DEF IsSelection

\* An observation is retained unless it is under the floor.
LEMMA RetainedFacts ==
    ASSUME NEW n \in Nat, NEW s, Len(s) = n, DOMAIN s = 1..n
    PROVE  \E T : /\ Retained(s) = Kept(s, T)
                  /\ \A k \in 1..n : s[k] \in T <=> s[k].conf # "drop"
<1> DEFINE T == {o \in ToSet(s) : o.conf # "drop"}
<1>1. Retained(s) = Kept(s, T)
  BY DEF Retained
<1>2. \A k \in 1..n : s[k] \in T <=> s[k].conf # "drop"
  BY DEF ToSet
<1> HIDE DEF T
<1> QED
  BY <1>1, <1>2

\* Observations that differ in their provenance only lose the same ones.
Alike(t, s, c) ==
    /\ Len(t) = Len(s)
    /\ \A k \in 1..Len(t) :
          /\ t[k].text = s[k].text /\ t[k].candidate = c.id
          /\ t[k].page = c.page /\ t[k].element = c.element

\* So what is retained of a reading is what is retained of the image's texts.
LEMMA RetainedAlike ==
    ASSUME NEW n \in Nat, NEW s, NEW t, NEW c, Len(s) = n, Alike(t, s, c),
           DOMAIN s = 1..n, DOMAIN t = 1..n,
           \A k \in 1..n : t[k].conf = s[k].conf
    PROVE  Alike(Retained(t), Retained(s), c) /\ IsTuple(Retained(t))
<1> DEFINE B == {s[k] : k \in 1..n} \cup {t[k] : k \in 1..n}
<1>1. Len(t) = n /\ \A k \in 1..n : s[k] \in B /\ t[k] \in B
  BY DEF Alike
<1> HIDE DEF B
<1>2. PICK Q : /\ Retained(s) = Kept(s, Q)
               /\ \A k \in 1..n : s[k] \in Q <=> s[k].conf # "drop"
  BY RetainedFacts
<1>3. PICK R : /\ Retained(t) = Kept(t, R)
               /\ \A k \in 1..n : t[k] \in R <=> t[k].conf # "drop"
  BY <1>1, RetainedFacts
<1>4. PICK u : IsSelection(u, s, n, Q, B)
  BY <1>1, KeptFacts
<1>5. PICK v : IsSelection(v, t, n, R, B)
  BY <1>1, KeptFacts
<1> DEFINE S == {k \in 0..n : Alike(v[k], u[k], c)}
<1>6. 0 \in S
  BY <1>4, <1>5 DEF IsSelection, Alike
<1>7. ASSUME NEW k \in 1..n, k - 1 \in S PROVE k \in S
  <2>1. /\ u[k - 1] \in Seq(B) /\ v[k - 1] \in Seq(B) /\ t[k] \in B /\ s[k] \in B
        /\ u[k] = IF s[k].conf # "drop" THEN Append(u[k - 1], s[k]) ELSE u[k - 1]
        /\ v[k] = IF t[k].conf # "drop" THEN Append(v[k - 1], t[k]) ELSE v[k - 1]
    <3>1. k - 1 \in 0..n
      OBVIOUS
    <3>2. u[k - 1] \in Seq(B) /\ u[k] = IF s[k] \in Q THEN Append(u[k - 1], s[k]) ELSE u[k - 1]
      BY <1>4, <3>1 DEF IsSelection
    <3>3. v[k - 1] \in Seq(B) /\ v[k] = IF t[k] \in R THEN Append(v[k - 1], t[k]) ELSE v[k - 1]
      BY <1>5, <3>1 DEF IsSelection
    <3>4. (s[k] \in Q <=> s[k].conf # "drop") /\ (t[k] \in R <=> t[k].conf # "drop")
      BY <1>2, <1>3
    <3> QED
      BY <1>1, <3>2, <3>3, <3>4
  <2>2. Alike(v[k - 1], u[k - 1], c)
    BY <1>7
  <2>3. CASE s[k].conf = "drop"
    BY <2>1, <2>2, <2>3
  <2>4. CASE s[k].conf # "drop"
    <3> DEFINE a == u[k - 1]
               b == v[k - 1]
               aa == Append(a, s[k])
               bb == Append(b, t[k])
    <3>1. a \in Seq(B) /\ b \in Seq(B) /\ Alike(b, a, c) /\ u[k] = aa /\ v[k] = bb
      BY <2>1, <2>2, <2>4
    <3>2. /\ t[k].text = s[k].text /\ t[k].candidate = c.id
          /\ t[k].page = c.page /\ t[k].element = c.element
      BY <1>1 DEF Alike
    <3> HIDE DEF a, b
    <3>3. Len(a) \in Nat /\ Len(b) = Len(a) /\ Len(aa) = Len(a) + 1 /\ Len(bb) = Len(a) + 1
          /\ aa[Len(a) + 1] = s[k] /\ bb[Len(a) + 1] = t[k]
          /\ \A m \in 1..Len(a) : aa[m] = a[m] /\ bb[m] = b[m]
      <4>1. Len(b) = Len(a)
        BY <3>1 DEF Alike
      <4> QED
        BY <2>1, <3>1, <4>1
    <3> HIDE DEF aa, bb
    <3>4. \A m \in 1..Len(bb) : m = Len(a) + 1 \/ m \in 1..Len(a)
      BY <3>3
    <3>5. Alike(bb, aa, c)
      BY <3>1, <3>2, <3>3, <3>4 DEF Alike
    <3> QED
      BY <3>1, <3>5
  <2> QED
    BY <2>3, <2>4
<1>8. n \in S
  <2> HIDE DEF S
  <2> QED
    BY <1>6, <1>7, InductionUpTo, n \in 0..n
<1>9. v[n] \in Seq(B) /\ Retained(t) = v[n] /\ Retained(s) = u[n]
  BY <1>4, <1>5, <1>2, <1>3 DEF IsSelection
<1> QED
  BY <1>8, <1>9 DEF IsTuple

\* A reading has the texts of its image and the provenance of its candidate.
LEMMA ReadingFacts ==
    ASSUME DocumentsAreValid, NEW x \in Images, NEW c
    PROVE  /\ Len(ImageOf[x].texts) \in Nat
           /\ DOMAIN ImageOf[x].texts = 1..Len(ImageOf[x].texts)
           /\ DOMAIN Reading(x, c) = 1..Len(ImageOf[x].texts)
           /\ Alike(Reading(x, c), ImageOf[x].texts, c)
           /\ \A k \in 1..Len(ImageOf[x].texts) : Reading(x, c)[k].conf = ImageOf[x].texts[k].conf
<1> DEFINE texts == ImageOf[x].texts
           n == Len(texts)
           Seen(k) == [text |-> texts[k].text, conf |-> texts[k].conf, order |-> k,
                       candidate |-> c.id, element |-> c.element, page |-> c.page]
<1>1. n \in Nat /\ DOMAIN texts = 1..n
  BY DEF DocumentsAreValid
<1>2. Reading(x, c) = [k \in 1..n |-> Seen(k)]
  BY <1>1 DEF Reading, Normalize
<1>3. \A k \in 1..n : /\ Seen(k).text = texts[k].text /\ Seen(k).conf = texts[k].conf
                      /\ Seen(k).candidate = c.id /\ Seen(k).element = c.element
                      /\ Seen(k).page = c.page
  OBVIOUS
<1> HIDE DEF Seen, n, texts
<1>4. /\ Len(Reading(x, c)) = n /\ DOMAIN Reading(x, c) = 1..n
      /\ \A k \in 1..n : Reading(x, c)[k] = Seen(k)
  BY <1>1, <1>2
<1> QED
  BY <1>1, <1>3, <1>4 DEF Alike, texts, n

\* An observation.
Observation(t, f, o, a, b, p) ==
    [text |-> t, conf |-> f, order |-> o, candidate |-> a, element |-> b, page |-> p]

\* _project_observations, for one of them.
Projected(o, c) == [o EXCEPT !.candidate = c.id, !.element = c.element, !.page = c.page]

\* The provenance is replaced, the rest stays.
LEMMA ProjectedFacts ==
    ASSUME NEW t, NEW f, NEW o, NEW a, NEW b, NEW p, NEW c
    PROVE  Projected(Observation(t, f, o, a, b, p), c)
           = Observation(t, f, o, c.id, c.element, c.page)
<1>1. [Observation(t, f, o, a, b, p) EXCEPT !.candidate = c.id] = Observation(t, f, o, c.id, b, p)
  BY DEF Observation
<1>2. [Observation(t, f, o, c.id, b, p) EXCEPT !.element = c.element]
      = Observation(t, f, o, c.id, c.element, p)
  BY DEF Observation
<1>3. [Observation(t, f, o, c.id, c.element, p) EXCEPT !.page = c.page]
      = Observation(t, f, o, c.id, c.element, c.page)
  BY DEF Observation
<1> QED
  BY <1>1, <1>2, <1>3 DEF Projected

\* A reading that is reused is a reading for the candidate at hand.
LEMMA ProjectFacts ==
    ASSUME DocumentsAreValid, NEW x \in Images, NEW c
    PROVE  Project(Reading(x, c)) = Reading(x, Candidate)
<1> DEFINE texts == ImageOf[x].texts
           n == Len(texts)
           Seen(k, d) == Observation(texts[k].text, texts[k].conf, k, d.id, d.element, d.page)
<1>1. n \in Nat /\ DOMAIN texts = 1..n
  BY DEF DocumentsAreValid
<1>2. \A d : Reading(x, d) = [k \in 1..n |-> Seen(k, d)]
  BY <1>1 DEF Reading, Normalize, Observation
<1>3. ASSUME NEW k PROVE Projected(Seen(k, c), Candidate) = Seen(k, Candidate)
  BY ProjectedFacts
<1> HIDE DEF Seen
<1>4. /\ DOMAIN Reading(x, c) = 1..n
      /\ \A k \in 1..n : Reading(x, c)[k] = Seen(k, c)
  BY <1>2
<1>5. Project(Reading(x, c)) = [k \in 1..n |-> Seen(k, Candidate)]
  <2>1. Project(Reading(x, c)) = [k \in 1..n |-> Projected(Reading(x, c)[k], Candidate)]
    BY <1>4 DEF Project, Projected
  <2>2. \A k \in 1..n : Projected(Reading(x, c)[k], Candidate) = Seen(k, Candidate)
    BY <1>3, <1>4
  <2> QED
    BY <2>1, <2>2
<1> QED
  BY <1>2, <1>5

-----------------------------------------------------------------------------
(* Steps.                                                                  *)

\* The fields of a result.
LEMMA ResultFacts ==
    ASSUME NEW d, NEW o, NEW w
    PROVE  /\ Result(d, o, w).decision = d
           /\ Result(d, o, w).observations = o
           /\ Result(d, o, w).warned = w
BY DEF Result

\* What is said of a document stays with it.
LEMMA SameDocument ==
    ASSUME doc' = doc
    PROVE  /\ Count' = Count
           /\ \A c : Decide(c)' = Decide(c)
BY DEF Count, Decide, IfNeeded, PageMode

\* What is said of the candidate stays with its turn.
LEMMA SameTurn ==
    ASSUME UNCHANGED <<doc, i, results, spent, cache>>
    PROVE  /\ Count' = Count /\ Candidate' = Candidate
           /\ (TooManyPages' <=> TooManyPages) /\ (OverBudget' <=> OverBudget)
           /\ PixelsRead' = PixelsRead /\ BytesRead' = BytesRead /\ PagesRead' = PagesRead
           /\ (CacheInv' <=> CacheInv) /\ (ReadInv' <=> ReadInv)
           /\ \A c : Decide(c)' = Decide(c)
           /\ \A r, c : Settled(r, c)' <=> Settled(r, c)
<1>1. Count' = Count /\ Candidate' = Candidate /\ \A c : Decide(c)' = Decide(c)
  BY SameDocument DEF Candidate
<1>2. (TooManyPages' <=> TooManyPages) /\ (OverBudget' <=> OverBudget)
  BY <1>1 DEF TooManyPages, OverBudget, Pic, Pixels
<1>3. PixelsRead' = PixelsRead /\ BytesRead' = BytesRead /\ PagesRead' = PagesRead
  BY DEF PixelsRead, BytesRead, PagesRead
<1>4. CacheInv' <=> CacheInv
  BY <1>1 DEF CacheInv
<1>5. ReadInv' <=> ReadInv
  BY <1>4 DEF ReadInv
<1>6. \A r, c : Settled(r, c)' <=> Settled(r, c)
  BY <1>1 DEF Settled
<1> QED
  BY <1>1, <1>2, <1>3, <1>4, <1>5, <1>6

\* A step within a turn, or after the last one.
LEMMA StayStep ==
    ASSUME OcrInv, UNCHANGED <<doc, i, results, spent, cache>>, EngineInv',
           pc' \in Rendered \cup {"validate", "candidate", "reconcile", "merge", "done", "raised"},
           pc' \in Rendered \cup {"candidate"} => i <= Count,
           pc' = "validate" => i = 1,
           pc' \in {"reconcile", "merge", "done"} => i = Count + 1,
           scratch' = IF pc' \in Rendered THEN {i} ELSE {},
           pc' \in Rendered => ~TooManyPages /\ Decide(Candidate) = "REQUIRED",
           pc' \in Rendered \ {"rendered"} => ~OverBudget,
           pc' = "done" /\ status' # "PARTIAL" => \A n \in 1..Len(results) : ~Unresolved(results[n])
    PROVE  OcrInv'
<1>1. /\ Count' = Count /\ Candidate' = Candidate
      /\ (TooManyPages' <=> TooManyPages) /\ (OverBudget' <=> OverBudget)
      /\ PixelsRead' = PixelsRead /\ BytesRead' = BytesRead /\ PagesRead' = PagesRead
      /\ (ReadInv' <=> ReadInv)
      /\ Decide(Candidate)' = Decide(Candidate)
      /\ \A r, c : Settled(r, c)' <=> Settled(r, c)
  BY SameTurn
<1>2. TurnInv'
  BY <1>1 DEF OcrInv, TurnInv
<1>3. ReadInv'
  BY <1>1 DEF OcrInv
<1>4. BudgetInv'
  BY <1>1 DEF OcrInv, BudgetInv
<1>5. \A r : Unresolved(r)' <=> Unresolved(r)
  BY DEF Unresolved
<1>6. OutcomeInv'
  <2>1. \A n \in 1..Len(results') : Settled(results[n], doc.candidates[n])'
    BY <1>1 DEF OcrInv, OutcomeInv
  <2> QED
    BY <1>1, <1>5, <2>1 DEF OutcomeInv
<1> QED
  BY <1>2, <1>3, <1>4, <1>6 DEF OcrInv

\* One more entry of a list that is kept by place.
LEMMA CostsAppend ==
    ASSUME NEW n \in Nat, NEW s, s \in [1..n -> Int], NEW t, t \in [1..n + 1 -> Int],
           \A k \in 1..n : t[k] = s[k]
    PROVE  SumOf(s) \in Int /\ SumOf(t) = SumOf(s) + t[n + 1]
<1>1. s \in Seq(Int) /\ Len(s) = n /\ n + 1 \in 1..n + 1 /\ t[n + 1] \in Int
  OBVIOUS
<1> DEFINE a == Append(s, t[n + 1])
<1>2. /\ a \in Seq(Int) /\ Len(a) = n + 1 /\ a[n + 1] = t[n + 1]
      /\ \A k \in 1..n : a[k] = s[k]
  BY <1>1
<1>3. SumOf(s) \in Int /\ SumOf(a) = SumOf(s) + t[n + 1]
  BY <1>1, SumOfAppend
<1> HIDE DEF a
<1>4. \A k \in 1..n + 1 : k \in 1..n \/ k = n + 1
  OBVIOUS
<1>5. \A k \in 1..n + 1 : a[k] = t[k]
  BY <1>2, <1>4
<1>6. a = t
  BY <1>2, <1>5
<1> QED
  BY <1>3, <1>6

\* What an image costs.
LEMMA Costs ==
    ASSUME LimitsAreValid, NEW x \in Images
    PROVE  Pixels(x) \in Nat /\ ImageOf[x].bytes \in Nat
<1>1. ImageOf[x].width \in Nat /\ ImageOf[x].height \in Nat /\ ImageOf[x].bytes \in Nat
  BY DEF LimitsAreValid
<1>2. \A a, b \in Nat : a * b \in Nat
  OBVIOUS
<1> QED
  BY <1>1, <1>2 DEF Pixels

\* The result of a turn is recorded, and what it cost.
LEMMA ChargeStep ==
    ASSUME LimitsAreValid, DocumentsAreValid, TurnInv, BudgetInv, pc \in Rendered \cup {"candidate"},
           NEW r, results' = Append(results, r), doc' = doc,
           spent' = IF IsRead(r) THEN Charge ELSE spent,
           IsRead(r) => ~TooManyPages /\ ~OverBudget,
           pc' \notin Rendered
    PROVE  BudgetInv'
<1> DEFINE n == Len(results)
<1>1. /\ n \in Nat /\ i = n + 1 /\ Len(results') = n + 1 /\ results'[n + 1] = r
      /\ (\A k \in 1..n : results'[k] = results[k]) /\ n + 1 \in 1..Count
  BY AppendTuple DEF TurnInv, Rendered
<1>2. \A k \in 1..n + 1 : doc.candidates[k].image \in Images
  BY <1>1 DEF TurnInv, DocumentsAreValid, Count
<1>3. \A k \in 1..n + 1 : /\ Pixels(doc.candidates[k].image) \in Nat
                          /\ ImageOf[doc.candidates[k].image].bytes \in Nat
  BY <1>2, Costs
<1>4. \A k \in 1..n + 1 : k \in 1..n \/ k = n + 1
  BY <1>1
<1>5. Candidate = doc.candidates[n + 1]
  BY <1>1 DEF Candidate
<1> HIDE DEF n
<1>6. /\ {MaxTotalPixels, MaxDerivedBytes, MaxPages} \subseteq Nat
  BY DEF LimitsAreValid
<1>7. spent'.pixels = SumOf(PixelsRead') /\ spent'.pixels \in 0..MaxTotalPixels
  <2> DEFINE s == PixelsRead
             t == PixelsRead'
             cost == IF IsRead(r) THEN Pixels(Candidate.image) ELSE 0
  <2>1. t = [k \in 1..n + 1 |-> IF IsRead(results'[k]) THEN Pixels(doc.candidates[k].image) ELSE 0]
    BY <1>1 DEF PixelsRead
  <2>2. s = [k \in 1..n |-> IF IsRead(results[k]) THEN Pixels(doc.candidates[k].image) ELSE 0]
    BY DEF PixelsRead, n
  <2> HIDE DEF s, t
  <2>3. s \in [1..n -> Int] /\ t \in [1..n + 1 -> Int] /\ (\A k \in 1..n : t[k] = s[k]) /\ t[n + 1] = cost
    <3>1. t[n + 1] = cost
      BY <1>1, <1>5, <2>1
    <3>2. \A k \in 1..n : t[k] = s[k]
      BY <1>1, <2>1, <2>2
    <3>3. t \in [1..n + 1 -> Int]
      <4>1. \A k \in 1..n + 1 : t[k] \in Int
        BY <1>3, <2>1
      <4> QED
        BY <2>1, <4>1
    <3>4. s \in [1..n -> Int]
      <4>1. \A k \in 1..n : k \in 1..n + 1
        BY <1>1
      <4>2. \A k \in 1..n : s[k] \in Int
        BY <3>2, <3>3, <4>1
      <4> QED
        BY <2>2, <4>2
    <3> QED
      BY <3>1, <3>2, <3>3, <3>4
  <2>4. SumOf(t) = SumOf(s) + cost
    <3>1. n \in Nat
      BY <1>1
    <3> HIDE DEF cost
    <3>2. SumOf(t) = SumOf(s) + t[n + 1]
      BY <2>3, <3>1, CostsAppend
    <3> QED
      BY <2>3, <3>2
  <2>5. spent.pixels = SumOf(s) /\ spent.pixels \in 0..MaxTotalPixels
    BY DEF BudgetInv, s
  <2>6. spent'.pixels = spent.pixels + cost
    <3>1. CASE IsRead(r)
      BY <3>1 DEF Charge
    <3>2. CASE ~IsRead(r)
      BY <1>6, <2>5, <3>2
    <3> QED
      BY <3>1, <3>2
  <2>7. Pixels(Candidate.image) \in Nat /\ (IsRead(r) => spent.pixels + Pixels(Candidate.image) <= MaxTotalPixels)
    <3>1. Pixels(Candidate.image) \in Nat
      BY <1>1, <1>3, <1>5
    <3> QED
      BY <1>6, <2>5, <3>1 DEF OverBudget
  <2>8. spent.pixels + cost \in 0..MaxTotalPixels
    <3>1. CASE IsRead(r)
      BY <1>6, <2>5, <2>7, <3>1
    <3>2. CASE ~IsRead(r)
      BY <1>6, <2>5, <3>2
    <3> QED
      BY <3>1, <3>2
  <2> QED
    BY <2>4, <2>5, <2>6, <2>8 DEF t
<1>8. spent'.bytes = SumOf(BytesRead') /\ spent'.bytes \in 0..MaxDerivedBytes
  <2> DEFINE s == BytesRead
             t == BytesRead'
             cost == IF IsRead(r) THEN ImageOf[Candidate.image].bytes ELSE 0
  <2>1. t = [k \in 1..n + 1 |-> IF IsRead(results'[k]) THEN ImageOf[doc.candidates[k].image].bytes ELSE 0]
    BY <1>1 DEF BytesRead
  <2>2. s = [k \in 1..n |-> IF IsRead(results[k]) THEN ImageOf[doc.candidates[k].image].bytes ELSE 0]
    BY DEF BytesRead, n
  <2> HIDE DEF s, t
  <2>3. s \in [1..n -> Int] /\ t \in [1..n + 1 -> Int] /\ (\A k \in 1..n : t[k] = s[k]) /\ t[n + 1] = cost
    <3>1. t[n + 1] = cost
      BY <1>1, <1>5, <2>1
    <3>2. \A k \in 1..n : t[k] = s[k]
      BY <1>1, <2>1, <2>2
    <3>3. t \in [1..n + 1 -> Int]
      <4>1. \A k \in 1..n + 1 : t[k] \in Int
        BY <1>3, <2>1
      <4> QED
        BY <2>1, <4>1
    <3>4. s \in [1..n -> Int]
      <4>1. \A k \in 1..n : k \in 1..n + 1
        BY <1>1
      <4>2. \A k \in 1..n : s[k] \in Int
        BY <3>2, <3>3, <4>1
      <4> QED
        BY <2>2, <4>2
    <3> QED
      BY <3>1, <3>2, <3>3, <3>4
  <2>4. SumOf(t) = SumOf(s) + cost
    <3>1. n \in Nat
      BY <1>1
    <3> HIDE DEF cost
    <3>2. SumOf(t) = SumOf(s) + t[n + 1]
      BY <2>3, <3>1, CostsAppend
    <3> QED
      BY <2>3, <3>2
  <2>5. spent.bytes = SumOf(s) /\ spent.bytes \in 0..MaxDerivedBytes
    BY DEF BudgetInv, s
  <2>6. spent'.bytes = spent.bytes + cost
    <3>1. CASE IsRead(r)
      BY <3>1 DEF Charge, Pic
    <3>2. CASE ~IsRead(r)
      BY <1>6, <2>5, <3>2
    <3> QED
      BY <3>1, <3>2
  <2>7. ImageOf[Candidate.image].bytes \in Nat
        /\ (IsRead(r) => spent.bytes + ImageOf[Candidate.image].bytes <= MaxDerivedBytes)
    <3>1. ImageOf[Candidate.image].bytes \in Nat
      BY <1>1, <1>3, <1>5
    <3> QED
      BY <1>6, <2>5, <3>1 DEF OverBudget, Pic
  <2>8. spent.bytes + cost \in 0..MaxDerivedBytes
    <3>1. CASE IsRead(r)
      BY <1>6, <2>5, <2>7, <3>1
    <3>2. CASE ~IsRead(r)
      BY <1>6, <2>5, <3>2
    <3> QED
      BY <3>1, <3>2
  <2> QED
    BY <2>4, <2>5, <2>6, <2>8 DEF t
<1>9. spent'.pages = SumOf(PagesRead') /\ spent'.pages \in 0..MaxPages
  <2> DEFINE s == PagesRead
             t == PagesRead'
             cost == IF IsRead(r) /\ Candidate.scope = "PAGE" THEN 1 ELSE 0
  <2>1. t = [k \in 1..n + 1 |-> IF IsRead(results'[k]) /\ doc.candidates[k].scope = "PAGE" THEN 1 ELSE 0]
    BY <1>1 DEF PagesRead
  <2>2. s = [k \in 1..n |-> IF IsRead(results[k]) /\ doc.candidates[k].scope = "PAGE" THEN 1 ELSE 0]
    BY DEF PagesRead, n
  <2> HIDE DEF s, t
  <2>3. s \in [1..n -> Int] /\ t \in [1..n + 1 -> Int] /\ (\A k \in 1..n : t[k] = s[k]) /\ t[n + 1] = cost
    BY <1>1, <1>4, <1>5, <2>1, <2>2
  <2>4. SumOf(t) = SumOf(s) + cost
    <3>1. n \in Nat
      BY <1>1
    <3> HIDE DEF cost
    <3>2. SumOf(t) = SumOf(s) + t[n + 1]
      BY <2>3, <3>1, CostsAppend
    <3> QED
      BY <2>3, <3>2
  <2>5. spent.pages = SumOf(s) /\ spent.pages \in 0..MaxPages
    BY DEF BudgetInv, s
  <2>6. spent'.pages = spent.pages + cost
    <3>1. CASE IsRead(r)
      BY <3>1 DEF Charge
    <3>2. CASE ~IsRead(r)
      BY <1>6, <2>5, <3>2
    <3> QED
      BY <3>1, <3>2
  <2>7. spent.pages + cost \in 0..MaxPages
    BY <1>6, <2>5 DEF TooManyPages
  <2> QED
    BY <2>4, <2>5, <2>6, <2>7 DEF t
<1> QED
  BY <1>7, <1>8, <1>9 DEF BudgetInv

\* A turn ends.
LEMMA EndTurnStep ==
    ASSUME LimitsAreValid, DocumentsAreValid, OcrInv, pc \in Rendered \cup {"candidate"},
           NEW r, EndTurn(r), doc' = doc, Quiet', CacheInv',
           \A x \in Images : cache[x] # Null => cache'[x] # Null,
           Credit(r, Candidate),
           spent' = IF IsRead(r) THEN Charge ELSE spent,
           IsRead(r) => ~TooManyPages /\ ~OverBudget,
           \/ Decide(Candidate) \notin {"REQUIRED", "REQUIRED_BUT_DISABLED"}
           \/ Unresolved(r) \/ TooSmall(Candidate.image) \/ cache'[Candidate.image] # Null
    PROVE  OcrInv'
<1> DEFINE n == Len(results)
<1>1. /\ results' = Append(results, r) /\ scratch' = scratch \ {i} /\ i' = i + 1
      /\ pc' = IF i + 1 > Count THEN "reconcile" ELSE "candidate"
  BY DEF EndTurn, Unlink, NextCandidate, Count
<1>2. /\ n \in Nat /\ i = n + 1 /\ Len(results') = n + 1 /\ results'[n + 1] = r /\ IsTuple(results')
      /\ (\A k \in 1..n : results'[k] = results[k]) /\ n + 1 \in 1..Count /\ Count \in Nat
  BY <1>1, AppendTuple DEF OcrInv, TurnInv, Rendered, DocumentsAreValid, Count
<1>3. Count' = Count /\ \A c : Decide(c)' = Decide(c)
  BY SameDocument
<1>4. pc' \in {"reconcile", "candidate"} /\ pc' \notin Rendered
  BY <1>1 DEF Rendered
<1>5. TurnInv'
  <2>1. scratch' = {}
    BY <1>1 DEF OcrInv, TurnInv
  <2>2. /\ pc' = "candidate" => i' <= Count
        /\ pc' = "reconcile" => i' = Count + 1
        /\ i' <= Count + 1 /\ i' \in Nat \ {0} /\ Len(results') = i' - 1
    BY <1>1, <1>2
  <2>3. doc' \in Documents
    BY DEF OcrInv, TurnInv
  <2> QED
    BY <1>2, <1>3, <1>4, <2>1, <2>2, <2>3 DEF TurnInv
<1>6. EngineInv'
  BY <1>4 DEF EngineInv
<1>7. Candidate = doc.candidates[n + 1] /\ \A k \in 1..n + 1 : k \in 1..n \/ k = n + 1
  BY <1>2 DEF Candidate
<1>8. ReadInv'
  <2>1. \A k \in 1..n : Credit(results[k], doc.candidates[k])
    BY DEF OcrInv, ReadInv
  <2>2. \A k \in 1..n + 1 : Credit(results'[k], doc.candidates[k])
    <3> HIDE DEF n
    <3> QED
      BY <1>2, <1>7, <2>1
  <2> QED
    BY <1>2, <2>2 DEF ReadInv
<1>9. BudgetInv'
  BY <1>1, <1>4, ChargeStep DEF OcrInv
<1>10. OutcomeInv'
  <2>1. \A k \in 1..n : Settled(results[k], doc.candidates[k])
    BY DEF OcrInv, OutcomeInv
  <2>2. \A k \in 1..n + 1 : doc.candidates[k].image \in Images
    BY <1>2 DEF OcrInv, TurnInv, DocumentsAreValid, Count
  <2>3. ASSUME NEW k \in 1..n + 1
        PROVE  \/ Decide(doc.candidates[k]) \notin {"REQUIRED", "REQUIRED_BUT_DISABLED"}
               \/ Unresolved(results'[k]) \/ TooSmall(doc.candidates[k].image)
               \/ cache'[doc.candidates[k].image] # Null
    <3>1. CASE k = n + 1
      BY <1>2, <1>7, <3>1
    <3>2. CASE k \in 1..n
      <4>1. results'[k] = results[k] /\ Settled(results[k], doc.candidates[k])
        BY <1>2, <2>1, <3>2
      <4> QED
        BY <2>2, <4>1 DEF Settled
    <3> QED
      BY <1>7, <3>1, <3>2
  <2>4. \A k \in 1..Len(results') : Settled(results[k], doc.candidates[k])'
    BY <1>2, <1>3, <2>3 DEF Settled, Unresolved, TooSmall, Pixels
  <2> QED
    BY <1>4, <2>4 DEF OutcomeInv
<1> QED
  BY <1>5, <1>6, <1>8, <1>9, <1>10 DEF OcrInv

-----------------------------------------------------------------------------
(* The engine.                                                             *)

\* A record of the worker.
Worker(st, h) == [state |-> st, holds |-> h]

\* What the places of process() say of the engine.
LEMMA EngineAt ==
    ASSUME EngineInv
    PROVE  /\ pc = "starting" => StartingUp
           /\ pc = "waiting" => Recognizing
           /\ pc \notin {"starting", "waiting"} => Quiet
BY DEF EngineInv

\* The same, for the next state.
LEMMA EngineAtNext ==
    ASSUME pc' = "starting" => StartingUp',
           pc' = "waiting" => Recognizing',
           pc' \notin {"starting", "waiting"} => Quiet'
    PROVE  EngineInv'
BY DEF EngineInv

\* Nothing happens between the two processes.
LEMMA EngineStays ==
    ASSUME UNCHANGED engineVars, UNCHANGED <<doc, i>>
    PROVE  (Quiet' <=> Quiet) /\ (StartingUp' <=> StartingUp) /\ (Recognizing' <=> Recognizing)
<1>1. Candidate' = Candidate /\ UNCHANGED <<worker, requests, responses>>
  BY DEF Candidate, engineVars
<1> QED
  BY <1>1 DEF Quiet, StartingUp, Recognizing, IdleIn, Told

\* _stop leaves nothing behind.
LEMMA StopIsQuiet ==
    ASSUME Stop
    PROVE  Quiet'
BY DEF Stop, NoWorker, Quiet, IdleIn

\* The worker comes up and says so, or that it could not.
LEMMA StartsStep ==
    ASSUME EngineInv, WorkerStarts
    PROVE  EngineInv'
<1>1. worker.state = "starting" /\ UNCHANGED <<pc, requests>>
  BY DEF WorkerStarts
<1>2. pc = "starting" /\ worker = Worker("starting", Null) /\ requests = <<>> /\ responses = <<>>
  <2>1. ~Quiet
    BY <1>1 DEF Quiet, IdleIn
  <2>2. ~Recognizing
    BY <1>1 DEF Recognizing, IdleIn
  <2> QED
    BY <1>1, <2>1, <2>2, EngineAt DEF StartingUp, IdleIn, Worker
<1>3. \A st : [Worker("starting", Null) EXCEPT !.state = st] = Worker(st, Null)
  BY DEF Worker
<1>4. \E st \in {"ready", "dead"}, tag \in {"READY", "INIT_ERR"} :
         worker' = Worker(st, Null) /\ responses' = <<[tag |-> tag, payload |-> Null]>>
  BY <1>2, <1>3 DEF WorkerStarts, Respond
<1>5. StartingUp'
  BY <1>1, <1>2, <1>4 DEF StartingUp, IdleIn, Told, Worker
<1> QED
  BY <1>1, <1>2, <1>5, EngineAtNext

\* The worker takes the only request there is.
LEMMA TakesStep ==
    ASSUME EngineInv, WorkerTakes
    PROVE  EngineInv'
<1>1. worker.state = "ready" /\ requests # <<>> /\ UNCHANGED <<pc, i, doc, responses>>
      /\ worker' = [state |-> "busy", holds |-> Head(requests)] /\ requests' = Tail(requests)
  BY DEF WorkerTakes
<1>2. pc = "waiting" /\ requests = <<i>> /\ responses = <<>>
  BY <1>1, EngineAt DEF StartingUp, Quiet, Recognizing
<1>3. requests' = <<>> /\ worker' = [state |-> "busy", holds |-> i]
  BY <1>1, <1>2
<1>4. Recognizing'
  BY <1>1, <1>2, <1>3 DEF Recognizing
<1> QED
  BY <1>1, <1>2, <1>4, EngineAtNext

\* It answers the request it holds, which is the one that is waited for.
LEMMA AnswersStep ==
    ASSUME EngineInv, WorkerAnswers
    PROVE  EngineInv'
<1>1. worker.state = "busy" /\ UNCHANGED <<pc, i, doc, requests>>
      /\ worker' = [state |-> "ready", holds |-> Null]
  BY DEF WorkerAnswers
<1>2. /\ pc = "waiting" /\ worker.holds = i /\ requests = <<>> /\ responses = <<>>
  <2>1. ~Quiet
    BY <1>1 DEF Quiet, IdleIn
  <2>2. ~StartingUp
    BY <1>1 DEF StartingUp, IdleIn
  <2>3. pc = "waiting" /\ Recognizing
    BY <2>1, <2>2, EngineAt
  <2> QED
    BY <1>1, <2>3 DEF Recognizing, IdleIn
<1>3. \/ responses' = <<[tag |-> "OK", payload |-> Candidate.image]>>
      \/ responses' = <<[tag |-> "OK", payload |-> Invalid]>>
      \/ responses' = <<[tag |-> "ERR", payload |-> Null]>>
  BY <1>2 DEF WorkerAnswers, Respond, Candidate
<1>4. Candidate' = Candidate
  BY <1>1 DEF Candidate
<1>5. Told("OK", Candidate.image)' \/ Told("OK", Invalid)' \/ Told("ERR", Null)'
  BY <1>3, <1>4 DEF Told
<1>6. IdleIn({"ready", "dead"})'
  BY <1>1 DEF IdleIn
<1>7. Recognizing'
  BY <1>1, <1>2, <1>5, <1>6 DEF Recognizing
<1> QED
  BY <1>1, <1>2, <1>7, EngineAtNext

\* It dies, whatever it was doing.
LEMMA DiesStep ==
    ASSUME EngineInv, WorkerDies
    PROVE  EngineInv'
<1>1. /\ Alive /\ UNCHANGED <<pc, i, doc, requests, responses>>
      /\ worker' = [worker EXCEPT !.state = "dead"]
  BY DEF WorkerDies
<1>2. \A st, h : [Worker(st, h) EXCEPT !.state = "dead"] = Worker("dead", h)
  BY DEF Worker
<1>3. ASSUME NEW states, IdleIn(states) PROVE IdleIn({"none", "ready", "dead"})' /\ IdleIn({"starting", "dead"})'
                                              /\ IdleIn({"ready", "dead"})'
  BY <1>1, <1>2, <1>3 DEF IdleIn, Worker
<1>4. \A tag, p : Told(tag, p)' <=> responses = <<[tag |-> tag, payload |-> p]>>
  BY <1>1 DEF Told
<1>5. Candidate' = Candidate
  BY <1>1 DEF Candidate
<1>6. Quiet => Quiet'
  BY <1>1, <1>3 DEF Quiet
<1>7. StartingUp => StartingUp'
  BY <1>1, <1>3, <1>4 DEF StartingUp, Told
<1>8. ASSUME Recognizing PROVE Recognizing'
  <2>1. CASE IdleIn({"none", "ready", "dead"}) /\ requests = <<i>> /\ responses = <<>>
    BY <1>1, <1>3, <2>1 DEF Recognizing
  <2>2. CASE /\ \E st \in {"busy", "dead"} : worker = [state |-> st, holds |-> i]
             /\ requests = <<>> /\ responses = <<>>
    <3>1. worker' = [state |-> "dead", holds |-> i]
      BY <1>1, <1>2, <2>2 DEF Worker
    <3> QED
      BY <1>1, <2>2, <3>1 DEF Recognizing
  <2>3. CASE /\ IdleIn({"ready", "dead"}) /\ requests = <<>>
             /\ Told("OK", Candidate.image) \/ Told("OK", Invalid) \/ Told("ERR", Null)
    <3>1. Told("OK", Candidate.image)' \/ Told("OK", Invalid)' \/ Told("ERR", Null)'
      BY <1>1, <1>5, <2>3 DEF Told
    <3> QED
      BY <1>1, <1>3, <2>3, <3>1 DEF Recognizing
  <2> QED
    BY <1>8, <2>1, <2>2, <2>3 DEF Recognizing
<1> QED
  BY <1>1, <1>6, <1>7, <1>8, EngineAt, EngineAtNext

-----------------------------------------------------------------------------
(* The actions of process().                                               *)

\* What the proofs of the actions start from.
InputsAreValid ==
    LimitsAreValid /\ DocumentsAreValid /\ NullIsNoReading /\ ElementIdsAreValid

\* A turn without a reading, with the cache and the budget left alone.
LEMMA UnreadTurn ==
    ASSUME InputsAreValid, OcrInv, pc \in Rendered \cup {"candidate"},
           NEW d, NEW w, EndTurn(Result(d, <<>>, w)), UNCHANGED <<doc, spent, cache>>, Quiet',
           d # "REQUIRED" \/ w = TRUE,
           \/ Decide(Candidate) \notin {"REQUIRED", "REQUIRED_BUT_DISABLED"}
           \/ w = TRUE \/ d \in {"REQUIRED_BUT_DISABLED", "REJECTED_RESOURCE_LIMIT"}
           \/ TooSmall(Candidate.image)
    PROVE  OcrInv'
<1> DEFINE r == Result(d, <<>>, w)
<1>1. r.decision = d /\ r.observations = <<>> /\ r.warned = w
  BY ResultFacts
<1>2. EndTurn(r)
  OBVIOUS
<1> HIDE DEF r
<1>3. ~IsRead(r) /\ Credit(r, Candidate)
  BY <1>1 DEF IsRead, Credit
<1>4. w = TRUE \/ d \in {"REQUIRED_BUT_DISABLED", "REJECTED_RESOURCE_LIMIT"} => Unresolved(r)
  BY <1>1 DEF Unresolved
<1>5. CacheInv'
  BY SameDocument DEF OcrInv, ReadInv, CacheInv
<1> QED
  BY <1>2, <1>3, <1>4, <1>5, EndTurnStep DEF InputsAreValid

\* A turn with a reading.
LEMMA ReadTurn ==
    ASSUME InputsAreValid, OcrInv, pc \in Rendered, ~OverBudget,
           NEW o, EndTurn(Result("REQUIRED", Retained(o), FALSE)), spent' = Charge, doc' = doc,
           o = Reading(Candidate.image, Candidate),
           CacheInv', cache'[Candidate.image] # Null,
           \A x \in Images : cache[x] # Null => cache'[x] # Null,
           Quiet'
    PROVE  OcrInv'
<1> DEFINE r == Result("REQUIRED", Retained(o), FALSE)
<1>1. r.decision = "REQUIRED" /\ r.observations = Retained(o) /\ r.warned = FALSE
  <2>1. r.decision = "REQUIRED" /\ r.observations = Retained(o)
    BY DEF Result
  <2>2. r.warned = FALSE
    BY DEF Result
  <2> QED
    BY <2>1, <2>2
<1>2. EndTurn(r)
  OBVIOUS
<1> HIDE DEF r
<1>3. IsRead(r) /\ Credit(r, Candidate)
  BY <1>1 DEF IsRead, Credit
<1>4. ~TooManyPages
  BY DEF OcrInv, BudgetInv
<1> QED
  BY <1>2, <1>3, <1>4, EndTurnStep DEF InputsAreValid

\* The candidate of a turn shows one of the images.
LEMMA CandidateFacts ==
    ASSUME InputsAreValid, OcrInv, pc \in Rendered \cup {"candidate"}
    PROVE  /\ i \in 1..Count /\ Candidate = doc.candidates[i]
           /\ Candidate.image \in Images /\ doc \in Documents
           /\ pc \in Rendered => ~TooManyPages /\ Decide(Candidate) = "REQUIRED" /\ scratch = {i}
           /\ pc \in Rendered \ {"rendered"} => ~OverBudget
<1>1. i \in 1..Count /\ doc \in Documents /\ (pc \in Rendered => scratch = {i})
  BY DEF OcrInv, TurnInv, InputsAreValid, DocumentsAreValid, Count
<1>2. Candidate.image \in Images
  BY <1>1 DEF InputsAreValid, DocumentsAreValid, Candidate, Count
<1> QED
  BY <1>1, <1>2 DEF OcrInv, BudgetInv, OutcomeInv, Candidate

\* _validate_pipeline_inputs lets the call begin, or raises.
LEMMA ValidateStep ==
    ASSUME InputsAreValid, OcrInv, Validate
    PROVE  OcrInv'
<1>1. /\ pc = "validate" /\ pc' = (IF ValidInputs THEN NextCandidate(1) ELSE "raised")
      /\ UNCHANGED <<doc, i, results, spent, cache, scratch, late, engineVars, outputVars>>
  BY DEF Validate
<1>2. i = 1 /\ scratch = {} /\ Count \in Nat /\ Quiet
  <2>1. Quiet
    BY <1>1, EngineAt DEF OcrInv
  <2> QED
    BY <1>1, <2>1 DEF OcrInv, TurnInv, Rendered, InputsAreValid, DocumentsAreValid, Count
<1>3. pc' \in {"candidate", "reconcile", "raised"}
      /\ (pc' = "candidate" => i <= Count) /\ (pc' = "reconcile" => i = Count + 1)
  BY <1>1, <1>2 DEF NextCandidate, Count
<1>4. EngineInv'
  BY <1>1, <1>2, <1>3, EngineStays, EngineAtNext
<1> QED
  BY <1>1, <1>2, <1>3, <1>4, StayStep DEF Rendered

\* The policy, the deadline or the page budget ends the turn.
LEMMA SkipStep ==
    ASSUME InputsAreValid, OcrInv, Skip
    PROVE  OcrInv'
<1>1. pc = "candidate" /\ UNCHANGED <<doc, spent, cache, engineVars>>
  BY DEF Skip
<1>2. Quiet'
  <2>1. Quiet
    BY <1>1, EngineAt DEF OcrInv
  <2> QED
    BY <1>1, <2>1 DEF Quiet, IdleIn, engineVars
<1>3. CASE Decide(Candidate) # "REQUIRED" /\ Reject(Decide(Candidate))
  <2>1. EndTurn(Result(Decide(Candidate), <<>>, FALSE))
    BY <1>3 DEF Reject
  <2> QED
    BY <1>1, <1>2, <1>3, <2>1, UnreadTurn
<1>4. CASE Reject("REJECTED_RESOURCE_LIMIT")
  <2>1. EndTurn(Result("REJECTED_RESOURCE_LIMIT", <<>>, FALSE))
    BY <1>4 DEF Reject
  <2> QED
    BY <1>1, <1>2, <2>1, UnreadTurn
<1> QED
  BY <1>3, <1>4 DEF Skip

\* A turn that ends with a warning.
LEMMA WarnStep ==
    ASSUME InputsAreValid, OcrInv, pc \in Rendered \cup {"candidate"}, Warn,
           UNCHANGED <<doc, spent, cache>>, Quiet'
    PROVE  OcrInv'
<1>1. EndTurn(Result("REQUIRED", <<>>, TRUE))
  BY DEF Warn
<1> QED
  BY <1>1, UnreadTurn

\* resolve() leaves a file, or a warning.
LEMMA RenderStep ==
    ASSUME InputsAreValid, OcrInv, Render
    PROVE  OcrInv'
<1>1. /\ pc = "candidate" /\ Decide(Candidate) = "REQUIRED" /\ ~TooManyPages
      /\ UNCHANGED <<doc, spent, cache, late, engineVars, outputVars>>
  BY DEF Render
<1>2. Quiet'
  <2>1. Quiet
    BY <1>1, EngineAt DEF OcrInv
  <2> QED
    BY <1>1, <2>1 DEF Quiet, IdleIn, engineVars
<1>3. CASE Warn
  BY <1>1, <1>2, <1>3, WarnStep
<1>4. CASE scratch' = scratch \cup {i} /\ pc' = "rendered" /\ UNCHANGED <<i, results>>
  <2>1. scratch' = {i} /\ i <= Count
    BY <1>1, <1>4 DEF OcrInv, TurnInv, Rendered
  <2>2. EngineInv'
    BY <1>2, <1>4, EngineAtNext
  <2> QED
    BY <1>1, <1>4, <2>1, <2>2, StayStep DEF Rendered
<1> QED
  BY <1>3, <1>4 DEF Render

\* The file cannot be read back.
LEMMA RenderFailsStep ==
    ASSUME InputsAreValid, OcrInv, RenderFails
    PROVE  OcrInv'
<1>1. pc = "rendered" /\ Warn /\ UNCHANGED <<doc, spent, cache, engineVars>>
  BY DEF RenderFails
<1>2. Quiet'
  <2>1. Quiet
    BY <1>1, EngineAt DEF OcrInv
  <2> QED
    BY <1>1, <2>1 DEF Quiet, IdleIn, engineVars
<1> QED
  BY <1>1, <1>2, WarnStep DEF Rendered

\* The limits and the cache.
LEMMA AdmitStep ==
    ASSUME InputsAreValid, OcrInv, Admit
    PROVE  OcrInv'
<1>1. pc = "rendered" /\ pc \in Rendered /\ UNCHANGED <<doc, cache, late, engineVars, outputVars>>
  BY DEF Admit, Rendered
<1>2. Quiet /\ Quiet'
  <2>1. Quiet
    BY <1>1, EngineAt DEF OcrInv
  <2> QED
    BY <1>1, <2>1 DEF Quiet, IdleIn, engineVars
<1>3. CASE TooSmall(Candidate.image)
  <2>1. EndTurn(Result("NOT_REQUIRED", <<>>, FALSE)) /\ UNCHANGED spent
    BY <1>3 DEF Admit, Reject
  <2> QED
    BY <1>1, <1>2, <1>3, <2>1, UnreadTurn
<1>4. CASE ~TooSmall(Candidate.image) /\ OverBudget
  <2>1. EndTurn(Result("REJECTED_RESOURCE_LIMIT", <<>>, FALSE)) /\ UNCHANGED spent
    BY <1>4 DEF Admit, Reject
  <2> QED
    BY <1>1, <1>2, <2>1, UnreadTurn
<1>5. CASE ~TooSmall(Candidate.image) /\ ~OverBudget /\ cache[Candidate.image] # Null
  <2> DEFINE o == Project(cache[Candidate.image])
  <2>1. spent' = Charge /\ EndTurn(Result("REQUIRED", Retained(o), FALSE))
    BY <1>5 DEF Admit, Record
  <2>2. CacheInv /\ CacheInv'
    BY <1>1, SameDocument DEF OcrInv, ReadInv, CacheInv
  <2>3. PICK n \in 1..Count : cache[Candidate.image] = Reading(Candidate.image, doc.candidates[n])
    BY <1>1, <1>5, <2>2, CandidateFacts DEF CacheInv
  <2>4. o = Reading(Candidate.image, Candidate)
    <3>1. Candidate.image \in Images
      BY <1>1, CandidateFacts
    <3> QED
      BY <2>3, <3>1, ProjectFacts DEF InputsAreValid
  <2> HIDE DEF o
  <2> QED
    BY <1>1, <1>2, <1>5, <2>1, <2>2, <2>4, ReadTurn
<1>6. CASE ~TooSmall(Candidate.image) /\ ~OverBudget /\ cache[Candidate.image] = Null
  <2>1. pc' = "recognize" /\ UNCHANGED <<i, results, scratch, spent>>
    BY <1>6 DEF Admit
  <2>2. EngineInv'
    BY <1>2, <2>1, EngineAtNext
  <2>3. i <= Count /\ ~TooManyPages /\ Decide(Candidate) = "REQUIRED" /\ scratch = {i}
    BY <1>1, CandidateFacts
  <2> QED
    BY <1>1, <1>6, <2>1, <2>2, <2>3, StayStep DEF Rendered
<1> QED
  BY <1>3, <1>4, <1>5, <1>6

\* A step of the turn that leaves everything but the engine and the place.
LEMMA WithinTurn ==
    ASSUME InputsAreValid, OcrInv, pc \in Rendered \ {"rendered"}, pc' \in Rendered \ {"rendered"},
           UNCHANGED <<doc, i, results, spent, cache, scratch>>, EngineInv'
    PROVE  OcrInv'
<1>1. i <= Count /\ ~TooManyPages /\ Decide(Candidate) = "REQUIRED" /\ scratch = {i} /\ ~OverBudget
  BY CandidateFacts
<1>2. pc' \in Rendered /\ pc' \notin {"validate", "reconcile", "merge", "done"}
  BY DEF Rendered
<1> QED
  BY <1>1, <1>2, StayStep

\* _ensure_started finds the worker alive, or starts one.
LEMMA EnsureStartedStep ==
    ASSUME InputsAreValid, OcrInv, EnsureStarted
    PROVE  OcrInv'
<1>1. pc = "recognize" /\ UNCHANGED <<doc, i, results, spent, cache, scratch>>
  BY DEF EnsureStarted
<1>2. Quiet
  BY <1>1, EngineAt DEF OcrInv
<1>3. CASE Alive
  <2>1. pc' = "send" /\ UNCHANGED engineVars
    BY <1>3 DEF EnsureStarted
  <2>2. EngineInv'
    BY <1>1, <1>2, <2>1, EngineStays, EngineAtNext
  <2> QED
    BY <1>1, <2>1, <2>2, WithinTurn DEF Rendered
<1>4. CASE ~Alive
  <2>1. /\ worker' = [state |-> "starting", holds |-> Null]
        /\ requests' = <<>> /\ responses' = <<>> /\ pc' = "starting"
    BY <1>4 DEF EnsureStarted
  <2>2. StartingUp'
    BY <2>1 DEF StartingUp, IdleIn
  <2>3. EngineInv'
    BY <2>1, <2>2, EngineAtNext
  <2> QED
    BY <1>1, <2>1, <2>3, WithinTurn DEF Rendered
<1> QED
  BY <1>3, <1>4

\* The worker said READY, or that it could not start.
LEMMA StartedStep ==
    ASSUME InputsAreValid, OcrInv, Started
    PROVE  OcrInv'
<1>1. pc = "starting" /\ responses # <<>> /\ UNCHANGED <<doc, spent, cache>>
  BY DEF Started
<1>2. StartingUp
  BY <1>1, EngineAt DEF OcrInv
<1>3. CASE /\ responses' = Tail(responses) /\ pc' = "send"
           /\ UNCHANGED <<i, results, scratch, worker, requests>>
  <2>1. Quiet'
    <3>1. requests = <<>> /\ IdleIn({"ready", "dead"}) /\ \E tag \in {"READY", "INIT_ERR"} : Told(tag, Null)
      BY <1>1, <1>2 DEF StartingUp
    <3>2. responses' = <<>>
      BY <1>3, <3>1 DEF Told
    <3>3. IdleIn({"none", "ready", "dead"})'
      BY <1>3, <3>1 DEF IdleIn
    <3> QED
      BY <1>3, <3>1, <3>2, <3>3 DEF Quiet
  <2>2. EngineInv'
    BY <1>3, <2>1, EngineAtNext
  <2> QED
    BY <1>1, <1>3, <2>2, WithinTurn DEF Rendered
<1>4. CASE Stop /\ Warn
  BY <1>1, <1>4, StopIsQuiet, WarnStep DEF Rendered
<1> QED
  BY <1>3, <1>4 DEF Started

\* The request goes into an empty queue.
LEMMA SendStep ==
    ASSUME InputsAreValid, OcrInv, Send
    PROVE  OcrInv'
<1>1. /\ pc = "send" /\ requests' = Append(requests, i) /\ pc' = "waiting"
      /\ UNCHANGED <<doc, i, results, spent, cache, scratch, worker, responses>>
  BY DEF Send
<1>2. Quiet
  BY <1>1, EngineAt DEF OcrInv
<1>3. requests' = <<i>>
  BY <1>1, <1>2 DEF Quiet
<1>4. Recognizing'
  BY <1>1, <1>2, <1>3 DEF Quiet, Recognizing, IdleIn
<1>5. EngineInv'
  BY <1>1, <1>4, EngineAtNext
<1> QED
  BY <1>1, <1>5, WithinTurn DEF Rendered

\* queue.Empty
LEMMA TimeOutStep ==
    ASSUME InputsAreValid, OcrInv, TimeOut
    PROVE  OcrInv'
<1>1. pc \in Rendered /\ Stop /\ Warn /\ UNCHANGED <<doc, spent, cache>>
  BY DEF TimeOut, Rendered
<1> QED
  BY <1>1, StopIsQuiet, WarnStep

\* The answer that arrives is the answer to the request of this turn.
LEMMA ReceiveStep ==
    ASSUME InputsAreValid, OcrInv, Receive
    PROVE  OcrInv'
<1>1. /\ pc = "waiting" /\ responses # <<>> /\ responses' = Tail(responses)
      /\ UNCHANGED <<doc, worker, requests>>
  BY DEF Receive
<1>2. /\ IdleIn({"ready", "dead"}) /\ requests = <<>>
      /\ Told("OK", Candidate.image) \/ Told("OK", Invalid) \/ Told("ERR", Null)
  BY <1>1, EngineAt DEF OcrInv, Recognizing
<1>3. Quiet'
  <2>1. responses' = <<>>
    BY <1>1, <1>2 DEF Told
  <2>2. IdleIn({"none", "ready", "dead"})'
    BY <1>1, <1>2 DEF IdleIn
  <2> QED
    BY <1>1, <1>2, <2>1, <2>2 DEF Quiet
<1> DEFINE answer == Head(responses)
           x == Candidate.image
<1>4. /\ pc \in Rendered /\ ~OverBudget /\ x \in Images
      /\ i \in 1..Count /\ Candidate = doc.candidates[i] /\ doc \in Documents
  BY <1>1, CandidateFacts DEF Rendered
<1>5. CASE answer.tag = "OK" /\ answer.payload # Invalid
  <2>1. answer.payload = x
    BY <1>2, <1>5 DEF Told
  <2> DEFINE found == Reading(x, Candidate)
  <2>2. /\ cache' = [cache EXCEPT ![x] = found]
        /\ spent' = Charge /\ EndTurn(Result("REQUIRED", Retained(found), FALSE))
    <3> HIDE DEF x
    <3> QED
      BY <1>5, <2>1 DEF Receive, Record, Reading, x
  <2>3. found # Null
    BY <1>4 DEF InputsAreValid, NullIsNoReading, Reading, Count
  <2>4. Count' = Count
    BY <1>1 DEF Count
  <2>5. found = Reading(x, doc.candidates[i])
    BY <1>4
  <2> HIDE DEF found, x, answer
  <2>6. CacheInv
    BY DEF OcrInv, ReadInv
  <2>7. /\ cache'[x] = found /\ cache' = [y \in Images |-> cache'[y]]
        /\ \A y \in Images : y # x => cache'[y] = cache[y]
    BY <1>4, <2>2, <2>6 DEF CacheInv
  <2>8. CacheInv'
    <3> SUFFICES ASSUME NEW y \in Images, cache'[y] # Null
                 PROVE  \E n \in 1..Count : cache'[y] = Reading(y, doc.candidates[n])
      BY <1>1, <2>4, <2>7 DEF CacheInv, Reading, Normalize
    <3> QED
      BY <1>4, <2>5, <2>6, <2>7 DEF CacheInv
  <2>9. \A y \in Images : cache[y] # Null => cache'[y] # Null
    BY <2>3, <2>7
  <2>10. found = Reading(Candidate.image, Candidate) /\ cache'[Candidate.image] # Null
    BY <2>3, <2>7 DEF found, x
  <2> QED
    BY <1>1, <1>3, <1>4, <2>2, <2>8, <2>9, <2>10, ReadTurn
<1>6. CASE ~(answer.tag = "OK" /\ answer.payload # Invalid)
  <2>1. Warn /\ UNCHANGED <<spent, cache>>
    BY <1>6 DEF Receive
  <2> QED
    BY <1>1, <1>3, <1>4, <2>1, WarnStep
<1> QED
  BY <1>5, <1>6

\* The other process moves; the call does not.
LEMMA ElsewhereStep ==
    ASSUME OcrInv, UNCHANGED <<doc, pc, i, results, spent, cache, scratch, outputVars>>, EngineInv'
    PROVE  OcrInv'
<1>1. status' = status
  BY DEF outputVars
<1> QED
  BY <1>1, StayStep DEF OcrInv, TurnInv, BudgetInv, OutcomeInv

\* Steps of the worker.
LEMMA WorkerStepStep ==
    ASSUME InputsAreValid, OcrInv, WorkerStep
    PROVE  OcrInv'
<1>1. EngineInv
  BY DEF OcrInv
<1>2. EngineInv'
  BY <1>1, StartsStep, TakesStep, AnswersStep, DiesStep DEF WorkerStep
<1>3. UNCHANGED <<doc, pc, i, results, spent, cache, scratch, outputVars>>
  BY DEF WorkerStep, WorkerStarts, WorkerTakes, WorkerAnswers, WorkerDies
<1> QED
  BY <1>2, <1>3, ElsewhereStep

\* Steps that neither the engine nor the turn notices.
LEMMA AsideStep ==
    ASSUME OcrInv, JobDeadline \/ Returned \/ UNCHANGED ocrVars
    PROVE  OcrInv'
<1>1. UNCHANGED <<doc, pc, i, results, spent, cache, scratch, outputVars>> /\ UNCHANGED engineVars
  BY DEF JobDeadline, Returned, ocrVars
<1>2. EngineInv'
  BY <1>1, EngineStays, EngineAt, EngineAtNext DEF OcrInv
<1> QED
  BY <1>1, <1>2, ElsewhereStep

\* Reconciliation and the merge, with the verdict.
LEMMA OutputStep ==
    ASSUME InputsAreValid, OcrInv, Reconcile \/ Merge
    PROVE  OcrInv'
<1>1. /\ pc \in {"reconcile", "merge"} /\ pc' \in {"merge", "done"}
      /\ UNCHANGED <<doc, i, results, spent, cache, scratch>> /\ UNCHANGED engineVars
  BY DEF Reconcile, Merge
<1>2. Quiet /\ i = Count + 1 /\ scratch = {}
  <2>1. Quiet
    BY <1>1, EngineAt DEF OcrInv
  <2> QED
    BY <1>1, <2>1 DEF OcrInv, TurnInv, Rendered
<1>3. EngineInv'
  BY <1>1, <1>2, EngineStays, EngineAtNext
<1>4. pc' = "done" /\ status' # "PARTIAL" => \A n \in 1..Len(results) : ~Unresolved(results[n])
  <2> SUFFICES ASSUME pc' = "done", status' # "PARTIAL"
               PROVE  \A n \in 1..Len(results) : ~Unresolved(results[n])
    OBVIOUS
  <2>1. status' = Verdict
    BY DEF Reconcile, Merge
  <2>2. \A n \in DOMAIN results : ~Unresolved(results[n])
    BY <2>1 DEF Verdict
  <2>3. DOMAIN results = 1..Len(results)
    BY DEF OcrInv, TurnInv, IsTuple
  <2> QED
    BY <2>2, <2>3
<1>5. pc' \in {"reconcile", "merge", "done"} /\ pc' \notin Rendered \cup {"validate", "candidate"}
  BY <1>1 DEF Rendered
<1> QED
  BY <1>1, <1>2, <1>3, <1>4, <1>5, StayStep

-----------------------------------------------------------------------------
(* The invariant of a call, and what follows from it.                      *)

\* A call begins with nothing read, nothing spent and no worker.
LEMMA InitOcrInv ==
    ASSUME InputsAreValid, OcrInit
    PROVE  OcrInv
<1>1. /\ doc \in Documents /\ pc = "validate" /\ i = 1 /\ results = <<>> /\ scratch = {}
      /\ cache = [x \in Images |-> Null]
      /\ worker = NoWorker /\ requests = <<>> /\ responses = <<>>
      /\ spent.pixels = 0 /\ spent.pages = 0 /\ spent.bytes = 0
  BY DEF OcrInit
<1>2. Count \in Nat /\ Len(results) = 0 /\ results \in Seq({})
  BY <1>1 DEF InputsAreValid, DocumentsAreValid, Count
<1>3. TurnInv
  BY <1>1, <1>2 DEF TurnInv, Rendered, IsTuple
<1>4. EngineInv
  BY <1>1 DEF EngineInv, Quiet, IdleIn, NoWorker
<1>5. ReadInv
  BY <1>1, <1>2 DEF ReadInv, CacheInv
<1>6. BudgetInv
  <2>1. PixelsRead = <<>> /\ BytesRead = <<>> /\ PagesRead = <<>>
    BY <1>2 DEF PixelsRead, BytesRead, PagesRead
  <2>2. SumOf(PixelsRead) = 0 /\ SumOf(BytesRead) = 0 /\ SumOf(PagesRead) = 0
    BY <2>1, SumOfNone
  <2>3. MaxTotalPixels \in Nat /\ MaxDerivedBytes \in Nat /\ MaxPages \in Nat
    BY DEF InputsAreValid, LimitsAreValid
  <2> QED
    BY <1>1, <2>2, <2>3 DEF BudgetInv, Rendered
<1>7. OutcomeInv
  BY <1>1, <1>2 DEF OutcomeInv, Rendered
<1> QED
  BY <1>3, <1>4, <1>5, <1>6, <1>7 DEF OcrInv

\* Every step of the call and of its worker keeps the invariant.
LEMMA NextOcrInv ==
    ASSUME InputsAreValid, OcrInv, [OcrNext]_ocrVars
    PROVE  OcrInv'
<1>1. CASE Service
  BY <1>1, ValidateStep, SkipStep, RenderStep, RenderFailsStep, AdmitStep, EnsureStartedStep,
     StartedStep, SendStep, TimeOutStep, ReceiveStep, OutputStep DEF Service
<1>2. CASE WorkerStep
  BY <1>2, WorkerStepStep
<1>3. CASE JobDeadline \/ Returned \/ UNCHANGED ocrVars
  BY <1>3, AsideStep
<1> QED
  BY <1>1, <1>2, <1>3 DEF OcrNext

\* The text credited to a candidate is that of its image, under its own name.
LEMMA CreditedText ==
    ASSUME InputsAreValid, OcrInv
    PROVE  AnswersBelongToTheirImage
<1>1. /\ doc \in Documents /\ Len(results) <= Count /\ Len(results) \in Nat
      /\ DOMAIN results = 1..Len(results)
  BY DEF OcrInv, TurnInv, IsTuple, InputsAreValid, DocumentsAreValid, Count
<1> SUFFICES ASSUME NEW n \in 1..Len(results), results[n].observations # <<>>
             PROVE  LET c     == doc.candidates[n]
                        shown == Retained(ImageOf[c.image].texts)
                        got   == results[n].observations
                    IN  /\ Len(got) = Len(shown)
                        /\ \A k \in DOMAIN got :
                              /\ got[k].text = shown[k].text
                              /\ got[k].candidate = c.id
                              /\ got[k].page = c.page /\ got[k].element = c.element
  BY <1>1 DEF AnswersBelongToTheirImage
<1> DEFINE c == doc.candidates[n]
           texts == ImageOf[c.image].texts
           t == Reading(c.image, c)
           got == results[n].observations
<1>2. c.image \in Images
  BY <1>1 DEF InputsAreValid, DocumentsAreValid, Count
<1>3. got = Retained(t)
  BY DEF OcrInv, ReadInv, Credit
<1>4. /\ Len(texts) \in Nat /\ Alike(t, texts, c)
      /\ DOMAIN texts = 1..Len(texts) /\ DOMAIN t = 1..Len(texts)
      /\ \A k \in 1..Len(texts) : t[k].conf = texts[k].conf
  BY <1>2, ReadingFacts DEF InputsAreValid
<1> HIDE DEF c, texts, t, got
<1>5. Alike(Retained(t), Retained(texts), c) /\ IsTuple(Retained(t))
  BY <1>4, RetainedAlike
<1>6. Alike(got, Retained(texts), c) /\ DOMAIN got = 1..Len(got)
  BY <1>3, <1>5 DEF IsTuple
<1> QED
  BY <1>6 DEF Alike, c, texts, got

\* The file of a turn lives as long as the turn, and a live worker's request has one.
LEMMA ScratchOfTurn ==
    ASSUME OcrInv
    PROVE  ScratchLivesWithItsTurn
<1>1. /\ scratch \subseteq {i} /\ (pc \notin Rendered => scratch = {})
      /\ (pc = "waiting" => scratch = {i})
  BY DEF OcrInv, TurnInv, Rendered
<1>2. {"candidate", "reconcile", "merge", "done"} \cap Rendered = {}
  BY DEF Rendered
<1>3. ASSUME Quiet \/ StartingUp PROVE worker.holds = Null /\ requests = <<>>
  BY <1>3 DEF Quiet, StartingUp, IdleIn
<1>4. ASSUME Recognizing
      PROVE  worker.holds \in {Null, i} /\ (requests = <<>> \/ requests = <<i>>)
  BY <1>4 DEF Recognizing, IdleIn
<1>5. CASE pc = "waiting"
  <2>1. worker.holds \in {Null, i} /\ (requests = <<>> \/ requests = <<i>>)
    BY <1>4, <1>5, EngineAt DEF OcrInv
  <2>2. \A n \in DOMAIN requests : requests[n] = i
    BY <2>1
  <2> QED
    BY <1>1, <1>2, <1>5, <2>1, <2>2 DEF ScratchLivesWithItsTurn
<1>6. CASE pc # "waiting"
  <2>1. worker.holds = Null /\ requests = <<>>
    BY <1>3, <1>6, EngineAt DEF OcrInv
  <2> QED
    BY <1>1, <1>2, <2>1 DEF ScratchLivesWithItsTurn
<1> QED
  BY <1>5, <1>6

\* The candidates that were read fit the budgets together.
LEMMA WithinBudget ==
    ASSUME InputsAreValid, OcrInv
    PROVE  BudgetHolds
<1>1. MaxTotalPixels \in Nat /\ MaxDerivedBytes \in Nat /\ MaxPages \in Nat
  BY DEF InputsAreValid, LimitsAreValid
<1> QED
  BY <1>1 DEF OcrInv, BudgetInv, BudgetHolds

\* Nothing that needed reading is missing from a document that is not PARTIAL.
LEMMA AccountedFor ==
    ASSUME InputsAreValid, OcrInv
    PROVE  ImagesAreAccountedFor
<1> SUFFICES ASSUME pc = "done", status # "PARTIAL", NEW n \in 1..Len(doc.candidates),
                    Decide(doc.candidates[n]) \in {"REQUIRED", "REQUIRED_BUT_DISABLED"}
             PROVE  TooSmall(doc.candidates[n].image) \/ cache[doc.candidates[n].image] # Null
  BY DEF ImagesAreAccountedFor
<1>1. n \in 1..Len(results)
  BY DEF OcrInv, TurnInv, InputsAreValid, DocumentsAreValid, Count
<1>2. Settled(results[n], doc.candidates[n]) /\ ~Unresolved(results[n])
  BY <1>1 DEF OcrInv, OutcomeInv
<1> QED
  BY <1>2 DEF Settled

-----------------------------------------------------------------------------
(* What is kept of a sequence, and sequences put one behind the other.     *)

\* No member stands twice in s.
Distinct(s) == \A a, b \in 1..Len(s) : s[a] = s[b] => a = b

\* The members of s up to k that are in T, and nothing else, stand in t.
Holds(t, s, k, T) ==
    /\ \A m \in 1..Len(t) : t[m] \in T /\ \E q \in 1..k : t[m] = s[q]
    /\ \A q \in 1..k : s[q] \in T => \E m \in 1..Len(t) : t[m] = s[q]
    /\ Distinct(s) => Distinct(t)

\* One more member is kept.
LEMMA HoldsOneMore ==
    ASSUME NEW B, NEW s \in Seq(B), NEW T, NEW k \in 1..Len(s), NEW t \in Seq(B),
           Holds(t, s, k - 1, T)
    PROVE  /\ s[k] \in T => Holds(Append(t, s[k]), s, k, T)
           /\ s[k] \notin T => Holds(t, s, k, T)
<1> DEFINE e == s[k]
           tt == Append(t, e)
           n == Len(t)
<1>1. n \in Nat /\ k \in Nat /\ k - 1 \in Nat
  OBVIOUS
<1>2. Len(tt) = n + 1 /\ tt[n + 1] = e /\ \A m \in 1..n : tt[m] = t[m]
  OBVIOUS
<1>3. \A q \in 1..k : q = k \/ q \in 1..(k - 1)
  OBVIOUS
<1>4. k \in 1..k /\ \A q \in 1..(k - 1) : q \in 1..k
  OBVIOUS
<1>5. ASSUME e \notin T PROVE Holds(t, s, k, T)
  BY <1>3, <1>4, <1>5 DEF Holds
<1>6. ASSUME e \in T PROVE Holds(tt, s, k, T)
  <2> HIDE DEF tt, n
  <2>1. \A m \in 1..Len(tt) : m = n + 1 \/ m \in 1..n
    BY <1>1, <1>2
  <2>2. \A m \in 1..Len(tt) : tt[m] \in T /\ \E q \in 1..k : tt[m] = s[q]
    <3> TAKE m \in 1..Len(tt)
    <3>1. CASE m = n + 1
      BY <1>2, <1>4, <1>6, <3>1
    <3>2. CASE m \in 1..n
      <4>1. t[m] \in T /\ \E q \in 1..(k - 1) : t[m] = s[q]
        BY <3>2 DEF Holds, n
      <4> QED
        BY <1>2, <1>4, <3>2, <4>1
    <3> QED
      BY <2>1, <3>1, <3>2
  <2>3. n + 1 \in 1..Len(tt) /\ \A m \in 1..n : m \in 1..Len(tt)
    BY <1>1, <1>2
  <2>4. \A q \in 1..k : s[q] \in T => \E m \in 1..Len(tt) : tt[m] = s[q]
    BY <1>2, <1>3, <2>3 DEF Holds, n
  <2>5. ASSUME Distinct(s) PROVE Distinct(tt)
    <3>1. \A m \in 1..n : t[m] # e
      <4> SUFFICES ASSUME NEW m \in 1..n, t[m] = e PROVE FALSE
        OBVIOUS
      <4>1. PICK q \in 1..(k - 1) : t[m] = s[q]
        BY DEF Holds, n
      <4>2. q \in 1..Len(s) /\ k \in 1..Len(s) /\ q # k
        BY <4>1
      <4> QED
        BY <2>5, <4>1, <4>2 DEF Distinct
    <3>2. Distinct(t)
      BY <2>5 DEF Holds
    <3> QED
      BY <1>2, <2>1, <3>1, <3>2 DEF Distinct, n
  <2> QED
    BY <2>2, <2>4, <2>5 DEF Holds
<1> QED
  BY <1>5, <1>6

\* What is kept of a sequence.
LEMMA KeptMembers ==
    ASSUME NEW B, NEW s \in Seq(B), NEW T
    PROVE  Kept(s, T) \in Seq(B) /\ Holds(Kept(s, T), s, Len(s), T)
<1> DEFINE n == Len(s)
<1>1. n \in Nat /\ \A k \in 1..n : s[k] \in B
  OBVIOUS
<1>2. PICK u : IsSelection(u, s, n, T, B)
  <2> HIDE DEF n
  <2> QED
    BY <1>1, KeptFacts DEF n
<1> DEFINE S == {k \in 0..n : Holds(u[k], s, k, T)}
<1>3. 0 \in S
  BY <1>1, <1>2 DEF IsSelection, Holds, Distinct
<1>4. ASSUME NEW k \in 1..n, k - 1 \in S PROVE k \in S
  <2>1. k \in 0..n /\ k - 1 \in 0..n
    BY <1>1
  <2>2. /\ u[k - 1] \in Seq(B)
        /\ u[k] = IF s[k] \in T THEN Append(u[k - 1], s[k]) ELSE u[k - 1]
    BY <1>2, <2>1 DEF IsSelection
  <2>3. Holds(u[k - 1], s, k - 1, T)
    BY <1>4
  <2>4. Holds(u[k], s, k, T)
    BY <2>2, <2>3, HoldsOneMore
  <2> QED
    BY <2>1, <2>4
<1>5. n \in S
  <2> HIDE DEF S
  <2> QED
    BY <1>1, <1>3, <1>4, InductionUpTo, n \in 0..n
<1> QED
  BY <1>1, <1>2, <1>5 DEF IsSelection

\* Nothing is kept of nothing.
LEMMA KeptNone == ASSUME NEW T PROVE Kept(<<>>, T) = <<>>
<1>1. <<>> \in Seq({})
  OBVIOUS
<1>2. Kept(<<>>, T) \in Seq({})
  BY <1>1, KeptMembers
<1> QED
  BY <1>2

\* The last member is kept or not, whatever stands before it.
LEMMA KeptAppend ==
    ASSUME NEW B, NEW s \in Seq(B), NEW e \in B, NEW T
    PROVE  Kept(Append(s, e), T) = IF e \in T THEN Append(Kept(s, T), e) ELSE Kept(s, T)
<1> DEFINE n == Len(s)
           t == Append(s, e)
<1>1. /\ n \in Nat /\ Len(t) = n + 1 /\ t \in Seq(B) /\ t[n + 1] = e
      /\ \A k \in 1..n : t[k] = s[k] /\ s[k] \in B
      /\ \A k \in 1..n + 1 : t[k] \in B
  OBVIOUS
<1> HIDE DEF n, t
<1>2. PICK u : IsSelection(u, s, n, T, B)
  BY <1>1, KeptFacts DEF n
<1>3. PICK v : IsSelection(v, t, n + 1, T, B)
  <2>1. n + 1 \in Nat
    BY <1>1
  <2> QED
    BY <1>1, <2>1, KeptFacts
<1> DEFINE S == {k \in 0..n : u[k] = v[k]}
<1>4. 0 \in S
  BY <1>1, <1>2, <1>3 DEF IsSelection
<1>5. ASSUME NEW k \in 1..n, k - 1 \in S PROVE k \in S
  <2>1. k \in 0..n /\ k - 1 \in 0..n /\ k \in 1..n + 1
    BY <1>1
  <2>2. u[k] = IF s[k] \in T THEN Append(u[k - 1], s[k]) ELSE u[k - 1]
    BY <1>2 DEF IsSelection
  <2>3. v[k] = IF t[k] \in T THEN Append(v[k - 1], t[k]) ELSE v[k - 1]
    BY <1>3, <2>1 DEF IsSelection
  <2>4. u[k - 1] = v[k - 1] /\ t[k] = s[k]
    BY <1>1, <1>5
  <2> QED
    BY <2>1, <2>2, <2>3, <2>4
<1>6. n \in S
  <2> HIDE DEF S
  <2> QED
    BY <1>1, <1>4, <1>5, InductionUpTo, n \in 0..n
<1>7. n + 1 \in 1..n + 1 /\ (n + 1) - 1 = n /\ u[n] = v[n]
  BY <1>1, <1>6
<1>8. v[n + 1] = IF e \in T THEN Append(v[n], e) ELSE v[n]
  BY <1>1, <1>3, <1>7 DEF IsSelection
<1>9. Kept(s, T) = u[n] /\ Kept(t, T) = v[n + 1]
  BY <1>2, <1>3 DEF IsSelection
<1> QED
  BY <1>7, <1>8, <1>9 DEF t

\* Members that are not in T leave no trace.
LEMMA KeptSkips ==
    ASSUME NEW B, NEW s \in Seq(B), NEW t \in Seq(B), NEW T,
           \A k \in 1..Len(t) : t[k] \notin T
    PROVE  Kept(s \o t, T) = Kept(s, T)
<1> DEFINE n == Len(t)
           p(k) == s \o SubSeq(t, 1, k)
           S == {k \in 0..n : Kept(p(k), T) = Kept(s, T)}
<1>1. n \in Nat
  OBVIOUS
<1>2. 0 \in S
  <2>1. p(0) = s /\ 0 \in 0..n
    OBVIOUS
  <2> HIDE DEF p
  <2> QED
    BY <2>1
<1>3. ASSUME NEW k \in 1..n, k - 1 \in S PROVE k \in S
  <2>1. p(k - 1) \in Seq(B) /\ t[k] \in B
    OBVIOUS
  <2>2. p(k) = Append(p(k - 1), t[k])
    OBVIOUS
  <2>3. Kept(p(k - 1), T) = Kept(s, T) /\ k \in 0..n
    BY <1>3
  <2> HIDE DEF p
  <2>4. Kept(p(k), T) = Kept(s, T)
    BY <2>1, <2>2, <2>3, KeptAppend
  <2> QED
    BY <2>3, <2>4
<1>4. n \in S
  <2> HIDE DEF S
  <2> QED
    BY <1>1, <1>2, <1>3, InductionUpTo, n \in 0..n
<1>5. p(n) = s \o t
  OBVIOUS
<1> QED
  BY <1>4, <1>5

\* What follows the a-th native element: recognized elements that belong to it.
IsPart(p, x, home, E) ==
    /\ Distinct(p)
    /\ \A b \in 1..Len(p) : p[b] \notin E /\ home[p[b]] = x

\* w is the document up to the n-th native element and its part.
IsLayout(w, n, ids, parts, home, E) ==
    /\ Kept(w, E) = [a \in 1..n |-> ids[a]]
    /\ Distinct(w)
    /\ \A k \in 1..Len(w) : w[k] \in E => \E a \in 1..n : w[k] = ids[a]
    /\ \A k \in 1..Len(w) : w[k] \notin E =>
          /\ \E a \in 1..n : \E b \in 1..Len(parts[a]) : w[k] = parts[a][b]
          /\ \E q \in 1..k : w[q] = home[w[k]] /\ \A r \in q + 1..k : w[r] \notin E
    /\ \A a \in 1..n : \A b \in 1..Len(parts[a]) : \E k \in 1..Len(w) : w[k] = parts[a][b]

\* A native element and its part behind what is there.
Together(w, x, p) == Append(w, x) \o p

Stand(v, w, x, p, B) ==
    /\ v \in Seq(B) /\ Len(w) \in Nat /\ Len(p) \in Nat
    /\ Len(v) = Len(w) + 1 + Len(p)
    /\ \A k \in 1..Len(w) : v[k] = w[k]
    /\ v[Len(w) + 1] = x
    /\ \A b \in 1..Len(p) : v[Len(w) + 1 + b] = p[b]
    /\ \A k \in 1..Len(v) : \/ k \in 1..Len(w) \/ k = Len(w) + 1
                            \/ \E b \in 1..Len(p) : k = Len(w) + 1 + b

\* Where the members of w, x and p stand when they are put together.
LEMMA PutTogether ==
    ASSUME NEW B, NEW w \in Seq(B), NEW x \in B, NEW p \in Seq(B), NEW v, v = Together(w, x, p)
    PROVE  Stand(v, w, x, p, B)
<1> DEFINE t == Append(w, x)
<1>1. t \in Seq(B) /\ Len(t) = Len(w) + 1 /\ Len(w) \in Nat /\ Len(p) \in Nat
      /\ t[Len(w) + 1] = x /\ \A k \in 1..Len(w) : t[k] = w[k]
  OBVIOUS
<1> HIDE DEF t
<1>2. v = t \o p
  BY DEF t, Together
<1>3. v \in Seq(B) /\ Len(v) = Len(t) + Len(p)
      /\ (\A k \in 1..Len(t) : v[k] = t[k]) /\ \A b \in 1..Len(p) : v[Len(t) + b] = p[b]
  <2>0. /\ t \o p \in Seq(B) /\ Len(t \o p) = Len(t) + Len(p)
        /\ \A k \in 1..Len(t) + Len(p) : (t \o p)[k] = IF k <= Len(t) THEN t[k] ELSE p[k - Len(t)]
    <3>1. t \in Seq(B)
      BY <1>1
    <3> QED
      BY <3>1, ConcatProperties, Zenon
  <2>1. v \in Seq(B) /\ Len(v) = Len(t) + Len(p)
    BY <1>2, <2>0, Zenon
  <2>2. \A k \in 1..Len(t) + Len(p) : v[k] = IF k <= Len(t) THEN t[k] ELSE p[k - Len(t)]
    BY <1>2, <2>0, Zenon
  <2>3. \A k \in 1..Len(t) : k \in 1..Len(t) + Len(p) /\ k <= Len(t)
    BY <1>1
  <2>4. \A b \in 1..Len(p) : /\ Len(t) + b \in 1..Len(t) + Len(p) /\ ~(Len(t) + b <= Len(t))
                              /\ (Len(t) + b) - Len(t) = b
    BY <1>1
  <2> QED
    BY <2>1, <2>2, <2>3, <2>4
<1>4. \A k \in 1..Len(v) : \/ k \in 1..Len(w) \/ k = Len(w) + 1
                           \/ \E b \in 1..Len(p) : k = Len(w) + 1 + b
  <2> TAKE k \in 1..Len(v)
  <2>1. k > Len(w) + 1 => k - (Len(w) + 1) \in 1..Len(p) /\ k = Len(w) + 1 + (k - (Len(w) + 1))
    BY <1>1, <1>3
  <2>2. k \in 1..Len(w) \/ k = Len(w) + 1 \/ k > Len(w) + 1
    BY <1>1, <1>3
  <2> QED
    BY <2>1, <2>2
<1> QED
  BY <1>1, <1>3, <1>4 DEF Stand

\* The next native element and its part are put behind what is there.
LEMMA OneMoreNative ==
    ASSUME NEW B, NEW w \in Seq(B), NEW n \in Nat, NEW ids \in Seq(B), NEW parts, NEW home, NEW E,
           IsLayout(w, n, ids, parts, home, E), n + 1 <= Len(ids),
           Distinct(ids), \A a \in 1..Len(ids) : ids[a] \in E,
           \A a \in 1..Len(ids) : parts[a] \in Seq(B) /\ IsPart(parts[a], ids[a], home, E)
    PROVE  IsLayout(Together(w, ids[n + 1], parts[n + 1]), n + 1, ids, parts, home, E)
<1> DEFINE x == ids[n + 1]
           p == parts[n + 1]
           v == Append(w, x) \o p
           L == Len(w)
<1>1. n + 1 \in 1..Len(ids) /\ x \in B /\ x \in E /\ p \in Seq(B) /\ IsPart(p, x, home, E)
  OBVIOUS
<1>14. v = Together(w, x, p)
  BY DEF Together
<1> HIDE DEF x, p, v
<1>2. /\ v \in Seq(B) /\ L \in Nat /\ Len(p) \in Nat
      /\ Len(v) = L + 1 + Len(p)
      /\ \A k \in 1..L : v[k] = w[k]
      /\ v[L + 1] = x
      /\ \A b \in 1..Len(p) : v[L + 1 + b] = p[b]
      /\ \A k \in 1..Len(v) : k \in 1..L \/ k = L + 1 \/ \E b \in 1..Len(p) : k = L + 1 + b
  <2>1. Stand(v, w, x, p, B)
    BY <1>1, <1>14, PutTogether
  <2> QED
    BY <2>1 DEF Stand
<1>3. \A a \in 1..n + 1 : a = n + 1 \/ a \in 1..n
  OBVIOUS
<1>4. \A a \in 1..n : a \in 1..n + 1 /\ a \in 1..Len(ids) /\ a # n + 1
  OBVIOUS
<1>5. Kept(v, E) = [a \in 1..n + 1 |-> ids[a]]
  <2>1. Append(w, x) \in Seq(B)
    BY <1>1
  <2>2. Kept(v, E) = Kept(Append(w, x), E)
    <3> DEFINE y == Append(w, x)
    <3>1. y \in Seq(B) /\ v = y \o p /\ \A k \in 1..Len(p) : p[k] \notin E
      BY <1>1, <1>14, <2>1 DEF IsPart, Together
    <3> HIDE DEF y
    <3>2. Kept(y \o p, E) = Kept(y, E)
      BY <1>1, <3>1, KeptSkips
    <3> QED
      BY <3>1, <3>2 DEF y
  <2>3. Kept(Append(w, x), E) = Append(Kept(w, E), x)
    BY <1>1, KeptAppend
  <2>4. Kept(w, E) = [a \in 1..n |-> ids[a]]
    BY DEF IsLayout
  <2>5. Append([a \in 1..n |-> ids[a]], x) = [a \in 1..n + 1 |-> ids[a]]
    BY <1>1 DEF x
  <2> QED
    BY <2>2, <2>3, <2>4, <2>5
<1>6. \A k \in 1..L : w[k] # x
  <2> SUFFICES ASSUME NEW k \in 1..L, w[k] = x PROVE FALSE
    OBVIOUS
  <2>1. PICK a \in 1..n : w[k] = ids[a]
    BY <1>1 DEF IsLayout
  <2> QED
    BY <1>1, <1>4, <2>1 DEF x, Distinct
<1>7. \A k \in 1..L : \A b \in 1..Len(p) : w[k] # p[b]
  <2> SUFFICES ASSUME NEW k \in 1..L, NEW b \in 1..Len(p), w[k] = p[b] PROVE FALSE
    OBVIOUS
  <2>1. w[k] \notin E /\ home[w[k]] = x
    BY <1>1 DEF IsPart
  <2>2. PICK a \in 1..n : \E c \in 1..Len(parts[a]) : w[k] = parts[a][c]
    BY <2>1 DEF IsLayout
  <2>3. home[w[k]] = ids[a]
    BY <1>4, <2>2 DEF IsPart
  <2> QED
    BY <1>1, <1>4, <2>1, <2>3 DEF x, Distinct
<1>8. \A b \in 1..Len(p) : p[b] # x /\ p[b] \notin E /\ home[p[b]] = x
  BY <1>1 DEF IsPart
<1> HIDE DEF L
<1>9. Distinct(v)
  <2> SUFFICES ASSUME NEW k \in 1..Len(v), NEW m \in 1..Len(v), v[k] = v[m] PROVE k = m
    BY DEF Distinct
  <2>1. Distinct(w) /\ Distinct(p)
    BY <1>1 DEF IsLayout, IsPart
  <2>2. /\ \A a \in 1..L : v[a] = w[a] /\ w[a] # x /\ \A b \in 1..Len(p) : w[a] # p[b]
        /\ v[L + 1] = x
        /\ \A b \in 1..Len(p) : v[L + 1 + b] = p[b] /\ p[b] # x
    BY <1>2, <1>6, <1>7, <1>8
  <2>3. CASE k \in 1..L /\ m \in 1..L
    BY <2>1, <2>2, <2>3 DEF Distinct, L
  <2>4. ASSUME NEW b \in 1..Len(p), k = L + 1 + b, NEW c \in 1..Len(p), m = L + 1 + c
        PROVE  k = m
    <3>1. p[b] = p[c]
      BY <2>2, <2>4
    <3> QED
      BY <2>1, <2>4, <3>1 DEF Distinct
  <2>5. k \in 1..L \/ k = L + 1 \/ \E b \in 1..Len(p) : k = L + 1 + b
    BY <1>2
  <2>6. m \in 1..L \/ m = L + 1 \/ \E b \in 1..Len(p) : m = L + 1 + b
    BY <1>2
  <2>7. ASSUME NEW a \in 1..Len(v), v[a] = x PROVE a = L + 1
    <3>1. a \notin 1..L
      BY <2>2, <2>7, Zenon
    <3>2. ASSUME NEW b \in 1..Len(p), a = L + 1 + b PROVE FALSE
      <4>1. v[a] = p[b] /\ p[b] # x
        BY <2>2, <3>2
      <4> QED
        BY <2>7, <4>1
    <3> QED
      BY <1>2, <3>1, <3>2
  <2>8. CASE k \in 1..L
    BY <2>2, <2>3, <2>6, <2>8
  <2>9. CASE \E b \in 1..Len(p) : k = L + 1 + b
    <3>1. PICK b \in 1..Len(p) : k = L + 1 + b
      BY <2>9
    <3>2. v[m] = p[b] /\ p[b] # x
      BY <2>2, <3>1
    <3>3. m \notin 1..L /\ m # L + 1
      BY <2>2, <3>2
    <3> QED
      BY <2>4, <2>6, <3>1, <3>3
  <2> QED
    BY <2>2, <2>5, <2>7, <2>8, <2>9
<1>10. \A k \in 1..Len(v) : v[k] \in E => \E a \in 1..n + 1 : v[k] = ids[a]
  <2> TAKE k \in 1..Len(v)
  <2>1. CASE k \in 1..L
    <3>1. w[k] \in E => \E a \in 1..n : w[k] = ids[a]
      BY <2>1 DEF IsLayout, L
    <3> QED
      BY <1>2, <1>4, <2>1, <3>1
  <2>2. CASE k = L + 1
    BY <1>2, <2>2, n + 1 \in 1..n + 1 DEF x
  <2>3. CASE \E b \in 1..Len(p) : k = L + 1 + b
    BY <1>2, <1>8, <2>3
  <2> QED
    BY <1>2, <2>1, <2>2, <2>3
<1>11. \A a \in 1..n + 1 : \A b \in 1..Len(parts[a]) : \E k \in 1..Len(v) : v[k] = parts[a][b]
  <2> TAKE a \in 1..n + 1
  <2> TAKE b \in 1..Len(parts[a])
  <2>1. CASE a = n + 1
    <3>1. L + 1 + b \in 1..Len(v) /\ v[L + 1 + b] = p[b]
      <4>1. b \in 1..Len(p)
        BY <2>1 DEF p
      <4> QED
        BY <1>2, <4>1
    <3> QED
      BY <2>1, <3>1 DEF p
  <2>2. CASE a \in 1..n
    <3>1. PICK k \in 1..L : w[k] = parts[a][b]
      BY <2>2 DEF IsLayout, L
    <3>2. k \in 1..Len(v) /\ v[k] = w[k]
      BY <1>2
    <3> QED
      BY <3>1, <3>2
  <2> QED
    BY <1>3, <2>1, <2>2
<1>12. ASSUME NEW k \in 1..Len(v), v[k] \notin E
       PROVE  /\ \E a \in 1..n + 1 : \E b \in 1..Len(parts[a]) : v[k] = parts[a][b]
              /\ \E q \in 1..k : v[q] = home[v[k]] /\ \A r \in q + 1..k : v[r] \notin E
  <2>1. CASE k \in 1..L
    <3>1. w[k] \notin E /\ v[k] = w[k]
      BY <1>2, <1>12, <2>1
    <3>2. PICK a \in 1..n : \E b \in 1..Len(parts[a]) : w[k] = parts[a][b]
      BY <2>1, <3>1 DEF IsLayout, L
    <3>3. PICK q \in 1..k : w[q] = home[w[k]] /\ \A r \in q + 1..k : w[r] \notin E
      BY <2>1, <3>1 DEF IsLayout, L
    <3>4. q \in 1..L /\ \A r \in q + 1..k : r \in 1..L
      BY <1>2, <2>1, SMTT(30)
    <3>5. v[q] = home[v[k]] /\ \A r \in q + 1..k : v[r] \notin E
      BY <1>2, <3>1, <3>3, <3>4
    <3> QED
      BY <1>4, <3>1, <3>2, <3>5
  <2>2. CASE k = L + 1
    BY <1>1, <1>2, <1>12, <2>2
  <2>3. CASE \E b \in 1..Len(p) : k = L + 1 + b
    <3>1. PICK b \in 1..Len(p) : k = L + 1 + b
      BY <2>3
    <3>2. v[k] = p[b] /\ home[v[k]] = x
      BY <1>2, <1>8, <3>1
    <3>3. L + 1 \in 1..k /\ v[L + 1] = home[v[k]]
      BY <1>2, <3>1, <3>2
    <3>4. \A r \in (L + 1) + 1..k : \E c \in 1..Len(p) : r = L + 1 + c
      <4> TAKE r \in (L + 1) + 1..k
      <4>1. r - (L + 1) \in 1..Len(p) /\ r = L + 1 + (r - (L + 1))
        BY <1>2, <3>1
      <4> QED
        BY <4>1
    <3>5. \A r \in (L + 1) + 1..k : v[r] \notin E
      <4> TAKE r \in (L + 1) + 1..k
      <4>1. PICK c \in 1..Len(p) : r = L + 1 + c
        BY <3>4
      <4>2. v[r] = p[c]
        BY <1>2, <4>1
      <4> QED
        BY <1>8, <4>2
    <3> QED
      BY <3>2, <3>3, <3>5, n + 1 \in 1..n + 1 DEF p
  <2> QED
    BY <1>2, <2>1, <2>2, <2>3
<1>13. IsLayout(v, n + 1, ids, parts, home, E)
  BY <1>5, <1>9, <1>10, <1>11, <1>12 DEF IsLayout
<1> QED
  BY <1>13, <1>14 DEF x, p

\* The same, with the native element at the head of what is put behind.
LEMMA TogetherIs ==
    ASSUME NEW B, NEW w \in Seq(B), NEW x \in B, NEW p \in Seq(B)
    PROVE  w \o (<<x>> \o p) = Together(w, x, p) /\ Together(w, x, p) \in Seq(B)
<1> DEFINE y == <<x>>
           v == Together(w, x, p)
<1>1. y \in Seq(B)
  OBVIOUS
<1>2. w \o y = Append(w, x)
  OBVIOUS
<1>3. Stand(v, w, x, p, B)
  <2> HIDE DEF v
  <2> QED
    BY PutTogether DEF v
<1> HIDE DEF y
<1>4. (w \o y) \o p = w \o (y \o p)
  BY <1>1, ConcatAssociative
<1> QED
  BY <1>2, <1>3, <1>4 DEF Together, Stand, y

\* The native elements with their parts, one behind the other.
LEMMA LayoutOfAll ==
    ASSUME NEW B, NEW ids \in Seq(B), NEW parts, NEW home, NEW E,
           Distinct(ids), \A a \in 1..Len(ids) : ids[a] \in E,
           \A a \in 1..Len(ids) : parts[a] \in Seq(B) /\ IsPart(parts[a], ids[a], home, E),
           NEW w, w = FlattenSeq([a \in 1..Len(ids) |-> <<ids[a]>> \o parts[a]])
    PROVE  w \in Seq(B) /\ IsLayout(w, Len(ids), ids, parts, home, E)
<1> DEFINE N == Len(ids)
           g == [a \in 1..N |-> <<ids[a]>> \o parts[a]]
           W(n) == FlattenSeq(SubSeq(g, 1, n))
           S == {n \in 0..N : W(n) \in Seq(B) /\ IsLayout(W(n), n, ids, parts, home, E)}
<1>1. N \in Nat /\ \A a \in 1..N : ids[a] \in B /\ parts[a] \in Seq(B)
  OBVIOUS
<1>2. g \in Seq(Seq(B)) /\ Len(g) = N
  <2>1. \A a \in 1..N : <<ids[a]>> \o parts[a] \in Seq(B)
    BY <1>1
  <2> QED
    BY <1>1, <2>1
<1>3. 0 \in S
  <2>1. SubSeq(g, 1, 0) = <<>>
    BY <1>2
  <2>2. W(0) = <<>>
    BY <2>1 DEF FlattenSeq
  <2>3. Kept(<<>>, E) = [a \in 1..0 |-> ids[a]]
    BY KeptNone
  <2>4. IsLayout(<<>>, 0, ids, parts, home, E)
    BY <2>3 DEF IsLayout, Distinct
  <2>5. 0 \in 0..N /\ <<>> \in Seq(B)
    BY <1>1
  <2>6. W(0) \in Seq(B) /\ IsLayout(W(0), 0, ids, parts, home, E)
    BY <2>2, <2>4, <2>5
  <2> HIDE DEF W
  <2> QED
    BY <2>5, <2>6
<1>4. ASSUME NEW k \in 1..N, k - 1 \in S PROVE k \in S
  <2>1. PICK m \in Nat : k = m + 1 /\ m + 1 <= N
    BY <1>1, k - 1 \in Nat /\ k = (k - 1) + 1
  <2>2. W(m) \in Seq(B) /\ IsLayout(W(m), m, ids, parts, home, E)
    BY <1>4, <2>1
  <2>3. /\ g[m + 1] = <<ids[m + 1]>> \o parts[m + 1] /\ g[m + 1] \in Seq(B)
        /\ ids[m + 1] \in B /\ parts[m + 1] \in Seq(B)
    BY <1>1, <2>1
  <2> HIDE DEF g
  <2>4. SubSeq(g, 1, m + 1) = Append(SubSeq(g, 1, m), g[m + 1]) /\ SubSeq(g, 1, m) \in Seq(Seq(B))
    BY <1>2, <2>1
  <2>5. W(m + 1) = W(m) \o g[m + 1]
    <3> DEFINE h == SubSeq(g, 1, m)
    <3>1. h \in Seq(Seq(B)) /\ SubSeq(g, 1, m + 1) = Append(h, g[m + 1])
      BY <2>4
    <3> HIDE DEF h
    <3>2. FlattenSeq(Append(h, g[m + 1])) = FlattenSeq(h) \o g[m + 1]
      BY <2>3, <3>1, FlattenAppend
    <3> QED
      BY <3>1, <3>2 DEF h
  <2> HIDE DEF W
  <2>6. W(m + 1) = Together(W(m), ids[m + 1], parts[m + 1]) /\ W(m + 1) \in Seq(B)
    <3> DEFINE x == ids[m + 1]
               p == parts[m + 1]
               y == W(m)
    <3>1. x \in B /\ p \in Seq(B) /\ y \in Seq(B) /\ W(m + 1) = y \o (<<x>> \o p)
      BY <2>2, <2>3, <2>5
    <3> HIDE DEF x, p, y
    <3>2. W(m + 1) = Together(y, x, p) /\ W(m + 1) \in Seq(B)
      <4>1. y \o (<<x>> \o p) = Together(y, x, p) /\ Together(y, x, p) \in Seq(B)
        BY <3>1, TogetherIs
      <4> QED
        BY <3>1, <4>1
    <3> QED
      BY <3>2 DEF x, p, y
  <2>7. IsLayout(Together(W(m), ids[m + 1], parts[m + 1]), m + 1, ids, parts, home, E)
    <3> DEFINE y == W(m)
    <3>1. y \in Seq(B) /\ IsLayout(y, m, ids, parts, home, E)
      BY <2>2
    <3> HIDE DEF y
    <3>2. IsLayout(Together(y, ids[m + 1], parts[m + 1]), m + 1, ids, parts, home, E)
      BY <2>1, <3>1, OneMoreNative
    <3> QED
      BY <3>2 DEF y
  <2>8. W(k) \in Seq(B) /\ IsLayout(W(k), k, ids, parts, home, E) /\ k \in 0..N
    BY <1>1, <2>1, <2>6, <2>7
  <2> QED
    BY <2>8
<1>5. N \in S
  <2> HIDE DEF S
  <2> QED
    BY <1>1, <1>3, <1>4, InductionUpTo, N \in 0..N
<1>6. W(N) = w
  <2>1. w = FlattenSeq(g)
    OBVIOUS
  <2> HIDE DEF g
  <2>2. SubSeq(g, 1, N) = g
    BY <1>2
  <2> QED
    BY <2>1, <2>2
<1> HIDE DEF W
<1> QED
  BY <1>5, <1>6

\* The whole document: the elements without a parent stand at its end.
IsDocument(v, ids, parts, tail, home, E) ==
    /\ Kept(v, E) = [a \in 1..Len(ids) |-> ids[a]]
    /\ Distinct(v)
    /\ \A k \in 1..Len(v) : v[k] \in E => \E a \in 1..Len(ids) : v[k] = ids[a]
    /\ \A k \in 1..Len(v) : v[k] \notin E =>
          \/ \E b \in 1..Len(tail) : v[k] = tail[b] /\ \A r \in k..Len(v) : v[r] \notin E
          \/ /\ \E a \in 1..Len(ids) : \E b \in 1..Len(parts[a]) : v[k] = parts[a][b]
             /\ \E q \in 1..k : v[q] = home[v[k]] /\ \A r \in q + 1..k : v[r] \notin E
    /\ \A a \in 1..Len(ids) : \A b \in 1..Len(parts[a]) : \E k \in 1..Len(v) : v[k] = parts[a][b]
    /\ \A b \in 1..Len(tail) : \E k \in 1..Len(v) : v[k] = tail[b]

\* The tail is put behind the native elements and their parts.
LEMMA WholeDocument ==
    ASSUME NEW B, NEW ids \in Seq(B), NEW parts, NEW home, NEW E, NEW w \in Seq(B),
           IsLayout(w, Len(ids), ids, parts, home, E),
           \A a \in 1..Len(ids) : ids[a] \in E /\ IsPart(parts[a], ids[a], home, E),
           NEW none, none \notin E, NEW tail \in Seq(B), IsPart(tail, none, home, E)
    PROVE  w \o tail \in Seq(B) /\ IsDocument(w \o tail, ids, parts, tail, home, E)
<1> DEFINE v == w \o tail
           L == Len(w)
           M == Len(tail)
<1>1. v \in Seq(B) /\ Len(v) = L + M /\ L \in Nat /\ M \in Nat
  BY ConcatProperties
<1>2. \A k \in 1..L : k \in 1..Len(v) /\ v[k] = w[k]
  <2>1. \A k \in 1..L + M : v[k] = IF k <= L THEN w[k] ELSE tail[k - L]
    BY ConcatProperties
  <2> QED
    BY <1>1, <2>1
<1>3. \A b \in 1..M : L + b \in 1..Len(v) /\ v[L + b] = tail[b]
  <2>1. \A k \in 1..L + M : v[k] = IF k <= L THEN w[k] ELSE tail[k - L]
    BY ConcatProperties
  <2>2. \A b \in 1..M : L + b \in 1..L + M /\ ~(L + b <= L) /\ (L + b) - L = b
    BY <1>1
  <2> QED
    BY <1>1, <2>1, <2>2
<1>4. \A k \in 1..Len(v) : k \in 1..L \/ \E b \in 1..M : k = L + b
  <2> TAKE k \in 1..Len(v)
  <2>1. k \notin 1..L => k - L \in 1..M /\ k = L + (k - L)
    BY <1>1
  <2> QED
    BY <2>1
<1>5. \A b \in 1..M : tail[b] \notin E /\ home[tail[b]] = none
  BY DEF IsPart
<1>6. \A k \in 1..L : \A b \in 1..M : w[k] # tail[b]
  <2> SUFFICES ASSUME NEW k \in 1..L, NEW b \in 1..M, w[k] = tail[b] PROVE FALSE
    OBVIOUS
  <2>1. w[k] \notin E /\ home[w[k]] = none
    BY <1>5
  <2>2. PICK a \in 1..Len(ids) : \E c \in 1..Len(parts[a]) : w[k] = parts[a][c]
    BY <2>1 DEF IsLayout
  <2>3. home[w[k]] = ids[a] /\ ids[a] \in E
    BY <2>2 DEF IsPart
  <2> QED
    BY <2>1, <2>3
<1>7. Kept(v, E) = [a \in 1..Len(ids) |-> ids[a]]
  <2>1. Kept(w \o tail, E) = Kept(w, E)
    BY <1>5, KeptSkips
  <2> QED
    BY <2>1 DEF IsLayout
<1> HIDE DEF v, L, M
<1>8. Distinct(v)
  <2> SUFFICES ASSUME NEW k \in 1..Len(v), NEW m \in 1..Len(v), v[k] = v[m] PROVE k = m
    BY DEF Distinct
  <2>1. Distinct(w) /\ Distinct(tail)
    BY DEF IsLayout, IsPart
  <2>2. ASSUME NEW a \in 1..L, NEW b \in 1..M PROVE v[a] # v[L + b]
    BY <1>2, <1>3, <1>6
  <2>3. CASE k \in 1..L /\ m \in 1..L
    BY <1>2, <2>1, <2>3 DEF Distinct, L
  <2>4. ASSUME NEW b \in 1..M, k = L + b, NEW c \in 1..M, m = L + c PROVE k = m
    <3>1. tail[b] = tail[c]
      BY <1>3, <2>4
    <3> QED
      BY <2>1, <2>4, <3>1 DEF Distinct, M
  <2> QED
    BY <1>4, <2>2, <2>3, <2>4
<1>9. \A k \in 1..Len(v) : v[k] \in E => \E a \in 1..Len(ids) : v[k] = ids[a]
  <2> TAKE k \in 1..Len(v)
  <2>1. CASE k \in 1..L
    BY <1>2, <2>1 DEF IsLayout, L
  <2>2. CASE k \notin 1..L
    BY <1>3, <1>4, <1>5, <2>2
  <2> QED
    BY <2>1, <2>2
<1>10. /\ \A a \in 1..Len(ids) : \A b \in 1..Len(parts[a]) : \E k \in 1..Len(v) : v[k] = parts[a][b]
       /\ \A b \in 1..M : \E k \in 1..Len(v) : v[k] = tail[b]
  <2>1. ASSUME NEW a \in 1..Len(ids), NEW b \in 1..Len(parts[a])
        PROVE  \E k \in 1..Len(v) : v[k] = parts[a][b]
    <3>1. PICK k \in 1..L : w[k] = parts[a][b]
      BY ZenonT(40) DEF IsLayout, L
    <3> QED
      BY <1>2, <3>1
  <2> QED
    BY <1>3, <2>1
<1>11. ASSUME NEW k \in 1..Len(v), v[k] \notin E, k \in 1..L
       PROVE  /\ \E a \in 1..Len(ids) : \E b \in 1..Len(parts[a]) : v[k] = parts[a][b]
              /\ \E q \in 1..k : v[q] = home[v[k]] /\ \A r \in q + 1..k : v[r] \notin E
  <2>1. v[k] = w[k] /\ w[k] \notin E
    BY <1>2, <1>11
  <2>2. \E a \in 1..Len(ids) : \E b \in 1..Len(parts[a]) : w[k] = parts[a][b]
    BY <1>11, <2>1 DEF IsLayout, L
  <2>3. PICK q \in 1..k : w[q] = home[w[k]] /\ \A r \in q + 1..k : w[r] \notin E
    BY <1>11, <2>1 DEF IsLayout, L
  <2>4. q \in 1..L /\ \A r \in q + 1..k : r \in 1..L
    BY <1>1, <1>11
  <2>5. v[q] = home[v[k]] /\ \A r \in q + 1..k : v[r] \notin E
    BY <1>2, <2>1, <2>3, <2>4
  <2> QED
    BY <2>1, <2>2, <2>5
<1>12. ASSUME NEW b \in 1..M
       PROVE  \A r \in L + b..Len(v) : v[r] \notin E
  <2> TAKE r \in L + b..Len(v)
  <2>1. r \in 1..Len(v) /\ r \notin 1..L
    BY <1>1
  <2>2. PICK c \in 1..M : r = L + c
    BY <1>4, <2>1
  <2> QED
    BY <1>3, <1>5, <2>2
<1>13. \A k \in 1..Len(v) : v[k] \notin E =>
          \/ \E b \in 1..M : v[k] = tail[b] /\ \A r \in k..Len(v) : v[r] \notin E
          \/ /\ \E a \in 1..Len(ids) : \E b \in 1..Len(parts[a]) : v[k] = parts[a][b]
             /\ \E q \in 1..k : v[q] = home[v[k]] /\ \A r \in q + 1..k : v[r] \notin E
  <2> TAKE k \in 1..Len(v)
  <2>1. CASE k \in 1..L
    BY <1>11, <2>1
  <2>2. CASE k \notin 1..L
    <3>1. PICK b \in 1..M : k = L + b
      BY <1>4, <2>2
    <3>2. v[k] = tail[b] /\ \A r \in k..Len(v) : v[r] \notin E
      BY <1>3, <1>12, <3>1
    <3> QED
      BY <3>2
  <2> QED
    BY <2>1, <2>2
<1>14. IsDocument(v, ids, parts, tail, home, E)
  BY <1>7, <1>8, <1>9, <1>10, <1>13 DEF IsDocument, M
<1> QED
  BY <1>1, <1>14 DEF v

-----------------------------------------------------------------------------
(* Reconciliation: the observations of all results, and the ones accepted. *)

\* The members of w come from the first n sequences.
IsGathered(w, n, ss) ==
    /\ Distinct(w)
    /\ \A k \in 1..Len(w) : \E a \in 1..n : \E b \in 1..Len(ss[a]) : w[k] = ss[a][b]

\* Sequences without a member in common.
Apart(ss, n) ==
    /\ \A a \in 1..n : Distinct(ss[a])
    /\ \A a, b \in 1..n : a # b =>
          \A k \in 1..Len(ss[a]), m \in 1..Len(ss[b]) : ss[a][k] # ss[b][m]

\* One sequence more is put behind what is there.
LEMMA GatherOneMore ==
    ASSUME NEW B, NEW w \in Seq(B), NEW n \in Nat, NEW N \in Nat, n + 1 <= N, NEW ss,
           Apart(ss, N), IsGathered(w, n, ss), NEW t, t = ss[n + 1], t \in Seq(B)
    PROVE  w \o t \in Seq(B) /\ IsGathered(w \o t, n + 1, ss)
<1> DEFINE v == w \o t
           L == Len(w)
           M == Len(t)
<1>1. v \in Seq(B) /\ Len(v) = L + M /\ L \in Nat /\ M \in Nat
  BY ConcatProperties
<1>2. \A k \in 1..L : k \in 1..Len(v) /\ v[k] = w[k]
  <2>1. \A k \in 1..L + M : v[k] = IF k <= L THEN w[k] ELSE t[k - L]
    BY ConcatProperties
  <2> QED
    BY <1>1, <2>1
<1>3. \A b \in 1..M : L + b \in 1..Len(v) /\ v[L + b] = t[b]
  <2>1. \A k \in 1..L + M : v[k] = IF k <= L THEN w[k] ELSE t[k - L]
    BY ConcatProperties
  <2>2. \A b \in 1..M : L + b \in 1..L + M /\ ~(L + b <= L) /\ (L + b) - L = b
    BY <1>1
  <2> QED
    BY <1>1, <2>1, <2>2
<1>4. \A k \in 1..Len(v) : k \in 1..L \/ \E b \in 1..M : k = L + b
  <2> TAKE k \in 1..Len(v)
  <2>1. k \notin 1..L => k - L \in 1..M /\ k = L + (k - L)
    BY <1>1
  <2> QED
    BY <2>1
<1>5. /\ n + 1 \in 1..n + 1 /\ n + 1 \in 1..N
      /\ \A a \in 1..n : a \in 1..N /\ a \in 1..n + 1 /\ a # n + 1
  OBVIOUS
<1>6. \A k \in 1..L : \A b \in 1..M : w[k] # t[b]
  <2> SUFFICES ASSUME NEW k \in 1..L, NEW b \in 1..M, w[k] = t[b] PROVE FALSE
    OBVIOUS
  <2>1. PICK a \in 1..n : \E c \in 1..Len(ss[a]) : w[k] = ss[a][c]
    BY DEF IsGathered
  <2> QED
    BY <1>5, <2>1 DEF Apart
<1> HIDE DEF v, L, M
<1>7. Distinct(v)
  <2> SUFFICES ASSUME NEW k \in 1..Len(v), NEW m \in 1..Len(v), v[k] = v[m] PROVE k = m
    BY DEF Distinct
  <2>1. Distinct(w) /\ Distinct(t)
    BY <1>5 DEF IsGathered, Apart
  <2>2. ASSUME NEW a \in 1..L, NEW b \in 1..M PROVE v[a] # v[L + b]
    BY <1>2, <1>3, <1>6
  <2>3. CASE k \in 1..L /\ m \in 1..L
    BY <1>2, <2>1, <2>3 DEF Distinct, L
  <2>4. ASSUME NEW b \in 1..M, k = L + b, NEW c \in 1..M, m = L + c PROVE k = m
    <3>1. t[b] = t[c]
      BY <1>3, <2>4
    <3> QED
      BY <2>1, <2>4, <3>1 DEF Distinct, M
  <2> QED
    BY <1>4, <2>2, <2>3, <2>4
<1>8. \A k \in 1..Len(v) : \E a \in 1..n + 1 : \E b \in 1..Len(ss[a]) : v[k] = ss[a][b]
  <2> TAKE k \in 1..Len(v)
  <2>1. CASE k \in 1..L
    <3>1. PICK a \in 1..n : \E b \in 1..Len(ss[a]) : w[k] = ss[a][b]
      BY <2>1 DEF IsGathered, L
    <3> QED
      BY <1>2, <1>5, <2>1, <3>1
  <2>2. CASE k \notin 1..L
    BY <1>3, <1>4, <1>5, <2>2 DEF M
  <2> QED
    BY <2>1, <2>2
<1>9. IsGathered(v, n + 1, ss)
  BY <1>7, <1>8 DEF IsGathered
<1> QED
  BY <1>1, <1>9 DEF v

\* Sequences without a member in common, one behind the other.
LEMMA GatherAll ==
    ASSUME NEW B, NEW ss \in Seq(Seq(B)), Apart(ss, Len(ss))
    PROVE  FlattenSeq(ss) \in Seq(B) /\ IsGathered(FlattenSeq(ss), Len(ss), ss)
<1> DEFINE N == Len(ss)
           W(n) == FlattenSeq(SubSeq(ss, 1, n))
           S == {n \in 0..N : W(n) \in Seq(B) /\ IsGathered(W(n), n, ss)}
<1>1. N \in Nat /\ \A a \in 1..N : ss[a] \in Seq(B)
  OBVIOUS
<1>2. 0 \in S
  <2>1. SubSeq(ss, 1, 0) = <<>>
    OBVIOUS
  <2>2. W(0) = <<>>
    BY <2>1 DEF FlattenSeq
  <2>3. IsGathered(<<>>, 0, ss)
    BY DEF IsGathered, Distinct
  <2>4. 0 \in 0..N /\ <<>> \in Seq(B)
    BY <1>1
  <2>5. W(0) \in Seq(B) /\ IsGathered(W(0), 0, ss)
    BY <2>2, <2>3, <2>4
  <2> HIDE DEF W
  <2> QED
    BY <2>4, <2>5
<1>3. ASSUME NEW k \in 1..N, k - 1 \in S PROVE k \in S
  <2>1. PICK m \in Nat : k = m + 1 /\ m + 1 <= N
    BY <1>1, k - 1 \in Nat /\ k = (k - 1) + 1
  <2>2. W(m) \in Seq(B) /\ IsGathered(W(m), m, ss)
    BY <1>3, <2>1
  <2>3. ss[m + 1] \in Seq(B)
    BY <1>1, <2>1
  <2>4. W(m + 1) = W(m) \o ss[m + 1]
    <3> DEFINE h == SubSeq(ss, 1, m)
    <3>1. h \in Seq(Seq(B)) /\ SubSeq(ss, 1, m + 1) = Append(h, ss[m + 1])
      BY <2>1
    <3> HIDE DEF h
    <3>2. FlattenSeq(Append(h, ss[m + 1])) = FlattenSeq(h) \o ss[m + 1]
      BY <2>3, <3>1, FlattenAppend
    <3> QED
      BY <3>1, <3>2 DEF h
  <2>5. W(m) \o ss[m + 1] \in Seq(B) /\ IsGathered(W(m) \o ss[m + 1], m + 1, ss)
    <3> DEFINE y == W(m)
               t == ss[m + 1]
    <3>1. y \in Seq(B) /\ IsGathered(y, m, ss) /\ t \in Seq(B) /\ t = ss[m + 1]
      BY <2>2, <2>3
    <3> HIDE DEF y, t
    <3>2. y \o t \in Seq(B) /\ IsGathered(y \o t, m + 1, ss)
      BY <1>1, <2>1, <3>1, GatherOneMore
    <3> QED
      BY <3>2 DEF y, t
  <2> HIDE DEF W
  <2>6. W(k) \in Seq(B) /\ IsGathered(W(k), k, ss) /\ k \in 0..N
    <3>1. W(m + 1) \in Seq(B) /\ IsGathered(W(m + 1), m + 1, ss)
      BY ONLY <2>4, <2>5
    <3> QED
      BY <1>1, <2>1, <3>1
  <2> QED
    BY <2>6
<1>4. N \in S
  <2> HIDE DEF S
  <2> QED
    BY <1>1, <1>2, <1>3, InductionUpTo, N \in 0..N
<1>5. SubSeq(ss, 1, N) = ss
  BY <1>1
<1> QED
  BY <1>4, <1>5

\* The k-th observation of the reading for the n-th candidate.
Seen(n, k) == Reading(doc.candidates[n].image, doc.candidates[n])[k]

TextsOf(n) == ImageOf[doc.candidates[n].image].texts

\* All observations there may be.
AllSeen == UNION {{Seen(n, k) : k \in 1..Len(TextsOf(n))} : n \in 1..Count}

\* What it says, and of which candidate.
IsSeen(o, n, k) ==
    /\ n \in 1..Count /\ k \in 1..Len(TextsOf(n))
    /\ o = Seen(n, k)
    /\ o.text = TextsOf(n)[k].text
    /\ o.candidate = doc.candidates[n].id
    /\ o.element = doc.candidates[n].element
    /\ o.order = k

\* An observation of the reading for a candidate.
LEMMA SeenFacts ==
    ASSUME InputsAreValid, doc \in Documents, NEW n \in 1..Count
    PROVE  /\ Len(TextsOf(n)) \in Nat
           /\ \A k \in 1..Len(TextsOf(n)) : IsSeen(Seen(n, k), n, k) /\ Seen(n, k) \in AllSeen
<1> DEFINE c == doc.candidates[n]
           x == c.image
           texts == ImageOf[x].texts
           E(k) == [text |-> texts[k].text, conf |-> texts[k].conf, order |-> k,
                    candidate |-> c.id, element |-> c.element, page |-> c.page]
<1>1. x \in Images
  BY DEF InputsAreValid, DocumentsAreValid, Count
<1>2. Len(texts) \in Nat /\ DOMAIN texts = 1..Len(texts)
  BY <1>1 DEF InputsAreValid, DocumentsAreValid
<1>3. \A k \in 1..Len(texts) : Seen(n, k) = E(k)
  BY <1>2 DEF Seen, Reading, Normalize
<1>4. \A k : /\ E(k).text = texts[k].text /\ E(k).candidate = c.id
             /\ E(k).element = c.element /\ E(k).order = k
  OBVIOUS
<1>5. texts = TextsOf(n)
  BY DEF TextsOf
<1> HIDE DEF E, texts
<1>6. \A k \in 1..Len(TextsOf(n)) : IsSeen(Seen(n, k), n, k)
  BY <1>3, <1>4, <1>5 DEF IsSeen
<1>7. \A k \in 1..Len(TextsOf(n)) : Seen(n, k) \in AllSeen
  BY DEF AllSeen
<1> QED
  BY <1>2, <1>5, <1>6, <1>7

\* What is retained of the reading for a candidate.
LEMMA RetainedOfReading ==
    ASSUME InputsAreValid, doc \in Documents, NEW n \in 1..Count,
           NEW t, t = Retained(Reading(doc.candidates[n].image, doc.candidates[n]))
    PROVE  /\ t \in Seq(AllSeen) /\ Distinct(t)
           /\ \A m \in 1..Len(t) : \E k \in 1..Len(TextsOf(n)) : t[m] = Seen(n, k)
<1> DEFINE c == doc.candidates[n]
           s == Reading(c.image, c)
           N == Len(TextsOf(n))
<1>1. c.image \in Images
  BY DEF InputsAreValid, DocumentsAreValid, Count
<1>2. DocumentsAreValid
  BY DEF InputsAreValid
<1>3. N \in Nat /\ DOMAIN s = 1..N
  BY <1>1, <1>2, ReadingFacts DEF TextsOf
<1>4. \A k \in 1..N : s[k] = Seen(n, k)
  BY DEF Seen
<1>5. \A k \in 1..N : IsSeen(Seen(n, k), n, k) /\ Seen(n, k) \in AllSeen
  BY SeenFacts
<1>6. s = [k \in 1..N |-> s[k]]
  <2>1. s = [k \in DOMAIN s |-> s[k]]
    BY DEF Reading, Normalize
  <2> HIDE DEF s
  <2> QED
    BY <1>3, <2>1
<1>7. t = Retained(s)
  OBVIOUS
<1> HIDE DEF s, N, c
<1>8. s \in Seq(AllSeen) /\ Len(s) = N
  BY <1>3, <1>4, <1>5, <1>6
<1>9. Distinct(s)
  <2> SUFFICES ASSUME NEW a \in 1..N, NEW b \in 1..N, s[a] = s[b] PROVE a = b
    BY <1>8 DEF Distinct
  <2>1. s[a].order = a /\ s[b].order = b
    BY <1>4, <1>5 DEF IsSeen
  <2> QED
    BY <2>1
<1>10. PICK T : t = Kept(s, T)
  BY <1>3, <1>7, <1>8, RetainedFacts
<1>11. t \in Seq(AllSeen) /\ Holds(t, s, N, T)
  BY <1>8, <1>10, KeptMembers
<1> QED
  BY <1>4, <1>9, <1>11 DEF Holds, N

\* The observations of all results: no two alike, each of the reading for a candidate.
LEMMA ObservationsFacts ==
    ASSUME InputsAreValid, OcrInv, ValidInputs
    PROVE  /\ Observations \in Seq(AllSeen) /\ Distinct(Observations)
           /\ \A m \in 1..Len(Observations) : \E n, k : IsSeen(Observations[m], n, k)
<1> DEFINE N == Len(results)
           ss == [n \in DOMAIN results |-> results[n].observations]
<1>1. doc \in Documents /\ N \in Nat /\ DOMAIN results = 1..N /\ N <= Count /\ Count \in Nat
  <2>1. PICK R : results \in Seq(R)
    BY DEF OcrInv, TurnInv, IsTuple
  <2>2. Count \in Nat /\ doc \in Documents
    BY DEF OcrInv, TurnInv, InputsAreValid, DocumentsAreValid, Count
  <2>3. i \in Nat \ {0} /\ N = i - 1 /\ i <= Count + 1
    BY DEF OcrInv, TurnInv
  <2> QED
    BY <2>1, <2>2, <2>3
<1>2. \A n \in 1..N : n \in 1..Count /\ Credit(results[n], doc.candidates[n])
  BY <1>1 DEF OcrInv, ReadInv
<1>3. ASSUME NEW n \in 1..N
      PROVE  /\ ss[n] \in Seq(AllSeen) /\ Distinct(ss[n])
             /\ \A m \in 1..Len(ss[n]) : \E k \in 1..Len(TextsOf(n)) : ss[n][m] = Seen(n, k)
  <2> DEFINE t == results[n].observations
             c == doc.candidates[n]
  <2>1. ss[n] = t
    BY <1>1
  <2>2. t = <<>> \/ t = Retained(Reading(c.image, c))
    BY <1>2 DEF Credit
  <2> HIDE DEF t
  <2> HIDE DEF ss
  <2>5. /\ t \in Seq(AllSeen) /\ Distinct(t)
        /\ \A m \in 1..Len(t) : \E k \in 1..Len(TextsOf(n)) : t[m] = Seen(n, k)
    <3>1. CASE t = <<>>
      BY <3>1 DEF Distinct
    <3>2. CASE t = Retained(Reading(c.image, c))
      BY <1>1, <1>2, <3>2, RetainedOfReading
    <3> QED
      BY <2>2, <3>1, <3>2
  <2> QED
    BY <2>1, <2>5
<1>4. ss \in Seq(Seq(AllSeen)) /\ Len(ss) = N
  <2>1. ss = [n \in 1..N |-> ss[n]]
    BY <1>1
  <2> HIDE DEF ss
  <2> QED
    BY <1>1, <1>3, <2>1
<1>5. Observations = FlattenSeq(ss)
  BY DEF Observations
<1> HIDE DEF ss, N
<1>6. \A n \in 1..N : \A m \in 1..Len(ss[n]) : \E k : IsSeen(ss[n][m], n, k)
  <2> SUFFICES ASSUME NEW n \in 1..N, NEW m \in 1..Len(ss[n]) PROVE \E k : IsSeen(ss[n][m], n, k)
    OBVIOUS
  <2>1. PICK k \in 1..Len(TextsOf(n)) : ss[n][m] = Seen(n, k)
    BY <1>3
  <2>2. IsSeen(Seen(n, k), n, k)
    BY <1>1, <1>2, SeenFacts
  <2> QED
    BY <2>1, <2>2
<1>7. Apart(ss, N)
  <2>1. ASSUME NEW a \in 1..N, NEW b \in 1..N, a # b,
               NEW k \in 1..Len(ss[a]), NEW m \in 1..Len(ss[b]), ss[a][k] = ss[b][m]
        PROVE  FALSE
    <3>1. doc.candidates[a].id = doc.candidates[b].id
      <4>1. PICK p : IsSeen(ss[a][k], a, p)
        BY <1>6
      <4>2. PICK q : IsSeen(ss[b][m], b, q)
        BY <1>6
      <4> QED
        BY <2>1, <4>1, <4>2 DEF IsSeen
    <3>2. a \in 1..Count /\ b \in 1..Count
      BY <1>2
    <3> QED
      BY <2>1, <3>1, <3>2 DEF ValidInputs, Count
  <2> QED
    BY <1>3, <2>1 DEF Apart
<1>8. Observations \in Seq(AllSeen) /\ IsGathered(Observations, N, ss)
  BY <1>4, <1>5, <1>7, GatherAll
<1>9. ASSUME NEW m \in 1..Len(Observations) PROVE \E n, k : IsSeen(Observations[m], n, k)
  <2>1. PICK n \in 1..N : \E b \in 1..Len(ss[n]) : Observations[m] = ss[n][b]
    BY <1>8 DEF IsGathered
  <2>2. PICK b \in 1..Len(ss[n]) : Observations[m] = ss[n][b]
    BY <2>1
  <2>3. PICK k : IsSeen(ss[n][b], n, k)
    BY <1>6
  <2> QED
    BY <2>2, <2>3
<1> QED
  BY <1>8, <1>9 DEF IsGathered

\* The elements that may be accepted.
AllElements == {Element(o) : o \in AllSeen}

\* An observation is accepted or not.
LEMMA AcceptFacts ==
    ASSUME NEW t \in Seq(AllElements), NEW o \in AllSeen
    PROVE  /\ Accept(t, o) \in Seq(AllElements)
           /\ Accept(t, o) = t \/ Accept(t, o) = Append(t, Element(o))
<1> DEFINE e == Element(o)
<1>1. e \in AllElements
  BY DEF AllElements
<1>2. Accept(t, o) = t \/ Accept(t, o) = Append(t, e)
  BY DEF Accept
<1> HIDE DEF e
<1>3. Append(t, e) \in Seq(AllElements)
  BY <1>1
<1> QED
  BY <1>2, <1>3 DEF e

\* What Accepted computes, one observation at a time.
IsAcceptance(u, obs, n) ==
    /\ u \in [0..n -> Seq(AllElements)]
    /\ Accepted = u[n]
    /\ u[0] = <<>>
    /\ \A k \in 1..n : u[k] = u[k - 1] \/ u[k] = Append(u[k - 1], Element(obs[k]))

\* It has such a sequence of partial results.
LEMMA AcceptedRecursion ==
    ASSUME Observations \in Seq(AllSeen)
    PROVE  \E u : IsAcceptance(u, Observations, Len(Observations))
<1> DEFINE obs == Observations
           n == Len(obs)
           B == AllElements
           Solves(f) == f = [k \in 0..n |-> IF k = 0 THEN <<>> ELSE Accept(f[k - 1], obs[k])]
           u == CHOOSE f : Solves(f)
           step == [k \in 1..n |-> [x \in Seq(B) |-> Accept(x, obs[k])]]
<1>1. Accepted = u[n]
  BY DEF Accepted
<1>2. n \in Nat /\ \A k \in 1..n : obs[k] \in AllSeen
  OBVIOUS
<1> HIDE DEF obs, n, B
<1>3. \A k \in 1..n : \A x \in Seq(B) :
         Accept(x, obs[k]) \in Seq(B)
         /\ (Accept(x, obs[k]) = x \/ Accept(x, obs[k]) = Append(x, Element(obs[k])))
  BY <1>2, AcceptFacts DEF B
<1>4. PICK f : IsRecursion(f, n, Seq(B), <<>>, step)
  <2>1. IsStep(step, n, Seq(B)) /\ <<>> \in Seq(B)
    BY <1>2, <1>3 DEF IsStep
  <2> HIDE DEF step
  <2> QED
    BY <1>2, <2>1, RecursionUpTo
<1>5. f \in [0..n -> Seq(B)] /\ f[0] = <<>> /\ \A k \in 1..n : f[k] = Accept(f[k - 1], obs[k])
  <2>1. f \in [0..n -> Seq(B)] /\ f[0] = <<>> /\ \A k \in 1..n : f[k] = step[k][f[k - 1]]
    <3> HIDE DEF step
    <3> QED
      BY <1>4 DEF IsRecursion
  <2>2. ASSUME NEW k \in 1..n PROVE f[k] = Accept(f[k - 1], obs[k])
    <3>1. k - 1 \in 0..n
      BY <1>2
    <3>2. f[k - 1] \in Seq(B)
      BY <2>1, <3>1
    <3>3. step[k][f[k - 1]] = Accept(f[k - 1], obs[k])
      BY <3>2
    <3> QED
      BY <2>1, <3>3
  <2> QED
    BY <2>1, <2>2
<1>6. Solves(f)
  <2>1. f = [k \in 0..n |-> f[k]]
    BY <1>5
  <2>2. \A k \in 0..n : f[k] = IF k = 0 THEN <<>> ELSE Accept(f[k - 1], obs[k])
    <3> TAKE k \in 0..n
    <3>1. k = 0 \/ k \in 1..n
      BY <1>2
    <3> QED
      BY <1>5, <3>1
  <2> QED
    BY <2>1, <2>2
<1>7. Solves(u)
  BY <1>6
<1> HIDE DEF u
<1>8. \A k \in 0..n : u[k] = IF k = 0 THEN <<>> ELSE Accept(u[k - 1], obs[k])
  BY <1>7
<1>9. u[0] = <<>> /\ \A k \in 1..n : u[k] = Accept(u[k - 1], obs[k])
  <2>1. 0 \in 0..n /\ \A k \in 1..n : k \in 0..n /\ k # 0
    BY <1>2
  <2> QED
    BY <1>8, <2>1
<1>10. \A k \in 0..n : u[k] \in Seq(B)
  <2> DEFINE S == {k \in 0..n : u[k] \in Seq(B)}
  <2>1. 0 \in S
    <3>1. 0 \in 0..n /\ <<>> \in Seq(B)
      BY <1>2
    <3> QED
      BY <1>9, <3>1
  <2>2. ASSUME NEW k \in 1..n, k - 1 \in S PROVE k \in S
    <3>1. u[k - 1] \in Seq(B) /\ k \in 0..n
      BY <1>2, <2>2
    <3> QED
      BY <1>3, <1>9, <3>1
  <2> HIDE DEF S
  <2>3. \A k \in 0..n : k \in S
    BY <1>2, <2>1, <2>2, InductionUpTo
  <2> QED
    BY <2>3 DEF S
<1>11. u \in [0..n -> Seq(B)]
  BY <1>7, <1>10
<1>12. \A k \in 1..n : u[k] = u[k - 1] \/ u[k] = Append(u[k - 1], Element(obs[k]))
  <2> TAKE k \in 1..n
  <2>1. u[k - 1] \in Seq(B)
    BY <1>2, <1>10, k - 1 \in 0..n
  <2> QED
    BY <1>3, <1>9, <2>1
<1>13. IsAcceptance(u, obs, n)
  BY <1>1, <1>9, <1>11, <1>12 DEF IsAcceptance, B
<1> HIDE DEF u
<1> QED
  BY <1>13 DEF obs, n

\* What is known of an accepted element.
LEMMA ElementFacts ==
    ASSUME NEW o
    PROVE  Element(o).id = ElementId(o.candidate, o.order, o.text) /\ Element(o).parent = o.element
<1> QED
  BY DEF Element

\* Two observations with the same element id are the same.
LEMMA SameId ==
    ASSUME ValidInputs, NEW o, NEW p, NEW n, NEW k, NEW m, NEW l,
           IsSeen(o, n, k), IsSeen(p, m, l), Element(o).id = Element(p).id
    PROVE  o = p
<1>1. o.candidate = p.candidate /\ o.order = p.order
  <2>1. ElementId(o.candidate, o.order, o.text) = ElementId(p.candidate, p.order, p.text)
    BY ElementFacts
  <2> QED
    BY <2>1, Zenon DEF ElementId
<1>2. k = l
  BY <1>1 DEF IsSeen
<1>3. doc.candidates[n].id = doc.candidates[m].id /\ n \in 1..Count /\ m \in 1..Count
  BY <1>1 DEF IsSeen
<1>4. n = m
  BY <1>3 DEF ValidInputs, Count
<1> QED
  BY <1>2, <1>4 DEF IsSeen

\* No two elements of t have the same id, and each stands for one of the
\* observations up to k.
IsChosen(t, k, obs) ==
    /\ \A a, b \in 1..Len(t) : t[a].id = t[b].id => a = b
    /\ \A a \in 1..Len(t) : \E q \in 1..k : t[a] = Element(obs[q])

\* The accepted elements.
LEMMA AcceptedFacts ==
    ASSUME InputsAreValid, OcrInv, ValidInputs
    PROVE  Accepted \in Seq(AllElements) /\ IsChosen(Accepted, Len(Observations), Observations)
<1> DEFINE obs == Observations
           n == Len(obs)
<1>1. /\ obs \in Seq(AllSeen) /\ Distinct(obs)
      /\ \A m \in 1..n : \E a, k : IsSeen(obs[m], a, k)
  BY ObservationsFacts
<1>2. PICK u : IsAcceptance(u, obs, n)
  BY <1>1, AcceptedRecursion
<1>3. n \in Nat
  BY <1>1
<1> HIDE DEF obs, n
<1>4. ASSUME NEW a \in 1..n, NEW b \in 1..n, Element(obs[a]).id = Element(obs[b]).id PROVE a = b
  <2>1. PICK c, k : IsSeen(obs[a], c, k)
    BY <1>1
  <2>2. PICK d, l : IsSeen(obs[b], d, l)
    BY <1>1
  <2>3. obs[a] = obs[b]
    BY <1>4, <2>1, <2>2, SameId
  <2> QED
    BY <1>1, <2>3 DEF Distinct, n
<1> DEFINE S == {k \in 0..n : IsChosen(u[k], k, obs)}
<1>5. 0 \in S
  <2>1. u[0] = <<>>
    BY <1>2 DEF IsAcceptance
  <2>2. IsChosen(<<>>, 0, obs)
    BY DEF IsChosen
  <2> QED
    BY <1>3, <2>1, <2>2
<1>6. ASSUME NEW k \in 1..n, k - 1 \in S PROVE k \in S
  <2> DEFINE t == u[k - 1]
             e == Element(obs[k])
             v == Append(t, e)
             L == Len(t)
  <2>1. t \in Seq(AllElements) /\ (u[k] = t \/ u[k] = v)
    <3>1. k - 1 \in 0..n
      BY <1>3
    <3> QED
      BY <1>2, <3>1 DEF IsAcceptance
  <2>2. IsChosen(t, k - 1, obs)
    BY <1>6
  <2>3. \A q \in 1..(k - 1) : q \in 1..k /\ q # k /\ q \in 1..n
    BY <1>3
  <2>4. k \in 1..k /\ k \in 0..n
    BY <1>3
  <2> HIDE DEF t, e
  <2>5. CASE u[k] = t
    <3>1. IsChosen(t, k, obs)
      BY <2>2, <2>3 DEF IsChosen
    <3> QED
      BY <2>4, <2>5, <3>1
  <2>6. CASE u[k] = v
    <3>1. L \in Nat /\ Len(v) = L + 1 /\ v[L + 1] = e /\ \A a \in 1..L : v[a] = t[a]
      BY <2>1
    <3> HIDE DEF v, L
    <3>2. \A a \in 1..Len(v) : a = L + 1 \/ a \in 1..L
      BY <3>1
    <3>3. \A a \in 1..L : t[a].id # e.id
      <4> SUFFICES ASSUME NEW a \in 1..L, t[a].id = e.id PROVE FALSE
        OBVIOUS
      <4>1. PICK q \in 1..(k - 1) : t[a] = Element(obs[q])
        BY <2>2 DEF IsChosen, L
      <4> QED
        BY <1>4, <2>3, <4>1 DEF e
    <3>4. ASSUME NEW a \in 1..Len(v), NEW b \in 1..Len(v), v[a].id = v[b].id PROVE a = b
      <4>1. CASE a \in 1..L /\ b \in 1..L
        BY <2>2, <3>1, <3>4, <4>1 DEF IsChosen, L
      <4>2. CASE a = L + 1 /\ b \in 1..L
        BY <3>1, <3>3, <3>4, <4>2
      <4>3. CASE b = L + 1 /\ a \in 1..L
        BY <3>1, <3>3, <3>4, <4>3
      <4> QED
        BY <3>2, <4>1, <4>2, <4>3
    <3>5. ASSUME NEW a \in 1..Len(v) PROVE \E q \in 1..k : v[a] = Element(obs[q])
      <4>1. CASE a = L + 1
        BY <2>4, <3>1, <4>1 DEF e
      <4>2. CASE a \in 1..L
        <5>1. \E q \in 1..(k - 1) : t[a] = Element(obs[q])
          BY <2>2, <4>2 DEF IsChosen, L
        <5> QED
          BY <2>3, <3>1, <4>2, <5>1
      <4> QED
        BY <3>2, <4>1, <4>2
    <3>6. IsChosen(v, k, obs)
      BY <3>4, <3>5 DEF IsChosen
    <3> QED
      BY <2>4, <2>6, <3>6
  <2> QED
    BY <2>1, <2>5, <2>6
<1>7. n \in S
  <2> HIDE DEF S
  <2> QED
    BY <1>3, <1>5, <1>6, InductionUpTo, n \in 0..n
<1>8. u[n] \in Seq(AllElements) /\ Accepted = u[n]
  BY <1>2, <1>3, n \in 0..n DEF IsAcceptance
<1> QED
  BY <1>7, <1>8 DEF obs, n

-----------------------------------------------------------------------------
(* The merge.                                                              *)

\* What may stand in accepted: elements with ids of their own, below a native
\* element or at the end.
IsEnrichment ==
    /\ accepted \in Seq(AllElements)
    /\ \A a, b \in 1..Len(accepted) : accepted[a].id = accepted[b].id => a = b
    /\ \A a \in 1..Len(accepted) : /\ accepted[a].id \notin ElementIds
                                   /\ accepted[a].parent \in ElementIds \cup {Null}

\* Reconciliation leaves that.
LEMMA AcceptedElements ==
    ASSUME InputsAreValid, OcrInv, ValidInputs, accepted = Accepted
    PROVE  IsEnrichment
<1>1. accepted \in Seq(AllElements) /\ IsChosen(accepted, Len(Observations), Observations)
  BY AcceptedFacts
<1>2. doc \in Documents
  BY DEF OcrInv, TurnInv
<1>3. ASSUME NEW a \in 1..Len(accepted)
      PROVE  accepted[a].id \notin ElementIds /\ accepted[a].parent \in ElementIds \cup {Null}
  <2>1. PICK q \in 1..Len(Observations) : accepted[a] = Element(Observations[q])
    BY <1>1 DEF IsChosen
  <2>2. PICK n, k : IsSeen(Observations[q], n, k)
    BY ObservationsFacts
  <2>3. /\ n \in 1..Len(doc.candidates)
        /\ doc.candidates[n].image \in Images
        /\ k \in 1..Len(ImageOf[doc.candidates[n].image].texts)
    BY <1>2, <2>2 DEF IsSeen, InputsAreValid, DocumentsAreValid, Count, TextsOf
  <2>4. /\ accepted[a].id = ElementId(doc.candidates[n].id, k,
                                      ImageOf[doc.candidates[n].image].texts[k].text)
        /\ accepted[a].parent = doc.candidates[n].element
    BY <2>1, <2>2, ElementFacts DEF IsSeen, TextsOf
  <2>5. \A m \in 1..Len(doc.native) :
           doc.native[m].id # ElementId(doc.candidates[n].id, k,
                                        ImageOf[doc.candidates[n].image].texts[k].text)
    BY <1>2, <2>3 DEF InputsAreValid, ElementIdsAreValid
  <2>6. accepted[a].id \notin ElementIds
    BY <2>4, <2>5 DEF ElementIds
  <2>7. doc.candidates[n].element \in ElementIds \cup {Null}
    BY <2>3 DEF ValidInputs
  <2> QED
    BY <2>4, <2>6, <2>7
<1> QED
  BY <1>1, <1>3 DEF IsChosen, IsEnrichment

NativeIds == [n \in 1..Len(doc.native) |-> doc.native[n].id]

AllIds == ElementIds \cup {accepted[k].id : k \in 1..Len(accepted)}

\* The parent of the accepted element with an id.
Home == [x \in {accepted[k].id : k \in 1..Len(accepted)} |->
            accepted[CHOOSE k \in 1..Len(accepted) : accepted[k].id = x].parent]

IdsUnder(p) == [k \in DOMAIN InsertsUnder(p) |-> InsertsUnder(p)[k].id]

Parts == [n \in 1..Len(doc.native) |-> IdsUnder(doc.native[n].id)]

\* What Home says.
LEMMA HomeFacts ==
    ASSUME IsEnrichment, NEW a \in 1..Len(accepted)
    PROVE  Home[accepted[a].id] = accepted[a].parent
<1> DEFINE x == accepted[a].id
           c == CHOOSE k \in 1..Len(accepted) : accepted[k].id = x
<1>1. c \in 1..Len(accepted) /\ accepted[c].id = x
  OBVIOUS
<1>2. c = a
  BY <1>1 DEF IsEnrichment
<1>3. x \in {accepted[k].id : k \in 1..Len(accepted)}
  OBVIOUS
<1>4. Home[x] = accepted[c].parent
  BY <1>3 DEF Home
<1> QED
  BY <1>2, <1>4

\* The ids below a parent: those of the accepted elements that name it.
LEMMA UnderFacts ==
    ASSUME IsEnrichment, NEW p
    PROVE  /\ IdsUnder(p) \in Seq(AllIds)
           /\ IsPart(IdsUnder(p), p, Home, ElementIds)
           /\ \A b \in 1..Len(IdsUnder(p)) : \E a \in 1..Len(accepted) :
                 IdsUnder(p)[b] = accepted[a].id /\ accepted[a].parent = p
           /\ \A a \in 1..Len(accepted) : accepted[a].parent = p =>
                 \E b \in 1..Len(IdsUnder(p)) : IdsUnder(p)[b] = accepted[a].id
<1> DEFINE T == Children(p)
           t == InsertsUnder(p)
           d == IdsUnder(p)
           A == Len(accepted)
<1>1. accepted \in Seq(AllElements) /\ A \in Nat /\ DOMAIN accepted = 1..A
  BY DEF IsEnrichment
<1>2. t \in Seq(AllElements) /\ Holds(t, accepted, A, T)
  BY <1>1, KeptMembers DEF InsertsUnder
<1>3. \A a \in 1..A : accepted[a] \in T <=> accepted[a].parent = p
  BY <1>1 DEF Children, ToSet
<1>4. Len(t) \in Nat /\ Len(d) = Len(t) /\ DOMAIN d = 1..Len(t) /\ d = [b \in 1..Len(t) |-> d[b]]
      /\ \A b \in 1..Len(t) : d[b] = t[b].id
  BY <1>2 DEF IdsUnder
<1> HIDE DEF t, d, T, A
<1>5. \A b \in 1..Len(d) : \E a \in 1..A : d[b] = accepted[a].id /\ accepted[a].parent = p /\ t[b] = accepted[a]
  <2> TAKE b \in 1..Len(d)
  <2>1. t[b] \in T
    BY <1>2, <1>4 DEF Holds
  <2>2. PICK a \in 1..A : t[b] = accepted[a]
    BY <1>2, <1>4 DEF Holds
  <2> QED
    BY <1>3, <1>4, <2>1, <2>2
<1>6. \A a \in 1..A : accepted[a].parent = p => \E b \in 1..Len(d) : d[b] = accepted[a].id
  BY <1>2, <1>3, <1>4 DEF Holds
<1>7. d \in Seq(AllIds)
  <2>1. \A b \in 1..Len(t) : d[b] \in AllIds
    BY <1>4, <1>5 DEF AllIds, A
  <2> QED
    BY <1>4, <2>1
<1>8. Distinct(d)
  <2> SUFFICES ASSUME NEW b \in 1..Len(d), NEW c \in 1..Len(d), d[b] = d[c] PROVE b = c
    BY DEF Distinct
  <2>1. PICK a \in 1..A : d[b] = accepted[a].id /\ t[b] = accepted[a]
    BY <1>5
  <2>2. PICK e \in 1..A : d[c] = accepted[e].id /\ t[c] = accepted[e]
    BY <1>5
  <2>3. a = e
    BY <2>1, <2>2 DEF IsEnrichment, A
  <2>4. Distinct(accepted)
    BY DEF Distinct, IsEnrichment
  <2>5. Distinct(t)
    BY <1>2, <2>4 DEF Holds
  <2> QED
    BY <1>4, <2>1, <2>2, <2>3, <2>5 DEF Distinct
<1>9. ASSUME NEW b \in 1..Len(d) PROVE d[b] \notin ElementIds /\ Home[d[b]] = p
  <2>1. PICK a \in 1..A : d[b] = accepted[a].id /\ accepted[a].parent = p
    BY <1>5
  <2>2. Home[accepted[a].id] = accepted[a].parent
    BY HomeFacts DEF A
  <2> QED
    BY <2>1, <2>2 DEF IsEnrichment, A
<1>10. IsPart(d, p, Home, ElementIds)
  BY <1>8, <1>9 DEF IsPart
<1> QED
  BY <1>5, <1>6, <1>7, <1>10 DEF d, A

\* The ids of the native elements.
LEMMA NativeFacts ==
    ASSUME InputsAreValid, doc \in Documents
    PROVE  /\ Len(doc.native) \in Nat /\ DOMAIN doc.native = 1..Len(doc.native)
           /\ NativeIds \in Seq(AllIds) /\ Len(NativeIds) = Len(doc.native)
           /\ \A a \in 1..Len(doc.native) : NativeIds[a] = doc.native[a].id
           /\ \A a \in 1..Len(doc.native) : NativeIds[a] \in ElementIds
           /\ Distinct(NativeIds)
           /\ Null \notin ElementIds
<1> DEFINE N == Len(doc.native)
<1>1. /\ N \in Nat /\ DOMAIN doc.native = 1..N
      /\ \A a, b \in 1..N : doc.native[a].id = doc.native[b].id => a = b
      /\ \A a \in 1..N : doc.native[a].id # Null
  BY DEF InputsAreValid, ElementIdsAreValid
<1>2. \A a \in 1..N : NativeIds[a] = doc.native[a].id /\ NativeIds[a] \in ElementIds
  BY DEF NativeIds, ElementIds
<1>3. NativeIds = [a \in 1..N |-> NativeIds[a]]
  BY DEF NativeIds
<1>4. NativeIds \in Seq(AllIds) /\ Len(NativeIds) = N
  BY <1>1, <1>2, <1>3 DEF AllIds
<1>5. Distinct(NativeIds)
  BY <1>1, <1>2, <1>4 DEF Distinct
<1>6. Null \notin ElementIds
  BY <1>1 DEF ElementIds
<1> QED
  BY <1>1, <1>2, <1>4, <1>5, <1>6

\* The merge.
LEMMA MergedFacts ==
    ASSUME InputsAreValid, doc \in Documents, IsEnrichment
    PROVE  /\ Merged \in Seq(AllIds)
           /\ IsDocument(Merged, NativeIds, Parts, IdsUnder(Null), Home, ElementIds)
<1> DEFINE N == Len(NativeIds)
           w == FlattenSeq([a \in 1..N |-> <<NativeIds[a]>> \o Parts[a]])
           tail == IdsUnder(Null)
<1>1. /\ NativeIds \in Seq(AllIds) /\ N = Len(doc.native) /\ Distinct(NativeIds)
      /\ \A a \in 1..N : NativeIds[a] \in ElementIds
      /\ Null \notin ElementIds
  BY NativeFacts
<1>2. ASSUME NEW a \in 1..N
      PROVE  Parts[a] \in Seq(AllIds) /\ IsPart(Parts[a], NativeIds[a], Home, ElementIds)
  <2>1. Parts[a] = IdsUnder(NativeIds[a])
    BY <1>1, NativeFacts DEF Parts
  <2> QED
    BY <2>1, UnderFacts
<1>3. tail \in Seq(AllIds) /\ IsPart(tail, Null, Home, ElementIds)
  BY UnderFacts
<1>4. Merged = w \o tail
  <2>1. /\ 1..N = DOMAIN doc.native
        /\ \A a \in 1..N : NativeIds[a] = doc.native[a].id /\ Parts[a] = IdsUnder(doc.native[a].id)
    BY <1>1, NativeFacts DEF Parts
  <2> DEFINE g == [n \in DOMAIN doc.native |-> <<doc.native[n].id>> \o IdsUnder(doc.native[n].id)]
  <2>2. Merged = FlattenSeq(g) \o tail
    BY DEF Merged, IdsUnder
  <2>3. g = [a \in 1..N |-> <<NativeIds[a]>> \o Parts[a]]
    BY <2>1
  <2> HIDE DEF g
  <2> QED
    BY <2>2, <2>3
<1>5. w \in Seq(AllIds) /\ IsLayout(w, N, NativeIds, Parts, Home, ElementIds)
  BY <1>1, <1>2, LayoutOfAll
<1> HIDE DEF w, tail
<1>6. w \o tail \in Seq(AllIds) /\ IsDocument(w \o tail, NativeIds, Parts, tail, Home, ElementIds)
  BY <1>1, <1>2, <1>3, <1>5, WholeDocument
<1> QED
  BY <1>4, <1>6 DEF tail

\* A sequence without repetition has as many members as places.
LEMMA MembersCount ==
    ASSUME NEW B, NEW s \in Seq(B), Distinct(s), NEW T, T = {s[k] : k \in 1..Len(s)}
    PROVE  IsFiniteSet(T) /\ Cardinality(T) = Len(s)
<1> DEFINE n == Len(s)
           f == [k \in 1..n |-> s[k]]
<1>1. n \in Nat
  OBVIOUS
<1>2. f \in Bijection(1..n, T)
  <2>1. f \in [1..n -> T]
    OBVIOUS
  <2>2. \A a, b \in 1..n : f[a] = f[b] => a = b
    BY DEF Distinct
  <2>3. \A t \in T : \E a \in 1..n : f[a] = t
    OBVIOUS
  <2> HIDE DEF f
  <2> QED
    BY <2>1, <2>2, <2>3 DEF Bijection, Injection, Surjection, IsInjective
<1>3. ExistsBijection(1..n, T)
  BY <1>2 DEF ExistsBijection
<1> HIDE DEF n
<1>4. IsFiniteSet(1..n) /\ Cardinality(1..n) = n
  BY <1>1, FS_Interval
<1> QED
  BY <1>3, <1>4, FS_Bijection DEF n

\* The enriched document holds the native and the accepted elements, each once.
LEMMA MergedIds ==
    ASSUME InputsAreValid, doc \in Documents, IsEnrichment, NEW v, v = Merged
    PROVE  /\ v \in Seq(AllIds) /\ Distinct(v)
           /\ \A a \in 1..Len(accepted) : \E k \in 1..Len(v) : v[k] = accepted[a].id
           /\ {v[k] : k \in 1..Len(v)} = AllIds
<1> DEFINE N == Len(NativeIds)
           tail == IdsUnder(Null)
<1>1. v \in Seq(AllIds) /\ IsDocument(v, NativeIds, Parts, tail, Home, ElementIds)
  BY MergedFacts
<1>2. \A a \in 1..N : Parts[a] = IdsUnder(doc.native[a].id) /\ NativeIds[a] = doc.native[a].id
  BY NativeFacts DEF Parts
<1>3. N = Len(doc.native) /\ N \in Nat
  BY NativeFacts
<1>4. ASSUME NEW a \in 1..Len(accepted) PROVE \E k \in 1..Len(v) : v[k] = accepted[a].id
  <2>1. CASE accepted[a].parent = Null
    <3>1. PICK b \in 1..Len(tail) : tail[b] = accepted[a].id
      <4>1. \E b \in 1..Len(IdsUnder(Null)) : IdsUnder(Null)[b] = accepted[a].id
        <5>1. \A c \in 1..Len(accepted) : accepted[c].parent = Null =>
                 \E b \in 1..Len(IdsUnder(Null)) : IdsUnder(Null)[b] = accepted[c].id
          BY UnderFacts
        <5> QED
          BY <2>1, <5>1, Zenon
      <4> QED
        BY <4>1
    <3> QED
      BY <1>1, <3>1 DEF IsDocument
  <2>2. CASE accepted[a].parent \in ElementIds
    <3>1. PICK n \in 1..N : accepted[a].parent = doc.native[n].id
      BY <1>3, <2>2 DEF ElementIds
    <3>2. PICK b \in 1..Len(Parts[n]) : Parts[n][b] = accepted[a].id
      <4>1. \E b \in 1..Len(IdsUnder(doc.native[n].id)) :
               IdsUnder(doc.native[n].id)[b] = accepted[a].id
        BY <3>1, UnderFacts
      <4> QED
        BY <1>2, <4>1
    <3> QED
      BY <1>1, <3>2 DEF IsDocument
  <2> QED
    BY <2>1, <2>2 DEF IsEnrichment
<1>5. ASSUME NEW n \in 1..N PROVE \E k \in 1..Len(v) : v[k] = NativeIds[n]
  <2> DEFINE t == Kept(v, ElementIds)
  <2>1. t = [a \in 1..N |-> NativeIds[a]]
    BY <1>1 DEF IsDocument
  <2>2. t \in Seq(AllIds) /\ Holds(t, v, Len(v), ElementIds)
    BY <1>1, KeptMembers
  <2> HIDE DEF t
  <2>3. n \in 1..Len(t) /\ t[n] = NativeIds[n]
    BY <1>3, <2>1
  <2> QED
    BY <2>2, <2>3 DEF Holds
<1>6. AllIds \subseteq {v[k] : k \in 1..Len(v)}
  <2> SUFFICES ASSUME NEW x \in AllIds PROVE \E k \in 1..Len(v) : x = v[k]
    OBVIOUS
  <2>1. CASE x \in ElementIds
    <3>1. PICK n \in 1..N : x = NativeIds[n]
      BY <1>2, <1>3, <2>1 DEF ElementIds
    <3> QED
      BY <1>5, <3>1
  <2>2. CASE x \in {accepted[k].id : k \in 1..Len(accepted)}
    BY <1>4, <2>2
  <2> QED
    BY <2>1, <2>2 DEF AllIds
<1>7. {v[k] : k \in 1..Len(v)} \subseteq AllIds
  BY <1>1
<1> QED
  BY <1>1, <1>4, <1>6, <1>7 DEF IsDocument

\* So many that none is missing and none is there twice.
LEMMA MergedLength ==
    ASSUME InputsAreValid, doc \in Documents, IsEnrichment
    PROVE  Len(Merged) = Len(doc.native) + Len(accepted)
<1> DEFINE v == Merged
           ids == [a \in 1..Len(accepted) |-> accepted[a].id]
           T == {ids[a] : a \in 1..Len(accepted)}
<1>1. v \in Seq(AllIds) /\ Distinct(v) /\ {v[k] : k \in 1..Len(v)} = AllIds
  <2> HIDE DEF v
  <2> QED
    BY MergedIds DEF v
<1>2. Len(accepted) \in Nat
  BY DEF IsEnrichment
<1>3. /\ ids \in Seq(AllIds) /\ Len(ids) = Len(accepted) /\ Distinct(ids)
      /\ \A a \in 1..Len(accepted) : ids[a] = accepted[a].id
  <2>1. \A a \in 1..Len(accepted) : accepted[a].id \in AllIds
    BY DEF AllIds
  <2>2. ids \in Seq(AllIds) /\ Len(ids) = Len(accepted)
    BY <1>2, <2>1
  <2>3. \A a \in 1..Len(accepted) : ids[a] = accepted[a].id
    OBVIOUS
  <2> HIDE DEF ids
  <2> QED
    BY <2>2, <2>3 DEF Distinct, IsEnrichment
<1>4. /\ NativeIds \in Seq(AllIds) /\ Distinct(NativeIds) /\ Len(NativeIds) = Len(doc.native)
      /\ \A a \in 1..Len(doc.native) : NativeIds[a] = doc.native[a].id
      /\ Len(doc.native) \in Nat
  BY NativeFacts
<1> HIDE DEF v, ids
<1>5. ElementIds = {NativeIds[a] : a \in 1..Len(NativeIds)}
  BY <1>4 DEF ElementIds
<1>6. IsFiniteSet(ElementIds) /\ Cardinality(ElementIds) = Len(NativeIds)
  BY <1>4, <1>5, MembersCount
<1>7. IsFiniteSet(T) /\ Cardinality(T) = Len(ids)
  <2>1. T = {ids[a] : a \in 1..Len(ids)}
    BY <1>3
  <2> HIDE DEF T
  <2> QED
    BY <1>3, <2>1, MembersCount
<1>8. IsFiniteSet(AllIds) /\ Cardinality(AllIds) = Len(v)
  BY <1>1, MembersCount
<1>9. AllIds = ElementIds \cup T /\ ElementIds \cap T = {}
  BY <1>3 DEF AllIds, IsEnrichment
<1> HIDE DEF T
<1>10. Cardinality(ElementIds \cup T) = Cardinality(ElementIds) + Cardinality(T) - Cardinality({})
  BY <1>6, <1>7, <1>9, FS_Union
<1>11. Cardinality({}) = 0
  BY FS_EmptySet
<1> QED
  BY <1>2, <1>3, <1>4, <1>6, <1>7, <1>8, <1>9, <1>10, <1>11 DEF v

\* The last native element up to k.
LastNative(v, k) == Max({m \in 1..k : v[m] \in ElementIds})

\* Where an accepted element stands in the enriched document.
LEMMA MergedPlaces ==
    ASSUME InputsAreValid, doc \in Documents, IsEnrichment, NEW v, v = Merged,
           NEW a \in 1..Len(accepted), NEW k \in 1..Len(v), v[k] = accepted[a].id
    PROVE  /\ accepted[a].parent = Null => \A m \in k..Len(v) : v[m] \notin ElementIds
           /\ accepted[a].parent # Null => v[LastNative(v, k)] = accepted[a].parent
<1> DEFINE N == Len(NativeIds)
           tail == IdsUnder(Null)
           D == {m \in 1..k : v[m] \in ElementIds}
<1>1. v \in Seq(AllIds) /\ IsDocument(v, NativeIds, Parts, tail, Home, ElementIds)
  BY MergedFacts
<1>2. /\ N = Len(doc.native) /\ Null \notin ElementIds /\ k \in Nat
      /\ \A n \in 1..N : Parts[n] = IdsUnder(doc.native[n].id) /\ doc.native[n].id \in ElementIds
  BY <1>1, NativeFacts DEF Parts, ElementIds
<1>3. v[k] \notin ElementIds
  BY DEF IsEnrichment
<1>4. Home[v[k]] = accepted[a].parent
  BY HomeFacts
<1>5. \A b \in 1..Len(tail) : Home[tail[b]] = Null
  BY UnderFacts DEF IsPart
<1>6. \A n \in 1..N : \A b \in 1..Len(Parts[n]) : Home[Parts[n][b]] \in ElementIds
  <2> SUFFICES ASSUME NEW n \in 1..N, NEW b \in 1..Len(Parts[n])
               PROVE  Home[Parts[n][b]] \in ElementIds
    OBVIOUS
  <2>1. IsPart(Parts[n], doc.native[n].id, Home, ElementIds)
    BY <1>2, UnderFacts
  <2> QED
    BY <1>2, <2>1 DEF IsPart
<1>7. \/ \E b \in 1..Len(tail) : v[k] = tail[b] /\ \A r \in k..Len(v) : v[r] \notin ElementIds
      \/ /\ \E n \in 1..N : \E b \in 1..Len(Parts[n]) : v[k] = Parts[n][b]
         /\ \E q \in 1..k : v[q] = Home[v[k]] /\ \A r \in q + 1..k : v[r] \notin ElementIds
  BY <1>1, <1>3 DEF IsDocument
<1> HIDE DEF tail, N
<1>8. ASSUME accepted[a].parent = Null PROVE \A m \in k..Len(v) : v[m] \notin ElementIds
  <2>1. ~ \E n \in 1..N : \E b \in 1..Len(Parts[n]) : v[k] = Parts[n][b]
    BY <1>2, <1>4, <1>6, <1>8
  <2> QED
    BY <1>7, <2>1
<1>9. ASSUME accepted[a].parent # Null PROVE v[Max(D)] = accepted[a].parent
  <2>1. ~ \E b \in 1..Len(tail) : v[k] = tail[b]
    BY <1>4, <1>5, <1>9
  <2>2. PICK q \in 1..k : v[q] = Home[v[k]] /\ \A r \in q + 1..k : v[r] \notin ElementIds
    BY <1>7, <2>1
  <2>3. v[q] = accepted[a].parent /\ v[q] \in ElementIds
    BY <1>4, <1>9, <2>2 DEF IsEnrichment
  <2>4. q \in D /\ \A m \in D : q >= m
    <3>1. q \in D
      BY <2>3
    <3>2. ASSUME NEW m \in D, ~(q >= m) PROVE FALSE
      <4>1. m \in q + 1..k /\ v[m] \in ElementIds
        BY <1>2, <3>2
      <4> QED
        BY <2>2, <4>1
    <3> QED
      BY <3>1, <3>2
  <2>5. D \subseteq Int
    OBVIOUS
  <2> HIDE DEF D
  <2>6. Max(D) \in D /\ \A m \in D : Max(D) >= m
    BY <2>4 DEF Max
  <2>7. Max(D) = q
    <3>1. Max(D) \in Int /\ q \in Int /\ Max(D) >= q /\ q >= Max(D)
      BY <2>4, <2>5, <2>6
    <3> QED
      BY <3>1
  <2> QED
    BY <2>3, <2>7
<1> QED
  BY <1>8, <1>9 DEF LastNative

\* What the last steps leave behind: the reconciled elements, their merge and the verdict.
MergeInv ==
    /\ pc \notin {"validate", "raised"} => ValidInputs
    /\ pc \in {"merge", "done"} => accepted = Accepted
    /\ pc = "done" => merged = Merged /\ status = Verdict

\* The document is put together in its order.
LEMMA OrderIsKept ==
    ASSUME InputsAreValid, OcrInv, MergeInv
    PROVE  MergeKeepsOrder
<1> SUFFICES ASSUME pc = "done" PROVE MergeKeepsOrder
  BY DEF MergeKeepsOrder
<1>1. doc \in Documents
  BY DEF OcrInv, TurnInv
<1>2. IsEnrichment /\ merged = Merged
  BY AcceptedElements DEF MergeInv
<1>3. DOMAIN accepted = 1..Len(accepted)
  BY <1>2 DEF IsEnrichment
<1>4. /\ merged \in Seq(AllIds) /\ Distinct(merged)
      /\ \A a \in 1..Len(accepted) : \E k \in 1..Len(merged) : merged[k] = accepted[a].id
  BY <1>1, <1>2, MergedIds
<1>5. DOMAIN merged = 1..Len(merged)
  BY <1>4
<1>6. Kept(merged, ElementIds) = [n \in DOMAIN doc.native |-> doc.native[n].id]
  <2>1. Kept(merged, ElementIds) = [a \in 1..Len(NativeIds) |-> NativeIds[a]]
    BY <1>1, <1>2, MergedFacts DEF IsDocument
  <2>2. 1..Len(NativeIds) = DOMAIN doc.native /\ \A a \in 1..Len(NativeIds) : NativeIds[a] = doc.native[a].id
    BY <1>1, NativeFacts
  <2> QED
    BY <2>1, <2>2
<1>7. Len(merged) = Len(doc.native) + Len(accepted)
  BY <1>1, <1>2, MergedLength
<1>8. ASSUME NEW n \in DOMAIN accepted
      PROVE  \E k \in {m \in DOMAIN merged : merged[m] = accepted[n].id} :
                /\ {m \in DOMAIN merged : merged[m] = accepted[n].id} = {k}
                /\ IF accepted[n].parent = Null
                   THEN \A m \in k..Len(merged) : merged[m] \notin ElementIds
                   ELSE merged[Max({m \in 1..k : merged[m] \in ElementIds})] = accepted[n].parent
  <2>1. n \in 1..Len(accepted)
    BY <1>3
  <2>2. PICK k \in 1..Len(merged) : merged[k] = accepted[n].id
    BY <1>4, <2>1
  <2>3. {m \in DOMAIN merged : merged[m] = accepted[n].id} = {k}
    BY <1>4, <1>5, <2>2 DEF Distinct
  <2>4. /\ accepted[n].parent = Null => \A m \in k..Len(merged) : merged[m] \notin ElementIds
        /\ accepted[n].parent # Null => merged[LastNative(merged, k)] = accepted[n].parent
    BY <1>1, <1>2, <2>1, <2>2, MergedPlaces
  <2> QED
    BY <2>3, <2>4 DEF LastNative
<1> QED
  BY <1>6, <1>7, <1>8 DEF MergeKeepsOrder

\* The verdict names what the document holds.
LEMMA VerdictIsTold ==
    ASSUME InputsAreValid, OcrInv, MergeInv
    PROVE  PartialIsTold
<1> SUFFICES ASSUME pc = "done", status # "PARTIAL", doc.status = "OCR_REQUIRED"
             PROVE  (status = "GOOD") = (\E k \in DOMAIN merged : merged[k] \notin ElementIds)
  BY AccountedFor DEF PartialIsTold
<1>1. doc \in Documents
  BY DEF OcrInv, TurnInv
<1>2. IsEnrichment /\ merged = Merged /\ status = Verdict
  BY AcceptedElements DEF MergeInv
<1>3. /\ merged \in Seq(AllIds)
      /\ \A a \in 1..Len(accepted) : \E k \in 1..Len(merged) : merged[k] = accepted[a].id
  BY <1>1, <1>2, MergedIds
<1>4. DOMAIN merged = 1..Len(merged) /\ accepted \in Seq(AllElements)
  BY <1>2, <1>3 DEF IsEnrichment
<1>5. (status = "GOOD") <=> accepted # <<>>
  BY <1>2 DEF Verdict
<1>6. ASSUME accepted # <<>> PROVE \E k \in DOMAIN merged : merged[k] \notin ElementIds
  <2>1. 1 \in 1..Len(accepted)
    BY <1>4, <1>6
  <2>2. accepted[1].id \notin ElementIds
    BY <1>2, <2>1 DEF IsEnrichment
  <2> QED
    BY <1>3, <1>4, <2>1, <2>2
<1>7. ASSUME accepted = <<>> PROVE ~ \E k \in DOMAIN merged : merged[k] \notin ElementIds
  <2>1. AllIds = ElementIds
    BY <1>7 DEF AllIds
  <2> QED
    BY <1>3, <1>4, <2>1
<1> QED
  BY <1>5, <1>6, <1>7

\* The state functions of the last steps read what these steps leave alone.
LEMMA SameInputs ==
    ASSUME UNCHANGED <<doc, results>>
    PROVE  (ValidInputs' <=> ValidInputs) /\ Accepted' = Accepted
<1>1. ValidInputs' <=> ValidInputs
  BY DEF ValidInputs, ElementIds
<1>2. Observations' = Observations
  BY DEF Observations
<1>3. \A sofar, o : Accept(sofar, o)' = Accept(sofar, o)
  BY DEF Accept, DuplicateNative, DuplicateOcr, NativeOn, ScopeOf, Element
<1>4. Accepted' = Accepted
  BY <1>2, <1>3 DEF Accepted
<1> QED
  BY <1>1, <1>4

\* Where process() goes from one of its turns.
LEMMA TurnGoesOn ==
    ASSUME Skip \/ Render \/ RenderFails \/ Admit \/ EnsureStarted \/ Started \/ Send
           \/ TimeOut \/ Receive
    PROVE  pc' \notin {"validate", "raised", "merge", "done"} /\ doc' = doc
           /\ pc \notin {"validate", "raised"}
<1>1. \A n : NextCandidate(n) \in {"reconcile", "candidate"}
  BY DEF NextCandidate
<1>2. CASE Skip
  BY <1>1, <1>2 DEF Skip, Reject, EndTurn
<1>3. CASE Render
  BY <1>1, <1>3 DEF Render, Warn, EndTurn
<1>4. CASE RenderFails
  BY <1>1, <1>4 DEF RenderFails, Warn, EndTurn
<1>5. CASE Admit
  BY <1>1, <1>5 DEF Admit, Reject, Record, EndTurn
<1>6. CASE EnsureStarted
  BY <1>6 DEF EnsureStarted
<1>7. CASE Started
  BY <1>1, <1>7 DEF Started, Warn, EndTurn
<1>8. CASE Send
  BY <1>8 DEF Send
<1>9. CASE TimeOut
  BY <1>1, <1>9 DEF TimeOut, Warn, EndTurn
<1>10. CASE Receive
  BY <1>1, <1>10 DEF Receive, Record, Warn, EndTurn
<1> QED
  BY <1>2, <1>3, <1>4, <1>5, <1>6, <1>7, <1>8, <1>9, <1>10

\* The worker, the clock and stuttering change nothing of it.
LEMMA AsideOfMerge ==
    ASSUME MergeInv, UNCHANGED <<doc, pc, results, accepted, merged, status>>
    PROVE  MergeInv'
<1>1. (ValidInputs' <=> ValidInputs) /\ Accepted' = Accepted
  BY SameInputs
<1>2. Merged' = Merged
  BY DEF Merged, InsertsUnder, Children
<1>3. Verdict' = Verdict
  BY DEF Verdict
<1> QED
  BY <1>1, <1>2, <1>3 DEF MergeInv

\* Every step keeps what the last steps leave behind.
LEMMA NextMergeInv ==
    ASSUME MergeInv, [OcrNext]_ocrVars
    PROVE  MergeInv'
<1>1. CASE Validate
  <2>1. ValidInputs' <=> ValidInputs
    BY <1>1, SameInputs DEF Validate
  <2>2. pc' \in {"reconcile", "candidate", "raised"} /\ (pc' # "raised" => ValidInputs)
    BY <1>1 DEF Validate, NextCandidate
  <2> QED
    BY <2>1, <2>2 DEF MergeInv
<1>2. CASE Skip \/ Render \/ RenderFails \/ Admit \/ EnsureStarted \/ Started \/ Send
           \/ TimeOut \/ Receive
  <2>1. pc' \notin {"validate", "raised", "merge", "done"} /\ doc' = doc
        /\ pc \notin {"validate", "raised"}
    BY <1>2, TurnGoesOn
  <2>2. ValidInputs' <=> ValidInputs
    BY <2>1 DEF ValidInputs, ElementIds
  <2> QED
    BY <2>1, <2>2 DEF MergeInv
<1>3. CASE Reconcile
  <2>1. (ValidInputs' <=> ValidInputs) /\ Accepted' = Accepted
    BY <1>3, SameInputs DEF Reconcile
  <2> QED
    BY <1>3, <2>1 DEF MergeInv, Reconcile
<1>4. CASE Merge
  <2>1. (ValidInputs' <=> ValidInputs) /\ Accepted' = Accepted
    BY <1>4, SameInputs DEF Merge
  <2>2. Merged' = Merged
    BY <1>4 DEF Merge, Merged, InsertsUnder, Children
  <2>3. Verdict' = Verdict
    BY <1>4 DEF Merge, Verdict
  <2> QED
    BY <1>4, <2>1, <2>2, <2>3 DEF MergeInv, Merge
<1>5. CASE WorkerStep \/ JobDeadline \/ UNCHANGED ocrVars
  <2>1. UNCHANGED <<doc, pc, results, accepted, merged, status>>
    BY <1>5 DEF WorkerStep, WorkerStarts, WorkerTakes, WorkerAnswers, WorkerDies, JobDeadline,
                ocrVars, outputVars
  <2> QED
    BY <2>1, AsideOfMerge
<1> QED
  BY <1>1, <1>2, <1>3, <1>4, <1>5 DEF OcrNext, Service, Returned

-----------------------------------------------------------------------------
(* The theorems.                                                           *)

\* The invariant, for documents with any number of candidates and images.
THEOREM OcrInvariance == OcrSpec => []OcrInv
<1>1. OcrInit => OcrInv
  BY InitOcrInv, OcrAssumption DEF InputsAreValid
<1>2. OcrInv /\ [OcrNext]_ocrVars => OcrInv'
  BY NextOcrInv, OcrAssumption DEF InputsAreValid
<1> QED
  BY <1>1, <1>2, PTL DEF OcrSpec

\* Whatever the worker process does and when, recognized text is credited to the
\* candidate it was read for, no file outlives its turn, and the budgets of the
\* job hold for all results together (OcrPipelineService.process).
THEOREM CreditedRecognition == OcrSpec => []RecognitionIsCredited
<1>1. OcrInv => RecognitionIsCredited
  BY CreditedText, ScratchOfTurn, WithinBudget, OcrAssumption
     DEF RecognitionIsCredited, InputsAreValid
<1> QED
  BY <1>1, OcrInvariance, PTL

\* A document that is not PARTIAL has had every image read that needed it, save
\* the decorative ones (_merge_document, OcrDecisionPolicy).
THEOREM NothingIsSkippedSilently == OcrSpec => []ImagesAreAccountedFor
<1>1. OcrInv => ImagesAreAccountedFor
  BY AccountedFor, OcrAssumption DEF InputsAreValid
<1> QED
  BY <1>1, OcrInvariance, PTL

\* The enriched document keeps the native elements in their order, holds every
\* accepted element once, behind its parent, and is called complete or GOOD only
\* if it is (_reconcile_observations, _merge_document).
THEOREM EnrichedDocument == OcrSpec => []EnrichedDocumentIsTold
<1>1. OcrInit => MergeInv
  BY DEF OcrInit, MergeInv
<1>2. MergeInv /\ [OcrNext]_ocrVars => MergeInv'
  BY NextMergeInv
<1>3. OcrInv /\ MergeInv => EnrichedDocumentIsTold
  BY OrderIsKept, VerdictIsTold, OcrAssumption DEF EnrichedDocumentIsTold, InputsAreValid
<1> QED
  BY <1>1, <1>2, <1>3, OcrInvariance, PTL DEF OcrSpec
=============================================================================
