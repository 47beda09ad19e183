------------------------------ MODULE Splitter ------------------------------
(***************************************************************************)
(* LogicalSplitter (splitter/service.py): the elements of a normalized     *)
(* document become units that fit the hard guards, units are gathered into *)
(* groups, small groups are merged, and every group becomes a fragment.    *)
(*                                                                         *)
(* Text is a sequence of sentences (of rows, in a table), a sentence a     *)
(* sequence of tokens, the spans between white space.  A token is its      *)
(* length in characters, the words count_words finds in it, whether that   *)
(* count is reliable, and the lengths of its grapheme clusters.            *)
(* Sentences are joined by a blank, rows and units by a line feed: one     *)
(* character each.  One step takes one element, one unit or one group.     *)
(***************************************************************************)
EXTENDS Integers, Sequences, FiniteSets, SequencesExt, NoValue

CONSTANTS
    SplitInputs,    \* the documents to split: sequences of elements
    MinChars, TargetChars, SoftChars, HardChars,
    TargetWords, SoftWords, HardWords,
    TargetSentences, HardSentences

\* SplitterProfile.validate
ProfileIsValid ==
    /\ 0 < MinChars /\ MinChars <= TargetChars /\ TargetChars <= SoftChars
    /\ SoftChars <= HardChars
    /\ 0 < TargetWords /\ TargetWords <= SoftWords /\ SoftWords <= HardWords
    /\ 0 < TargetSentences /\ TargetSentences <= HardSentences

Total(s) ==
    LET sum[n \in 0..Len(s)] == IF n = 0 THEN 0 ELSE sum[n - 1] + s[n]
    IN  sum[Len(s)]

\* The tokens: a token is as long as its clusters together.
Clusters == Seq(Nat \ {0})
Tokens   == {t \in [c : Nat \ {0}, w : Nat, r : BOOLEAN, g : Clusters] : t.c = Total(t.g)}

\* NormalizedElement: no sentence and no row of its text is empty.
Elements == [type : STRING, level : Nat \ {0}, text : Seq(Seq(Tokens) \ {<< >>}),
             rows : BOOLEAN, suppressed : BOOLEAN, notice : BOOLEAN, colon : BOOLEAN]

\* Why a group ends, and the errors.
Reasons == {"SECTION_BOUNDARY", "HARD_MAX", "SOFT_MAX_SAFE_BOUNDARY", "STRUCTURAL_BOUNDARY",
            "DOCUMENT_END", "SMALL_FRAGMENT_MERGE"}
SplitErrors == {"SPLITTER_GRAPHEME_EXCEEDS_HARD_CHAR_GUARD", "SPLITTER_UNIT_EXCEEDS_HARD_GUARD",
                "SPLITTER_HARD_GUARD_VIOLATION", "SPLITTER_FRAGMENT_EXCEEDS_HARD_GUARD"}

ASSUME SplitAssumption ==
    /\ {MinChars, TargetChars, SoftChars, HardChars, TargetWords, SoftWords, HardWords,
        TargetSentences, HardSentences} \subseteq Nat
    /\ ProfileIsValid
    /\ Null \notin Nat \cup Reasons \cup SplitErrors
    /\ SplitInputs \subseteq Seq(Elements)

VARIABLES
    elements,   \* document.elements, in order
    pos,        \* elements taken so far
    hierarchy,  \* headings above the next element
    units,      \* every unit made so far, in order
    taken,      \* units that went to the buffer or beyond
    buffer,     \* the group being gathered
    groups,     \* the groups that were flushed
    joined,     \* the groups after consolidation
    index,      \* groups that were consolidated
    made,       \* the fragments
    phase,      \* "split", "merge", "make" or "done"
    raised      \* the RuntimeError raised, or Null

splitVars == <<elements, pos, hierarchy, units, taken, buffer, groups, joined, index,
               made, phase, raised>>

SplitInit ==
    /\ elements \in SplitInputs
    /\ pos = 0
    /\ hierarchy = << >>
    /\ units = << >>
    /\ taken = 0
    /\ buffer = << >>
    /\ groups = << >>
    /\ joined = << >>
    /\ index = 0
    /\ made = << >>
    /\ phase = "split"
    /\ raised = Null

-----------------------------------------------------------------------------
(* Measures of a sequence of tokens, and of a list of units.               *)

Lengths(toks) == [k \in 1..Len(toks) |-> toks[k].c]

Chars(toks)      == Total(Lengths(toks)) + (IF toks = << >> THEN 0 ELSE Len(toks) - 1)
CountWords(toks) == Total([k \in 1..Len(toks) |-> toks[k].w])
Reliable(toks)   == \A k \in 1..Len(toks) : toks[k].r

TooLong(toks) ==
    \/ Chars(toks) > HardChars
    \/ Reliable(toks) /\ CountWords(toks) > HardWords

\* _size
SizeChars(us)     == Total([k \in 1..Len(us) |-> Chars(us[k].toks)]) + Len(us) - 1
SizeWords(us)     == Total([k \in 1..Len(us) |-> CountWords(us[k].toks)])
SizeSentences(us) == Total([k \in 1..Len(us) |-> us[k].sentences])
SizeReliable(us)  == \A i \in 1..Len(us) : Reliable(us[i].toks)

ReachesTarget(us) ==
    \/ SizeChars(us) >= TargetChars
    \/ SizeReliable(us) /\ SizeWords(us) >= TargetWords
    \/ SizeSentences(us) >= TargetSentences

ExceedsSoft(us) ==
    \/ SizeChars(us) > SoftChars
    \/ SizeReliable(us) /\ SizeWords(us) > SoftWords

ExceedsHard(us) ==
    \/ SizeChars(us) > HardChars
    \/ SizeReliable(us) /\ SizeWords(us) > HardWords
    \/ SizeSentences(us) > HardSentences

-----------------------------------------------------------------------------
(* Units of an element.                                                    *)

Piece(t, g) == << [t EXCEPT !.c = Total(g), !.g = g] >>

\* Mutation: the guard is compared before the cluster is added.
GraphemeStep_Late(acc, t, size) ==
    IF acc.cur # << >> /\ Total(acc.cur) > HardChars
    THEN [chunks |-> Append(acc.chunks, Piece(t, acc.cur)), cur |-> <<size>>]
    ELSE [acc EXCEPT !.cur = Append(@, size)]

\* One cluster of t: a chunk ends before the cluster that does not fit, never in it.
GraphemeStep(acc, t, size) ==
    IF acc.cur # << >> /\ Total(acc.cur) + size > HardChars
    THEN [chunks |-> Append(acc.chunks, Piece(t, acc.cur)), cur |-> <<size>>]
    ELSE [acc EXCEPT !.cur = Append(@, size)]

\* _grapheme_bounded_chunks, for a token longer than the guard.
GraphemeBoundedChunks(t) ==
    LET acc[n \in 0..Len(t.g)] ==
            IF n = 0 THEN [chunks |-> << >>, cur |-> << >>] ELSE GraphemeStep(acc[n - 1], t, t.g[n])
    IN  Append(acc[Len(t.g)].chunks, Piece(t, acc[Len(t.g)].cur))

\* Greedy packing of parts, each a sequence of tokens, as the loops over words,
\* sentences and rows have it: a part that does not fit opens a new chunk.
NonEmpty(s) == IF s = << >> THEN << >> ELSE << s >>

\* Mutation: a long token drops the words gathered before it.
ForceStep_Drops(acc, t) ==
    LET trial == Append(acc.cur, t)
    IN  IF t.c > HardChars
        THEN [chunks |-> acc.chunks \o GraphemeBoundedChunks(t), cur |-> << >>]
        ELSE IF acc.cur # << >> /\ TooLong(trial)
             THEN [chunks |-> Append(acc.chunks, acc.cur), cur |-> << t >>]
             ELSE [acc EXCEPT !.cur = trial]

ForceStep(acc, t) ==
    LET trial == Append(acc.cur, t)
    IN  IF t.c > HardChars
        THEN [chunks |-> acc.chunks \o NonEmpty(acc.cur) \o GraphemeBoundedChunks(t),
              cur |-> << >>]
        ELSE IF acc.cur # << >> /\ TooLong(trial)
             THEN [chunks |-> Append(acc.chunks, acc.cur), cur |-> << t >>]
             ELSE [acc EXCEPT !.cur = trial]

\* _force_text_chunks
ForceTextChunks(toks) ==
    LET acc[n \in 0..Len(toks)] ==
            IF n = 0 THEN [chunks |-> << >>, cur |-> << >>] ELSE ForceStep(acc[n - 1], toks[n])
    IN  acc[Len(toks)].chunks \o NonEmpty(acc[Len(toks)].cur)

Chunk(toks, n, forced, from, to) ==
    [toks |-> toks, sentences |-> n, forced |-> forced, from |-> from, to |-> to]

\* emit_current and emit_group: the open chunk, if any, joins the chunks.
Emitted(acc) ==
    IF acc.cur = << >> THEN acc.chunks
    ELSE Append(acc.chunks, Chunk(acc.cur, acc.n, FALSE, Null, Null))

EmittedRows(acc) ==
    IF acc.cur = << >> THEN acc.chunks
    ELSE Append(acc.chunks, Chunk(acc.cur, 0, acc.chunks # << >>, acc.start, acc.row))

\* Mutation: only the number of sentences closes a chunk.
TakeSentence_CountsOnly(acc, s) ==
    LET emitted == Emitted(acc)
        forced  == ForceTextChunks(s)
    IN  CASE TooLong(s) ->
               [chunks |-> emitted \o [i \in 1..Len(forced) |->
                                          Chunk(forced[i], 1, TRUE, Null, Null)],
                cur |-> << >>, n |-> 0]
          [] ~TooLong(s) /\ acc.cur # << >> /\ acc.n + 1 > HardSentences ->
               [chunks |-> emitted, cur |-> s, n |-> 1]
          [] OTHER -> [acc EXCEPT !.cur = acc.cur \o s, !.n = @ + 1]

\* _text_units: the loop over sentences.
TakeSentence(acc, s) ==
    LET emitted == Emitted(acc)
        forced  == ForceTextChunks(s)
    IN  CASE TooLong(s) ->
               [chunks |-> emitted \o [i \in 1..Len(forced) |->
                                          Chunk(forced[i], 1, TRUE, Null, Null)],
                cur |-> << >>, n |-> 0]
          [] ~TooLong(s) /\ acc.cur # << >>
             /\ (TooLong(acc.cur \o s) \/ acc.n + 1 > HardSentences) ->
               [chunks |-> emitted, cur |-> s, n |-> 1]
          [] OTHER -> [acc EXCEPT !.cur = acc.cur \o s, !.n = @ + 1]

TextChunks(sentences) ==
    LET acc[n \in 0..Len(sentences)] ==
            IF n = 0 THEN [chunks |-> << >>, cur |-> << >>, n |-> 0]
            ELSE TakeSentence(acc[n - 1], sentences[n])
    IN  Emitted(acc[Len(sentences)])

\* Mutation: a chunk that was closed by the guard leaves its first row behind.
RowStep_KeepsStart(acc, row) ==
    LET at      == acc.row + 1
        emitted == EmittedRows(acc)
        forced  == ForceTextChunks(row)
    IN  CASE TooLong(row) ->
               [chunks |-> emitted \o [i \in 1..Len(forced) |->
                                          Chunk(forced[i], 0, TRUE, at, at)],
                cur |-> << >>, start |-> at + 1, row |-> at]
          [] ~TooLong(row) /\ acc.cur # << >> /\ TooLong(acc.cur \o row) ->
               [chunks |-> emitted, cur |-> row, start |-> acc.start, row |-> at]
          [] OTHER ->
               [acc EXCEPT !.cur = acc.cur \o row, !.row = at,
                           !.start = IF acc.cur = << >> THEN at ELSE @]

\* _table_units: the loop over rows; a chunk records the rows it holds.
RowStep(acc, row) ==
    LET at      == acc.row + 1
        emitted == EmittedRows(acc)
        forced  == ForceTextChunks(row)
    IN  CASE TooLong(row) ->
               [chunks |-> emitted \o [i \in 1..Len(forced) |->
                                          Chunk(forced[i], 0, TRUE, at, at)],
                cur |-> << >>, start |-> at + 1, row |-> at]
          [] ~TooLong(row) /\ acc.cur # << >> /\ TooLong(acc.cur \o row) ->
               [chunks |-> emitted, cur |-> row, start |-> at, row |-> at]
          [] OTHER ->
               [acc EXCEPT !.cur = acc.cur \o row, !.row = at,
                           !.start = IF acc.cur = << >> THEN at ELSE @]

TableChunks(rows) ==
    LET acc[n \in 0..Len(rows)] ==
            IF n = 0 THEN [chunks |-> << >>, cur |-> << >>, start |-> 1, row |-> 0]
            ELSE RowStep(acc[n - 1], rows[n])
    IN  EmittedRows(acc[Len(rows)])

\* The _Unit records of element e, the i-th of the document.  A table without
\* rows is text.
Units(e, i, above) ==
    LET chunks == IF e.rows THEN TableChunks(e.text) ELSE TextChunks(e.text)
    IN  [k \in 1..Len(chunks) |->
            [element |-> i, type |-> e.type, hierarchy |-> above, toks |-> chunks[k].toks,
             sentences |-> chunks[k].sentences, continuation |-> k - 1,
             forced |-> chunks[k].forced \/ (~e.rows /\ Len(chunks) > 1),
             notice |-> e.notice, colon |-> e.colon /\ k = Len(chunks),
             from |-> chunks[k].from, to |-> chunks[k].to]]

\* A grapheme cluster that alone exceeds the guard is not cut.
HasGiant(e) ==
    \E i \in 1..Len(e.text) : TooLong(e.text[i]) /\
        \E k \in 1..Len(e.text[i]) :
            \E n \in 1..Len(e.text[i][k].g) : e.text[i][k].g[n] > HardChars

-----------------------------------------------------------------------------
(* The loop of split().                                                    *)

\* Roles of _SMALL_FRAGMENT_EXCEPTION_ROLES, tables and code stay small.
SmallException(us) ==
    \E i \in 1..Len(us) : us[i].notice \/ us[i].type \in {"TABLE", "CODE_BLOCK"}

AtSafeBoundary(previous, current) ==
    /\ ~(previous.type = "PARAGRAPH" /\ previous.colon /\ current.type = "LIST_ITEM")
    /\ \/ previous.element # current.element
       \/ previous.type \in {"PARAGRAPH", "LIST_ITEM", "TABLE", "CODE_BLOCK"}

AtStrongBoundary(previous, current) ==
    current.type = "HEADING" \/ previous.hierarchy # current.hierarchy

\* _iter_units: the next element that is not suppressed, and its headings.
TakeElement ==
    /\ phase = "split" /\ raised = Null
    /\ taken = Len(units) /\ pos < Len(elements)
    /\ LET e == elements[pos + 1]
           above == IF e.type = "HEADING" /\ ~e.suppressed
                    THEN Append(SubSeq(hierarchy, 1,
                                       IF Len(hierarchy) < e.level - 1 THEN Len(hierarchy)
                                                                       ELSE e.level - 1), pos + 1)
                    ELSE hierarchy
       IN  /\ pos' = pos + 1
           /\ hierarchy' = above
           /\ \/ /\ ~e.suppressed /\ ~HasGiant(e)
                 /\ units' = units \o Units(e, pos + 1, above)
                 /\ UNCHANGED raised
              \/ /\ ~e.suppressed /\ HasGiant(e)
                 /\ raised' = "SPLITTER_GRAPHEME_EXCEEDS_HARD_CHAR_GUARD"
                 /\ UNCHANGED units
              \/ e.suppressed /\ UNCHANGED <<units, raised>>
    /\ UNCHANGED <<elements, taken, buffer, groups, joined, index, made, phase>>

Flushed(reason, forced) ==
    IF buffer = << >> THEN groups
    ELSE Append(groups, [units |-> buffer, reason |-> reason, forced |-> forced])

\* flush, after which the next group begins.
Flush(reason, forced, next) ==
    IF buffer # << >> /\ ExceedsHard(buffer)
    THEN raised' = "SPLITTER_HARD_GUARD_VIOLATION" /\ UNCHANGED <<buffer, groups>>
    ELSE /\ groups' = Flushed(reason, forced)
         /\ buffer' = next
         /\ UNCHANGED raised

\* A heading closes a group that is large enough or must stay as it is.
ClosedByHeading(u) ==
    /\ u.type = "HEADING" /\ buffer # << >>
    /\ SizeChars(buffer) >= MinChars \/ SmallException(buffer)

\* Why u does not join the group that is being gathered, or Null if it does.
ClosedBy(u) ==
    LET trial == Append(buffer, u)
        prev  == buffer[Len(buffer)]
    IN  IF buffer = << >> THEN Null
        ELSE IF ClosedByHeading(u) THEN "SECTION_BOUNDARY"
        ELSE IF ExceedsHard(trial) THEN "HARD_MAX"
        ELSE IF ExceedsSoft(trial) /\ AtSafeBoundary(prev, u) THEN "SOFT_MAX_SAFE_BOUNDARY"
        ELSE IF ReachesTarget(buffer) /\ AtStrongBoundary(prev, u) THEN "STRUCTURAL_BOUNDARY"
        ELSE Null

\* One unit joins the group or closes it and begins the next one.
TakeUnit ==
    /\ phase = "split" /\ raised = Null
    /\ taken < Len(units)
    /\ taken' = taken + 1
    /\ LET u      == units[taken + 1]
           reason == ClosedBy(u)
       IN  \/ /\ ExceedsHard(<< u >>)
              /\ raised' = "SPLITTER_UNIT_EXCEEDS_HARD_GUARD"
              /\ UNCHANGED <<buffer, groups>>
           \/ /\ ~ExceedsHard(<< u >>) /\ reason = Null
              /\ buffer' = Append(buffer, u)
              /\ UNCHANGED <<groups, raised>>
           \/ /\ ~ExceedsHard(<< u >>) /\ reason # Null
              /\ Flush(reason, reason = "HARD_MAX", << u >>)
    /\ UNCHANGED <<elements, pos, hierarchy, units, joined, index, made, phase>>

\* flush("DOCUMENT_END")
EndDocument ==
    /\ phase = "split" /\ raised = Null
    /\ taken = Len(units) /\ pos = Len(elements)
    /\ Flush("DOCUMENT_END", FALSE, << >>)
    /\ phase' = IF raised' = Null THEN "merge" ELSE phase
    /\ UNCHANGED <<elements, pos, hierarchy, units, taken, joined, index, made>>

-----------------------------------------------------------------------------
(* _consolidate_small_groups                                               *)

Parent(h) == IF h = << >> THEN h ELSE SubSeq(h, 1, Len(h) - 1)

\* _compatible_small_merge
CompatibleSmallMerge(left, right) ==
    /\ \A i \in 1..Len(left \o right) : (left \o right)[i].type \notin {"TABLE", "CODE_BLOCK"}
    /\ Parent(left[Len(left)].hierarchy) = Parent(right[1].hierarchy)

\* Mutation: the hard guard is not asked.
MayMerge_Unguarded(left, right) ==
    /\ ~SmallException(left) /\ ~SmallException(right)
    /\ CompatibleSmallMerge(left, right)

MayMerge(left, right) ==
    /\ ~SmallException(left) /\ ~SmallException(right)
    /\ CompatibleSmallMerge(left, right)
    /\ ~ExceedsHard(left \o right)

Small(us) == SizeChars(us) < MinChars

Joined(left, right) == [units |-> left.units \o right.units,
                        reason |-> "SMALL_FRAGMENT_MERGE", forced |-> left.forced \/ right.forced]

\* Mutation: a forward merge does not step over the group it has used.
Steps_One == 1

Steps == 2

\* A small group joins the next one, else the one before it, else stays.
MergeGroup ==
    /\ phase = "merge" /\ index < Len(groups)
    /\ LET g == groups[index + 1]
           forward  == /\ Small(g.units) /\ index + 1 < Len(groups)
                       /\ MayMerge(g.units, groups[index + 2].units)
           backward == /\ ~forward /\ joined # << >> /\ Small(g.units)
                       /\ MayMerge(joined[Len(joined)].units, g.units)
       IN  \/ /\ forward
              /\ joined' = Append(joined, Joined(g, groups[index + 2]))
              /\ index' = index + Steps
           \/ /\ backward
              /\ joined' = [joined EXCEPT ![Len(joined)] = Joined(@, g)]
              /\ index' = index + 1
           \/ /\ ~forward /\ ~backward
              /\ joined' = Append(joined, g)
              /\ index' = index + 1
    /\ UNCHANGED <<elements, pos, hierarchy, units, taken, buffer, groups, made, phase, raised>>

EndMerge ==
    /\ phase = "merge" /\ index = Len(groups)
    /\ phase' = "make"
    /\ UNCHANGED <<elements, pos, hierarchy, units, taken, buffer, groups, joined, index,
                   made, raised>>

-----------------------------------------------------------------------------
(* _make_fragment                                                          *)

SmallestOf(S) == IF S = {} THEN Null ELSE CHOOSE x \in S : \A y \in S : x <= y
LargestOf(S)  == IF S = {} THEN Null ELSE CHOOSE x \in S : \A y \in S : x >= y

FirstRow(us) == SmallestOf({us[k].from : k \in 1..Len(us)} \ {Null})
LastRow(us)  == LargestOf({us[k].to : k \in 1..Len(us)} \ {Null})
LastContinuation(us) == LargestOf({us[k].continuation : k \in 1..Len(us)})

\* The elements of the units, each where it comes first.
SourceIds(us) ==
    LET upTo[n \in 0..Len(us)] ==
            IF n = 0 THEN << >>
            ELSE IF us[n].element \in ToSet(upTo[n - 1]) THEN upTo[n - 1]
            ELSE Append(upTo[n - 1], us[n].element)
    IN  upTo[Len(us)]

FragmentType(us) ==
    LET types == {us[i].type : i \in 1..Len(us)}
    IN  CASE types = {"TABLE"} -> "TABLE"
          [] types = {"LIST_ITEM"} -> "LIST"
          [] types = {"CODE_BLOCK"} -> "CODE"
          [] "HEADING" \in types -> "SECTION"
          [] types = {"PARAGRAPH"} -> "PARAGRAPH"
          [] OTHER -> "OTHER"

TextsOf(us) == [i \in 1..Len(us) |-> us[i].toks]

\* Mutation: the continuation index is left out of the identity.
Identity_NoContinuation(us) ==
    [ids |-> SourceIds(us), content |-> TextsOf(us), type |-> FragmentType(us),
     from |-> FirstRow(us), to |-> LastRow(us)]

\* What fragment_id is a hash of, apart from what a document has once.
Identity(us) ==
    [ids |-> SourceIds(us), content |-> TextsOf(us), type |-> FragmentType(us),
     continuation |-> LastContinuation(us),
     from |-> FirstRow(us), to |-> LastRow(us)]

MakeFragment(g, sequence) ==
    [id |-> Identity(g.units), sequence |-> sequence, units |-> g.units,
     forced |-> g.forced \/ \E i \in 1..Len(g.units) : g.units[i].forced]

\* All fragments, each checked against the hard guards once more.
MakeFragments ==
    /\ phase = "make"
    /\ phase' = "done"
    /\ IF \E i \in 1..Len(joined) : ExceedsHard(joined[i].units)
       THEN raised' = "SPLITTER_FRAGMENT_EXCEEDS_HARD_GUARD" /\ UNCHANGED made
       ELSE /\ made' = [i \in 1..Len(joined) |-> MakeFragment(joined[i], i - 1)]
            /\ UNCHANGED raised
    /\ UNCHANGED <<elements, pos, hierarchy, units, taken, buffer, groups, joined, index>>

Finished ==
    /\ phase = "done" \/ raised # Null
    /\ UNCHANGED splitVars

SplitNext ==
    \/ TakeElement \/ TakeUnit \/ EndDocument \/ MergeGroup \/ EndMerge \/ MakeFragments
    \/ Finished

SplitSpec == SplitInit /\ [][SplitNext]_splitVars

-----------------------------------------------------------------------------
(* Properties.                                                             *)

UnitsOf(gs) == FlattenSeq([i \in 1..Len(gs) |-> gs[i].units])
TokensOf(us) == FlattenSeq([i \in 1..Len(us) |-> us[i].toks])

\* Nothing is lost, repeated or moved between the units and the groups, before,
\* while and after small groups are merged.
GroupsKeepUnits ==
    raised = Null =>
        /\ UnitsOf(groups) \o buffer = SubSeq(units, 1, taken)
        /\ phase # "split" => UnitsOf(groups) = units
        /\ phase = "merge" => UnitsOf(joined) = UnitsOf(SubSeq(groups, 1, index))
        /\ phase = "done" => UnitsOf(made) = units

\* The units of the i-th element: those from the first to the last that say so.
ElementUnits(us, i) ==
    LET mine == {k \in 1..Len(us) : us[k].element = i}
    IN  IF mine = {} THEN << >> ELSE SubSeq(us, SmallestOf(mine), LargestOf(mine))

ClustersOf(toks) == FlattenSeq([k \in 1..Len(toks) |-> toks[k].g])

\* The units of an element hold its text: the same tokens in the same order, or,
\* where a token had to be cut, the same grapheme clusters: none is split, "Never
\* split it internally" (service.py:411), and none is lost or moved.
UnitsKeepText ==
    \A i \in 1..pos : ~elements[i].suppressed /\ raised = Null =>
        LET mine == TokensOf(ElementUnits(units, i))
            text == FlattenSeq(elements[i].text)
        IN  IF \E k \in 1..Len(text) : text[k].c > HardChars
            THEN ClustersOf(mine) = ClustersOf(text)
            ELSE mine = text

\* "hard_max_chars, hard_max_words, and hard_max_sentences are now
\* postconditions": every group on the way, and every fragment, is within them,
\* and the two checks of it that come last never fail.
GuardsHold ==
    /\ \A i \in 1..Len(groups) : ~ExceedsHard(groups[i].units)
    /\ \A i \in 1..Len(joined) : ~ExceedsHard(joined[i].units)
    /\ raised \notin {"SPLITTER_HARD_GUARD_VIOLATION", "SPLITTER_FRAGMENT_EXCEEDS_HARD_GUARD"}

\* No two fragments of a document have the same id, although texts repeat and
\* elements are cut: the delivery takes the ids for block ids.
FragmentIdsAreUnique ==
    \A i, k \in 1..Len(made) : i # k => made[i].id # made[k].id

\* The rows of the pieces of a table follow each other without a gap.
RowsAreContiguous ==
    \A i \in 1..Len(units) - 1 :
        LET u == units[i]  v == units[i + 1]
        IN  u.from # Null /\ u.element = v.element =>
              v.from \in {u.to, u.to + 1} /\ (v.from = u.to => u.from = u.to)

\* What cannot be cut: a token of too many words, a cluster beyond the guard.
Uncuttable(t) ==
    \/ t.r /\ t.w > HardWords
    \/ \E n \in 1..Len(t.g) : t.g[n] > HardChars

\* A unit is refused only for a token that cannot be cut: one of several clusters
\* is cut within the guard of characters, wherever the guard falls.
OnlyTokensExceed ==
    raised = "SPLITTER_UNIT_EXCEEDS_HARD_GUARD" =>
        \E i \in 1..Len(units[taken].toks) : Uncuttable(units[taken].toks[i])

\* Fragments hold the text of the document once and in order, within the hard
\* guards, under ids of their own; the rows of a table that is cut follow on.
FragmentsAreFaithful ==
    /\ GroupsKeepUnits /\ UnitsKeepText /\ GuardsHold
    /\ FragmentIdsAreUnique /\ RowsAreContiguous /\ OnlyTokensExceed
=============================================================================
