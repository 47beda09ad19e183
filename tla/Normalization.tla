--------------------------- MODULE Normalization ---------------------------
(***************************************************************************)
(* TextNormalizationService (normalization/service.py): the text of every  *)
(* element, then the page furniture of the document.  A character is its   *)
(* class:                                                                  *)
(*    "x" "X" a letter and its upper case      "4" a four-digit code       *)
(*    "b" a letter that composes with "c", a combining mark, to "B"        *)
(*    "u" the scheme of an address (what follows up to white space is      *)
(*        part of it)                          "-" hyphen                  *)
(*    "s" soft hyphen   "0" control   "f" form feed   "t" tab   "N" NBSP   *)
(*    " " blank         "r" CR        "n" LF                               *)
(* One step normalizes one element; the last one classifies the furniture. *)
(***************************************************************************)
EXTENDS Integers, Sequences, FiniteSets, SequencesExt

CONSTANTS
    Documents,      \* the parsed documents: sequences of elements
    Window,         \* characters looked at around a hyphen (64)
    MinPages,       \* furniture_min_pages
    PagesNum, PagesDen,   \* furniture_min_fraction
    Null

\* NormalizationProfile.validate
ProfileIsValid ==
    MinPages >= 2 /\ 0 < PagesNum /\ PagesNum <= PagesDen

VARIABLES
    document,
    normalized,  \* the texts of the elements normalized so far
    rows,        \* the cells of each of them
    hyphens,     \* dehyphenations_applied
    suppressed,  \* indices of elements kept out of the index
    done

normalizationVars == <<document, normalized, rows, hyphens, suppressed, done>>

NormalizationInit ==
    /\ document \in Documents
    /\ normalized = << >>
    /\ rows = << >>
    /\ hyphens = 0
    /\ suppressed = {}
    /\ done = FALSE

-----------------------------------------------------------------------------
(* _normalize_text                                                         *)

Map(f(_), s)  == [k \in 1..Len(s) |-> f(s[k])]
Without(S, s) == SelectSeq(s, LAMBDA c : c \notin S)

LineEnds(s) ==
    FoldLeft(LAMBDA v, k : IF s[k] = "n" /\ k > 1 /\ s[IF k > 1 THEN k - 1 ELSE 1] = "r" THEN v
                           ELSE Append(v, IF s[k] = "r" THEN "n" ELSE s[k]),
             << >>, [k \in 1..Len(s) |-> k])

NFC(s) ==
    FoldLeft(LAMBDA v, c : IF c = "c" /\ v # << >> /\ v[IF v = << >> THEN 1 ELSE Len(v)] = "b"
                           THEN Append(SubSeq(v, 1, Len(v) - 1), "B") ELSE Append(v, c),
             << >>, s)

\* Mutation: every hyphen is taken for a soft one.
Clean_Hyphen(s) ==
    Without({"s", "0", "f", "-"},
            Map(LAMBDA c : IF c = "N" THEN " " ELSE c, NFC(LineEnds(s))))

\* Line ends, NFC, NBSP, soft hyphens and C0 controls, in this order.  The form
\* feed is one of the controls.
Clean(s) ==
    Without({"s", "0", "f"},
            Map(LAMBDA c : IF c = "N" THEN " " ELSE c, NFC(LineEnds(s))))

IsWord(c)  == c \in {"x", "X", "b", "B", "4"}
IsSpace(c) == c \in {" ", "t", "n"}

\* (?<=\w)-\n(?=\w) at p
WrapAt(v, p) ==
    /\ p > 1 /\ p + 2 <= Len(v)
    /\ IsWord(v[p - 1]) /\ v[p] = "-" /\ v[p + 1] = "n" /\ IsWord(v[p + 2])

\* The spans of _PROTECTED_TOKEN in w: an address of at least one character,
\* and a code that is a word of its own.
ProtectedSpans(w) ==
    {<<a, b>> \in (1..Len(w)) \X (1..Len(w)) :
        /\ a < b /\ w[a] = "u"
        /\ \A k \in a + 1..b : ~IsSpace(w[k])
        /\ b = Len(w) \/ IsSpace(w[b + 1])}
    \cup {<<a, a>> : a \in {k \in 1..Len(w) :
                              /\ w[k] = "4"
                              /\ k = 1 \/ ~IsWord(w[k - 1])
                              /\ k = Len(w) \/ ~IsWord(w[k + 1])}}

\* Mutation: no token is protected.
OverlapsProtectedSpan_None(w, from, to) == FALSE

\* _overlaps_protected_span
OverlapsProtectedSpan(w, from, to) ==
    \E s \in ProtectedSpans(w) : s[1] <= to /\ s[2] >= from

\* One candidate of the dehyphenation loop, which goes from right to left.
DehyphenateAt(acc, p) ==
    LET v    == acc.value
        from == IF p - Window < 1 THEN 1 ELSE p - Window
        to   == IF p + 1 + Window > Len(v) THEN Len(v) ELSE p + 1 + Window
    IN  IF WrapAt(v, p) /\ ~OverlapsProtectedSpan(SubSeq(v, from, to), p - from + 1, p - from + 2)
        THEN [value |-> SubSeq(v, 1, p - 1) \o SubSeq(v, p + 2, Len(v)), hyphens |-> acc.hyphens + 1]
        ELSE acc

Dehyphenate(v) ==
    FoldLeft(DehyphenateAt, [value |-> v, hyphens |-> 0],
             [k \in 1..Len(v) |-> Len(v) + 1 - k])

\* value.split("\n")
Lines(v) ==
    FoldLeft(LAMBDA ls, c : IF c = "n" THEN Append(ls, << >>)
                            ELSE [ls EXCEPT ![Len(ls)] = Append(@, c)],
             << << >> >>, v)

Strip(l) ==
    LET solid == {k \in 1..Len(l) : ~IsSpace(l[k])}
    IN  IF solid = {} THEN << >>
        ELSE SubSeq(l, CHOOSE k \in solid : \A m \in solid : k <= m,
                       CHOOSE k \in solid : \A m \in solid : k >= m)

\* Mutation: two blanks become one, once, as replace() would have it.
Collapse_Pairs(l) ==
    FoldLeft(LAMBDA acc, c :
                 IF c \in {" ", "t"} /\ acc.open THEN [v |-> acc.v, open |-> FALSE]
                 ELSE IF c \in {" ", "t"} THEN [v |-> Append(acc.v, " "), open |-> TRUE]
                 ELSE [v |-> Append(acc.v, c), open |-> FALSE],
             [v |-> << >>, open |-> FALSE], l).v

\* Runs of blanks and tabs become one blank.
Collapse(l) ==
    FoldLeft(LAMBDA v, c : IF c \notin {" ", "t"} THEN Append(v, c)
                           ELSE IF v # << >> /\ v[IF v = << >> THEN 1 ELSE Len(v)] = " " THEN v
                           ELSE Append(v, " "),
             << >>, l)

\* Empty lines: none at the start or the end, never two together.
Compact(ls) ==
    LET kept == FoldLeft(LAMBDA c, l : IF l # << >> \/ (c # << >> /\ Last(c) # << >>)
                                       THEN Append(c, l) ELSE c, << >>, ls)
    IN  IF kept # << >> /\ Last(kept) = << >> THEN Front(kept) ELSE kept

JoinWith(ls, sep) ==
    FoldLeft(LAMBDA v, k : (IF k = 1 THEN v ELSE Append(v, sep)) \o ls[k],
             << >>, [k \in 1..Len(ls) |-> k])

NormalizeText(text, layout, dehyphen, join) ==
    LET clean == Clean(text)
        d     == IF dehyphen THEN Dehyphenate(clean) ELSE [value |-> clean, hyphens |-> 0]
        lines == Map(LAMBDA l : Strip(Collapse(l)), Lines(d.value))
    IN  IF layout THEN [value |-> clean, hyphens |-> 0]
        ELSE [value |-> IF join THEN JoinWith(SelectSeq(lines, LAMBDA l : l # << >>), " ")
                        ELSE Strip(JoinWith(Compact(lines), "n")),
              hyphens |-> d.hyphens]

-----------------------------------------------------------------------------
(* The elements.                                                           *)

\* A paragraph of the parser is continuous unless OCR or a hint says otherwise.
MayJoinLines(e) ==
    \/ e.wrap \/ e.hyphen
    \/ e.type = "PARAGRAPH" /\ ~e.ocr /\ ~e.preserve

TextOf(e) == NormalizeText(e.text, e.type = "CODE_BLOCK", e.hyphen, MayJoinLines(e))

\* Rows that are not lists (Null) are left out with a warning.
RowsOf(e) ==
    IF e.type # "TABLE" THEN << >>
    ELSE Map(LAMBDA row : Map(LAMBDA cell : NormalizeText(cell, FALSE, FALSE, FALSE).value, row),
             SelectSeq(e.rows, LAMBDA row : row # Null))

\* _normalize_element
NormalizeElement ==
    /\ Len(normalized) < Len(document)
    /\ LET e == document[Len(normalized) + 1]
       IN  /\ normalized' = Append(normalized, TextOf(e).value)
           /\ rows' = Append(rows, RowsOf(e))
           /\ hyphens' = hyphens + TextOf(e).hyphens
    /\ UNCHANGED <<document, suppressed, done>>

-----------------------------------------------------------------------------
(* _classify_page_furniture                                                *)

\* Elements with text and page evidence, headings apart.
PageElements ==
    {k \in 1..Len(document) : /\ normalized[k] # << >> /\ document[k].type # "HEADING"
                              /\ document[k].page # Null}

Pages(S) == {document[k].page : k \in S}

\* Case-folded, white space collapsed.
Key(k) == Strip(Collapse(Map(LAMBDA c : IF c = "X" THEN "x" ELSE IF c = "n" THEN " " ELSE c,
                             normalized[k])))

\* Mutation: elements are counted, not pages.
Occurrences_Elements(group) == Cardinality(group)

Occurrences(group) == Cardinality(Pages(group))

Required ==
    LET share == (Cardinality(Pages(PageElements)) * PagesNum + PagesDen - 1) \div PagesDen
    IN  IF share > MinPages THEN share ELSE MinPages

ClassifyPageFurniture ==
    /\ Len(normalized) = Len(document) /\ ~done
    /\ done' = TRUE
    /\ LET edge == {k \in PageElements : document[k].edge}
       IN  suppressed' = IF Cardinality(Pages(PageElements)) < MinPages THEN {}
                         ELSE {k \in edge : Occurrences({m \in edge : Key(m) = Key(k)}) >= Required}
    /\ UNCHANGED <<document, normalized, rows, hyphens>>

NormalizationStop == done /\ UNCHANGED normalizationVars

NormalizationNext == NormalizeElement \/ ClassifyPageFurniture \/ NormalizationStop

NormalizationSpec == NormalizationInit /\ [][NormalizationNext]_normalizationVars

-----------------------------------------------------------------------------
(* Properties.                                                             *)

Finished == DOMAIN normalized

Removed == {"s", "0", "f"}      \* soft hyphens and controls, a form feed among them
Blank   == {" ", "t", "N", "r", "n"}

Count(s, c) == Len(SelectSeq(s, LAMBDA x : x = c))

\* Letters and marks apart, however they were composed.
Decomposed(s) ==
    FoldLeft(LAMBDA v, c : IF c = "B" THEN v \o <<"b", "c">> ELSE Append(v, c), << >>, s)

Words(s) ==
    SelectSeq(Lines(Map(LAMBDA c : IF c \in Blank THEN "n" ELSE c, s)), LAMBDA w : w # << >>)

Lost(k) == Count(document[k].text, "-") - Count(normalized[k], "-")

\* "Normalize representation; do not normalize meaning": the words of a text, as
\* its blanks part them, stay as they are.  Only with wrap evidence do two of them
\* become one, without a character lost but the hyphen between them, which is
\* counted (dehyphenations_applied).  A form feed does not part words: the code
\* removes it as a control.
MeaningIsKept ==
    /\ \A k \in Finished :
        LET before == Words(Decomposed(Without(Removed, document[k].text)))
            after  == Words(Decomposed(normalized[k]))
            solid(ws) == Without({"-"}, FlattenSeq(ws))
        IN  /\ ~document[k].hyphen => after = before
            /\ solid(after) = solid(before)
            /\ Lost(k) >= 0 /\ Len(after) = Len(before) - Lost(k)
    /\ hyphens = FoldLeft(LAMBDA n, k : n + Lost(k), 0, [k \in Finished |-> k])

\* A letter and its mark are composed, the ones apart that a soft hyphen or a
\* control stood between: NFC comes before the removal.
TextIsComposed ==
    \A k \in Finished :
        LET v == normalized[k]
            t == document[k].text
        IN  Cardinality({p \in 1..Len(v) - 1 : v[p] = "b" /\ v[p + 1] = "c"})
              = Cardinality({p \in 1..Len(t) : /\ t[p] = "b"
                                               /\ \E q \in p + 2..Len(t) :
                                                    /\ t[q] = "c"
                                                    /\ \A m \in p + 1..q - 1 : t[m] \in Removed})

\* Normalizing again composes what was left uncomposed and changes nothing else:
\* blank lines, blanks at the edges and runs of blanks are gone at once, whatever
\* the rules before them left behind.
NormalFormIsStable ==
    \A k \in Finished :
        TextOf([document[k] EXCEPT !.text = normalized[k]]).value = NFC(normalized[k])

\* Hyphens of s inside an address, near enough to its scheme to be recognized.
AddressHyphens(s) ==
    Cardinality({p \in 1..Len(s) : s[p] = "-" /\ \E a \in 1..p - 1 :
                    s[a] = "u" /\ p - a <= Window /\ \A k \in a..p : ~IsSpace(s[k])})

\* The four-digit codes of s: \b\d{4}\b.
Codes(s) ==
    {p \in 1..Len(s) : /\ s[p] = "4"
                       /\ p = 1 \/ ~IsWord(s[p - 1])
                       /\ p = Len(s) \/ ~IsWord(s[p + 1])}

\* Of these, the ones at a hyphen that wraps a line.
WrappedCodes(s) == {p \in Codes(s) : WrapAt(s, p + 1) \/ WrapAt(s, p - 2)}

\* Protected tokens stay whole, even with wrap evidence: an address that is wrapped
\* at a hyphen keeps it, and a code is never joined to what stands beside it, unless
\* the wrapping hyphen does.
ProtectedTokensAreKept ==
    \A k \in Finished :
        LET clean == Clean(document[k].text)
        IN  /\ AddressHyphens(normalized[k]) >= AddressHyphens(clean)
            /\ Cardinality(Codes(normalized[k]))
                 \in Cardinality(Codes(clean) \ WrappedCodes(clean)) .. Cardinality(Codes(clean))

\* "Protected-token recognition covers ... four-digit codes ... before risky
\* dehyphenation": a code is a code afterwards, one beside a wrapping hyphen too.
\* The code does not keep this: the span of a code ends before the hyphen, and
\* _overlaps_protected_span asks of the hyphen and the line end alone.
WrappedCodesAreKept ==
    \A k \in Finished :
        Cardinality(Codes(normalized[k])) = Cardinality(Codes(Clean(document[k].text)))

\* "repeated page furniture may be suppressed only with page + edge geometry +
\* repetition evidence": what is suppressed stands, as text of the same key, at
\* the edge of at least MinPages pages and of the required share of all pages.
OnlyFurnitureIsSuppressed ==
    \A k \in suppressed :
        LET same == {document[m].page : m \in {m \in suppressed : Key(m) = Key(k)}}
        IN  /\ document[k].edge /\ document[k].type # "HEADING" /\ Null \notin same
            /\ Cardinality(same) >= MinPages
            /\ PagesDen * Cardinality(same) >= PagesNum * Cardinality(Pages(PageElements))
=============================================================================
