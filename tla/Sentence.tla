------------------------------ MODULE Sentence ------------------------------
(***************************************************************************)
(* _split_unicode (splitter/sentence.py): the scan that cuts a text into   *)
(* sentences.  A character is its class:                                   *)
(*    "A" upper-case letter   "a" lower-case letter   "h" letter, no case  *)
(*    "t" a Japanese quote continuation (a letter)    "d" digit            *)
(*    "." full stop   "!" another sentence terminal   "e" the ellipsis     *)
(*    ";" terminal in some languages   ")" closer     "(" opener           *)
(*    "@" an address marker   "_" underscore   " " blank   "n" line feed   *)
(* Positions count from 1.  One step is one iteration of the loop.         *)
(***************************************************************************)
EXTENDS Integers, Sequences, FiniteSets, SequencesExt

CONSTANTS
    Texts,      \* the texts to cut
    Languages,  \* the language hints, as _primary_language gives them
    Profiles    \* language -> abbreviations, always (nonterminal), extra terminals

VARIABLES
    text, language,
    begin,      \* start: where the open sentence begins
    scan,       \* i: the character under the scan
    out,        \* the sentences found, as <<first, last>> positions
    cut         \* the call has returned

sentenceVars == <<text, language, begin, scan, out, cut>>

Blanks  == {" ", "n"}
Closers == {")"}
Ends    == {".", "!", ";", "e"}     \* what ends a sentence in some language

\* Texts are strings, abbreviations end in one full stop, and the terminals a
\* language adds are among the ends (PROFILES: the Greek question mark).
ASSUME SentenceAssumption ==
    /\ \A t \in Texts : Len(t) \in Nat /\ DOMAIN t = 1..Len(t)
    /\ \A l \in Languages :
          /\ Profiles[l].extra \subseteq Ends
          /\ \A a \in Profiles[l].always :
                Len(a) >= 2 => a[Len(a) - 1] \notin Ends

SentenceInit ==
    /\ text \in Texts
    /\ language \in Languages
    /\ begin = 1
    /\ scan = 1
    /\ out = << >>
    \* split_sentences returns at once for blank text
    /\ cut = \A k \in 1..Len(text) : text[k] \in Blanks

-----------------------------------------------------------------------------
(* Character classes and look-around.                                      *)

Profile == Profiles[language]

Terminals == {".", "!"} \cup Profile.extra

IsSpace(c)  == c \in Blanks
IsAlpha(c)  == c \in {"A", "a", "h", "t"}
IsAlnum(c)  == IsAlpha(c) \/ c = "d"
IsCloser(c) == c \in Closers

\* The character at k, or "" outside the text.
At(k) == IF k \in 1..Len(text) THEN text[k] ELSE ""

StartsWith(s, p) ==
    p + Len(s) - 1 <= Len(text) /\ \A k \in 1..Len(s) : text[p + k - 1] = s[k]

\* The first position from k on whose character is not one of C.
SkipFrom(k, C) ==
    CHOOSE e \in k..Len(text) + 1 :
        /\ \A p \in k..e - 1 : text[p] \in C
        /\ e = Len(text) + 1 \/ text[e] \notin C

EndsToken(c) == IsSpace(c) \/ IsCloser(c) \/ c = "("

\* _previous_token: case-folded, the full stop at p included.
PreviousToken(p) ==
    LET from == CHOOSE b \in 1..p : /\ \A k \in b..p - 1 : ~EndsToken(text[k])
                                    /\ b = 1 \/ EndsToken(text[b - 1])
    IN  [k \in 1..p - from + 1 |->
            IF text[from + k - 1] = "A" THEN "a" ELSE text[from + k - 1]]

\* _next_lexical_char
NextLexicalChar(p) == At(SkipFrom(p + 1, Blanks \cup Closers))

\* _abbreviation_is_protected
AbbreviationIsProtected(p) ==
    LET token == PreviousToken(p)
        next  == NextLexicalChar(p)
    IN  \/ token \in Profile.always
        \/ /\ \E a \in Profile.abbreviations : IsSuffix(a, token)
           /\ next \notin {"", "A"}

\* A single letter before the full stop: an initial.
IsInitial(p) == IsAlpha(At(p - 1)) /\ ~IsAlpha(At(p - 2))

\* The text between white space around position p.
FullToken(p) ==
    LET from == CHOOSE b \in 1..p : /\ \A k \in b..p - 1 : ~IsSpace(text[k])
                                    /\ b = 1 \/ IsSpace(text[b - 1])
        to   == SkipFrom(p + 1, ToSet(text) \ Blanks) - 1
    IN  <<from, to>>

\* Inside a token: an address, a token of several full stops, an identifier.
IsInsideIdentifier(p) ==
    LET from == FullToken(p)[1]
        to   == FullToken(p)[2]
    IN  /\ p < to
        /\ \/ \E k \in from..to : text[k] = "@"
           \/ Cardinality({k \in from..to : text[k] = "."}) >= 2
           \/ /\ IsAlnum(At(p - 1)) \/ At(p - 1) \in {"_", ")", ""}
              /\ IsAlnum(At(p + 1)) \/ At(p + 1) \in {"_", "("}

\* Mutation: abbreviations are not looked up.
PeriodIsProtected_NoAbbreviation(p) ==
    \/ IsAlnum(At(p - 1)) /\ IsAlnum(At(p + 1))
    \/ IsInitial(p)
    \/ IsInsideIdentifier(p)

\* _period_is_protected
PeriodIsProtected(p) ==
    \/ IsAlnum(At(p - 1)) /\ IsAlnum(At(p + 1))
    \/ AbbreviationIsProtected(p)
    \/ IsInitial(p)
    \/ IsInsideIdentifier(p)

\* _looks_like_reporting_continuation
ReportingContinuation(end, hadCloser) ==
    /\ hadCloser /\ end <= Len(text)
    /\ \/ language = "ja" /\ text[end] = "t"
       \/ At(SkipFrom(end, Blanks)) = "a"

\* _ellipsis_is_terminal
EllipsisIsTerminal(end) ==
    LET next == At(SkipFrom(end, Blanks))
    IN  next \in {"", "A"} \/ (next # "a" /\ language \in {"ja", "zh"})

-----------------------------------------------------------------------------
(* The loop.                                                               *)

\* text[from..to].strip(), if anything is left of it.
Emit(from, to) ==
    LET solid == {k \in from..to : ~IsSpace(text[k])}
    IN  IF solid = {} THEN out
        ELSE Append(out, << CHOOSE k \in solid : \A m \in solid : k <= m,
                            CHOOSE k \in solid : \A m \in solid : k >= m >>)

AsciiEllipsis == StartsWith(<<".", ".", ".">>, scan)
AtBlankLine   == StartsWith(<<"n", "n">>, scan)
AtTerminal    == text[scan] \in Terminals \/ text[scan] = "e"
SkipsPeriod   == text[scan] = "." /\ ~AsciiEllipsis /\ PeriodIsProtected(scan)

\* Where the run of terminals under the scan ends, and the closers after it.
RunEnd    == IF AsciiEllipsis THEN SkipFrom(scan + 3, {"."})
             ELSE SkipFrom(scan + 1, Terminals)
CloserEnd == SkipFrom(RunEnd, Closers)

Scanning == ~cut /\ scan <= Len(text)

BlankLine ==
    /\ Scanning /\ AtBlankLine
    /\ out' = Emit(begin, scan - 1)
    /\ scan' = SkipFrom(scan, {"n"})
    /\ begin' = scan'
    /\ UNCHANGED <<text, language, cut>>

Ordinary ==
    /\ Scanning /\ ~AtBlankLine
    /\ ~AtTerminal \/ SkipsPeriod
    /\ scan' = scan + 1
    /\ UNCHANGED <<text, language, begin, out, cut>>

\* Mutation: the scan resumes after the white space.
ContinueAt_AfterSpace(end) == SkipFrom(end, Blanks)

ContinueAt(end) == end

\* The terminal is inside a sentence that goes on.
Continues ==
    /\ Scanning /\ ~AtBlankLine /\ AtTerminal /\ ~SkipsPeriod
    /\ \/ ReportingContinuation(CloserEnd, CloserEnd > RunEnd)
       \/ (AsciiEllipsis \/ text[scan] = "e") /\ ~EllipsisIsTerminal(CloserEnd)
    /\ scan' = ContinueAt(CloserEnd)
    /\ UNCHANGED <<text, language, begin, out, cut>>

\* Mutation: a full stop ends a sentence wherever it stands.
GluedPeriod_Never == FALSE

\* A full stop that no white space follows ends nothing.
GluedPeriod ==
    /\ CloserEnd <= Len(text) /\ ~IsSpace(text[CloserEnd])
    /\ text[scan] = "." /\ ~AsciiEllipsis

\* Mutation: one character after the boundary is dropped.
ResumeAt_Late(end) == SkipFrom(end, Blanks) + 1

ResumeAt(end) == SkipFrom(end, Blanks)

Boundary ==
    /\ Scanning /\ ~AtBlankLine /\ AtTerminal /\ ~SkipsPeriod
    /\ ~ReportingContinuation(CloserEnd, CloserEnd > RunEnd)
    /\ AsciiEllipsis \/ text[scan] = "e" => EllipsisIsTerminal(CloserEnd)
    /\ \/ /\ GluedPeriod
          /\ scan' = scan + 1
          /\ UNCHANGED <<begin, out>>
       \/ /\ ~GluedPeriod
          /\ out' = Emit(begin, CloserEnd - 1)
          /\ begin' = ResumeAt(CloserEnd)
          /\ scan' = begin'
    /\ UNCHANGED <<text, language, cut>>

\* The tail is the last sentence.
EmitTail ==
    /\ ~cut /\ scan > Len(text)
    /\ out' = Emit(begin, Len(text))
    /\ cut' = TRUE
    /\ UNCHANGED <<text, language, begin, scan>>

SentenceStop == cut /\ UNCHANGED sentenceVars

SentenceNext == BlankLine \/ Ordinary \/ Continues \/ Boundary \/ EmitTail \/ SentenceStop

SentenceSpec == SentenceInit /\ [][SentenceNext]_sentenceVars

-----------------------------------------------------------------------------
(* Properties.                                                             *)

\* No character but white space is lost or told twice: sentences follow each
\* other in order, and what none of them holds is still ahead of the scan.
NothingIsLost ==
    /\ \A k \in 1..Len(text) : ~IsSpace(text[k]) /\ (cut \/ k < begin) =>
           \E s \in 1..Len(out) : out[s][1] <= k /\ k <= out[s][2]
    /\ \A s \in 1..Len(out) - 1 : out[s][2] < out[s + 1][1]

\* "blank-line paragraph boundary": no sentence reaches across a blank line, not
\* even where a quotation or an ellipsis goes on after it.
BlankLineEnds ==
    \A s \in 1..Len(out) : \A k \in out[s][1]..out[s][2] - 1 :
        ~(text[k] = "n" /\ text[k + 1] = "n")

\* "internal version/IP/URL/email dots remain protected": where the next sentence
\* follows without white space, more than a full stop stands between the two.
DotsSplitNoToken ==
    \A s \in 1..Len(out) - 1 : out[s][2] + 1 = out[s + 1][1] =>
        LET words == {k \in out[s][1]..out[s][2] : text[k] \notin Ends \cup Closers}
            run   == {k \in out[s][1]..out[s][2] : \A w \in words : w < k}
        IN  \/ \E k \in run : text[k] \in Ends \ {"."}
            \/ Cardinality({k \in run : text[k] = "."}) >= 3

\* "Dr. Smith remains one sentence prefix": only a blank line separates an
\* always-nonterminal abbreviation from what follows it.
AbbreviationsHold ==
    \A s \in 1..Len(out) - 1 :
        LET last == out[s][2]
        IN  text[last] = "." /\ PreviousToken(last) \in Profile.always =>
              \E k \in last + 1..out[s + 1][1] - 2 : text[k] = "n" /\ text[k + 1] = "n"

\* Sentences hold the whole text in its order; blank lines end them, the full
\* stops of tokens and abbreviations do not.
SentencesAreFaithful ==
    NothingIsLost /\ BlankLineEnds /\ DotsSplitNoToken /\ AbbreviationsHold
=============================================================================
