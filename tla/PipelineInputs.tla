--------------------------- MODULE PipelineInputs ---------------------------
(***************************************************************************)
(* What the stages of the preparation pipeline are given by MCPipeline:    *)
(* the files, documents, texts, artifacts and block graphs within small    *)
(* bounds.                                                                 *)
(***************************************************************************)
EXTENDS Integers, Sequences, NoValue

CONSTANTS n1, n2

SeqsUpTo(S, n) == UNION {[1..k -> S] : k \in 0..n}

-----------------------------------------------------------------------------
(* Files, for SourceFormat.                                                *)

MaxBytes == 4   \* bound: bytes of an RTF file behind its signature
MaxZip   == 2   \* bound: entries of a container, the ones of Archives apart

Rtf == {[kind |-> "rtf", bytes |-> <<"{", "a">> \o b] :
            b \in SeqsUpTo({"a", "\\", "{", "}", "0"}, MaxBytes)}

Text == {[kind |-> "text", bytes |-> b, ext |-> "txt", html |-> FALSE, markup |-> FALSE, rows |-> 0] :
             b \in SeqsUpTo({"a", "2", "c", "0"}, MaxBytes + 1)}
        \cup [kind : {"text"}, bytes : {<<"a">>}, ext : {"txt", "md", "csv", "html"},
              html : BOOLEAN, markup : BOOLEAN, rows : 0..3]

Entry(name, size, packed) ==
    [name |-> name, size |-> size, packed |-> packed, unsafe |-> FALSE, encrypted |-> FALSE,
     nested |-> FALSE]

Entries == {Entry(n, s, 1) : n \in {"types", "word", "xl", "mimetype", "content"}, s \in {1, 2}}
           \cup {Entry("container", 1, 1), Entry("ppt", 3, 0), Entry("ppt", 4, 2), Entry("big", 5, 5),
                 [Entry("x", 1, 1) EXCEPT !.unsafe = TRUE],
                 [Entry("y", 1, 1) EXCEPT !.encrypted = TRUE],
                 [Entry("z", 1, 1) EXCEPT !.nested = TRUE]}

\* Containers of up to two entries, and of three or four whose sizes add up.
Archives == [kind : {"zip"}, sound : BOOLEAN, mime : {Null, "epub", "odt"},
             entries : SeqsUpTo(Entries, MaxZip)]
            \cup [kind : {"zip"}, sound : {TRUE}, mime : {Null},
                  entries : UNION {[1..k -> {Entry(n, s, 1) : n \in {"types", "word", "xl"}, s \in {1, 2}}] :
                                     k \in 3..4}]

Pictures == [kind : {"image"}, format : {"PNG", "TIFF"}, decoded : {"PNG", "TIFF", Null}, width : 1..3,
             height : 1..3, frames : 1..3, sound : BOOLEAN]

AllFiles == Rtf \cup Text \cup Archives \cup Pictures
            \cup {[kind |-> "executable"], [kind |-> "pdf", eof |-> TRUE], [kind |-> "pdf", eof |-> FALSE]}

-----------------------------------------------------------------------------
(* Parsed documents with OCR candidates, for Ocr.                          *)

Seen(text, conf) == [text |-> text, conf |-> conf]

\* "pair" shows two texts, one of them under the floor; "dot" is decorative,
\* "wall" beyond the limit of a page.
PipelineImages == {"pair", "word", "dot", "wall"}

PipelineImage ==
    [x \in PipelineImages |->
        CASE x = "pair" -> [width |-> 2, height |-> 2, bytes |-> 1,
                            texts |-> <<Seen(<<"b">>, "drop"), Seen(<<"a", " ", "b">>, "good")>>]
          [] x = "word" -> [width |-> 2, height |-> 2, bytes |-> 2, texts |-> <<Seen(<<"a">>, "low")>>]
          [] x = "dot"  -> [width |-> 1, height |-> 4, bytes |-> 1, texts |-> << >>]
          [] x = "wall" -> [width |-> 4, height |-> 4, bytes |-> 1, texts |-> <<Seen(<<"c">>, "good")>>]]

Shape(scope, page, element, image, reason) ==
    [scope |-> scope, page |-> page, element |-> element, image |-> image, reason |-> reason,
     id |-> Null]

WholePage  == Shape("PAGE", 1, Null, "word", "scanned_image")
SecondPage == Shape("PAGE", 2, Null, "word", "scanned_image")
LeftHalf   == Shape("EMBEDDED_IMAGE", 1, n1, "pair", "pptx_picture")
RightHalf  == Shape("EMBEDDED_IMAGE", 1, n2, "pair", "pptx_picture")
Scan       == Shape("PAGE", 1, n2, "pair", "standalone_image")
Dot        == Shape("EMBEDDED_IMAGE", 1, n1, "dot", "pptx_picture")
Wall       == Shape("PAGE", 1, Null, "wall", "scanned_image")
Chart      == Shape("CHART", 1, n1, "pair", "chart")
Stray      == Shape("REGION", 1, "gone", "pair", "region")

\* Candidate ids are those of their places.
Named(shapes) == [k \in DOMAIN shapes |-> [shapes[k] EXCEPT !.id = k]]

Native(texts) == [k \in DOMAIN texts |->
                    [id |-> IF k = 1 THEN n1 ELSE n2, page |-> 1, text |-> texts[k]]]

Parsed(format, native, candidates, mode, st, pages) ==
    [sameSource |-> TRUE, format |-> format, native |-> Native(native),
     candidates |-> candidates, mode |-> mode, status |-> st, pageModes |-> pages]

Blank   == <<<< >>, << >>>>
Written == <<<<"c">>, <<"d">>>>
Holding == <<<<"d", "a", " ", "b">>, <<"b", " ", "a">>>>   \* the text of "pair", across its words
OcrModes == {"DISABLED", "IF_NEEDED", "FORCE"}

Slides(candidates) ==
    {Parsed("OFFICE", native, Named(candidates), mode, st, << >>) :
        native \in {Blank, Written, Holding}, mode \in OcrModes, st \in {"GOOD", "OCR_REQUIRED"}}

Pages(candidates) ==
    {Parsed("PDF", Blank, Named(candidates), mode, "OCR_REQUIRED", <<page>>) :
        mode \in OcrModes, page \in {"SCANNED_IMAGE", "NATIVE_TEXT"}}

\* Every way through the policy, the budgets and the merge; three turns or four,
\* for a late answer to have later turns to be taken for another's.
OcrDocuments ==
    UNION {Slides(s) : s \in SeqsUpTo({LeftHalf, RightHalf, Dot, Chart}, 2)}
    \cup UNION {Pages(s) : s \in SeqsUpTo({WholePage, SecondPage, Wall, Scan, LeftHalf}, 2)}
    \cup {Parsed("IMAGE", Blank, Named(s), "IF_NEEDED", "OCR_REQUIRED", <<"NATIVE_TEXT">>) :
             s \in [1..3 -> {Scan, WholePage, LeftHalf}] \cup [1..4 -> {RightHalf, WholePage}]}
    \cup {Parsed("IMAGE", Blank, <<Scan, Scan>>, "IF_NEEDED", "OCR_REQUIRED", << >>),
          Parsed("PDF", Blank, Named(<<Stray>>), "FORCE", "GOOD", << >>),
          [Parsed("PDF", Blank, Named(<<Scan>>), "FORCE", "GOOD", << >>) EXCEPT !.sameSource = FALSE]}

-----------------------------------------------------------------------------
(* Documents for Normalization: one element with every text over an        *)
(* alphabet, or several elements on several pages.                         *)

MaxProse == 3   \* bound: characters of a text over the larger alphabets
MaxPaged == 3   \* bound: elements of a paged document

ParsedElement(type) ==
    [type |-> type, text |-> << >>, hyphen |-> FALSE, wrap |-> FALSE, ocr |-> FALSE,
     preserve |-> FALSE, rows |-> << >>, page |-> Null, edge |-> FALSE]

Paragraph == ParsedElement("PARAGRAPH")

\* Prose joined and not joined, wrapped prose, code, a table.
Prose == {Paragraph, [Paragraph EXCEPT !.ocr = TRUE], [Paragraph EXCEPT !.hyphen = TRUE],
          ParsedElement("CODE_BLOCK"),
          [ParsedElement("TABLE") EXCEPT !.rows = << << <<"t", "x">>, << >> >>, Null >>]}

ProseTexts == SeqsUpTo({"x", "b", "c", "-", "s", "f", "t", " ", "n"}, MaxProse)
              \cup SeqsUpTo({"x", "-", " ", "n"}, MaxProse + 2)
              \cup SeqsUpTo({"x", "u", "-", "n"}, MaxProse + 2)
              \cup SeqsUpTo({"x", "u", "0", "N", "r", "n"}, MaxProse)
              \cup SeqsUpTo({"x", "4", "-", "n"}, MaxProse + 1)
              \cup SeqsUpTo({"b", "c", "s", "n"}, MaxProse + 1)

OnPage(p, at) == [Paragraph EXCEPT !.page = p, !.edge = at]

Paged == {OnPage(p, TRUE) : p \in 1..4}
         \cup {OnPage(1, FALSE), Paragraph, [OnPage(4, TRUE) EXCEPT !.type = "HEADING"]}

NormalizationDocuments ==
    {<< [e EXCEPT !.text = t] >> : e \in Prose, t \in ProseTexts}
    \cup SeqsUpTo({[e EXCEPT !.text = t] : e \in Paged, t \in {<<"x">>, <<"X">>, <<"b">>}}, MaxPaged)

-----------------------------------------------------------------------------
(* Texts, for Sentence.                                                    *)

MaxText == 4    \* bound: characters of a text over the alphabet of sentences

\* Sentences, quotations, abbreviations; ellipses, identifiers and addresses;
\* abbreviations before an upper-case letter; quotations before a blank line.
SentenceTexts ==
    SeqsUpTo({"A", "a", ".", "!", ")", " ", "n"}, MaxText)
    \cup SeqsUpTo({"a", "h", "t", "d", "e", ".", "@", "_", "(", ")", ";", " "}, MaxText - 1)
    \cup SeqsUpTo({"A", "a", ".", " "}, MaxText + 2)
    \cup SeqsUpTo({"a", "!", ")", "n"}, MaxText + 1)

\* The longest abbreviations have two letters: one is an initial anyway.
LanguageProfiles ==
    [mixed |-> [always |-> {<<"a", "a", ".">>},
                abbreviations |-> {<<"a", "a", ".">>, <<"h", "h", ".">>}, extra |-> {}],
     ja    |-> [always |-> {}, abbreviations |-> {}, extra |-> {}],
     el    |-> [always |-> {}, abbreviations |-> {}, extra |-> {";"}]]

SentenceLanguages == DOMAIN LanguageProfiles

-----------------------------------------------------------------------------
(* Normalized documents, for Splitter.                                     *)

MaxElements == 3    \* bound: elements of a document

\* One word; a long word to be cut, of clusters between which the guard falls; a
\* token of a script without spaces; one token of many words, such as a.b.c; a
\* cluster beyond the guard.
Word   == [c |-> 1, w |-> 1, r |-> TRUE,  g |-> <<1>>]
Long   == [c |-> 9, w |-> 1, r |-> TRUE,  g |-> <<2, 2, 2, 3>>]
Han    == [c |-> 4, w |-> 4, r |-> FALSE, g |-> <<1, 1, 1, 1>>]
Packed == [c |-> 7, w |-> 4, r |-> TRUE,  g |-> <<1, 1, 1, 1, 1, 1, 1>>]
Giant  == [c |-> 8, w |-> 1, r |-> TRUE,  g |-> <<8>>]

Normal(type, text) ==
    [type |-> type, level |-> 1, text |-> text, rows |-> type = "TABLE", suppressed |-> FALSE,
     notice |-> FALSE, colon |-> FALSE]

Shapes == {
    Normal("HEADING", << <<Word>> >>),
    [Normal("HEADING", << <<Word>> >>) EXCEPT !.level = 2],
    Normal("PARAGRAPH", << <<Word>>, <<Word>>, <<Word, Word>> >>),
    Normal("PARAGRAPH", << <<Word>>, <<Word, Long, Word>>, <<Word>> >>),
    [Normal("PARAGRAPH", << <<Word, Word>> >>) EXCEPT !.colon = TRUE],
    [Normal("PARAGRAPH", << <<Word>> >>) EXCEPT !.notice = TRUE],
    [Normal("PARAGRAPH", << <<Word>> >>) EXCEPT !.suppressed = TRUE],
    Normal("LIST_ITEM", << <<Han>>, <<Word>> >>),
    Normal("CODE_BLOCK", << <<Word>> >>),
    [Normal("TABLE", << <<Word, Word>>, <<Word, Word>> >>) EXCEPT !.rows = FALSE],
    Normal("TABLE", << <<Word>>, <<Word, Word, Word, Word>>, <<Word>>, <<Word>>, <<Word, Word>> >>) }

Extreme == {
    Normal("PARAGRAPH", << <<Word>>, <<Packed>> >>),
    Normal("PARAGRAPH", << <<Word, Word>>, <<Word, Word>> >>),
    Normal("PARAGRAPH", << <<Giant>> >>),
    Normal("PARAGRAPH", << <<Word>>, <<Word>> >>) }

SplitterDocuments == SeqsUpTo(Shapes, MaxElements) \cup SeqsUpTo(Extreme, MaxElements)

-----------------------------------------------------------------------------
(* Prepared artifacts and graphs of blocks, for BatchPlan.                 *)

MaxFragments == 2   \* bound: fragments of an artifact, the ones in order apart
MaxNodes     == 4   \* bound: blocks under the document block

Fragment(id, sequence, bytes) ==
    [id |-> id, sequence |-> sequence, bytes |-> bytes, mine |-> TRUE, type |-> "PARAGRAPH"]

FragmentShapes ==
    {Fragment(id, n, b) : id \in {"a", "b", "c"}, n \in {0, 2, 5}, b \in {1, 2}}
    \cup {Fragment("a_", 1, 1), Fragment("_", 1, 1), Fragment("a", -1, 1), Fragment("b", 1, 0),
          Fragment("b", 1, 4), [Fragment("c", 1, 1) EXCEPT !.mine = FALSE],
          [Fragment("c", 1, 1) EXCEPT !.type = "CODE"],
          [Fragment("c", 1, 1) EXCEPT !.type = "VIDEO"]}

PlanArtifacts ==
    SeqsUpTo(FragmentShapes, MaxFragments)
    \cup {<<Fragment("a", s[1], b[1]), Fragment("b", s[2], b[2]), Fragment("c", s[3], b[3])>> :
             s \in [1..3 -> {0, 2, 5}], b \in [1..3 -> {1, 2}]}

\* Block "x" has no wire form.
Block(id, parent, type, order, bytes) ==
    [id |-> id, parent |-> parent, type |-> type, order |-> order, bytes |-> bytes,
     fits |-> id # "x"]

NodeIds == <<"a", "b", "c", "d">>

\* A document and n others with any parents.
Parented(n, parents, bytes) ==
    << Block("r", "", "DOCUMENT", n, 1) >>
    \o [k \in 1..n |-> Block(NodeIds[k], parents[k], "PARAGRAPH", n - k, bytes[k])]

ParentedGraphs ==
    UNION {{Parented(n, p, b) : p \in [1..n -> {"r", "a", "b", "c", "d", "zz"}],
                                b \in [1..n -> IF n < 4 THEN {1, 2} ELSE {1}]} : n \in 0..MaxNodes}

OddGraphs ==
       {<< Block("r", "", "DOCUMENT", 0, 1), Block("s", "", "DOCUMENT", 1, 1) >>,
        << Block("a", "b", "PARAGRAPH", 0, 1), Block("b", "a", "PARAGRAPH", 1, 1) >>,
        << Block("r", "r", "DOCUMENT", 0, 1) >>,
        << Block("r", "", "DOCUMENT", 0, 1), Block("a", "r", "PARAGRAPH", 0, 1) >>,
        << Block("r", "", "DOCUMENT", 0, 1), Block("a", "r", "PARAGRAPH", 8, 1) >>,
        << Block("r", "", "DOCUMENT", 0, 1), Block("a", "", "PARAGRAPH", 1, 1) >>,
        << Block("r", "", "DOCUMENT", 0, 1), Block("a", "r", "PARAGRAPH", 1, 0) >>,
        << Block("r", "", "DOCUMENT", 0, 1), Block("x", "r", "PARAGRAPH", 1, 1) >>,
        << Block("r", "", "DOCUMENT", 0, 1), Block("a", "r", "PARAGRAPH", 1, 1),
           Block("a_", "r", "PARAGRAPH", 2, 1) >>,
        << Block("r", "", "DOCUMENT", 0, 1), Block("a", "r", "PARAGRAPH", 1, 1),
           Block("b", "a_", "PARAGRAPH", 2, 1) >>}

PlanGraphs == ParentedGraphs \cup OddGraphs
=============================================================================
