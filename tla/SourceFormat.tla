---------------------------- MODULE SourceFormat ----------------------------
(***************************************************************************)
(* SourceAcquisitionService._validate and extended_formats.py: what format *)
(* a downloaded file has and whether it is admitted.  The signature picks  *)
(* a kind of check; containers are read entry by entry, RTF byte by byte   *)
(* and text chunk by chunk.  A byte is its class:                          *)
(*    "a" ordinary   "\" backslash   "{" "}" RTF groups   "0" NUL          *)
(*    "2" the first byte of a two-byte character   "c" a byte to follow    *)
(***************************************************************************)
EXTENDS Integers, Sequences, FiniteSets, NoValue

CONSTANTS
    Files,                \* kind, name extension and content of the files
    MaxEntries, MaxTotal, MaxEntry, MaxRatio,   \* ContainerPolicy
    MaxDepth,             \* max_group_depth of validate_rtf
    ChunkSize, Probe,     \* bytes read at a time, bytes searched for NUL
    MaxPixels, MaxSide, MaxTiffPages

VARIABLES
    file,
    at,        \* entries or bytes read
    total,     \* uncompressed bytes of the entries read
    depth,     \* open RTF groups
    escaped,   \* the byte before was a backslash
    pending,   \* the decoder waits for the rest of a character
    verdict    \* Null, a format, or the code of an AcquisitionError

formatVars == <<file, at, total, depth, escaped, pending, verdict>>

\* The formats, and the codes of the errors.
Formats == {"PDF", "PNG", "JPEG", "TIFF", "DOCX", "XLSX", "PPTX", "EPUB", "ODT", "RTF",
            "HTML", "CSV", "MARKDOWN", "TXT"}
FormatErrors ==
    {"UNSUPPORTED_EXECUTABLE", "MALFORMED_PDF", "MALFORMED_IMAGE", "IMAGE_FORMAT_MISMATCH",
     "IMAGE_RESOURCE_LIMIT", "MALFORMED_CONTAINER", "CONTAINER_PATH_TRAVERSAL",
     "CONTAINER_DUPLICATE_ENTRY", "CONTAINER_ENCRYPTED", "CONTAINER_RESOURCE_LIMIT",
     "CONTAINER_NESTING_LIMIT", "UNSUPPORTED_ZIP_CONTAINER", "MALFORMED_RTF",
     "RTF_RESOURCE_LIMIT", "UNSUPPORTED_FORMAT", "TEXT_ENCODING_UNSUPPORTED"}

\* Files are finite, the sizes of entries and the limits natural numbers.
ASSUME FormatAssumption ==
    /\ Null \notin Formats \cup FormatErrors
    /\ MaxTotal \in Nat /\ MaxDepth \in Nat /\ ChunkSize \in Nat \ {0}
    /\ \A f \in Files :
          /\ f.kind = "zip" => /\ Len(f.entries) \in Nat
                              /\ \A k \in 1..Len(f.entries) : f.entries[k].size \in Nat
          /\ f.kind \in {"rtf", "text"} => Len(f.bytes) \in Nat

FormatInit ==
    /\ file \in Files
    /\ at = 0 /\ total = 0 /\ depth = 0
    /\ escaped = FALSE /\ pending = FALSE
    /\ verdict = Null

Open(kind) == verdict = Null /\ file.kind = kind

Conclude(v) == verdict' = v /\ UNCHANGED <<file, at, total, depth, escaped, pending>>

-----------------------------------------------------------------------------
(* Signatures that decide at once.                                         *)

Executable == Open("executable") /\ Conclude("UNSUPPORTED_EXECUTABLE")

Pdf == Open("pdf") /\ Conclude(IF file.eof THEN "PDF" ELSE "MALFORMED_PDF")

\* _validate_image: what the decoder says (Null when it cannot open the file).
Image ==
    /\ Open("image")
    /\ Conclude(IF file.decoded = Null THEN "MALFORMED_IMAGE"
              ELSE IF file.decoded # file.format THEN "IMAGE_FORMAT_MISMATCH"
              ELSE IF \/ file.width > MaxSide \/ file.height > MaxSide
                      \/ file.width * file.height > MaxPixels
                      \/ file.format = "TIFF" /\ file.frames > MaxTiffPages
                   THEN "IMAGE_RESOURCE_LIMIT"
              ELSE IF file.sound THEN file.format ELSE "MALFORMED_IMAGE")

-----------------------------------------------------------------------------
(* validate_and_identify_zip                                               *)

NamesOf(es, n) == {es[k].name : k \in 1..n}

\* Mutation: an entry is compared with what it adds, not with the sum.
TotalFits_Entry(e) == e.size <= MaxTotal

TotalFits(e) == total + e.size <= MaxTotal

\* The ratio is bounded; an entry counts as packed into one byte at least.
Inflates(e) == e.size > MaxRatio * (IF e.packed < 1 THEN 1 ELSE e.packed)

\* The error an entry raises, or Null; the order of the checks is the code's.
EntryError(e) ==
    IF e.unsafe THEN "CONTAINER_PATH_TRAVERSAL"
    ELSE IF e.name \in NamesOf(file.entries, at) THEN "CONTAINER_DUPLICATE_ENTRY"
    ELSE IF e.encrypted THEN "CONTAINER_ENCRYPTED"
    ELSE IF \/ e.size > MaxEntry \/ ~TotalFits(e)
            \/ Inflates(e)
         THEN "CONTAINER_RESOURCE_LIMIT"
    ELSE IF e.nested THEN "CONTAINER_NESTING_LIMIT" ELSE Null

ZipOpen ==
    /\ Open("zip") /\ at = 0
    /\ \/ ~file.sound /\ Conclude("MALFORMED_CONTAINER")
       \/ file.sound /\ Len(file.entries) > MaxEntries /\ Conclude("CONTAINER_RESOURCE_LIMIT")

ZipEntry ==
    /\ Open("zip") /\ file.sound /\ Len(file.entries) <= MaxEntries
    /\ at < Len(file.entries)
    /\ LET e == file.entries[at + 1]
       IN  \/ EntryError(e) # Null /\ Conclude(EntryError(e))
           \/ /\ EntryError(e) = Null
              /\ at' = at + 1
              /\ total' = total + e.size
              /\ UNCHANGED <<file, depth, escaped, pending, verdict>>

\* The members a format requires, and the media type its mimetype member tells.
Required ==
    << [format |-> "DOCX", names |-> {"types", "word"}, mime |-> Null],
       [format |-> "XLSX", names |-> {"types", "xl"}, mime |-> Null],
       [format |-> "PPTX", names |-> {"types", "ppt"}, mime |-> Null],
       [format |-> "EPUB", names |-> {"container", "mimetype"}, mime |-> "epub"],
       [format |-> "ODT", names |-> {"content", "mimetype"}, mime |-> "odt"] >>

Matches(r) == r.names \subseteq NamesOf(file.entries, Len(file.entries)) /\ r.mime \in {Null, file.mime}

ZipIdentify ==
    /\ Open("zip") /\ file.sound /\ Len(file.entries) <= MaxEntries
    /\ at = Len(file.entries)
    /\ LET hits == {k \in 1..Len(Required) : Matches(Required[k])}
       IN  Conclude(IF hits = {} THEN "UNSUPPORTED_ZIP_CONTAINER"
                  ELSE Required[CHOOSE k \in hits : \A m \in hits : k <= m].format)

-----------------------------------------------------------------------------
(* validate_rtf                                                            *)

Bytes == file.bytes

\* A read ends behind byte n; the bytes of the read that begins there.
BeginsChunk(n) == \E q \in 0..n : n = q * ChunkSize
ChunkFrom(n)   == {k \in n + 1..n + ChunkSize : k <= Len(Bytes)}

Slash   == "\\"
Opening == "{"
Closing == "}"

\* Mutation: a backslash escapes the byte after it in the same chunk only.
StaysEscaped_InChunk(b) == ~escaped /\ b = "\\" /\ (at + 1) % ChunkSize # 0

StaysEscaped(b) == ~escaped /\ b = Slash

RtfByte ==
    /\ Open("rtf") /\ at < Len(Bytes)
    /\ LET b     == Bytes[at + 1]
           level == IF escaped THEN depth
                    ELSE CASE b = Opening -> depth + 1 [] b = Closing -> depth - 1 [] OTHER -> depth
           nul   == BeginsChunk(at) /\ \E k \in ChunkFrom(at) : Bytes[k] = "0"
           error == IF nul \/ level < 0 THEN "MALFORMED_RTF"
                    ELSE IF level > MaxDepth THEN "RTF_RESOURCE_LIMIT" ELSE Null
       IN  /\ at' = at + 1
           /\ depth' = level
           /\ escaped' = StaysEscaped(b)
           /\ verdict' = error
    /\ UNCHANGED <<file, total, pending>>

RtfEnd ==
    /\ Open("rtf") /\ at = Len(Bytes)
    /\ Conclude(IF depth # 0 THEN "MALFORMED_RTF" ELSE "RTF")

-----------------------------------------------------------------------------
(* _validate_utf8_text, detect_html and detect_csv                         *)

\* What the decoder makes of a byte: the rest of a character, or its beginning.
Undecodable(waiting, b) == IF waiting THEN b # "c" ELSE b = "c"

\* Mutation: a character must end with its chunk.
Carries_Never(waiting) == FALSE

Carries(waiting) == waiting

TextChunk ==
    /\ Open("text") /\ at < Len(Bytes)
    /\ LET chunk == ChunkFrom(at)
           bad   == \E k \in chunk :
                        Undecodable(IF k = at + 1 THEN pending ELSE Bytes[k - 1] = "2", Bytes[k])
           open  == Bytes[at'] = "2"
           nul   == \E k \in chunk : k <= Probe /\ Bytes[k] = "0"
       IN  /\ at' = IF at + ChunkSize <= Len(Bytes) THEN at + ChunkSize ELSE Len(Bytes)
           /\ pending' = Carries(open)
           /\ verdict' = IF nul THEN "UNSUPPORTED_FORMAT"
                         ELSE IF bad \/ pending' # open THEN "TEXT_ENCODING_UNSUPPORTED"
                         ELSE Null
    /\ UNCHANGED <<file, total, depth, escaped>>

\* detect_html and detect_csv: what the sniffers see in the sample (strong HTML
\* markup or a fragment of it, rows of a stable width) is given with the file.
DetectHtml == file.html \/ (file.markup /\ file.ext = "html")
DetectCsv  == file.rows >= (IF file.ext = "csv" THEN 2 ELSE 3)

\* decode(b"", final=True), then the kind of text.
TextEnd ==
    /\ Open("text") /\ at = Len(Bytes)
    /\ Conclude(IF pending THEN "TEXT_ENCODING_UNSUPPORTED"
              ELSE IF DetectHtml THEN "HTML"
              ELSE IF DetectCsv THEN "CSV"
              ELSE IF file.ext = "md" THEN "MARKDOWN" ELSE "TXT")

FormatStop == verdict # Null /\ UNCHANGED formatVars

FormatNext ==
    \/ Executable \/ Pdf \/ Image
    \/ ZipOpen \/ ZipEntry \/ ZipIdentify
    \/ RtfByte \/ RtfEnd \/ TextChunk \/ TextEnd
    \/ FormatStop

FormatSpec == FormatInit /\ [][FormatNext]_formatVars

-----------------------------------------------------------------------------
(* Properties.                                                             *)

\* The bytes of all entries.
Unpacked(es) ==
    LET sum[n \in 0..Len(es)] == IF n = 0 THEN 0 ELSE sum[n - 1] + es[n].size
    IN  sum[Len(es)]

\* An admitted container is within every limit as a whole: its entries together,
\* each of them, and no name twice, however the sizes are spread over them.
ContainersAreBounded ==
    file.kind = "zip" /\ verdict \in Formats =>
        LET es == file.entries
        IN  /\ Len(es) <= MaxEntries
            /\ Unpacked(es) <= MaxTotal
            /\ Cardinality(NamesOf(es, Len(es))) = Len(es)
            /\ \A k \in 1..Len(es) : /\ ~es[k].unsafe /\ ~es[k].encrypted /\ ~es[k].nested
                                     /\ ~(es[k].size > MaxEntry) /\ ~Inflates(es[k])

\* The number of backslashes that stand right before the i-th byte of s.
Slashes(s, i) == Cardinality({k \in 1..i - 1 : \A m \in k..i - 1 : s[m] = Slash})

\* The unescaped bytes b among the first i.
Unescaped(s, b, i) == {k \in 1..i : s[k] = b /\ Slashes(s, k) % 2 = 0}

Level(s, i) == Cardinality(Unescaped(s, Opening, i)) - Cardinality(Unescaped(s, Closing, i))

\* RTF is admitted iff its groups nest, escaped brackets and chunks apart: every
\* prefix opens as many groups as it closes or more, the whole as many.
RtfIsBalanced ==
    file.kind = "rtf" /\ verdict # Null =>
        (verdict = "RTF" <=> /\ \A k \in 1..Len(Bytes) : Bytes[k] # "0" /\ Level(Bytes, k) \in 0..MaxDepth
                             /\ Level(Bytes, Len(Bytes)) = 0)

\* Text is admitted iff it is UTF-8 as a whole and the probe finds no NUL: a
\* character may lie across the boundary of two reads.
TextIsUtf8 ==
    file.kind = "text" /\ verdict # Null =>
        (verdict \in Formats <=>
            /\ \A k \in 1..Len(Bytes) : k <= Probe => Bytes[k] # "0"
            /\ \A k \in 1..Len(Bytes) : Bytes[k] = "c" <=> k > 1 /\ Bytes[k - 1] = "2"
            /\ Len(Bytes) > 0 => Bytes[Len(Bytes)] # "2")

\* A file is admitted iff it is what its format promises: containers within all
\* limits, RTF groups balanced, text UTF-8, wherever entries and reads end.
AdmittedFilesAreSound == ContainersAreBounded /\ RtfIsBalanced /\ TextIsUtf8
=============================================================================
