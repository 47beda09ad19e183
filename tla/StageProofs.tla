---------------------------- MODULE StageProofs -----------------------------
(***************************************************************************)
(* Theorems about the stages of the pipeline that are loops over their     *)
(* input: the format checks, the cut into sentences, the splitter and the  *)
(* batch plan.                                                             *)
(* Each loop keeps an inductive invariant that tells what of the input is  *)
(* done, in terms of the reference definition its property is stated with: *)
(*   FormatInv    of the entries or bytes read (SourceFormat),             *)
(*   SentenceInv  of the sentences told and the open one (Sentence),       *)
(*   WalkInv      joins OnlyTreesPass, which speaks of all sets of blocks  *)
(*      cut off from the root, with the validator, which follows one parent*)
(*      chain after the other: no block whose chain is done lies in such a *)
(*      set, the present chain cannot leave one it started in, and the ids *)
(*      it has met have their parents among themselves or at the place it  *)
(*      has come to,                                                       *)
(*   PackInv      of the batch that is being filled next to the ones that  *)
(*      are closed (BatchPlan),                                            *)
(*   ForceInv, TextInv, RowInv  of the tokens, sentences and rows that are *)
(*      cut, each next to the text told so far, and SplitInv of the units  *)
(*      and groups made of them (Splitter): the units stand in an order in *)
(*      which no two are the same piece, the groups hold them in it, and so*)
(*      two fragments with one id would need the same elements and the same*)
(*      last piece, which the order forbids.                               *)
(***************************************************************************)
EXTENDS SourceFormat, Sentence, BatchPlan, Splitter, DataInduction, FiniteSetTheorems, TLAPS

-----------------------------------------------------------------------------
(* SourceFormat: what is read of a file.                                    *)

\* The sizes of entries, added up.
IsTotals(es, f) ==
    f = [n \in 0..Len(es) |-> IF n = 0 THEN 0 ELSE f[n - 1] + es[n].size]

Totals(es) == CHOOSE f : IsTotals(es, f)

IsEntries(es) == Len(es) \in Nat /\ \A k \in 1..Len(es) : es[k].size \in Nat

\* They add up entry by entry.
LEMMA TotalsFacts ==
    ASSUME NEW es, IsEntries(es)
    PROVE  /\ Unpacked(es) = Totals(es)[Len(es)]
           /\ Totals(es)[0] = 0
           /\ \A n \in 1..Len(es) : Totals(es)[n] = Totals(es)[n - 1] + es[n].size
<1> DEFINE n == Len(es)
           size == [k \in 1..n |-> es[k].size]
<1>1. n \in Nat /\ size \in [1..n -> Int]
  BY DEF IsEntries
<1>2. \E f : f = [k \in 0..n |-> IF k = 0 THEN 0 ELSE f[k - 1] + size[k]]
  <2> HIDE DEF n, size
  <2> QED
    BY <1>1, SumSolution
<1>3. PICK f : f = [k \in 0..n |-> IF k = 0 THEN 0 ELSE f[k - 1] + size[k]]
  BY <1>2
<1>4. IsTotals(es, f)
  <2>1. \A k \in 0..n : (IF k = 0 THEN 0 ELSE f[k - 1] + size[k])
                         = (IF k = 0 THEN 0 ELSE f[k - 1] + es[k].size)
    <3> TAKE k \in 0..n
    <3>1. CASE k = 0
      BY <3>1
    <3>2. CASE k # 0
      <4>1. k \in 1..n
        BY <1>1, <3>2
      <4> QED
        BY <3>2, <4>1
    <3> QED
      BY <3>1, <3>2
  <2>2. [k \in 0..n |-> IF k = 0 THEN 0 ELSE f[k - 1] + size[k]]
          = [k \in 0..n |-> IF k = 0 THEN 0 ELSE f[k - 1] + es[k].size]
    BY <2>1
  <2> QED
    BY <1>3, <2>2 DEF IsTotals
<1>5. IsTotals(es, Totals(es))
  BY <1>4 DEF Totals
<1>6. Unpacked(es) = Totals(es)[n]
  BY DEF Unpacked, Totals, IsTotals
<1> DEFINE t == Totals(es)
<1> HIDE DEF t
<1>7. t = [k \in 0..n |-> IF k = 0 THEN 0 ELSE t[k - 1] + es[k].size]
  BY <1>5 DEF IsTotals, t
<1>8. t[0] = 0 /\ \A k \in 1..n : t[k] = t[k - 1] + es[k].size
  BY <1>1, <1>7
<1> QED
  BY <1>6, <1>8 DEF t

\* An entry within the limits.
Sound(e) ==
    /\ ~e.unsafe /\ ~e.encrypted /\ ~e.nested
    /\ ~(e.size > MaxEntry) /\ ~Inflates(e)

\* The first n entries are read, sum bytes in all.
ZipRead(es, n, sum) ==
    /\ n \in 0..Len(es)
    /\ sum = Totals(es)[n] /\ sum \in Nat /\ sum <= MaxTotal
    /\ IsFiniteSet(NamesOf(es, n)) /\ Cardinality(NamesOf(es, n)) = n
    /\ \A k \in 1..n : Sound(es[k])

\* At first no entry is.
LEMMA ZipReadNone ==
    ASSUME FormatAssumption, NEW es, IsEntries(es)
    PROVE  ZipRead(es, 0, 0)
<1>1. 0 \in 0..Len(es) /\ 0 = Totals(es)[0] /\ 0 \in Nat /\ 0 <= MaxTotal
  BY TotalsFacts DEF IsEntries, FormatAssumption
<1>2. NamesOf(es, 0) = {}
  BY DEF NamesOf
<1>3. IsFiniteSet(NamesOf(es, 0)) /\ Cardinality(NamesOf(es, 0)) = 0
  BY <1>2, FS_EmptySet
<1> QED
  BY <1>1, <1>3 DEF ZipRead

\* An entry that raises no error is within the limits and has a new name.
LEMMA ZipReadOne ==
    ASSUME FormatAssumption, NEW es, IsEntries(es), NEW n, NEW sum, ZipRead(es, n, sum),
           n < Len(es), Sound(es[n + 1]), es[n + 1].name \notin NamesOf(es, n),
           sum + es[n + 1].size <= MaxTotal
    PROVE  ZipRead(es, n + 1, sum + es[n + 1].size)
<1> DEFINE e == es[n + 1]
<1>1. n \in 0..Len(es) /\ Len(es) \in Nat /\ sum \in Nat /\ sum = Totals(es)[n]
  BY DEF ZipRead, IsEntries
<1>2. n + 1 \in 1..Len(es) /\ n + 1 \in 0..Len(es) /\ (n + 1) - 1 = n
  BY <1>1
<1>3. e.size \in Nat
  BY <1>2 DEF IsEntries
<1>4. Totals(es)[n + 1] = Totals(es)[(n + 1) - 1] + e.size
  BY <1>2, TotalsFacts
<1>5. NamesOf(es, n + 1) = NamesOf(es, n) \cup {e.name}
  <2>1. \A k : k \in 1..n + 1 <=> k \in 1..n \/ k = n + 1
    BY <1>1
  <2> QED
    BY <2>1, Zenon DEF NamesOf
<1>6. IsFiniteSet(NamesOf(es, n)) /\ Cardinality(NamesOf(es, n)) = n
  BY DEF ZipRead
<1>7. IsFiniteSet(NamesOf(es, n + 1)) /\ Cardinality(NamesOf(es, n + 1)) = n + 1
  <2> DEFINE N == NamesOf(es, n)
             x == e.name
  <2>1. IsFiniteSet(N) /\ Cardinality(N) = n /\ x \notin N /\ NamesOf(es, n + 1) = N \cup {x}
    BY <1>5, <1>6
  <2> HIDE DEF N, x
  <2> QED
    BY <2>1, FS_AddElement
<1>8. ASSUME NEW k \in 1..n + 1 PROVE Sound(es[k])
  <2>1. CASE k = n + 1
    BY <2>1
  <2>2. CASE k # n + 1
    <3>1. k \in 1..n
      BY <1>1, <2>2
    <3> QED
      BY <3>1 DEF ZipRead
  <2> QED
    BY <2>1, <2>2
<1>9. sum + e.size \in Nat /\ sum + e.size = Totals(es)[n + 1]
  BY <1>1, <1>2, <1>3, <1>4
<1> QED
  BY <1>2, <1>7, <1>8, <1>9 DEF ZipRead

-----------------------------------------------------------------------------
\* The characters of RTF are three.
LEMMA RtfCharacters == Slash # Opening /\ Slash # Closing /\ Opening # Closing
<1> QED
  BY Zenon DEF Slash, Opening, Closing

\* The backslashes before a byte, from those before the byte before it.
LEMMA SlashesNext ==
    ASSUME NEW s, NEW i \in Nat
    PROVE  /\ IsFiniteSet({k \in 1..i : \A m \in k..i : s[m] = Slash})
           /\ Slashes(s, i + 1) \in Nat
           /\ i = 0 => Slashes(s, i + 1) = 0
           /\ i > 0 /\ s[i] # Slash => Slashes(s, i + 1) = 0
           /\ i > 0 /\ s[i] = Slash => Slashes(s, i + 1) = Slashes(s, i) + 1
<1> DEFINE S(j) == {k \in 1..j : \A m \in k..j : s[m] = Slash}
<1>1. \A j \in Nat : IsFiniteSet(S(j)) /\ Cardinality(S(j)) \in Nat
  <2> TAKE j \in Nat
  <2>1. IsFiniteSet(1..j) /\ S(j) \in SUBSET (1..j)
    BY FS_Interval
  <2> HIDE DEF S
  <2>2. IsFiniteSet(S(j))
    BY <2>1, FS_Subset
  <2> QED
    BY <2>2, FS_CardinalityType
<1>2. Slashes(s, i + 1) = Cardinality(S(i))
  <2>1. (i + 1) - 1 = i
    OBVIOUS
  <2>2. Slashes(s, i + 1) = Cardinality(S((i + 1) - 1))
    BY DEF Slashes
  <2> QED
    BY <2>1, <2>2
<1>3. i = 0 => S(i) = {}
  OBVIOUS
<1>4. i > 0 /\ s[i] # Slash => S(i) = {}
  OBVIOUS
<1>5. ASSUME i > 0, s[i] = Slash PROVE Slashes(s, i + 1) = Slashes(s, i) + 1
  <2> DEFINE j == i - 1
  <2>1. j \in Nat /\ i = j + 1 /\ Slashes(s, i) = Cardinality(S(j))
    BY <1>5 DEF Slashes
  <2>2. S(i) = S(j) \cup {i} /\ i \notin S(j)
    <3>1. ASSUME NEW k \in S(i) PROVE k \in S(j) \cup {i}
      <4>1. k \in 1..i /\ \A m \in k..i : s[m] = Slash
        OBVIOUS
      <4>2. CASE k = i
        BY <4>2
      <4>3. CASE k # i
        <5>1. k \in 1..j /\ \A m \in k..j : m \in k..i
          BY <2>1, <4>1, <4>3
        <5> QED
          BY <4>1, <5>1
      <4> QED
        BY <4>2, <4>3
    <3>2. ASSUME NEW k \in S(j) PROVE k \in S(i)
      <4>1. k \in 1..j /\ \A m \in k..j : s[m] = Slash
        OBVIOUS
      <4>2. k \in 1..i /\ \A m \in k..i : m \in k..j \/ m = i
        BY <2>1, <4>1
      <4> QED
        BY <1>5, <4>1, <4>2
    <3>3. i \in S(i)
      <4>1. i \in 1..i /\ \A m \in i..i : m = i
        BY <1>5
      <4> QED
        BY <1>5, <4>1
    <3>4. i \notin S(j)
      BY <2>1
    <3> HIDE DEF S
    <3> QED
      BY <3>1, <3>2, <3>3, <3>4
  <2>3. IsFiniteSet(S(j))
    BY <1>1, <2>1
  <2> HIDE DEF S, j
  <2>4. Cardinality(S(i)) = Cardinality(S(j)) + 1
    BY <2>2, <2>3, FS_AddElement
  <2> QED
    BY <1>2, <2>1, <2>4
<1> HIDE DEF S
<1>6. IsFiniteSet(S(i)) /\ Cardinality(S(i)) \in Nat
  BY <1>1
<1> QED
  BY <1>2, <1>3, <1>4, <1>5, <1>6, FS_EmptySet DEF S

\* The unescaped bytes among one byte more.
LEMMA UnescapedNext ==
    ASSUME NEW s, NEW b, NEW i \in Nat
    PROVE  /\ Cardinality(Unescaped(s, b, i)) \in Nat
           /\ i = 0 => Cardinality(Unescaped(s, b, i)) = 0
           /\ Cardinality(Unescaped(s, b, i + 1)) = Cardinality(Unescaped(s, b, i))
                + IF s[i + 1] = b /\ Slashes(s, i + 1) % 2 = 0 THEN 1 ELSE 0
<1> DEFINE U(j) == Unescaped(s, b, j)
           new == s[i + 1] = b /\ Slashes(s, i + 1) % 2 = 0
<1>1. IsFiniteSet(U(i))
  <2>1. IsFiniteSet(1..i) /\ U(i) \in SUBSET (1..i)
    BY FS_Interval DEF Unescaped
  <2> HIDE DEF U
  <2> QED
    BY <2>1, FS_Subset
<1>2. i = 0 => U(i) = {}
  BY DEF Unescaped
<1>3. \A k : k \in 1..i + 1 <=> k \in 1..i \/ k = i + 1
  OBVIOUS
<1>4. i + 1 \notin U(i)
  BY DEF Unescaped
<1>5. new => U(i + 1) = U(i) \cup {i + 1}
  BY <1>3, Zenon DEF Unescaped
<1>6. ~new => U(i + 1) = U(i)
  BY <1>3, Zenon DEF Unescaped
<1> HIDE DEF U, new
<1>7. Cardinality(U(i)) \in Nat
  BY <1>1, FS_CardinalityType
<1>8. new => Cardinality(U(i + 1)) = Cardinality(U(i)) + 1
  BY <1>1, <1>4, <1>5, FS_AddElement
<1>9. Cardinality(U(i + 1)) = Cardinality(U(i)) + IF new THEN 1 ELSE 0
  BY <1>6, <1>7, <1>8
<1> QED
  BY <1>2, <1>7, <1>9, FS_EmptySet DEF U, new

\* What byte b makes of the level.
LevelAfter(b, esc, level) ==
    IF esc THEN level
    ELSE CASE b = Opening -> level + 1 [] b = Closing -> level - 1 [] OTHER -> level

\* The level, byte by byte.
LEMMA LevelNext ==
    ASSUME NEW s, NEW i \in Nat, NEW esc \in BOOLEAN, esc <=> Slashes(s, i + 1) % 2 = 1
    PROVE  /\ Level(s, i) \in Int /\ (i = 0 => Level(s, i) = 0)
           /\ Level(s, i + 1) = LevelAfter(s[i + 1], esc, Level(s, i))
<1> DEFINE o == Cardinality(Unescaped(s, Opening, i))
           c == Cardinality(Unescaped(s, Closing, i))
           p == Cardinality(Unescaped(s, Opening, i + 1))
           d == Cardinality(Unescaped(s, Closing, i + 1))
           b == s[i + 1]
           even == Slashes(s, i + 1) % 2 = 0
<1>1. Slashes(s, i + 1) \in Nat
  BY SlashesNext
<1>2. even <=> ~esc
  BY <1>1
<1>3. o \in Nat /\ (i = 0 => o = 0) /\ p = o + IF b = Opening /\ even THEN 1 ELSE 0
  BY UnescapedNext
<1>4. c \in Nat /\ (i = 0 => c = 0) /\ d = c + IF b = Closing /\ even THEN 1 ELSE 0
  BY UnescapedNext
<1>5. Level(s, i) = o - c /\ Level(s, i + 1) = p - d
  BY DEF Level
<1> HIDE DEF o, c, p, d, b, even
<1>6. p - d = LevelAfter(b, esc, o - c)
  <2>1. CASE esc
    BY <1>2, <1>3, <1>4, <2>1 DEF LevelAfter
  <2>2. CASE ~esc /\ b = Opening
    BY <1>2, <1>3, <1>4, <2>2, RtfCharacters DEF LevelAfter
  <2>3. CASE ~esc /\ b = Closing
    BY <1>2, <1>3, <1>4, <2>3, RtfCharacters DEF LevelAfter
  <2>4. CASE ~esc /\ b # Opening /\ b # Closing
    BY <1>2, <1>3, <1>4, <2>4 DEF LevelAfter
  <2> QED
    BY <2>1, <2>2, <2>3, <2>4
<1> QED
  BY <1>3, <1>4, <1>5, <1>6 DEF b

\* The first n bytes of s are read; NUL is ahead of the next read.
RtfRead(s, n, level, esc) ==
    /\ n \in 0..Len(s) /\ esc \in BOOLEAN
    /\ level = Level(s, n)
    /\ esc <=> Slashes(s, n + 1) % 2 = 1
    /\ \A k \in 1..n : Level(s, k) \in 0..MaxDepth
    /\ \A k \in 1..Len(s) : s[k] = "0" => \E m \in n..k - 1 : BeginsChunk(m)

\* What validate_rtf promises of the bytes it accepts.
IsRtf(s) ==
    /\ \A k \in 1..Len(s) : s[k] # "0" /\ Level(s, k) \in 0..MaxDepth
    /\ Level(s, Len(s)) = 0

\* The reads of a file begin a chunk apart.
LEMMA ChunksFollow ==
    ASSUME FormatAssumption, NEW n \in Nat
    PROVE  BeginsChunk(0) /\ (BeginsChunk(n) => BeginsChunk(n + ChunkSize))
<1>1. ChunkSize \in Nat /\ ChunkSize >= 1
  BY DEF FormatAssumption
<1>2. 0 \in 0..0 /\ 0 = 0 * ChunkSize
  BY <1>1
<1>3. ASSUME NEW q \in 0..n, n = q * ChunkSize PROVE BeginsChunk(n + ChunkSize)
  <2>1. q + 1 \in 0..n + ChunkSize
    BY <1>1
  <2>2. (q + 1) * ChunkSize = q * ChunkSize + ChunkSize
    BY <1>1
  <2>3. n + ChunkSize = (q + 1) * ChunkSize
    BY <1>3, <2>2
  <2> QED
    BY <2>1, <2>3 DEF BeginsChunk
<1> QED
  BY <1>2, <1>3 DEF BeginsChunk

\* At first no byte is read.
LEMMA RtfReadNone ==
    ASSUME FormatAssumption, NEW s, Len(s) \in Nat
    PROVE  RtfRead(s, 0, 0, FALSE)
<1>1. Slashes(s, 0 + 1) = 0
  BY SlashesNext
<1>2. FALSE <=> Slashes(s, 0 + 1) % 2 = 1
  BY <1>1
<1>3. 0 = Level(s, 0)
  BY <1>2, LevelNext
<1>4. \A k \in 1..Len(s) : 0 \in 0..k - 1
  OBVIOUS
<1>5. BeginsChunk(0)
  BY ChunksFollow
<1> QED
  BY <1>2, <1>3, <1>4, <1>5 DEF RtfRead

\* A byte that raises no error.
LEMMA RtfReadOne ==
    ASSUME FormatAssumption, NEW s, Len(s) \in Nat, NEW n, NEW level, NEW esc,
           RtfRead(s, n, level, esc), n < Len(s),
           LevelAfter(s[n + 1], esc, level) \in 0..MaxDepth,
           BeginsChunk(n) => \A k \in n + 1..n + ChunkSize : k <= Len(s) => s[k] # "0"
    PROVE  RtfRead(s, n + 1, LevelAfter(s[n + 1], esc, level), ~esc /\ s[n + 1] = Slash)
<1> DEFINE after == LevelAfter(s[n + 1], esc, level)
           next == ~esc /\ s[n + 1] = Slash
<1>1. n \in 0..Len(s) /\ n \in Nat /\ n + 1 \in Nat /\ n + 1 \in 0..Len(s) /\ esc \in BOOLEAN
      /\ level = Level(s, n) /\ (esc <=> Slashes(s, n + 1) % 2 = 1)
  BY DEF RtfRead
<1>2. Level(s, n + 1) = after
  BY <1>1, LevelNext
<1>3. next <=> Slashes(s, (n + 1) + 1) % 2 = 1
  <2>1. Slashes(s, n + 1) \in Nat
    BY <1>1, SlashesNext
  <2>2. CASE s[n + 1] = Slash
    <3>1. Slashes(s, (n + 1) + 1) = Slashes(s, n + 1) + 1
      <4> DEFINE i == n + 1
      <4>1. i \in Nat /\ i > 0 /\ s[i] = Slash
        BY <1>1, <2>2
      <4> HIDE DEF i
      <4>2. Slashes(s, i + 1) = Slashes(s, i) + 1
        BY <4>1, SlashesNext
      <4> QED
        BY <4>2 DEF i
    <3>2. (Slashes(s, n + 1) + 1) % 2 = 1 <=> ~(Slashes(s, n + 1) % 2 = 1)
      BY <2>1
    <3> QED
      BY <1>1, <2>2, <3>1, <3>2
  <2>3. CASE s[n + 1] # Slash
    <3>1. Slashes(s, (n + 1) + 1) = 0
      <4> DEFINE i == n + 1
      <4>1. i \in Nat /\ i > 0 /\ s[i] # Slash
        BY <1>1, <2>3
      <4> HIDE DEF i
      <4>2. Slashes(s, i + 1) = 0
        BY <4>1, SlashesNext
      <4> QED
        BY <4>2 DEF i
    <3> QED
      BY <2>3, <3>1
  <2> QED
    BY <2>2, <2>3
<1>4. ASSUME NEW k \in 1..n + 1 PROVE Level(s, k) \in 0..MaxDepth
  <2>1. CASE k = n + 1
    BY <1>2, <2>1
  <2>2. CASE k # n + 1
    <3>1. k \in 1..n
      BY <1>1, <2>2
    <3> QED
      BY <3>1 DEF RtfRead
  <2> QED
    BY <2>1, <2>2
<1>5. ASSUME NEW k \in 1..Len(s), s[k] = "0" PROVE \E m \in n + 1..k - 1 : BeginsChunk(m)
  <2>1. PICK m \in n..k - 1 : BeginsChunk(m)
    BY <1>5 DEF RtfRead
  <2>2. CASE m # n
    <3>1. m \in n + 1..k - 1
      BY <1>1, <2>1, <2>2
    <3> QED
      BY <2>1, <3>1
  <2>3. CASE m = n
    <3>1. BeginsChunk(n)
      BY <2>1, <2>3
    <3>2. ChunkSize \in Nat /\ ChunkSize >= 1
      BY DEF FormatAssumption
    <3>3. k \notin n + 1..n + ChunkSize
      BY <1>5, <3>1
    <3>4. n + ChunkSize \in n + 1..k - 1
      BY <1>1, <2>1, <2>3, <3>2, <3>3
    <3>5. BeginsChunk(n + ChunkSize)
      BY <1>1, <3>1, ChunksFollow
    <3> QED
      BY <3>4, <3>5
  <2> QED
    BY <2>2, <2>3
<1> HIDE DEF after, next
<1>6. next \in BOOLEAN
  BY DEF next
<1> QED
  BY <1>1, <1>2, <1>3, <1>4, <1>5, <1>6 DEF RtfRead, after, next

\* A file whose bytes are read without an error is RTF iff no group is open.
LEMMA RtfReadAll ==
    ASSUME FormatAssumption, NEW s, Len(s) \in Nat, NEW level, NEW esc,
           RtfRead(s, Len(s), level, esc)
    PROVE  level = 0 <=> IsRtf(s)
<1>1. level = Level(s, Len(s)) /\ \A k \in 1..Len(s) : Level(s, k) \in 0..MaxDepth
  BY DEF RtfRead
<1>2. ASSUME NEW k \in 1..Len(s) PROVE s[k] # "0"
  <2>1. \A m \in Len(s)..k - 1 : FALSE
    OBVIOUS
  <2> QED
    BY <2>1 DEF RtfRead
<1> QED
  BY <1>1, <1>2 DEF IsRtf

-----------------------------------------------------------------------------
\* The k-th byte continues a character iff one is begun before it.
Fits(s, k) == s[k] = "c" <=> k > 1 /\ s[k - 1] = "2"

\* The first n bytes are read, the last of them in the middle of a character or not.
TextRead(s, n, open) ==
    /\ n \in 0..Len(s) /\ open \in BOOLEAN
    /\ open <=> n > 0 /\ s[n] = "2"
    /\ \A k \in 1..n : Fits(s, k) /\ (k <= Probe => s[k] # "0")

IsText(s) ==
    /\ \A k \in 1..Len(s) : k <= Probe => s[k] # "0"
    /\ \A k \in 1..Len(s) : Fits(s, k)
    /\ Len(s) > 0 => s[Len(s)] # "2"

Reads(s, n) == {k \in n + 1..n + ChunkSize : k <= Len(s)}

\* A byte of a chunk is decodable iff it fits.
LEMMA DecodesIffFits ==
    ASSUME NEW s, Len(s) \in Nat, NEW n, NEW open, TextRead(s, n, open), NEW k \in Reads(s, n)
    PROVE  Undecodable(IF k = n + 1 THEN open ELSE s[k - 1] = "2", s[k]) <=> ~Fits(s, k)
<1>1. n \in Nat /\ k \in n + 1..Len(s) /\ open \in BOOLEAN /\ (open <=> n > 0 /\ s[n] = "2")
  BY DEF TextRead, Reads
<1>2. CASE k = n + 1
  <2>1. k - 1 = n /\ (k > 1 <=> n > 0)
    BY <1>1, <1>2
  <2> QED
    BY <1>1, <1>2, <2>1 DEF Undecodable, Fits
<1>3. CASE k # n + 1
  <2>1. k > 1
    BY <1>1, <1>3
  <2> QED
    BY <1>3, <2>1 DEF Undecodable, Fits
<1> QED
  BY <1>2, <1>3

\* A chunk that raises no error.
LEMMA TextReadOn ==
    ASSUME FormatAssumption, NEW s, Len(s) \in Nat, NEW n, NEW open, TextRead(s, n, open),
           n < Len(s), \A k \in Reads(s, n) : Fits(s, k) /\ (k <= Probe => s[k] # "0"),
           NEW m, m = IF n + ChunkSize <= Len(s) THEN n + ChunkSize ELSE Len(s)
    PROVE  TextRead(s, m, s[m] = "2")
<1>1. n \in 0..Len(s) /\ ChunkSize \in Nat /\ ChunkSize >= 1
  BY DEF TextRead, FormatAssumption
<1>2. m \in 0..Len(s) /\ m > 0 /\ m <= n + ChunkSize
  BY <1>1
<1>3. ASSUME NEW k \in 1..m PROVE Fits(s, k) /\ (k <= Probe => s[k] # "0")
  <2>1. CASE k \in 1..n
    BY <2>1 DEF TextRead
  <2>2. CASE k \notin 1..n
    <3>1. k \in Reads(s, n)
      BY <1>1, <1>2, <2>2 DEF Reads
    <3> QED
      BY <3>1
  <2> QED
    BY <2>1, <2>2
<1> QED
  BY <1>2, <1>3 DEF TextRead

\* What the assumption says of a file.
LEMMA FileFacts ==
    ASSUME FormatAssumption, file \in Files
    PROVE  /\ file.kind = "zip" => IsEntries(file.entries)
           /\ file.kind \in {"rtf", "text"} => Len(Bytes) \in Nat
<1> QED
  BY DEF FormatAssumption, IsEntries, Bytes

\* The inductive invariant: what is read so far of a file that is not judged yet.
FormatInv ==
    /\ file \in Files
    /\ verdict = Null =>
          /\ file.kind = "zip" => ZipRead(file.entries, at, total)
          /\ file.kind = "rtf" => RtfRead(Bytes, at, depth, escaped)
          /\ file.kind = "text" => TextRead(Bytes, at, pending)
    /\ AdmittedFilesAreSound

\* It holds at first.
LEMMA FormatStart ==
    ASSUME FormatAssumption, FormatInit
    PROVE  FormatInv
<1>1. file \in Files /\ at = 0 /\ total = 0 /\ depth = 0 /\ escaped = FALSE /\ pending = FALSE
      /\ verdict = Null /\ Null \notin Formats
  BY DEF FormatInit, FormatAssumption
<1>2. file.kind = "zip" => ZipRead(file.entries, at, total)
  BY <1>1, FileFacts, ZipReadNone
<1>3. file.kind = "rtf" => RtfRead(Bytes, at, depth, escaped)
  BY <1>1, FileFacts, RtfReadNone
<1>4. file.kind = "text" => TextRead(Bytes, at, pending)
  <2> SUFFICES ASSUME file.kind = "text" PROVE TextRead(Bytes, 0, FALSE)
    BY <1>1
  <2>1. Len(Bytes) \in Nat
    BY <1>1, FileFacts
  <2> QED
    BY <2>1 DEF TextRead
<1>5. AdmittedFilesAreSound
  BY <1>1, Zenon DEF AdmittedFilesAreSound, ContainersAreBounded, RtfIsBalanced, TextIsUtf8
<1> QED
  BY <1>1, <1>2, <1>3, <1>4, <1>5 DEF FormatInv

\* The verdict on a file is the whole of what is promised of it.
LEMMA Judged ==
    ASSUME FormatAssumption, FormatInv, file' = file, verdict' # Null,
           file.kind = "zip" => verdict' \notin Formats \/
               /\ Len(file.entries) <= MaxEntries /\ at = Len(file.entries)
               /\ ZipRead(file.entries, at, total),
           file.kind = "rtf" => (verdict' = "RTF" <=> IsRtf(Bytes)),
           file.kind = "text" => (verdict' \in Formats <=> IsText(Bytes))
    PROVE  FormatInv'
<1> DEFINE es == file.entries
<1>1. file \in Files
  BY DEF FormatInv
<1>2. ContainersAreBounded'
  <2> SUFFICES ASSUME file.kind = "zip", verdict' \in Formats
               PROVE  /\ Len(es) <= MaxEntries
                      /\ Unpacked(es) <= MaxTotal
                      /\ Cardinality(NamesOf(es, Len(es))) = Len(es)
                      /\ \A k \in 1..Len(es) : Sound(es[k])
    BY DEF ContainersAreBounded, Sound
  <2>1. Len(es) <= MaxEntries /\ at = Len(es) /\ ZipRead(es, at, total) /\ IsEntries(es)
    BY <1>1, FileFacts
  <2>2. Unpacked(es) = Totals(es)[Len(es)]
    BY <2>1, TotalsFacts
  <2> QED
    BY <2>1, <2>2 DEF ZipRead
<1>3. RtfIsBalanced'
  BY DEF RtfIsBalanced, IsRtf, Bytes
<1>4. TextIsUtf8'
  BY DEF TextIsUtf8, IsText, Fits, Bytes
<1> QED
  BY <1>1, <1>2, <1>3, <1>4 DEF FormatInv, AdmittedFilesAreSound

\* A file that is not judged yet keeps the promises.
LEMMA ReadOn ==
    ASSUME FormatAssumption, FormatInv, file' = file, verdict' = Null,
           file.kind = "zip" => ZipRead(file.entries, at', total'),
           file.kind = "rtf" => RtfRead(Bytes, at', depth', escaped'),
           file.kind = "text" => TextRead(Bytes, at', pending')
    PROVE  FormatInv'
<1>1. Null \notin Formats /\ file \in Files
  BY DEF FormatAssumption, FormatInv
<1>2. AdmittedFilesAreSound'
  BY <1>1, Zenon DEF AdmittedFilesAreSound, ContainersAreBounded, RtfIsBalanced, TextIsUtf8
<1> QED
  BY <1>1, <1>2 DEF FormatInv, Bytes

\* Signatures that decide at once are not about containers, RTF or text.
LEMMA SignatureStep ==
    ASSUME FormatAssumption, FormatInv, file' = file, verdict' # Null,
           file.kind \in {"executable", "pdf", "image"}
    PROVE  FormatInv'
<1>1. file.kind # "zip" /\ file.kind # "rtf" /\ file.kind # "text"
  OBVIOUS
<1> QED
  BY <1>1, Judged

\* A signature yields a format or an error, never None.
LEMMA VerdictsAreNotNull ==
    ASSUME FormatAssumption
    PROVE  \A v \in Formats \cup FormatErrors : v # Null
<1> QED
  BY DEF FormatAssumption

\* An error is no format.
LEMMA ErrorsAreNoFormats == \A v \in FormatErrors : v \notin Formats
<1> QED
  BY DEF Formats, FormatErrors

\* What an entry raises, and what it is when it raises nothing.
LEMMA EntryErrorFacts ==
    ASSUME FormatAssumption, NEW e
    PROVE  /\ EntryError(e) # Null => EntryError(e) \in FormatErrors
           /\ EntryError(e) = Null => /\ Sound(e) /\ e.name \notin NamesOf(file.entries, at)
                                      /\ TotalFits(e)
<1>1. Null \notin FormatErrors
  BY DEF FormatAssumption
<1>2. EntryError(e) # Null => EntryError(e) \in FormatErrors
  BY DEF EntryError, FormatErrors
<1>3. EntryError(e) = Null => /\ Sound(e) /\ e.name \notin NamesOf(file.entries, at)
                              /\ TotalFits(e)
  BY <1>1 DEF EntryError, Sound, FormatErrors
<1> QED
  BY <1>2, <1>3

\* An entry of a container.
LEMMA ZipEntryStep ==
    ASSUME FormatAssumption, FormatInv, ZipEntry
    PROVE  FormatInv'
<1> DEFINE es == file.entries
           e  == es[at + 1]
<1>1. verdict = Null /\ file.kind = "zip" /\ at < Len(es)
  BY DEF ZipEntry, Open
<1>2. file \in Files /\ ZipRead(es, at, total)
  BY <1>1 DEF FormatInv
<1>3. IsEntries(es)
  BY <1>1, <1>2, FileFacts
<1>4. CASE EntryError(e) # Null /\ Conclude(EntryError(e))
  <2>1. verdict' \in FormatErrors /\ file' = file
    BY <1>4, EntryErrorFacts DEF Conclude
  <2>2. verdict' # Null /\ verdict' \notin Formats
    BY <2>1, VerdictsAreNotNull, ErrorsAreNoFormats
  <2> QED
    BY <1>1, <2>1, <2>2, Judged
<1>5. CASE /\ EntryError(e) = Null /\ at' = at + 1 /\ total' = total + e.size
           /\ UNCHANGED <<file, depth, escaped, pending, verdict>>
  <2>1. Sound(e) /\ e.name \notin NamesOf(es, at) /\ total + e.size <= MaxTotal
    BY <1>5, EntryErrorFacts DEF TotalFits
  <2>2. ZipRead(es, at + 1, total + es[at + 1].size)
    BY <1>1, <1>2, <1>3, <2>1, ZipReadOne
  <2>3. ZipRead(es, at', total')
    BY <1>5, <2>2
  <2>4. file' = file /\ verdict' = Null
    BY <1>1, <1>5
  <2> HIDE DEF es
  <2> QED
    BY <1>1, <2>3, <2>4, ReadOn DEF es
<1> QED
  BY <1>4, <1>5 DEF ZipEntry

\* The other steps of a container.
LEMMA ZipEndStep ==
    ASSUME FormatAssumption, FormatInv, ZipOpen \/ ZipIdentify
    PROVE  FormatInv'
<1>1. verdict = Null /\ file.kind = "zip" /\ file' = file
  BY DEF ZipOpen, ZipIdentify, Open, Conclude
<1>2. CASE ZipOpen
  <2>1. verdict' \in FormatErrors
    BY <1>2 DEF ZipOpen, Conclude, FormatErrors
  <2>2. verdict' # Null /\ verdict' \notin Formats
    BY <2>1, VerdictsAreNotNull, ErrorsAreNoFormats
  <2> QED
    BY <1>1, <2>2, Judged
<1>3. CASE ZipIdentify
  <2> DEFINE hits == {k \in 1..Len(Required) : Matches(Required[k])}
             P(k) == \A m \in hits : k <= m
             first == CHOOSE k \in hits : P(k)
  <2>1. verdict' = IF hits = {} THEN "UNSUPPORTED_ZIP_CONTAINER" ELSE Required[first].format
    BY <1>3 DEF ZipIdentify, Conclude
  <2>2. \A k \in 1..Len(Required) : Required[k].format \in Formats
    BY DEF Required, Formats
  <2>3. verdict' \in Formats \cup FormatErrors
    <3>1. CASE hits = {}
      BY <2>1, <3>1 DEF FormatErrors
    <3>2. CASE hits # {}
      <4>1. hits \in SUBSET Nat
        OBVIOUS
      <4>2. hits \subseteq 1..Len(Required)
        OBVIOUS
      <4> HIDE DEF hits
      <4>3. \E k \in hits : P(k)
        BY <3>2, <4>1, LeastElement
      <4>4. first \in hits
        <5> HIDE DEF P
        <5> QED
          BY <4>3
      <4> QED
        BY <2>1, <2>2, <3>2, <4>2, <4>4
    <3> QED
      BY <3>1, <3>2
  <2>4. verdict' # Null
    BY <2>3, VerdictsAreNotNull
  <2>5. /\ Len(file.entries) <= MaxEntries /\ at = Len(file.entries)
        /\ ZipRead(file.entries, at, total)
    BY <1>1, <1>3 DEF ZipIdentify, FormatInv
  <2> QED
    BY <1>1, <2>4, <2>5, Judged
<1> QED
  BY <1>2, <1>3

\* A byte of RTF.
LEMMA RtfByteStep ==
    ASSUME FormatAssumption, FormatInv, RtfByte
    PROVE  FormatInv'
<1> DEFINE s == Bytes
           b == s[at + 1]
           level == LevelAfter(b, escaped, depth)
           nul == BeginsChunk(at) /\ \E k \in ChunkFrom(at) : s[k] = "0"
<1>1. verdict = Null /\ file.kind = "rtf" /\ at < Len(s)
  BY DEF RtfByte, Open
<1>2. file \in Files /\ RtfRead(s, at, depth, escaped) /\ Len(s) \in Nat
  BY <1>1, FileFacts DEF FormatInv
<1>3. /\ at' = at + 1 /\ depth' = level /\ file' = file
      /\ escaped' = (~escaped /\ b = Slash)
      /\ verdict' = IF nul \/ level < 0 THEN "MALFORMED_RTF"
                    ELSE IF level > MaxDepth THEN "RTF_RESOURCE_LIMIT" ELSE Null
  BY DEF RtfByte, LevelAfter, StaysEscaped
<1>4. MaxDepth \in Nat
  BY DEF FormatAssumption
<1>5. at \in Nat /\ at + 1 \in 1..Len(s) /\ level = Level(s, at + 1) /\ level \in Int
  <2>1. at \in Nat /\ at + 1 \in Nat /\ at + 1 \in 1..Len(s) /\ depth = Level(s, at)
        /\ escaped \in BOOLEAN /\ (escaped <=> Slashes(s, at + 1) % 2 = 1)
    BY <1>1, <1>2 DEF RtfRead
  <2>2. level = Level(s, at + 1) /\ depth \in Int
    BY <2>1, LevelNext
  <2>3. level \in Int
    BY <2>2 DEF LevelAfter
  <2> QED
    BY <2>1, <2>2, <2>3
<1>6. CASE nul \/ level < 0 \/ level > MaxDepth
  <2>1. verdict' \in FormatErrors /\ verdict' # "RTF"
    BY <1>3, <1>6 DEF FormatErrors
  <2>2. verdict' # Null
    BY <2>1, VerdictsAreNotNull
  <2>3. ~IsRtf(s)
    <3>1. CASE nul
      <4>1. PICK k \in ChunkFrom(at) : s[k] = "0"
        BY <3>1
      <4>2. k \in 1..Len(s)
        BY <1>5, <4>1 DEF ChunkFrom
      <4> QED
        BY <4>1, <4>2 DEF IsRtf
    <3>2. CASE level < 0 \/ level > MaxDepth
      <4>1. level \notin 0..MaxDepth
        BY <1>4, <1>5, <3>2
      <4> QED
        BY <1>5, <4>1 DEF IsRtf
    <3> QED
      BY <1>6, <3>1, <3>2
  <2> HIDE DEF s
  <2>4. file.kind = "rtf" => (verdict' = "RTF" <=> IsRtf(Bytes))
    BY <2>1, <2>3 DEF s
  <2> QED
    BY <1>1, <1>3, <2>2, <2>4, Judged
<1>7. CASE ~(nul \/ level < 0 \/ level > MaxDepth)
  <2>1. level \in 0..MaxDepth
    BY <1>4, <1>5, <1>7
  <2>2. BeginsChunk(at) => \A k \in at + 1..at + ChunkSize : k <= Len(s) => s[k] # "0"
    BY <1>7 DEF ChunkFrom
  <2>3. RtfRead(s, at + 1, LevelAfter(s[at + 1], escaped, depth), ~escaped /\ s[at + 1] = Slash)
    <3> HIDE DEF s
    <3> QED
      BY <1>1, <1>2, <2>1, <2>2, RtfReadOne
  <2>4. verdict' = Null
    BY <1>3, <1>7
  <2>5. RtfRead(Bytes, at', depth', escaped')
    BY <1>3, <2>3
  <2> QED
    BY <1>1, <1>3, <2>4, <2>5, ReadOn
<1> QED
  BY <1>6, <1>7

\* The end of RTF.
LEMMA RtfEndStep ==
    ASSUME FormatAssumption, FormatInv, RtfEnd
    PROVE  FormatInv'
<1>1. verdict = Null /\ file.kind = "rtf" /\ at = Len(Bytes) /\ file' = file
      /\ verdict' = IF depth # 0 THEN "MALFORMED_RTF" ELSE "RTF"
  BY DEF RtfEnd, Open, Conclude
<1>2. file \in Files /\ RtfRead(Bytes, Len(Bytes), depth, escaped) /\ Len(Bytes) \in Nat
  BY <1>1, FileFacts DEF FormatInv
<1>3. depth = 0 <=> IsRtf(Bytes)
  BY <1>2, RtfReadAll
<1>4. verdict' = "RTF" <=> IsRtf(Bytes)
  BY <1>1, <1>3
<1>5. verdict' \in Formats \cup FormatErrors
  BY <1>1 DEF Formats, FormatErrors
<1>6. verdict' # Null
  BY <1>5, VerdictsAreNotNull
<1> QED
  BY <1>1, <1>4, <1>6, Judged

\* A chunk of text.
LEMMA TextChunkStep ==
    ASSUME FormatAssumption, FormatInv, TextChunk
    PROVE  FormatInv'
<1> DEFINE s == Bytes
           bad == \E k \in Reads(s, at) :
                    Undecodable(IF k = at + 1 THEN pending ELSE s[k - 1] = "2", s[k])
           nul == \E k \in Reads(s, at) : k <= Probe /\ s[k] = "0"
           m == IF at + ChunkSize <= Len(s) THEN at + ChunkSize ELSE Len(s)
<1>1. verdict = Null /\ file.kind = "text" /\ at < Len(s) /\ file' = file /\ at' = m
  BY DEF TextChunk, Open
<1>2. ChunkFrom(at) = Reads(s, at)
  BY DEF ChunkFrom, Reads
<1>3. /\ pending' = (s[m] = "2")
      /\ verdict' = IF nul THEN "UNSUPPORTED_FORMAT"
                    ELSE IF bad THEN "TEXT_ENCODING_UNSUPPORTED" ELSE Null
  BY <1>1, <1>2 DEF TextChunk, Carries
<1>4. file \in Files /\ TextRead(s, at, pending) /\ Len(s) \in Nat
  BY <1>1, FileFacts DEF FormatInv
<1>5. bad <=> \E k \in Reads(s, at) : ~Fits(s, k)
  <2> HIDE DEF s
  <2>1. \A k \in Reads(s, at) :
           Undecodable(IF k = at + 1 THEN pending ELSE s[k - 1] = "2", s[k]) <=> ~Fits(s, k)
    BY <1>4, DecodesIffFits
  <2> QED
    BY <2>1
<1>6. at \in Nat /\ Reads(s, at) \subseteq 1..Len(s)
  BY <1>4 DEF TextRead, Reads
<1>7. CASE nul \/ bad
  <2>1. verdict' \in FormatErrors
    BY <1>3, <1>7 DEF FormatErrors
  <2>2. verdict' # Null /\ verdict' \notin Formats
    BY <2>1, VerdictsAreNotNull, ErrorsAreNoFormats
  <2>3. ~IsText(s)
    BY <1>5, <1>6, <1>7 DEF IsText
  <2>4. file.kind = "text" => (verdict' \in Formats <=> IsText(Bytes))
    BY <2>2, <2>3
  <2> QED
    BY <1>1, <2>2, <2>4, Judged
<1>8. CASE ~(nul \/ bad)
  <2>1. \A k \in Reads(s, at) : Fits(s, k) /\ (k <= Probe => s[k] # "0")
    BY <1>5, <1>8
  <2>2. verdict' = Null
    BY <1>3, <1>8
  <2>3. TextRead(s, m, s[m] = "2")
    <3> HIDE DEF s
    <3>1. m = IF at + ChunkSize <= Len(s) THEN at + ChunkSize ELSE Len(s)
      OBVIOUS
    <3> HIDE DEF m
    <3> QED
      BY <1>1, <1>4, <2>1, <3>1, TextReadOn
  <2>4. TextRead(Bytes, at', pending')
    BY <1>1, <1>3, <2>3
  <2> QED
    BY <1>1, <2>2, <2>4, ReadOn
<1> QED
  BY <1>7, <1>8

\* The end of text.
LEMMA TextEndStep ==
    ASSUME FormatAssumption, FormatInv, TextEnd
    PROVE  FormatInv'
<1>1. verdict = Null /\ file.kind = "text" /\ at = Len(Bytes) /\ file' = file
      /\ verdict' = IF pending THEN "TEXT_ENCODING_UNSUPPORTED"
                    ELSE IF DetectHtml THEN "HTML"
                    ELSE IF DetectCsv THEN "CSV"
                    ELSE IF file.ext = "md" THEN "MARKDOWN" ELSE "TXT"
  BY DEF TextEnd, Open, Conclude
<1>2. file \in Files /\ TextRead(Bytes, Len(Bytes), pending) /\ Len(Bytes) \in Nat
  BY <1>1, FileFacts DEF FormatInv
<1>3. pending <=> ~IsText(Bytes)
  BY <1>2 DEF TextRead, IsText
<1>4. verdict' \in Formats \cup FormatErrors /\ (verdict' \in Formats <=> ~pending)
  BY <1>1 DEF Formats, FormatErrors
<1>5. verdict' # Null
  BY <1>4, VerdictsAreNotNull
<1> QED
  BY <1>1, <1>3, <1>4, <1>5, Judged

\* One step of the validation keeps the invariant.
LEMMA FormatStepKeeps ==
    ASSUME FormatAssumption, FormatInv, [FormatNext]_formatVars
    PROVE  FormatInv'
<1>1. CASE Executable \/ Pdf \/ Image
  <2>1. file' = file /\ file.kind \in {"executable", "pdf", "image"}
    BY <1>1 DEF Executable, Pdf, Image, Open, Conclude
  <2>2. verdict' \in FormatErrors \cup Formats \/ (verdict' = file.format /\ file.format # Null)
    BY <1>1 DEF Executable, Pdf, Image, Conclude, FormatErrors, Formats
  <2>3. verdict' # Null
    BY <2>2, VerdictsAreNotNull
  <2> QED
    BY <2>1, <2>3, SignatureStep
<1>2. CASE ZipOpen \/ ZipIdentify
  BY <1>2, ZipEndStep
<1>3. CASE ZipEntry
  BY <1>3, ZipEntryStep
<1>4. CASE RtfByte
  BY <1>4, RtfByteStep
<1>5. CASE RtfEnd
  BY <1>5, RtfEndStep
<1>6. CASE TextChunk
  BY <1>6, TextChunkStep
<1>7. CASE TextEnd
  BY <1>7, TextEndStep
<1>8. CASE UNCHANGED formatVars
  <2>1. UNCHANGED <<file, at, total, depth, escaped, pending, verdict>>
    BY <1>8 DEF formatVars
  <2>2. AdmittedFilesAreSound'
    <3>1. AdmittedFilesAreSound
      BY DEF FormatInv
    <3> QED
      BY <2>1, <3>1 DEF AdmittedFilesAreSound, ContainersAreBounded, RtfIsBalanced, TextIsUtf8, Bytes
  <2> QED
    BY <2>1, <2>2 DEF FormatInv, Bytes
<1> QED
  BY <1>1, <1>2, <1>3, <1>4, <1>5, <1>6, <1>7, <1>8 DEF FormatNext, FormatStop

\* Whatever the file and wherever its reads end: an admitted container is within every limit, RTF is admitted iff
\* its groups nest and text iff it is UTF-8 (validate_and_identify_zip, validate_rtf, _validate_utf8_text).
THEOREM SoundFiles == FormatSpec => []AdmittedFilesAreSound
<1>1. FormatInit => FormatInv
  BY FormatAssumption, FormatStart
<1>2. FormatInv /\ [FormatNext]_formatVars => FormatInv'
  BY FormatAssumption, FormatStepKeeps
<1>3. FormatInv => AdmittedFilesAreSound
  BY DEF FormatInv
<1> QED
  BY <1>1, <1>2, <1>3, PTL DEF FormatSpec

-----------------------------------------------------------------------------
(* Sentence: the sentences told and the open one.                           *)

Marks == Ends \cup Closers

BlankLineAt(t, k) == t[k] = "n" /\ t[k + 1] = "n"

\* No blank line begins in a..b, the end of the text apart.
NoBlankLine(t, a, b) == \A k \in a..b : k < Len(t) => ~BlankLineAt(t, k)

\* The sentence <<a, z>> ends in more than a full stop.
LongStop(t, a, z) ==
    LET words == {k \in a..z : t[k] \notin Marks}
        run   == {k \in a..z : \A w \in words : w < k}
    IN  \/ \E k \in run : t[k] \in Ends \ {"."}
        \/ Cardinality({k \in run : t[k] = "."}) >= 3

\* The sentence <<a, z>> may be followed by one that begins at b; A are the full
\* stops of abbreviations.
Closed(t, A, a, z, b) ==
    /\ z < b
    /\ z + 1 = b /\ b <= Len(t) => LongStop(t, a, z)
    /\ z \in A => \E k \in z + 1..b - 2 : BlankLineAt(t, k)

Whole(t, a, z) ==
    /\ a \in 1..Len(t) /\ z \in a..Len(t)
    /\ NoBlankLine(t, a, z - 1)

IsSentences(t, A, o) ==
    /\ o \in Seq(Nat \X Nat)
    /\ \A s \in 1..Len(o) : Whole(t, o[s][1], o[s][2])
    /\ \A s \in 1..Len(o) - 1 : Closed(t, A, o[s][1], o[s][2], o[s + 1][1])

EndsBefore(t, A, o, b) == Len(o) > 0 => Closed(t, A, o[Len(o)][1], o[Len(o)][2], b)

Covers(t, o, b) ==
    \A k \in 1..Len(t) : t[k] \notin Blanks /\ k < b =>
        \E s \in 1..Len(o) : o[s][1] <= k /\ k <= o[s][2]

\* t[from..to].strip() is <<a, z>>.
Strips(t, from, to, a, z) ==
    /\ a \in from..to /\ z \in a..to
    /\ t[a] \notin Blanks /\ t[z] \notin Blanks
    /\ \A k \in from..to : t[k] \notin Blanks => a <= k /\ k <= z

Emits(t, o, p, from, to) ==
    \/ p = o /\ \A k \in from..to : t[k] \in Blanks
    \/ \E a, z : Strips(t, from, to, a, z) /\ p = Append(o, <<a, z>>)

\* strip()
LEMMA EmitFacts ==
    ASSUME Len(text) \in Nat, NEW from \in 1..Len(text) + 1, NEW to \in 0..Len(text)
    PROVE  Emits(text, out, Emit(from, to), from, to)
<1> DEFINE solid == {k \in from..to : ~IsSpace(text[k])}
           a == CHOOSE k \in solid : \A m \in solid : k <= m
           z == CHOOSE k \in solid : \A m \in solid : k >= m
<1>1. CASE solid = {}
  <2>1. Emit(from, to) = out
    BY <1>1 DEF Emit
  <2>2. \A k \in from..to : text[k] \in Blanks
    BY <1>1 DEF IsSpace
  <2> QED
    BY <2>1, <2>2 DEF Emits
<1>2. CASE solid # {}
  <2>1. Emit(from, to) = Append(out, <<a, z>>)
    BY <1>2 DEF Emit
  <2>2. solid \in SUBSET Nat /\ solid \subseteq 0..Len(text)
    OBVIOUS
  <2>3. \A k : k \in solid <=> k \in from..to /\ text[k] \notin Blanks
    BY DEF IsSpace
  <2> HIDE DEF solid
  <2>4. \E k \in solid : \A m \in solid : k <= m
    BY <1>2, <2>2, LeastElement
  <2>5. \E k \in solid : \A m \in solid : k >= m
    <3>1. PICK k \in solid : \A m \in solid : m <= k
      BY <1>2, <2>2, GreatestElement
    <3>2. \A m \in solid : k >= m
      BY <2>2, <3>1
    <3> QED
      BY <3>2
  <2>6. a \in solid /\ z \in solid /\ \A m \in solid : a <= m /\ z >= m
    BY <2>4, <2>5
  <2> HIDE DEF a, z
  <2>7. a \in from..to /\ z \in from..to /\ text[a] \notin Blanks /\ text[z] \notin Blanks
    BY <2>3, <2>6
  <2>8. \A k \in from..to : text[k] \notin Blanks => a <= k /\ k <= z
    <3> TAKE k \in from..to
    <3> HAVE text[k] \notin Blanks
    <3>1. a <= k /\ z >= k
      BY <2>3, <2>6
    <3> QED
      BY <2>7, <3>1
  <2>9. z \in a..to
    <3>1. a <= z
      BY <2>6
    <3> QED
      BY <2>7, <3>1
  <2>10. Strips(text, from, to, a, z)
    BY <2>7, <2>8, <2>9 DEF Strips
  <2> QED
    BY <2>1, <2>10 DEF Emits
<1> QED
  BY <1>1, <1>2

\* A sentence that may be followed from b on may be followed from further on.
LEMMA ClosedFurther ==
    ASSUME NEW t, NEW A, NEW a \in Nat, NEW z \in Nat, NEW b \in Nat, Closed(t, A, a, z, b),
           NEW c \in Nat, b <= c
    PROVE  Closed(t, A, a, z, c)
<1>1. z < c
  BY DEF Closed
<1>2. ASSUME z + 1 = c, c <= Len(t) PROVE LongStop(t, a, z)
  <2>1. b = c
    BY <1>2 DEF Closed
  <2> QED
    BY <1>2, <2>1 DEF Closed
<1>3. ASSUME z \in A PROVE \E k \in z + 1..c - 2 : BlankLineAt(t, k)
  <2>1. PICK k \in z + 1..b - 2 : BlankLineAt(t, k)
    BY <1>3 DEF Closed
  <2>2. k \in z + 1..c - 2
    BY <2>1
  <2> QED
    BY <2>1, <2>2
<1> QED
  BY <1>1, <1>2, <1>3 DEF Closed

\* One sentence more.
LEMMA TellOne ==
    ASSUME NEW t, Len(t) \in Nat, NEW A, NEW o, NEW p, IsSentences(t, A, o),
           NEW from \in 1..Len(t) + 1, NEW to \in 0..Len(t),
           EndsBefore(t, A, o, from), Covers(t, o, from), NoBlankLine(t, from, to - 1),
           Emits(t, o, p, from, to)
    PROVE  IsSentences(t, A, p) /\ Covers(t, p, to + 1)
<1>1. CASE p = o /\ \A k \in from..to : t[k] \in Blanks
  <2>1. Covers(t, o, to + 1)
    <3> SUFFICES ASSUME NEW k \in 1..Len(t), t[k] \notin Blanks, k < to + 1
                 PROVE  \E s \in 1..Len(o) : o[s][1] <= k /\ k <= o[s][2]
      BY DEF Covers
    <3>1. k < from
      BY <1>1
    <3> QED
      BY <3>1 DEF Covers
  <2> QED
    BY <1>1, <2>1
<1>2. ASSUME NEW a, NEW z, Strips(t, from, to, a, z), p = Append(o, <<a, z>>)
      PROVE  IsSentences(t, A, p) /\ Covers(t, p, to + 1)
  <2> DEFINE e == <<a, z>>
             n == Len(o)
  <2>1. a \in from..to /\ z \in a..to /\ a \in Nat /\ z \in Nat
    BY <1>2 DEF Strips
  <2>2. e \in Nat \X Nat /\ e[1] = a /\ e[2] = z
    BY <2>1
  <2>3. o \in Seq(Nat \X Nat) /\ n \in Nat
    BY DEF IsSentences
  <2> HIDE DEF e
  <2>4. /\ p \in Seq(Nat \X Nat) /\ Len(p) = n + 1 /\ p[n + 1] = e
        /\ \A s \in 1..n : p[s] = o[s] /\ o[s] \in Nat \X Nat
    BY <1>2, <2>2, <2>3 DEF e
  <2> HIDE DEF n
  <2>5. \A s \in 1..n : o[s][1] \in Nat /\ o[s][2] \in Nat
    BY <2>4
  <2>6. Whole(t, a, z)
    <3>1. a \in 1..Len(t) /\ z \in a..Len(t)
      BY <2>1
    <3>2. \A k \in a..z - 1 : k \in from..to - 1
      BY <2>1
    <3> QED
      BY <3>1, <3>2 DEF Whole, NoBlankLine
  <2>7. \A s \in 1..n + 1 : s = n + 1 \/ s \in 1..n
    BY <2>3
  <2>8. \A s \in 1..Len(p) : Whole(t, p[s][1], p[s][2])
    BY <2>2, <2>4, <2>6, <2>7 DEF IsSentences, n
  <2>9. ASSUME NEW s \in 1..Len(p) - 1 PROVE Closed(t, A, p[s][1], p[s][2], p[s + 1][1])
    <3>1. s \in 1..n
      BY <2>3, <2>4
    <3>2. CASE s = n
      <4>1. Closed(t, A, o[n][1], o[n][2], from)
        BY <2>3, <3>1, <3>2 DEF EndsBefore, n
      <4>2. from \in Nat /\ from <= a /\ n \in 1..n
        BY <2>1, <3>1, <3>2
      <4>3. Closed(t, A, o[n][1], o[n][2], a)
        BY <2>1, <2>5, <4>1, <4>2, ClosedFurther
      <4> QED
        BY <2>2, <2>4, <3>2, <4>2, <4>3
    <3>3. CASE s # n
      <4>1. s \in 1..n - 1 /\ s + 1 \in 1..n
        BY <2>3, <3>1, <3>3
      <4>2. Closed(t, A, o[s][1], o[s][2], o[s + 1][1])
        BY <4>1 DEF IsSentences, n
      <4> QED
        BY <2>4, <3>1, <4>1, <4>2
    <3> QED
      BY <3>2, <3>3
  <2>10. IsSentences(t, A, p)
    BY <2>4, <2>8, <2>9 DEF IsSentences
  <2>11. Covers(t, p, to + 1)
    <3> SUFFICES ASSUME NEW k \in 1..Len(t), t[k] \notin Blanks, k < to + 1
                 PROVE  \E s \in 1..Len(p) : p[s][1] <= k /\ k <= p[s][2]
      BY DEF Covers
    <3>1. CASE k < from
      <4>1. PICK s \in 1..n : o[s][1] <= k /\ k <= o[s][2]
        BY <3>1 DEF Covers, n
      <4>2. s \in 1..Len(p)
        BY <2>3, <2>4
      <4> QED
        BY <2>4, <4>1, <4>2
    <3>2. CASE ~(k < from)
      <4>1. k \in from..to
        BY <3>2
      <4>2. a <= k /\ k <= z
        BY <1>2, <4>1 DEF Strips
      <4>3. n + 1 \in 1..Len(p)
        BY <2>3, <2>4
      <4> QED
        BY <2>2, <2>4, <4>2, <4>3
    <3> QED
      BY <3>1, <3>2
  <2> QED
    BY <2>10, <2>11
<1> QED
  BY <1>1, <1>2 DEF Emits

\* And the next one may begin at b.
LEMMA TellNext ==
    ASSUME NEW t, Len(t) \in Nat, NEW A, NEW o, NEW p, IsSentences(t, A, o),
           NEW from \in 1..Len(t) + 1, NEW to \in 0..Len(t), from <= to + 1,
           EndsBefore(t, A, o, from), Emits(t, o, p, from, to), Covers(t, p, to + 1),
           NEW b \in Nat, to < b, \A k \in to + 1..b - 1 : t[k] \in Blanks,
           \A a, z : Strips(t, from, to, a, z) => Closed(t, A, a, z, b)
    PROVE  EndsBefore(t, A, p, b) /\ Covers(t, p, b)
<1>1. Covers(t, p, b)
  <2> SUFFICES ASSUME NEW k \in 1..Len(t), t[k] \notin Blanks, k < b
               PROVE  \E s \in 1..Len(p) : p[s][1] <= k /\ k <= p[s][2]
    BY DEF Covers
  <2>1. k < to + 1
    <3> SUFFICES ASSUME ~(k < to + 1) PROVE FALSE
      OBVIOUS
    <3>1. k \in to + 1..b - 1
      OBVIOUS
    <3> QED
      BY <3>1
  <2> QED
    BY <2>1 DEF Covers
<1>2. ASSUME p = o PROVE EndsBefore(t, A, p, b)
  <2> SUFFICES ASSUME Len(o) > 0 PROVE Closed(t, A, o[Len(o)][1], o[Len(o)][2], b)
    BY <1>2 DEF EndsBefore
  <2>1. o \in Seq(Nat \X Nat) /\ Len(o) \in 1..Len(o)
    BY DEF IsSentences
  <2>2. o[Len(o)] \in Nat \X Nat
    BY <2>1
  <2>3. o[Len(o)][1] \in Nat /\ o[Len(o)][2] \in Nat
    BY <2>2
  <2>4. Closed(t, A, o[Len(o)][1], o[Len(o)][2], from) /\ from \in Nat /\ from <= b
    BY DEF EndsBefore
  <2> QED
    BY <2>3, <2>4, ClosedFurther
<1>3. ASSUME NEW a, NEW z, Strips(t, from, to, a, z), p = Append(o, <<a, z>>)
      PROVE  EndsBefore(t, A, p, b)
  <2> DEFINE e == <<a, z>>
  <2>1. a \in Nat /\ z \in Nat
    BY <1>3 DEF Strips
  <2>2. e \in Nat \X Nat /\ e[1] = a /\ e[2] = z
    BY <2>1
  <2>3. o \in Seq(Nat \X Nat) /\ Len(o) \in Nat
    BY DEF IsSentences
  <2> HIDE DEF e
  <2>4. Len(p) = Len(o) + 1 /\ p[Len(o) + 1] = e
    BY <1>3, <2>2, <2>3 DEF e
  <2>5. Closed(t, A, a, z, b)
    BY <1>3
  <2> QED
    BY <2>2, <2>4, <2>5 DEF EndsBefore
<1> QED
  BY <1>1, <1>2, <1>3 DEF Emits

\* The full stops of always-nonterminal abbreviations.
Abbreviated == {z \in 1..Len(text) : text[z] = "." /\ PreviousToken(z) \in Profile.always}

SentenceInv ==
    /\ text \in Texts /\ language \in Languages
    /\ begin \in 1..Len(text) + 1 /\ scan \in begin..Len(text) + 1
    /\ IsSentences(text, Abbreviated, out)
    /\ Covers(text, out, IF cut THEN Len(text) + 1 ELSE begin)
    /\ ~cut => /\ EndsBefore(text, Abbreviated, out, begin)
               /\ NoBlankLine(text, begin, scan - 1)

\* The classes of characters have nothing in common.
LEMMA ClassFacts ==
    /\ "." \in Ends /\ "e" \in Ends /\ "!" \in Ends /\ "n" \in Blanks
    /\ \A c \in Ends : c \notin Blanks /\ c \notin Closers /\ c # "n" /\ c # "A" /\ c # "("
    /\ \A c \in Closers : c \notin Blanks /\ c # "n" /\ c # "."
<1> QED
  BY Zenon DEF Ends, Blanks, Closers

\* e is the first position from k on whose character is not one of C.
Skips(t, k, C, e) ==
    /\ e \in k..Len(t) + 1
    /\ \A p \in k..e - 1 : t[p] \in C
    /\ e = Len(t) + 1 \/ t[e] \notin C

\* There is one.
LEMMA SkipFacts ==
    ASSUME Len(text) \in Nat, NEW k \in 1..Len(text) + 1, NEW C
    PROVE  Skips(text, k, C, SkipFrom(k, C))
<1> DEFINE n == Len(text)
           T == {e \in k..n + 1 : e = n + 1 \/ text[e] \notin C}
           P(e) == (\A p \in k..e - 1 : text[p] \in C) /\ (e = n + 1 \/ text[e] \notin C)
<1>1. T \in SUBSET Nat /\ n + 1 \in T
  OBVIOUS
<1>2. PICK e \in T : \A m \in T : e <= m
  <2> HIDE DEF T
  <2> QED
    BY <1>1, LeastElement
<1>3. \A p \in k..e - 1 : text[p] \in C
  <2> SUFFICES ASSUME NEW p \in k..e - 1, text[p] \notin C PROVE FALSE
    OBVIOUS
  <2>1. p \in T /\ p < e
    BY <1>2
  <2> QED
    BY <1>2, <2>1
<1>4. e \in k..n + 1 /\ P(e)
  BY <1>2, <1>3
<1>5. SkipFrom(k, C) \in k..n + 1 /\ P(SkipFrom(k, C))
  <2>1. SkipFrom(k, C) = CHOOSE x \in k..n + 1 : P(x)
    BY DEF SkipFrom
  <2> HIDE DEF P
  <2> QED
    BY <1>4, <2>1
<1> QED
  BY <1>5 DEF Skips

\* An abbreviation has one full stop at its end, so none ends in a run of terminals.
LEMMA NoAbbreviationEndsSo ==
    ASSUME SentenceAssumption, language \in Languages, Len(text) \in Nat,
           NEW z \in 2..Len(text), text[z - 1] \in Ends
    PROVE  PreviousToken(z) \notin Profile.always
<1> DEFINE T == {b \in 1..z : \A k \in b..z - 1 : ~EndsToken(text[k])}
           P(b) == (\A k \in b..z - 1 : ~EndsToken(text[k])) /\ (b = 1 \/ EndsToken(text[b - 1]))
           f == CHOOSE b \in 1..z : P(b)
           L == z - f + 1
           token == [k \in 1..L |-> IF text[f + k - 1] = "A" THEN "a" ELSE text[f + k - 1]]
<1>1. PreviousToken(z) = token
  BY DEF PreviousToken
<1>2. T \in SUBSET Nat /\ z \in T
  OBVIOUS
<1>3. PICK b \in T : \A m \in T : b <= m
  <2> HIDE DEF T
  <2> QED
    BY <1>2, LeastElement
<1>4. b = 1 \/ EndsToken(text[b - 1])
  <2> SUFFICES ASSUME b # 1, ~EndsToken(text[b - 1]) PROVE FALSE
    OBVIOUS
  <2>1. b - 1 \in 1..z /\ b \in 1..z
    BY <1>3
  <2>2. \A k \in b - 1..z - 1 : k = b - 1 \/ k \in b..z - 1
    BY <2>1
  <2>3. \A k \in b - 1..z - 1 : ~EndsToken(text[k])
    BY <1>3, <2>2
  <2>4. b - 1 \in T
    BY <2>1, <2>3
  <2> QED
    BY <1>3, <2>1, <2>4
<1>5. b \in 1..z /\ P(b)
  BY <1>3, <1>4
<1>6. f \in 1..z /\ P(f)
  <2> HIDE DEF P
  <2> QED
    BY <1>5
<1>7. ~EndsToken(text[z - 1])
  BY ClassFacts DEF EndsToken, IsSpace, IsCloser
<1>8. f # z
  BY <1>6, <1>7
<1> HIDE DEF f
<1>9. L \in Nat /\ L >= 2 /\ f + (L - 1) - 1 = z - 1 /\ L - 1 \in 1..L
  BY <1>6, <1>8
<1>10. Len(token) = L /\ token[L - 1] = text[z - 1]
  <2>1. Len(token) = L
    BY <1>9
  <2>2. text[f + (L - 1) - 1] = text[z - 1] /\ text[z - 1] # "A"
    BY <1>9, ClassFacts
  <2>3. token[L - 1] = IF text[f + (L - 1) - 1] = "A" THEN "a" ELSE text[f + (L - 1) - 1]
    BY <1>9
  <2> QED
    BY <2>1, <2>2, <2>3
<1> HIDE DEF token, L
<1>11. Len(token) >= 2 /\ token[Len(token) - 1] \in Ends
  BY <1>9, <1>10
<1> QED
  BY <1>1, <1>11 DEF SentenceAssumption, Profile

\* What a run of terminals and closers from i to z makes of the end of a sentence.
LEMMA LongStopFacts ==
    ASSUME NEW t, NEW a \in Nat, NEW i \in Nat, NEW z \in Nat, a <= i, i <= z,
           \A k \in i..z : t[k] \in Marks,
           \/ t[i] \in Ends \ {"."}
           \/ i + 2 <= z /\ \A k \in i..i + 2 : t[k] = "."
    PROVE  LongStop(t, a, z)
<1> DEFINE words == {k \in a..z : t[k] \notin Marks}
           run   == {k \in a..z : \A w \in words : w < k}
           D == {k \in run : t[k] = "."}
<1>1. \A w \in words : w < i
  <2> SUFFICES ASSUME NEW w \in words, ~(w < i) PROVE FALSE
    OBVIOUS
  <2>1. w \in i..z /\ t[w] \notin Marks
    OBVIOUS
  <2> QED
    BY <2>1
<1>2. i..z \subseteq run
  <2> SUFFICES ASSUME NEW k \in i..z PROVE k \in run
    OBVIOUS
  <2>1. k \in a..z
    OBVIOUS
  <2>2. \A w \in words : w < k
    <3> TAKE w \in words
    <3>1. w < i /\ w \in Int
      BY <1>1
    <3> QED
      BY <3>1
  <2> QED
    BY <2>1, <2>2
<1>3. CASE t[i] \in Ends \ {"."}
  <2>1. i \in run
    BY <1>2
  <2> QED
    BY <1>3, <2>1 DEF LongStop
<1>4. CASE i + 2 <= z /\ \A k \in i..i + 2 : t[k] = "."
  <2>1. i..i + 2 \subseteq D
    <3> SUFFICES ASSUME NEW k \in i..i + 2 PROVE k \in D
      OBVIOUS
    <3>1. k \in i..z /\ t[k] = "."
      BY <1>4
    <3> QED
      BY <1>2, <3>1
  <2>2. D \subseteq a..z
    OBVIOUS
  <2> HIDE DEF D
  <2>3. IsFiniteSet(a..z)
    BY FS_Interval
  <2>4. IsFiniteSet(D)
    BY <2>2, <2>3, FS_Subset
  <2>5. Cardinality(i..i + 2) = 3
    <3>1. Cardinality(i..i + 2) = IF i > i + 2 THEN 0 ELSE (i + 2) - i + 1
      BY FS_Interval
    <3> QED
      BY <3>1
  <2>6. Cardinality(i..i + 2) <= Cardinality(D) /\ Cardinality(D) \in Nat
    BY <2>1, <2>4, FS_Subset, FS_CardinalityType
  <2>7. Cardinality(D) >= 3
    BY <2>5, <2>6
  <2> QED
    BY <2>7 DEF LongStop, D
<1> QED
  BY <1>3, <1>4

\* What a call starts from, of which nothing changes.
LEMMA TextFacts ==
    ASSUME SentenceAssumption, SentenceInv
    PROVE  /\ Len(text) \in Nat /\ language \in Languages
           /\ begin \in 1..Len(text) + 1 /\ scan \in begin..Len(text) + 1
           /\ Terminals \subseteq Ends
<1>1. text \in Texts /\ language \in Languages /\ begin \in 1..Len(text) + 1
      /\ scan \in begin..Len(text) + 1
  BY DEF SentenceInv
<1>2. Len(text) \in Nat /\ Profile.extra \subseteq Ends
  BY <1>1 DEF SentenceAssumption, Profile
<1>3. Terminals \subseteq Ends
  BY <1>2, ClassFacts DEF Terminals
<1> QED
  BY <1>1, <1>2, <1>3

\* From i up to c there are only terminals and closers, and c - 1 is no full stop
\* of an abbreviation; a run that begins with three full stops is an ellipsis.
IsRun(t, A, i, c, ellipsis) ==
    /\ c \in i + 1..Len(t) + 1
    /\ \A k \in i..c - 1 : t[k] \in Marks
    /\ t[i] \in Ends
    /\ c - 1 \notin A
    /\ ellipsis => i + 2 <= c - 1 /\ \A k \in i..i + 2 : t[k] = "."

\* What stands where the text starts with s.
LEMMA StartsWithFacts ==
    ASSUME Len(text) \in Nat, scan \in 1..Len(text)
    PROVE  /\ AsciiEllipsis => scan + 2 <= Len(text) /\ \A k \in scan..scan + 2 : text[k] = "."
           /\ AtBlankLine <=> scan + 1 <= Len(text) /\ BlankLineAt(text, scan)
<1> DEFINE dots == <<".", ".", ".">>
           feeds == <<"n", "n">>
<1>1. ASSUME AsciiEllipsis
      PROVE  scan + 2 <= Len(text) /\ \A k \in scan..scan + 2 : text[k] = "."
  <2>1. Len(dots) = 3 /\ \A k \in 1..3 : dots[k] = "."
    OBVIOUS
  <2>2. AsciiEllipsis <=> StartsWith(dots, scan)
    BY DEF AsciiEllipsis
  <2> HIDE DEF dots
  <2>3. scan + 3 - 1 <= Len(text) /\ \A k \in 1..3 : text[scan + k - 1] = "."
    BY <1>1, <2>1, <2>2 DEF StartsWith
  <2>4. ASSUME NEW k \in scan..scan + 2 PROVE text[k] = "."
    <3>1. k - scan + 1 \in 1..3 /\ scan + (k - scan + 1) - 1 = k
      OBVIOUS
    <3> QED
      BY <2>3, <3>1
  <2> QED
    BY <2>3, <2>4
<1>2. AtBlankLine <=> scan + 1 <= Len(text) /\ BlankLineAt(text, scan)
  <2>1. Len(feeds) = 2 /\ feeds[1] = "n" /\ feeds[2] = "n"
    OBVIOUS
  <2>2. AtBlankLine <=> StartsWith(feeds, scan)
    BY DEF AtBlankLine
  <2> HIDE DEF feeds
  <2>3. AtBlankLine <=> scan + 2 - 1 <= Len(text) /\ \A k \in 1..2 : text[scan + k - 1] = feeds[k]
    BY <2>1, <2>2 DEF StartsWith
  <2>4. (\A k \in 1..2 : text[scan + k - 1] = feeds[k])
          <=> text[scan + 1 - 1] = feeds[1] /\ text[scan + 2 - 1] = feeds[2]
    <3>1. 1 \in 1..2 /\ 2 \in 1..2 /\ \A k \in 1..2 : k = 1 \/ k = 2
      OBVIOUS
    <3> QED
      BY <3>1
  <2>5. scan + 1 - 1 = scan /\ scan + 2 - 1 = scan + 1
    OBVIOUS
  <2> QED
    BY <2>1, <2>3, <2>4, <2>5 DEF BlankLineAt
<1> QED
  BY <1>1, <1>2

\* The scan stands on a terminal that it does not skip.
AtRun == AtTerminal /\ ~SkipsPeriod

\* The run under the scan, and the closers after it.
LEMMA RunFacts ==
    ASSUME SentenceAssumption, SentenceInv, scan <= Len(text), AtRun
    PROVE  IsRun(text, Abbreviated, scan, CloserEnd, AsciiEllipsis)
<1> DEFINE n == Len(text)
           r == RunEnd
           c == CloserEnd
<1>1. n \in Nat /\ language \in Languages /\ scan \in 1..n /\ Terminals \subseteq Ends
  BY TextFacts
<1>2. text[scan] \in Ends
  BY <1>1, ClassFacts DEF AtRun, AtTerminal
<1>3. AsciiEllipsis => scan + 2 <= n /\ \A k \in scan..scan + 2 : text[k] = "."
  BY <1>1, StartsWithFacts
<1>4. /\ r \in scan + 1..n + 1 /\ \A k \in scan..r - 1 : text[k] \in Ends
      /\ AsciiEllipsis => scan + 3 <= r
  <2>1. CASE AsciiEllipsis
    <3>1. r = SkipFrom(scan + 3, {"."}) /\ scan + 3 \in 1..n + 1
      BY <1>1, <1>3, <2>1 DEF RunEnd
    <3>2. Skips(text, scan + 3, {"."}, r)
      BY <1>1, <3>1, SkipFacts
    <3>3. r \in scan + 3..n + 1 /\ \A k \in scan + 3..r - 1 : text[k] \in {"."}
      BY <3>2 DEF Skips
    <3>4. \A k \in scan..r - 1 : k \in scan..scan + 2 \/ k \in scan + 3..r - 1
      BY <1>1, <3>3
    <3>5. \A k \in scan..r - 1 : text[k] \in Ends
      BY <1>3, <2>1, <3>3, <3>4, ClassFacts
    <3> QED
      BY <1>1, <3>3, <3>5
  <2>2. CASE ~AsciiEllipsis
    <3>1. r = SkipFrom(scan + 1, Terminals) /\ scan + 1 \in 1..n + 1
      BY <1>1, <2>2 DEF RunEnd
    <3>2. Skips(text, scan + 1, Terminals, r)
      BY <1>1, <3>1, SkipFacts
    <3>3. r \in scan + 1..n + 1 /\ \A k \in scan + 1..r - 1 : text[k] \in Terminals
      BY <3>2 DEF Skips
    <3>4. \A k \in scan..r - 1 : k = scan \/ k \in scan + 1..r - 1
      BY <1>1, <3>3
    <3>5. \A k \in scan..r - 1 : text[k] \in Ends
      BY <1>1, <1>2, <3>3, <3>4
    <3> QED
      BY <2>2, <3>3, <3>5
  <2> QED
    BY <2>1, <2>2
<1>5. c \in r..n + 1 /\ \A k \in r..c - 1 : text[k] \in Closers
  <2>1. Skips(text, r, Closers, c)
    BY <1>1, <1>4, SkipFacts DEF CloserEnd
  <2> QED
    BY <2>1 DEF Skips
<1> HIDE DEF r, c
<1>6. \A k \in scan..c - 1 : text[k] \in Marks
  <2>1. \A k \in scan..c - 1 : k \in scan..r - 1 \/ k \in r..c - 1
    BY <1>1, <1>4, <1>5
  <2> QED
    BY <1>4, <1>5, <2>1 DEF Marks
<1>7. c - 1 \notin Abbreviated
  <2> SUFFICES ASSUME c - 1 \in Abbreviated PROVE FALSE
    OBVIOUS
  <2>1. text[c - 1] = "." /\ PreviousToken(c - 1) \in Profile.always
    BY DEF Abbreviated
  <2>2. c = r
    <3> SUFFICES ASSUME c # r PROVE FALSE
      OBVIOUS
    <3>1. c - 1 \in r..c - 1
      BY <1>4, <1>5
    <3>2. text[c - 1] \in Closers
      BY <1>5, <3>1
    <3> QED
      BY <2>1, <3>2, ClassFacts
  <2>3. CASE c - 1 = scan
    <3>1. ~AsciiEllipsis
      BY <1>1, <1>4, <2>2, <2>3
    <3>2. text[scan] = "." /\ PreviousToken(scan) \in Profile.always
      BY <2>1, <2>3
    <3>3. ~PeriodIsProtected(scan)
      BY <3>1, <3>2 DEF AtRun, SkipsPeriod
    <3>4. AbbreviationIsProtected(scan)
      BY <3>2, Zenon DEF AbbreviationIsProtected
    <3> QED
      BY <3>3, <3>4, Zenon DEF PeriodIsProtected
  <2>4. CASE c - 1 # scan
    <3>1. c - 1 \in 2..n /\ (c - 1) - 1 \in scan..r - 1
      BY <1>1, <1>4, <1>5, <2>2, <2>4
    <3>2. text[(c - 1) - 1] \in Ends
      BY <1>4, <3>1
    <3>3. PreviousToken(c - 1) \notin Profile.always
      BY <1>1, <3>1, <3>2, NoAbbreviationEndsSo
    <3> QED
      BY <2>1, <3>3
  <2> QED
    BY <2>3, <2>4
<1>8. AsciiEllipsis => scan + 2 <= c - 1
  BY <1>1, <1>4, <1>5
<1>9. c \in scan + 1..n + 1
  BY <1>1, <1>4, <1>5
<1> QED
  BY <1>2, <1>3, <1>6, <1>7, <1>8, <1>9 DEF IsRun, c

\* The full stops of abbreviations are the text's and the language's.
LEMMA AbbreviatedStays ==
    ASSUME text' = text, language' = language
    PROVE  Abbreviated' = Abbreviated
<1> QED
  BY DEF Abbreviated, PreviousToken, EndsToken, IsSpace, IsCloser, Profile

\* A step inside the open sentence, to position c.
LEMMA GoesOn ==
    ASSUME SentenceAssumption, SentenceInv, ~cut, NEW c \in Nat, scan <= c, c <= Len(text) + 1,
           \A k \in scan..c - 1 : k < Len(text) => ~BlankLineAt(text, k),
           scan' = c, UNCHANGED <<text, language, begin, out, cut>>
    PROVE  SentenceInv'
<1>1. Len(text) \in Nat /\ begin \in 1..Len(text) + 1 /\ scan \in begin..Len(text) + 1
  BY TextFacts
<1>2. Abbreviated' = Abbreviated
  BY AbbreviatedStays
<1>3. NoBlankLine(text, begin, c - 1)
  <2>1. NoBlankLine(text, begin, scan - 1)
    BY DEF SentenceInv
  <2>2. \A k \in begin..c - 1 : k \in begin..scan - 1 \/ k \in scan..c - 1
    BY <1>1
  <2> QED
    BY <2>1, <2>2 DEF NoBlankLine
<1>4. c \in begin..Len(text) + 1
  BY <1>1
<1> QED
  BY <1>2, <1>3, <1>4 DEF SentenceInv

\* A step that tells the sentence from..to - 1 and opens the next at b.
LEMMA Tells ==
    ASSUME SentenceAssumption, SentenceInv, ~cut,
           NEW to \in 0..Len(text), begin <= to + 1, NoBlankLine(text, begin, to - 1),
           NEW b \in Nat, to < b, b <= Len(text) + 1, \A k \in to + 1..b - 1 : text[k] \in Blanks,
           \A a, z : Strips(text, begin, to, a, z) => Closed(text, Abbreviated, a, z, b),
           out' = Emit(begin, to), begin' = b, scan' = b, UNCHANGED <<text, language, cut>>
    PROVE  SentenceInv'
<1> DEFINE A == Abbreviated
           p == Emit(begin, to)
<1>1. Len(text) \in Nat /\ begin \in 1..Len(text) + 1
  BY TextFacts
<1>2. A' = A
  BY AbbreviatedStays
<1>3. Emits(text, out, p, begin, to)
  BY <1>1, EmitFacts
<1>4. IsSentences(text, A, out) /\ EndsBefore(text, A, out, begin) /\ Covers(text, out, begin)
  BY DEF SentenceInv
<1> HIDE DEF A, p
<1>5. IsSentences(text, A, p) /\ Covers(text, p, to + 1)
  BY <1>1, <1>3, <1>4, TellOne
<1>6. \A a, z : Strips(text, begin, to, a, z) => Closed(text, A, a, z, b)
  BY DEF A
<1>7. EndsBefore(text, A, p, b) /\ Covers(text, p, b)
  BY <1>1, <1>3, <1>4, <1>5, <1>6, TellNext
<1>8. NoBlankLine(text, b, b - 1)
  BY DEF NoBlankLine
<1>9. out' = p
  BY DEF p
<1>10. b \in 1..Len(text) + 1 /\ b \in b..Len(text) + 1
  BY <1>1
<1>11. Abbreviated' = A
  BY <1>2 DEF A
<1>12. text' \in Texts /\ language' \in Languages
  BY DEF SentenceInv
<1> QED
  BY <1>5, <1>7, <1>8, <1>9, <1>10, <1>11, <1>12 DEF SentenceInv

\* A blank line ends the sentence that is open.
LEMMA BlankLineStep ==
    ASSUME SentenceAssumption, SentenceInv, BlankLine
    PROVE  SentenceInv'
<1> DEFINE n == Len(text)
           b == SkipFrom(scan, {"n"})
<1>1. n \in Nat /\ begin \in 1..n + 1 /\ scan \in begin..n + 1 /\ ~cut /\ scan \in 1..n
  BY TextFacts DEF BlankLine, Scanning
<1>2. scan + 1 <= n /\ BlankLineAt(text, scan)
  BY <1>1, StartsWithFacts DEF BlankLine
<1>3. Skips(text, scan, {"n"}, b)
  BY <1>1, SkipFacts
<1>4. out' = Emit(begin, scan - 1) /\ begin' = b /\ scan' = b /\ UNCHANGED <<text, language, cut>>
  BY DEF BlankLine
<1> HIDE DEF b
<1>5. b \in scan..n + 1 /\ (\A k \in scan..b - 1 : text[k] = "n") /\ (b = n + 1 \/ text[b] # "n")
  BY <1>3 DEF Skips
<1>6. scan + 2 <= b
  <2>1. b # scan /\ b # scan + 1
    BY <1>1, <1>2, <1>5 DEF BlankLineAt
  <2> QED
    BY <1>1, <1>5, <2>1
<1>7. scan - 1 \in 0..n /\ begin <= (scan - 1) + 1 /\ scan - 1 < b /\ b \in Nat /\ b <= n + 1
  BY <1>1, <1>5, <1>6
<1>8. NoBlankLine(text, begin, (scan - 1) - 1)
  <2>1. NoBlankLine(text, begin, scan - 1)
    BY <1>1 DEF SentenceInv
  <2>2. \A k \in begin..(scan - 1) - 1 : k \in begin..scan - 1
    BY <1>1
  <2> QED
    BY <2>1, <2>2 DEF NoBlankLine
<1>9. \A k \in (scan - 1) + 1..b - 1 : text[k] \in Blanks
  BY <1>1, <1>5, ClassFacts
<1>10. ASSUME NEW a, NEW z, Strips(text, begin, scan - 1, a, z)
       PROVE  Closed(text, Abbreviated, a, z, b)
  <2>1. z \in Int /\ z <= scan - 1
    BY <1>10, <1>1 DEF Strips
  <2>2. scan \in z + 1..b - 2 /\ z < b /\ z + 1 # b
    BY <1>1, <1>6, <1>7, <2>1
  <2> QED
    BY <1>2, <2>2 DEF Closed
<1>11. \A a, z : Strips(text, begin, scan - 1, a, z) => Closed(text, Abbreviated, a, z, b)
  BY <1>10
<1> DEFINE to == scan - 1
<1>12. /\ to \in 0..n /\ begin <= to + 1 /\ to < b /\ NoBlankLine(text, begin, to - 1)
       /\ \A k \in to + 1..b - 1 : text[k] \in Blanks
       /\ \A a, z : Strips(text, begin, to, a, z) => Closed(text, Abbreviated, a, z, b)
       /\ out' = Emit(begin, to)
  BY <1>4, <1>7, <1>8, <1>9, <1>11
<1> HIDE DEF to
<1> QED
  BY <1>1, <1>4, <1>7, <1>12, Tells

\* A character that ends nothing.
LEMMA OrdinaryStep ==
    ASSUME SentenceAssumption, SentenceInv, Ordinary
    PROVE  SentenceInv'
<1>1. Len(text) \in Nat /\ ~cut /\ scan \in 1..Len(text)
  BY TextFacts DEF Ordinary, Scanning
<1>2. scan < Len(text) => ~BlankLineAt(text, scan)
  BY <1>1, StartsWithFacts DEF Ordinary
<1>3. \A k \in scan..(scan + 1) - 1 : k = scan
  BY <1>1
<1>4. \A k \in scan..(scan + 1) - 1 : k < Len(text) => ~BlankLineAt(text, k)
  BY <1>2, <1>3
<1>5. scan + 1 \in Nat /\ scan <= scan + 1 /\ scan + 1 <= Len(text) + 1
  BY <1>1
<1>6. scan' = scan + 1 /\ UNCHANGED <<text, language, begin, out, cut>>
  BY DEF Ordinary
<1> QED
  BY <1>1, <1>4, <1>5, <1>6, GoesOn

\* There is no blank line among terminals and closers.
LEMMA RunHasNoBlankLine ==
    ASSUME NEW t, NEW A, NEW i, NEW c, NEW e, IsRun(t, A, i, c, e)
    PROVE  \A k \in i..c - 1 : k < Len(t) => ~BlankLineAt(t, k)
<1> QED
  BY ClassFacts DEF IsRun, Marks, BlankLineAt

\* A terminal inside a sentence.
LEMMA ContinuesStep ==
    ASSUME SentenceAssumption, SentenceInv, Continues
    PROVE  SentenceInv'
<1> DEFINE c == CloserEnd
<1>1. Len(text) \in Nat /\ ~cut /\ scan \in 1..Len(text)
  BY TextFacts DEF Continues, Scanning
<1>2. AtRun /\ scan' = c /\ UNCHANGED <<text, language, begin, out, cut>>
  BY DEF Continues, AtRun, ContinueAt
<1>3. IsRun(text, Abbreviated, scan, c, AsciiEllipsis)
  BY <1>1, <1>2, RunFacts
<1> HIDE DEF c
<1>4. \A k \in scan..c - 1 : k < Len(text) => ~BlankLineAt(text, k)
  BY <1>3, RunHasNoBlankLine
<1>5. c \in Nat /\ scan <= c /\ c <= Len(text) + 1
  BY <1>1, <1>3 DEF IsRun
<1> QED
  BY <1>1, <1>2, <1>4, <1>5, GoesOn

\* A full stop that no white space follows.
LEMMA GluedStep ==
    ASSUME SentenceAssumption, SentenceInv, Scanning, AtRun, scan' = scan + 1,
           UNCHANGED <<text, language, begin, out, cut>>
    PROVE  SentenceInv'
<1>1. Len(text) \in Nat /\ ~cut /\ scan \in 1..Len(text)
  BY TextFacts DEF Scanning
<1>2. IsRun(text, Abbreviated, scan, CloserEnd, AsciiEllipsis)
  BY <1>1, RunFacts
<1>3. text[scan] # "n"
  BY <1>2, ClassFacts DEF IsRun
<1>4. \A k \in scan..(scan + 1) - 1 : k = scan
  BY <1>1
<1>5. \A k \in scan..(scan + 1) - 1 : k < Len(text) => ~BlankLineAt(text, k)
  BY <1>3, <1>4 DEF BlankLineAt
<1>6. scan + 1 \in Nat /\ scan <= scan + 1 /\ scan + 1 <= Len(text) + 1
  BY <1>1
<1> QED
  BY <1>1, <1>5, <1>6, GoesOn

\* A terminal that ends a sentence.
LEMMA BoundaryStep ==
    ASSUME SentenceAssumption, SentenceInv, Scanning, AtRun, ~GluedPeriod,
           out' = Emit(begin, CloserEnd - 1), begin' = ResumeAt(CloserEnd), scan' = begin',
           UNCHANGED <<text, language, cut>>
    PROVE  SentenceInv'
<1> DEFINE n == Len(text)
           c == CloserEnd
           b == SkipFrom(c, Blanks)
           to == c - 1
<1>1. n \in Nat /\ begin \in 1..n + 1 /\ scan \in begin..n + 1 /\ ~cut /\ scan \in 1..n
  BY TextFacts DEF Scanning
<1>2. IsRun(text, Abbreviated, scan, c, AsciiEllipsis)
  BY <1>1, RunFacts
<1>3. ~(c <= n /\ text[c] \notin Blanks /\ text[scan] = "." /\ ~AsciiEllipsis)
  BY DEF GluedPeriod, IsSpace
<1>4. out' = Emit(begin, to) /\ begin' = b /\ scan' = b
  BY DEF ResumeAt
<1>5. c \in scan + 1..n + 1 /\ c \in 1..n + 1
  BY <1>1, <1>2 DEF IsRun
<1>6. Skips(text, c, Blanks, b)
  BY <1>1, <1>5, SkipFacts
<1> HIDE DEF c, b
<1>7. b \in c..n + 1 /\ (\A k \in c..b - 1 : text[k] \in Blanks) /\ (b = n + 1 \/ text[b] \notin Blanks)
  BY <1>6 DEF Skips
<1>8. to \in scan..n /\ to \in begin..n /\ to + 1 = c /\ to \in Nat
  BY <1>1, <1>5
<1>9. text[to] \in Marks /\ text[to] \notin Blanks /\ to \notin Abbreviated
  BY <1>2, <1>8, ClassFacts DEF IsRun, Marks
<1>10. NoBlankLine(text, begin, to - 1)
  <2>1. NoBlankLine(text, begin, scan - 1)
    BY <1>1 DEF SentenceInv
  <2>2. \A k \in scan..c - 1 : k < n => ~BlankLineAt(text, k)
    BY <1>2, RunHasNoBlankLine
  <2>3. \A k \in begin..to - 1 : k \in begin..scan - 1 \/ k \in scan..c - 1
    BY <1>1, <1>8
  <2> QED
    BY <2>1, <2>2, <2>3 DEF NoBlankLine
<1>11. ASSUME NEW a, NEW z, Strips(text, begin, to, a, z)
       PROVE  Closed(text, Abbreviated, a, z, b)
  <2>1. a \in begin..to /\ z \in a..to /\ a <= to /\ to <= z
    BY <1>8, <1>9, <1>11 DEF Strips
  <2>2. z = to /\ z < b /\ a \in Nat
    BY <1>1, <1>7, <1>8, <2>1
  <2>3. ASSUME z + 1 = b, b <= n PROVE LongStop(text, a, z)
    <3>1. b = c /\ c <= n /\ text[c] \notin Blanks
      BY <1>7, <1>8, <2>2, <2>3
    <3>2. text[scan] # "." \/ AsciiEllipsis
      BY <1>3, <3>1
    <3>3. /\ \A k \in scan..to : text[k] \in Marks
          /\ text[scan] \in Ends
          /\ AsciiEllipsis => scan + 2 <= to /\ \A k \in scan..scan + 2 : text[k] = "."
      BY <1>2 DEF IsRun
    <3>4. CASE a <= scan
      <4>1. \/ text[scan] \in Ends \ {"."}
            \/ scan + 2 <= to /\ \A k \in scan..scan + 2 : text[k] = "."
        BY <3>2, <3>3
      <4>2. scan \in Nat /\ scan <= to
        BY <1>1, <1>8
      <4> HIDE DEF to
      <4>3. LongStop(text, a, to)
        BY <1>8, <2>2, <3>3, <3>4, <4>1, <4>2, LongStopFacts
      <4> QED
        BY <2>2, <4>3
    <3>5. CASE ~(a <= scan)
      <4>1. scan \in begin..to /\ text[scan] \notin Blanks
        BY <1>1, <1>8, <3>3, ClassFacts
      <4>2. a <= scan
        BY <1>11, <4>1 DEF Strips
      <4> QED
        BY <3>5, <4>2
    <3> QED
      BY <3>4, <3>5
  <2> QED
    BY <1>9, <2>2, <2>3 DEF Closed
<1>12. \A a, z : Strips(text, begin, to, a, z) => Closed(text, Abbreviated, a, z, b)
  BY <1>11
<1>13. /\ to \in 0..n /\ begin <= to + 1 /\ to < b /\ b \in Nat /\ b <= n + 1
       /\ \A k \in to + 1..b - 1 : text[k] \in Blanks
  BY <1>1, <1>7, <1>8
<1> HIDE DEF to
<1> QED
  BY <1>1, <1>4, <1>10, <1>12, <1>13, Tells

\* The tail.
LEMMA EmitTailStep ==
    ASSUME SentenceAssumption, SentenceInv, EmitTail
    PROVE  SentenceInv'
<1> DEFINE n == Len(text)
           A == Abbreviated
           p == Emit(begin, n)
<1>1. n \in Nat /\ begin \in 1..n + 1 /\ scan \in begin..n + 1 /\ ~cut /\ scan = n + 1 /\ n \in 0..n
  BY TextFacts DEF EmitTail
<1>2. A' = A
  BY AbbreviatedStays DEF EmitTail
<1>3. Emits(text, out, p, begin, n)
  BY <1>1, EmitFacts
<1>4. IsSentences(text, A, out) /\ EndsBefore(text, A, out, begin) /\ Covers(text, out, begin)
      /\ NoBlankLine(text, begin, scan - 1)
  BY <1>1 DEF SentenceInv
<1>5. NoBlankLine(text, begin, n - 1)
  <2>1. \A k \in begin..n - 1 : k \in begin..scan - 1
    BY <1>1
  <2> QED
    BY <1>4, <2>1 DEF NoBlankLine
<1>6. out' = p /\ cut' = TRUE /\ UNCHANGED <<text, language, begin, scan>>
  BY DEF EmitTail
<1> HIDE DEF A, p
<1>7. IsSentences(text, A, p) /\ Covers(text, p, n + 1)
  BY <1>1, <1>3, <1>4, <1>5, TellOne
<1>8. Abbreviated' = A
  BY <1>2 DEF A
<1>9. text \in Texts /\ language \in Languages
  BY DEF SentenceInv
<1> QED
  BY <1>1, <1>6, <1>7, <1>8, <1>9 DEF SentenceInv

\* The inductive invariant of the scan holds at first.
LEMMA SentenceStart ==
    ASSUME SentenceAssumption, SentenceInit
    PROVE  SentenceInv
<1>1. text \in Texts /\ language \in Languages /\ begin = 1 /\ scan = 1 /\ out = << >>
  BY DEF SentenceInit
<1>2. Len(text) \in Nat
  BY <1>1 DEF SentenceAssumption
<1>3. IsSentences(text, Abbreviated, out)
  <2>1. out \in Seq(Nat \X Nat) /\ Len(out) = 0
    BY <1>1
  <2> QED
    BY <2>1 DEF IsSentences
<1>4. EndsBefore(text, Abbreviated, out, begin)
  BY <1>1 DEF EndsBefore
<1>5. NoBlankLine(text, begin, scan - 1)
  BY <1>1 DEF NoBlankLine
<1>6. Covers(text, out, IF cut THEN Len(text) + 1 ELSE begin)
  <2>1. CASE cut
    <3>1. \A k \in 1..Len(text) : text[k] \in Blanks
      BY <2>1 DEF SentenceInit
    <3> QED
      BY <2>1, <3>1 DEF Covers
  <2>2. CASE ~cut
    BY <1>1, <1>2, <2>2 DEF Covers
  <2> QED
    BY <2>1, <2>2
<1> QED
  BY <1>1, <1>2, <1>3, <1>4, <1>5, <1>6 DEF SentenceInv

\* One iteration of the loop keeps it.
LEMMA SentenceStep ==
    ASSUME SentenceAssumption, SentenceInv, [SentenceNext]_sentenceVars
    PROVE  SentenceInv'
<1>1. CASE BlankLine
  BY <1>1, BlankLineStep
<1>2. CASE Ordinary
  BY <1>2, OrdinaryStep
<1>3. CASE Continues
  BY <1>3, ContinuesStep
<1>4. CASE Boundary
  <2>1. Scanning /\ AtRun /\ UNCHANGED <<text, language, cut>>
    BY <1>4 DEF Boundary, AtRun
  <2>2. CASE GluedPeriod /\ scan' = scan + 1 /\ UNCHANGED <<begin, out>>
    BY <2>1, <2>2, GluedStep
  <2>3. CASE /\ ~GluedPeriod /\ out' = Emit(begin, CloserEnd - 1)
             /\ begin' = ResumeAt(CloserEnd) /\ scan' = begin'
    BY <2>1, <2>3, BoundaryStep
  <2> QED
    BY <1>4, <2>2, <2>3 DEF Boundary
<1>5. CASE EmitTail
  BY <1>5, EmitTailStep
<1>6. CASE UNCHANGED sentenceVars
  <2>1. UNCHANGED <<text, language, begin, scan, out, cut>>
    BY <1>6 DEF sentenceVars
  <2>2. Abbreviated' = Abbreviated
    BY <2>1, AbbreviatedStays
  <2> QED
    BY <2>1, <2>2 DEF SentenceInv
<1> QED
  BY <1>1, <1>2, <1>3, <1>4, <1>5, <1>6 DEF SentenceNext, SentenceStop

\* What the invariant says of the sentences told.
LEMMA SentencesTold ==
    ASSUME SentenceAssumption, SentenceInv
    PROVE  SentencesAreFaithful
<1>1. /\ Len(text) \in Nat /\ begin \in 1..Len(text) + 1
      /\ IsSentences(text, Abbreviated, out)
      /\ Covers(text, out, IF cut THEN Len(text) + 1 ELSE begin)
  BY TextFacts DEF SentenceInv
<1>2. /\ out \in Seq(Nat \X Nat) /\ Len(out) \in Nat
      /\ \A s \in 1..Len(out) : Whole(text, out[s][1], out[s][2])
      /\ \A s \in 1..Len(out) - 1 : Closed(text, Abbreviated, out[s][1], out[s][2], out[s + 1][1])
  BY <1>1 DEF IsSentences
<1>3. \A s \in 1..Len(out) - 1 : s \in 1..Len(out) /\ s + 1 \in 1..Len(out)
  BY <1>2
<1>4. NothingIsLost
  <2>1. ASSUME NEW k \in 1..Len(text), ~IsSpace(text[k]), cut \/ k < begin
        PROVE  \E s \in 1..Len(out) : out[s][1] <= k /\ k <= out[s][2]
    <3>1. k < (IF cut THEN Len(text) + 1 ELSE begin) /\ text[k] \notin Blanks
      BY <1>1, <2>1 DEF IsSpace
    <3> QED
      BY <1>1, <3>1 DEF Covers
  <2>2. \A s \in 1..Len(out) - 1 : out[s][2] < out[s + 1][1]
    BY <1>2 DEF Closed
  <2> QED
    BY <2>1, <2>2 DEF NothingIsLost
<1>5. BlankLineEnds
  <2> SUFFICES ASSUME NEW s \in 1..Len(out), NEW k \in out[s][1]..out[s][2] - 1
               PROVE  ~(text[k] = "n" /\ text[k + 1] = "n")
    BY DEF BlankLineEnds
  <2>1. Whole(text, out[s][1], out[s][2])
    BY <1>2
  <2>2. out[s][1] \in 1..Len(text) /\ out[s][2] \in out[s][1]..Len(text)
        /\ NoBlankLine(text, out[s][1], out[s][2] - 1)
    BY <2>1 DEF Whole
  <2>3. k < Len(text)
    BY <1>1, <2>2
  <2> QED
    BY <2>2, <2>3 DEF NoBlankLine, BlankLineAt
<1>6. DotsSplitNoToken
  <2>1. ASSUME NEW s \in 1..Len(out) - 1, out[s][2] + 1 = out[s + 1][1]
        PROVE  LongStop(text, out[s][1], out[s][2])
    <3>1. Closed(text, Abbreviated, out[s][1], out[s][2], out[s + 1][1])
      BY <1>2
    <3>2. Whole(text, out[s + 1][1], out[s + 1][2])
      BY <1>2, <1>3
    <3>3. out[s + 1][1] <= Len(text)
      BY <1>1, <3>2 DEF Whole
    <3> QED
      BY <2>1, <3>1, <3>3 DEF Closed
  <2> QED
    BY <2>1, Zenon DEF DotsSplitNoToken, LongStop, Marks
<1>7. AbbreviationsHold
  <2>1. ASSUME NEW s \in 1..Len(out) - 1, text[out[s][2]] = ".",
               PreviousToken(out[s][2]) \in Profile.always
        PROVE  \E k \in out[s][2] + 1..out[s + 1][1] - 2 : text[k] = "n" /\ text[k + 1] = "n"
    <3>1. Closed(text, Abbreviated, out[s][1], out[s][2], out[s + 1][1])
      BY <1>2
    <3>2. Whole(text, out[s][1], out[s][2])
      BY <1>2, <1>3
    <3>3. out[s][2] \in 1..Len(text)
      BY <1>1, <3>2 DEF Whole
    <3>4. out[s][2] \in Abbreviated
      BY <2>1, <3>3 DEF Abbreviated
    <3> QED
      BY <3>1, <3>4 DEF Closed, BlankLineAt
  <2> QED
    BY <2>1 DEF AbbreviationsHold
<1> QED
  BY <1>4, <1>5, <1>6, <1>7 DEF SentencesAreFaithful

\* Whatever the text and the language, the sentences hold all of it but white space, in its order; only blank
\* lines end what an abbreviation ends, and no full stop inside a token ends one (_split_unicode).
THEOREM FaithfulSentences == SentenceSpec => []SentencesAreFaithful
<1>1. SentenceInit => SentenceInv
  BY SentenceAssumption, SentenceStart
<1>2. SentenceInv /\ [SentenceNext]_sentenceVars => SentenceInv'
  BY SentenceAssumption, SentenceStep
<1>3. SentenceInv => SentencesAreFaithful
  BY SentenceAssumption, SentencesTold
<1> QED
  BY <1>1, <1>2, <1>3, PTL DEF SentenceSpec

-----------------------------------------------------------------------------
(* BatchPlan.                                                               *)

Indices == 1..Len(blocks)

\* A set of blocks that hangs on nothing and would go unnoticed by a validator
\* that only looks at single nodes.
CutOff(S) == S \subseteq Indices /\ Roots \cap S = {} /\ Detached(S)

Passed  == stage = "pack" \/ (stage = "done" /\ error \notin {"mapping", "validation"})
Walking == stage = "walk" /\ start <= Len(blocks)

\* The blocks are a tuple of blocks with numbers, mapped from the fragments or given.
BlocksInv ==
    /\ stage \in {"map", "check", "walk", "pack", "done"}
    /\ error \in Errors \cup {Null}
    /\ error # Null => stage = "done"
    /\ Len(blocks) \in Nat
    /\ \A k \in Indices : blocks[k].order \in Int /\ blocks[k].bytes \in Int
    /\ stage = "map" => fragments \in Artifacts
    /\ fragments # Null /\ stage # "map" /\ error # "mapping" =>
          /\ fragments \in Artifacts
          /\ FragmentsAreValid(fragments)
          /\ blocks = MappedBlocks(fragments)

WalkInv ==
    /\ stage \in {"map", "check"} => start = 1 /\ seen = {}
    /\ start \in Nat \ {0}
    /\ stage = "walk" \/ Passed => NodesAreValid /\ ParentsAreValid
    /\ stage = "walk" \/ Passed => \A S : CutOff(S) => \A k \in S : start <= k
    /\ Walking =>
          /\ \E m \in Indices : Ids[m] = current
          /\ seen \subseteq {Ids[m] : m \in Indices} \ {Root}
          /\ \A id \in seen : ParentOf(id) \in seen \cup {current}
          /\ \A S : CutOff(S) /\ start \in S => \E m \in S : Ids[m] = current
    /\ Passed => start > Len(blocks)

Sendable == {Ordered[k] : k \in Indices}

WithinLimits(bs) ==
    /\ Len(bs) <= MaxBlocks
    /\ MaxBatchBytes # Null => BytesOf(bs) <= MaxBatchBytes

\* The block did not fit into the batch.
FullBefore(bs, b) ==
    \/ Len(bs) = MaxBlocks
    \/ MaxBatchBytes # Null /\ BytesOf(bs) + b.bytes > MaxBatchBytes

\* Batches within the limits, each as large as they allow.
Greedy(bs) ==
    /\ \A k \in 1..Len(bs) : bs[k] # << >> /\ WithinLimits(bs[k])
    /\ \A k \in 1..Len(bs) : k + 1 <= Len(bs) => FullBefore(bs[k], bs[k + 1][1])

PackInv ==
    /\ ~Passed => packed = 0 /\ chunk = << >> /\ batches = << >>
    /\ packed \in 0..Len(blocks)
    /\ chunk \in Seq(Sendable) /\ batches \in Seq(Seq(Sendable))
    /\ FlattenSeq(batches) \o chunk = [k \in 1..packed |-> Ordered[k]]
    /\ WithinLimits(chunk)
    /\ Greedy(batches)
    /\ stage = "pack" /\ batches # << >> =>
          chunk # << >> /\ FullBefore(batches[Len(batches)], chunk[1])
    /\ stage = "done" /\ error = Null => packed = Len(blocks) /\ chunk = << >>

PlanInv ==
    /\ BlocksInv
    /\ WalkInv
    /\ PackInv
    /\ error = "validation" => ~IsTree
    /\ error = "wire" => ~(fragments # Null /\ Uploadable(fragments))

-----------------------------------------------------------------------------
(* The shape of the blocks.                                                *)

\* The one document block.
LEMMA OneRoot ==
    ASSUME NodesAreValid, Len(blocks) \in Nat
    PROVE  \E r \in Indices : Roots = {r} /\ Ids[r] = Root
<1>1. IsFiniteSet(Roots)
  BY FS_Interval, FS_Subset, 1 \in Int, Len(blocks) \in Int DEF Roots
<1>2. PICK r : Roots = {r}
  BY <1>1, FS_Singleton DEF NodesAreValid
<1>3. r \in Indices /\ (CHOOSE k \in Roots : TRUE) = r
  BY <1>2 DEF Roots, Indices
<1> QED
  BY <1>2, <1>3 DEF Root

\* Ids are unique, so the parent of an id is the parent of its block.
LEMMA ParentFacts ==
    ASSUME NodesAreValid, Len(blocks) \in Nat, NEW k \in Indices
    PROVE  /\ ParentOf(Ids[k]) = Strip(blocks[k].parent)
           /\ \A m \in Indices : Ids[m] = Ids[k] => m = k
           /\ Ids[k] # ""
<1>1. Len(Ids) = Len(blocks)
  BY DEF Ids
<1>2. \A m \in Indices : Ids[m] = Ids[k] => m = k
  BY <1>1 DEF NodesAreValid, Unique, Indices
<1>3. (CHOOSE m \in 1..Len(blocks) : Ids[m] = Ids[k]) = k
  BY <1>2 DEF Indices
<1>4. Ids[k] # ""
  BY DEF NodesAreValid, Indices
<1> QED
  BY <1>2, <1>3, <1>4 DEF ParentOf

\* A set of ids that contains the parents of its members, and not the root, cuts
\* its blocks off.
LEMMA ClosedIsCutOff ==
    ASSUME NodesAreValid, Len(blocks) \in Nat,
           NEW I, I \subseteq {Ids[m] : m \in Indices} \ {Root},
           \A id \in I : ParentOf(id) \in I \/ ~\E m \in Indices : Ids[m] = ParentOf(id)
    PROVE  CutOff({m \in Indices : Ids[m] \in I})
<1> DEFINE S == {m \in Indices : Ids[m] \in I}
<1>1. Roots \cap S = {}
  BY OneRoot
<1>2. ASSUME NEW k \in S, NEW m \in Indices, m \notin S, Ids[m] = Strip(blocks[k].parent)
      PROVE  FALSE
  <2>1. ParentOf(Ids[k]) = Ids[m]
    BY <1>2, ParentFacts
  <2> QED
    BY <1>2, <2>1
<1> QED
  BY <1>1, <1>2 DEF CutOff, Detached, Indices

\* A set of blocks that is cut off has the parents of its members.
LEMMA CutOffIsClosed ==
    ASSUME NodesAreValid, ParentsAreValid, Len(blocks) \in Nat,
           NEW S, CutOff(S), NEW k \in S
    PROVE  /\ Ids[k] # Root
           /\ \E m \in S : Ids[m] = ParentOf(Ids[k])
<1>1. k \in Indices /\ Ids[k] # Root
  <2>1. PICK r \in Indices : Roots = {r} /\ Ids[r] = Root
    BY OneRoot
  <2>2. k \in Indices /\ k # r
    BY <2>1 DEF CutOff
  <2> QED
    BY <2>1, <2>2, ParentFacts
<1>2. PICK m \in Indices : Ids[m] = ParentOf(Ids[k])
  BY <1>1 DEF ParentsAreValid, Indices
<1>3. ParentOf(Ids[k]) = Strip(blocks[k].parent)
  BY <1>1, ParentFacts
<1> QED
  BY <1>1, <1>2, <1>3 DEF CutOff, Detached, Indices

\* IsTree in these words.
LEMMA TreeFacts ==
    ASSUME Len(blocks) \in Nat
    PROVE  IsTree <=> /\ NodesAreValid /\ ParentOf(Root) = ""
                      /\ \A S : CutOff(S) => S = {}
<1>1. (\E S \in (SUBSET (1..Len(blocks))) \ {{}} : Roots \cap S = {} /\ Detached(S))
        <=> \E S : CutOff(S) /\ S # {}
  BY DEF CutOff, Indices
<1> QED
  BY <1>1 DEF IsTree

\* A node that is no child of another node is cut off alone.
LEMMA BadParents ==
    ASSUME Len(blocks) \in Nat, ~(NodesAreValid /\ ParentsAreValid)
    PROVE  ~IsTree
<1> SUFFICES ASSUME NodesAreValid, ParentOf(Root) = "",
                    \A S : CutOff(S) => S = {}
             PROVE  FALSE
  BY TreeFacts
<1>1. PICK k \in Indices :
         /\ Ids[k] # Root
         /\ \/ ParentOf(Ids[k]) \in {"", Ids[k]}
            \/ ~\E m \in Indices : Ids[m] = ParentOf(Ids[k])
  BY DEF ParentsAreValid, Indices
<1> DEFINE I == {Ids[k]}
<1>2. \A id \in I : ParentOf(id) \in I \/ ~\E m \in Indices : Ids[m] = ParentOf(id)
  BY <1>1, ParentFacts
<1>3. I \subseteq {Ids[m] : m \in Indices} \ {Root}
  BY <1>1
<1>4. CutOff({m \in Indices : Ids[m] \in I})
  BY <1>2, <1>3, ClosedIsCutOff
<1> QED
  BY <1>1, <1>4

-----------------------------------------------------------------------------
(* The helpers.                                                            *)

\* What BytesOf computes, one block at a time.
LEMMA BytesFacts ==
    ASSUME NEW B, \A b \in B : b.bytes \in Int, NEW bs \in Seq(B)
    PROVE  \E u \in [0..Len(bs) -> Int] :
              /\ BytesOf(bs) = u[Len(bs)] /\ u[0] = 0
              /\ \A k \in 1..Len(bs) : u[k] = u[k - 1] + bs[k].bytes
<1> DEFINE n == Len(bs)
           Solves(f) == f = [k \in 0..Len(bs) |-> IF k = 0 THEN 0 ELSE f[k - 1] + bs[k].bytes]
           u == CHOOSE f : Solves(f)
<1>1. n \in Nat /\ \A k \in 1..n : bs[k] \in B /\ bs[k].bytes \in Int
  OBVIOUS
<1>2. \E f : Solves(f)
  <2> DEFINE size == [k \in 1..n |-> bs[k].bytes]
  <2>1. size \in [1..n -> Int]
    BY <1>1
  <2>2. PICK f : f = [k \in 0..n |-> IF k = 0 THEN 0 ELSE f[k - 1] + size[k]]
    <3> HIDE DEF size
    <3> QED
      BY <1>1, <2>1, SumSolution
  <2>3. [k \in 0..n |-> IF k = 0 THEN 0 ELSE f[k - 1] + size[k]]
         = [k \in 0..n |-> IF k = 0 THEN 0 ELSE f[k - 1] + bs[k].bytes]
    BY <1>1
  <2>4. Solves(f)
    BY <2>2, <2>3
  <2> QED
    BY <2>4
<1>3. Solves(u)
  BY <1>2
<1>4. BytesOf(bs) = u[n]
  BY DEF BytesOf
<1> HIDE DEF u
<1>5. u[0] = 0 /\ \A k \in 1..n : u[k] = u[k - 1] + bs[k].bytes
  BY <1>1, <1>3
<1>6. \A k \in 0..n : u[k] \in Int
  <2> DEFINE S == {k \in 0..n : u[k] \in Int}
  <2>1. 0 \in S
    BY <1>1, <1>5, SMTT(30)
  <2>2. \A k \in 1..n : k - 1 \in S => k \in S
    BY <1>1, <1>5, SMTT(30)
  <2> HIDE DEF S
  <2>3. \A k \in 0..n : k \in S
    BY <1>1, <2>1, <2>2, InductionUpTo
  <2> QED
    BY <2>3 DEF S
<1>7. u \in [0..n -> Int]
  BY <1>3, <1>6
<1> QED
  BY <1>4, <1>5, <1>7

\* No blocks have no bytes.
LEMMA BytesOfNone == BytesOf(<< >>) = 0
<1>1. PICK e : e = << >>
  OBVIOUS
<1>2. e \in Seq({}) /\ Len(e) = 0
  BY <1>1
<1> QED
  BY <1>1, <1>2, BytesFacts

\* One more block adds its bytes.
LEMMA BytesOfAppend ==
    ASSUME NEW B, \A b \in B : b.bytes \in Int, NEW bs \in Seq(B), NEW b \in B
    PROVE  BytesOf(bs) \in Int /\ BytesOf(Append(bs, b)) = BytesOf(bs) + b.bytes
<1> DEFINE n == Len(bs)
           bb == Append(bs, b)
<1>1. PICK u \in [0..n -> Int] :
              /\ BytesOf(bs) = u[n] /\ u[0] = 0
              /\ \A k \in 1..n : u[k] = u[k - 1] + bs[k].bytes
  BY BytesFacts
<1>2. bb \in Seq(B) /\ Len(bb) = n + 1 /\ n \in Nat /\ bb[n + 1] = b
      /\ \A k \in 1..n : bb[k] = bs[k]
  OBVIOUS
<1>3. PICK v \in [0..(n + 1) -> Int] :
              /\ BytesOf(bb) = v[n + 1] /\ v[0] = 0
              /\ \A k \in 1..n + 1 : v[k] = v[k - 1] + bb[k].bytes
  <2> HIDE DEF bb
  <2>1. \E v \in [0..Len(bb) -> Int] :
              /\ BytesOf(bb) = v[Len(bb)] /\ v[0] = 0
              /\ \A k \in 1..Len(bb) : v[k] = v[k - 1] + bb[k].bytes
    BY <1>2, BytesFacts
  <2> QED
    BY <1>2, <2>1
<1>4. u[n] = v[n]
  <2> DEFINE S == {k \in 0..n : u[k] = v[k]}
  <2>1. 0 \in S /\ \A k \in 1..n : k - 1 \in S => k \in S
    BY <1>1, <1>2, <1>3
  <2> HIDE DEF S
  <2>2. n \in S
    BY <1>2, <2>1, InductionUpTo, n \in 0..n
  <2> QED
    BY <2>2 DEF S
<1> QED
  BY <1>1, <1>2, <1>3, <1>4

\* Keys that differ, and a permutation that puts them in order.
AreKeys(key, n) ==
    /\ key \in [1..n -> Int]
    /\ \A i, k \in 1..n : key[i] = key[k] => i = k

Sorts(p, key, n, s, t) ==
    /\ t = [i \in 1..n |-> s[p[i]]]
    /\ p \in [1..n -> 1..n]
    /\ \A i, k \in 1..n : i < k => key[p[i]] < key[p[k]]
    /\ \A k \in 1..n : \E i \in 1..n : p[i] = k

\* sorted() is such a permutation.
LEMMA SortedFacts ==
    ASSUME NEW n \in Nat, NEW s, n = Len(s), NEW key, AreKeys(key, n)
    PROVE  \E p : Sorts(p, key, n, s, SortedBy(s, key))
<1> USE DEF AreKeys
<1> DEFINE Below(k) == {m \in 1..Len(s) : key[m] < key[k]}
           rank == [k \in 1..n |-> Cardinality(Below(k))]
           p == [i \in 1..n |-> CHOOSE k \in 1..n : rank[k] = i - 1]
<1>1. IsFiniteSet(1..n) /\ Cardinality(1..n) = n /\ IsFiniteSet(0..n - 1) /\ Cardinality(0..n - 1) = n
  <2>1. 0 \in Int /\ 1 \in Int /\ n \in Int /\ n - 1 \in Int
    OBVIOUS
  <2>2. IsFiniteSet(1..n) /\ Cardinality(1..n) = IF 1 > n THEN 0 ELSE n - 1 + 1
    BY <2>1, FS_Interval
  <2>3. IsFiniteSet(0..n - 1) /\ Cardinality(0..n - 1) = IF 0 > n - 1 THEN 0 ELSE n - 1 - 0 + 1
    BY <2>1, FS_Interval
  <2> QED
    BY <2>2, <2>3
<1>2. ASSUME NEW k \in 1..n
      PROVE  IsFiniteSet(Below(k)) /\ Cardinality(Below(k)) \in 0..n - 1
  <2>1. Below(k) \in SUBSET ((1..n) \ {k})
    OBVIOUS
  <2>2. IsFiniteSet((1..n) \ {k}) /\ Cardinality((1..n) \ {k}) = n - 1
    BY <1>1, FS_RemoveElement
  <2> HIDE DEF Below
  <2>3. IsFiniteSet(Below(k)) /\ Cardinality(Below(k)) <= n - 1
    BY <2>1, <2>2, FS_Subset
  <2>4. Cardinality(Below(k)) \in Nat
    BY <2>3, FS_CardinalityType
  <2> QED
    BY <2>3, <2>4
<1>3. ASSUME NEW i \in 1..n, NEW k \in 1..n, key[i] < key[k]
      PROVE  rank[i] < rank[k]
  <2>1. Below(i) \in SUBSET Below(k) /\ i \in Below(k) /\ i \notin Below(i)
    BY <1>3
  <2> HIDE DEF Below
  <2>2. Cardinality(Below(i)) <= Cardinality(Below(k)) /\ Cardinality(Below(i)) # Cardinality(Below(k))
    BY <1>2, <2>1, FS_Subset
  <2> QED
    BY <1>2, <2>2
<1>4. rank \in [1..n -> 0..n - 1]
  <2> HIDE DEF Below
  <2> QED
    BY <1>2
<1> HIDE DEF rank
<1>5. \A i, k \in 1..n : rank[i] = rank[k] => i = k
  BY <1>3, <1>4
<1>6. \A r \in 0..n - 1 : \E k \in 1..n : rank[k] = r
  <2>1. rank \in Injection(1..n, 0..n - 1)
    BY <1>4, <1>5 DEF Injection, IsInjective
  <2>2. rank \in Surjection(1..n, 0..n - 1)
    BY <1>1, <2>1, FS_Injection
  <2> QED
    BY <2>2 DEF Surjection
<1>7. \A i \in 1..n : p[i] \in 1..n /\ rank[p[i]] = i - 1
  <2> TAKE i \in 1..n
  <2>1. i - 1 \in 0..n - 1
    OBVIOUS
  <2>2. \E k \in 1..n : rank[k] = i - 1
    BY <1>6, <2>1
  <2> QED
    BY <2>2
<1>8. SortedBy(s, key) = [i \in 1..n |-> s[p[i]]]
  <2> DEFINE q(i) == CHOOSE k \in 1..Len(s) :
                        Cardinality({m \in 1..Len(s) : key[m] < key[k]}) = i - 1
  <2>1. \A i \in 1..n : p[i] = q(i)
    BY DEF rank
  <2>2. SortedBy(s, key) = [i \in 1..Len(s) |-> s[q(i)]]
    BY DEF SortedBy
  <2> HIDE DEF p, q
  <2> QED
    BY <2>1, <2>2
<1>9. p \in [1..n -> 1..n]
  BY <1>7
<1> HIDE DEF p
<1>10. ASSUME NEW i \in 1..n, NEW k \in 1..n, i < k
       PROVE  key[p[i]] < key[p[k]]
  <2>1. p[i] \in 1..n /\ p[k] \in 1..n /\ rank[p[i]] < rank[p[k]]
    BY <1>7, <1>10
  <2>2. ~(key[p[k]] < key[p[i]]) /\ key[p[k]] # key[p[i]]
    BY <1>3, <1>4, <2>1
  <2> QED
    BY <2>1, <2>2
<1>11. \A k \in 1..n : \E i \in 1..n : p[i] = k
  <2> TAKE k \in 1..n
  <2>1. rank[k] + 1 \in 1..n
    BY <1>4
  <2>2. p[rank[k] + 1] \in 1..n /\ rank[p[rank[k] + 1]] = (rank[k] + 1) - 1
    BY <1>7, <2>1
  <2>3. (rank[k] + 1) - 1 = rank[k]
    BY <1>4
  <2> QED
    BY <1>5, <2>1, <2>2, <2>3
<1>12. Sorts(p, key, n, s, SortedBy(s, key))
  BY <1>8, <1>9, <1>10, <1>11 DEF Sorts
<1> QED
  BY <1>12

\* The order of the blocks: a permutation of them, by order_index.
LEMMA OrderFacts ==
    ASSUME NodesAreValid, Len(blocks) \in Nat, \A k \in Indices : blocks[k].order \in Int
    PROVE  /\ \E p \in [Indices -> Indices] :
                 /\ Ordered = [i \in Indices |-> blocks[p[i]]]
                 /\ \A i, k \in Indices : i < k => blocks[p[i]].order < blocks[p[k]].order
                 /\ \A k \in Indices : \E i \in Indices : p[i] = k
<1> DEFINE n == Len(blocks)
           key == [k \in 1..Len(blocks) |-> blocks[k].order]
<1>1. key \in [1..n -> Int] /\ n \in Nat /\ \A k \in 1..n : key[k] = blocks[k].order
  BY DEF Indices
<1>2. AreKeys(key, n)
  <2>1. Unique(key)
    BY DEF NodesAreValid
  <2>2. Len(key) = n
    BY <1>1
  <2> HIDE DEF key
  <2> QED
    BY <1>1, <2>1, <2>2 DEF Unique, AreKeys
<1>3. Ordered = SortedBy(blocks, key)
  BY DEF Ordered
<1> HIDE DEF key
<1>4. PICK p : Sorts(p, key, n, blocks, Ordered)
  <2>1. n = Len(blocks)
    OBVIOUS
  <2> HIDE DEF n
  <2> QED
    BY <1>1, <1>2, <1>3, <2>1, SortedFacts
<1>5. p \in [1..n -> 1..n] /\ \A i \in 1..n : key[p[i]] = blocks[p[i]].order
  BY <1>1, <1>4 DEF Sorts
<1>6. /\ p \in [Indices -> Indices] /\ Ordered = [i \in Indices |-> blocks[p[i]]]
      /\ \A i, k \in Indices : i < k => key[p[i]] < key[p[k]]
      /\ \A k \in Indices : \E i \in Indices : p[i] = k
  BY <1>4 DEF Indices, Sorts
<1>7. \A i, k \in Indices : i < k => blocks[p[i]].order < blocks[p[k]].order
  BY <1>5, <1>6 DEF Indices
<1> QED
  BY <1>6, <1>7

-----------------------------------------------------------------------------
(* What the mapper makes of an artifact.                                   *)

\* The root and then the fragments, by sequence number.
LEMMA MappedFacts ==
    ASSUME InputsAreValid, NEW fs \in Artifacts, FragmentsAreValid(fs)
    PROVE  /\ Len(fs) \in Nat /\ Len(MappedBlocks(fs)) = Len(fs) + 1
           /\ MappedBlocks(fs)[1] = RootBlock
           /\ \E p \in [1..Len(fs) -> 1..Len(fs)] :
                 /\ \A i, k \in 1..Len(fs) : i < k => fs[p[i]].sequence < fs[p[k]].sequence
                 /\ \A k \in 1..Len(fs) : \E i \in 1..Len(fs) : p[i] = k
                 /\ \A k \in 1..Len(fs) : MappedBlocks(fs)[k + 1] = BlockOf(fs[p[k]], k)
<1> DEFINE n == Len(fs)
           key == [k \in 1..Len(fs) |-> fs[k].sequence]
           ordered == SortedBy(fs, key)
           tail == [k \in 1..Len(fs) |-> BlockOf(ordered[k], FirstOrder + k - 1)]
<1>1. n \in Nat /\ key \in [1..n -> Int] /\ \A k \in 1..n : key[k] = fs[k].sequence
  BY DEF InputsAreValid
<1>2. AreKeys(key, n)
  <2>1. Unique(key) /\ Len(key) = n
    BY <1>1 DEF FragmentsAreValid
  <2> HIDE DEF key
  <2> QED
    BY <1>1, <2>1 DEF Unique, AreKeys
<1>3. MappedBlocks(fs) = << RootBlock >> \o tail
  BY DEF MappedBlocks
<1> HIDE DEF key
<1>4. PICK p : Sorts(p, key, n, fs, ordered)
  BY <1>1, <1>2, SortedFacts
<1> HIDE DEF ordered
<1>5. \A k \in 1..n : tail[k] = BlockOf(fs[p[k]], k)
  <2> TAKE k \in 1..n
  <2>1. FirstOrder + k - 1 = k /\ ordered[k] = fs[p[k]]
    BY <1>1, <1>4 DEF FirstOrder, Sorts
  <2> QED
    BY <2>1
<1>6. tail \in Seq({tail[k] : k \in 1..n} \cup {RootBlock}) /\ Len(tail) = n
  BY <1>1
<1> HIDE DEF tail
<1>7. /\ Len(<< RootBlock >> \o tail) = n + 1
      /\ (<< RootBlock >> \o tail)[1] = RootBlock
      /\ \A k \in 1..n : (<< RootBlock >> \o tail)[k + 1] = tail[k]
  BY <1>1, <1>6
<1>8. /\ p \in [1..n -> 1..n]
      /\ \A i, k \in 1..n : i < k => fs[p[i]].sequence < fs[p[k]].sequence
      /\ \A k \in 1..n : \E i \in 1..n : p[i] = k
  <2>1. p \in [1..n -> 1..n] /\ \A i \in 1..n : key[p[i]] = fs[p[i]].sequence
    BY <1>1, <1>4 DEF Sorts
  <2> QED
    BY <1>4, <2>1 DEF Sorts
<1>9. \A k \in 1..n : MappedBlocks(fs)[k + 1] = BlockOf(fs[p[k]], k)
  BY <1>3, <1>5, <1>7
<1>10. n \in Nat /\ Len(MappedBlocks(fs)) = n + 1 /\ MappedBlocks(fs)[1] = RootBlock
  BY <1>1, <1>3, <1>7
<1> QED
  BY <1>8, <1>9, <1>10

\* Blocks that are numbered by their places are in order.
LEMMA OrderedAlready ==
    ASSUME Len(blocks) \in Nat, \A k \in Indices : blocks[k].order = k - 1
    PROVE  \A i \in Indices : Ordered[i] = blocks[i]
<1> DEFINE n == Len(blocks)
           key == [k \in 1..Len(blocks) |-> blocks[k].order]
           Rank(k) == Cardinality({m \in 1..Len(blocks) : key[m] < key[k]})
<1>1. ASSUME NEW k \in 1..n PROVE Rank(k) = k - 1
  <2>1. {m \in 1..Len(blocks) : key[m] < key[k]} = 1..k - 1
    BY DEF Indices
  <2>2. 1 \in Int /\ k - 1 \in Int
    OBVIOUS
  <2>3. Cardinality(1..k - 1) = IF 1 > k - 1 THEN 0 ELSE (k - 1) - 1 + 1
    BY <2>2, FS_Interval
  <2>4. Cardinality(1..k - 1) = k - 1
    BY <2>3
  <2> QED
    BY <2>1, <2>4
<1>2. ASSUME NEW i \in 1..n PROVE (CHOOSE k \in 1..Len(blocks) : Rank(k) = i - 1) = i
  <2> HIDE DEF Rank
  <2>1. \A k \in 1..n : Rank(k) = i - 1 <=> k = i
    BY <1>1
  <2> QED
    BY <2>1
<1>3. Ordered = [i \in 1..Len(blocks) |-> blocks[CHOOSE k \in 1..Len(blocks) : Rank(k) = i - 1]]
  BY DEF Ordered, SortedBy
<1> HIDE DEF Rank
<1> QED
  BY <1>2, <1>3 DEF Indices

\* An artifact of this pipeline becomes a tree, in order, that can be sent.
LEMMA MappedIsTree ==
    ASSUME InputsAreValid, PlannerIsValid, fragments \in Artifacts,
           FragmentsAreValid(fragments), Uploadable(fragments), blocks = MappedBlocks(fragments)
    PROVE  IsTree /\ \A k \in Indices : Ordered[k] = blocks[k] /\ OnTheWire(blocks[k])
<1> DEFINE n == Len(fragments)
<1>1. PICK p \in [1..n -> 1..n] :
         /\ \A i, k \in 1..n : i < k => fragments[p[i]].sequence < fragments[p[k]].sequence
         /\ \A k \in 1..n : blocks[k + 1] = BlockOf(fragments[p[k]], k)
  BY MappedFacts
<1>2. n \in Nat /\ Len(blocks) = n + 1 /\ blocks[1] = RootBlock /\ Indices = 1..n + 1
  BY MappedFacts DEF Indices
<1>3. \A k \in 1..n :
         /\ ValidFragment(fragments[p[k]]) /\ fragments[p[k]].id # RootId
         /\ Strip(fragments[p[k]].id) = fragments[p[k]].id
         /\ fragments[p[k]].sequence \in Int /\ fragments[p[k]].bytes \in Int
  BY <1>1 DEF FragmentsAreValid, Uploadable, InputsAreValid
<1>4. \A k \in 1..n :
         /\ blocks[k + 1].id = fragments[p[k]].id /\ blocks[k + 1].parent = RootId
         /\ blocks[k + 1].type # "DOCUMENT" /\ blocks[k + 1].order = k
         /\ OnTheWire(blocks[k + 1])
  <2> TAKE k \in 1..n
  <2>1. blocks[k + 1] = BlockOf(fragments[p[k]], k) /\ BlockType(fragments[p[k]].type) # "DOCUMENT"
    BY <1>1, <1>3 DEF BlockType, ValidFragment
  <2>2. k <= MaxUInt
    BY <1>2 DEF Uploadable, PlannerIsValid
  <2>3. fragments[p[k]].bytes > 0 /\ Strip(fragments[p[k]].id) = fragments[p[k]].id
    BY <1>3 DEF ValidFragment
  <2> QED
    BY <2>1, <2>2, <2>3 DEF BlockOf, OnTheWire
<1>5. /\ blocks[1].id = RootId /\ blocks[1].parent = "" /\ blocks[1].type = "DOCUMENT"
      /\ blocks[1].order = 0 /\ OnTheWire(blocks[1])
  <2>1. MaxUInt \in Nat
    BY DEF PlannerIsValid
  <2>2. /\ RootBlock.id = RootId /\ RootBlock.parent = "" /\ RootBlock.type = "DOCUMENT"
        /\ RootBlock.order = 0 /\ RootBlock.bytes = 1
    BY DEF RootBlock
  <2>3. OnTheWire(RootBlock)
    <3>1. RootBlock.bytes > 0 /\ RootBlock.order <= MaxUInt
      <4>1. 1 > 0 /\ 0 <= MaxUInt
        BY <2>1
      <4> QED
        BY <2>2, <4>1, Zenon
    <3>2. RootBlock.fits
      BY Zenon DEF RootBlock
    <3> QED
      BY <3>1, <3>2, Zenon DEF OnTheWire
  <2> QED
    BY <1>2, <2>2, <2>3
<1>6. Strip(RootId) = RootId /\ RootId # "" /\ Strip("") = ""
  BY DEF Strip, RootId
<1>7. \A k \in Indices : k = 1 \/ \E i \in 1..n : k = i + 1
  <2> SUFFICES ASSUME NEW k \in 1..n + 1, k # 1 PROVE \E i \in 1..n : k = i + 1
    BY <1>2
  <2>1. k - 1 \in 1..n /\ k = (k - 1) + 1
    BY <1>2
  <2> QED
    BY <2>1
<1>8. /\ Ids[1] = RootId
      /\ \A k \in 1..n : Ids[k + 1] = fragments[p[k]].id /\ k + 1 \in Indices
  <2>1. Ids = [k \in 1..n + 1 |-> Strip(blocks[k].id)]
    BY <1>2 DEF Ids
  <2>2. 1 \in 1..n + 1 /\ \A k \in 1..n : k + 1 \in 1..n + 1
    BY <1>2
  <2>3. Ids[1] = RootId
    BY <1>5, <1>6, <2>1, <2>2
  <2>4. ASSUME NEW k \in 1..n PROVE Ids[k + 1] = fragments[p[k]].id
    <3>1. Ids[k + 1] = Strip(blocks[k + 1].id)
      BY <2>1, <2>2
    <3> QED
      BY <1>3, <1>4, <3>1
  <2> QED
    BY <1>2, <2>2, <2>3, <2>4
<1>9. \A k \in Indices : blocks[k].order = k - 1 /\ OnTheWire(blocks[k])
  <2> TAKE k \in Indices
  <2>1. CASE k = 1
    <3>1. k - 1 = 0
      BY <2>1
    <3> QED
      BY <1>5, <2>1, <3>1
  <2>2. CASE k # 1
    <3>1. PICK i \in 1..n : k = i + 1
      BY <1>7, <2>2
    <3>2. blocks[i + 1].order = i /\ OnTheWire(blocks[i + 1]) /\ i = (i + 1) - 1
      BY <1>2, <1>4
    <3> QED
      BY <3>1, <3>2
  <2> QED
    BY <2>1, <2>2
<1>10. \A k \in Indices : Ordered[k] = blocks[k]
  BY <1>2, <1>9, OrderedAlready
<1>11. Roots = {1}
  <2>1. \A k \in Indices : blocks[k].type = "DOCUMENT" <=> k = 1
    <3>1. ASSUME NEW k \in Indices, k # 1 PROVE blocks[k].type # "DOCUMENT"
      <4>1. PICK i \in 1..n : k = i + 1
        BY <1>7, <3>1
      <4> QED
        BY <1>4, <4>1
    <3> QED
      BY <1>5, <3>1
  <2>2. 1 \in Indices
    BY <1>2
  <2> QED
    BY <2>1, <2>2 DEF Roots, Indices
<1>12. \A i, k \in Indices : Ids[i] = Ids[k] => i = k
  <2>1. \A i, k \in 1..n : fragments[p[i]].id = fragments[p[k]].id => i = k
    <3>1. \A a, b \in 1..n : fragments[a].id = fragments[b].id => a = b
      <4> DEFINE ids == [k \in 1..Len(fragments) |-> fragments[k].id]
      <4>1. Unique(ids)
        BY DEF FragmentsAreValid
      <4>2. Len(ids) = n /\ \A k \in 1..n : ids[k] = fragments[k].id
        BY <1>2
      <4> HIDE DEF ids
      <4> QED
        BY <4>1, <4>2 DEF Unique
    <3>2. \A i, k \in 1..n : p[i] = p[k] => i = k
      <4> SUFFICES ASSUME NEW i \in 1..n, NEW k \in 1..n, p[i] = p[k], i < k PROVE FALSE
        OBVIOUS
      <4>1. fragments[p[i]].sequence < fragments[p[k]].sequence
        BY <1>1
      <4> QED
        BY <1>3, <4>1
    <3> QED
      BY <1>1, <3>1, <3>2
  <2>2. \A k \in 1..n : Ids[k + 1] # Ids[1]
    BY <1>3, <1>8
  <2>3. \A i, k \in 1..n : Ids[i + 1] = Ids[k + 1] => i = k
    BY <1>8, <2>1
  <2> QED
    BY <1>7, <2>2, <2>3
<1>13. NodesAreValid
  <2>1. Len(Ids) = Len(blocks) /\ Unique(Ids)
    <3>1. Len(Ids) = Len(blocks)
      BY <1>2 DEF Ids
    <3> QED
      BY <1>12, <3>1 DEF Unique, Indices
  <2>2. Unique([k \in 1..Len(blocks) |-> blocks[k].order])
    BY <1>2, <1>9 DEF Unique, Indices
  <2>3. \A k \in 1..Len(blocks) : Ids[k] # "" /\ blocks[k].order >= 0
    <3>1. \A k \in 1..n : Ids[k + 1] # ""
      BY <1>3, <1>8 DEF ValidFragment
    <3>2. \A k \in Indices : Ids[k] # ""
      BY <1>6, <1>7, <1>8, <3>1
    <3>3. \A k \in Indices : blocks[k].order >= 0
      BY <1>2, <1>9
    <3> QED
      BY <3>2, <3>3 DEF Indices
  <2>4. Cardinality(Roots) = 1
    BY <1>11, FS_Singleton
  <2>5. blocks # << >>
    BY <1>2
  <2> QED
    BY <2>1, <2>2, <2>3, <2>4, <2>5 DEF NodesAreValid
<1>14. ParentOf(Root) = ""
  <2>1. Root = Ids[1]
    BY <1>11 DEF Root
  <2>2. 1 \in Indices
    BY <1>2
  <2>3. Len(blocks) \in Nat
    BY <1>2
  <2>4. ParentOf(Ids[1]) = Strip(blocks[1].parent)
    BY <1>13, <2>2, <2>3, ParentFacts
  <2> QED
    BY <1>5, <1>6, <2>1, <2>4
<1>15. ASSUME NEW S, CutOff(S) PROVE S = {}
  <2> SUFFICES ASSUME NEW k \in S PROVE FALSE
    OBVIOUS
  <2>1. k \in Indices /\ k # 1 /\ 1 \notin S /\ 1 \in Indices
    BY <1>2, <1>11, <1>15 DEF CutOff
  <2>2. Strip(blocks[k].parent) = Ids[1]
    <3>1. PICK i \in 1..n : k = i + 1
      BY <1>7, <2>1
    <3> QED
      BY <1>4, <1>6, <1>8, <3>1
  <2> QED
    BY <1>15, <2>1, <2>2 DEF CutOff, Detached, Indices
<1>16. IsTree
  <2>1. Len(blocks) \in Nat
    BY <1>2
  <2> QED
    BY <1>13, <1>14, <1>15, <2>1, TreeFacts
<1> QED
  BY <1>9, <1>10, <1>16

-----------------------------------------------------------------------------
(* The steps.                                                              *)

\* Before the first batch.
LEMMA GreedyNone == Greedy(<< >>)
BY DEF Greedy

\* All that is said of the blocks stays, as long as they do.
LEMMA SameBlocks ==
    ASSUME blocks' = blocks
    PROVE  /\ Ids' = Ids /\ Indices' = Indices /\ Roots' = Roots /\ Root' = Root
           /\ Ordered' = Ordered /\ Sendable' = Sendable
           /\ NodesAreValid' <=> NodesAreValid
           /\ ParentsAreValid' <=> ParentsAreValid
           /\ IsTree' <=> IsTree
           /\ \A id : ParentOf(id)' = ParentOf(id)
           /\ \A S : CutOff(S)' <=> CutOff(S)
<1>1. Ids' = Ids /\ Indices' = Indices /\ Roots' = Roots /\ Ordered' = Ordered
  BY DEF Ids, Indices, Roots, Ordered
<1>2. Root' = Root /\ Sendable' = Sendable /\ \A id : ParentOf(id)' = ParentOf(id)
  BY <1>1 DEF Root, Sendable, ParentOf
<1>3. NodesAreValid' <=> NodesAreValid
  BY <1>1 DEF NodesAreValid
<1>4. ParentsAreValid' <=> ParentsAreValid
  BY <1>1, <1>2 DEF ParentsAreValid
<1>5. \A S : (CutOff(S)' <=> CutOff(S)) /\ (Detached(S)' <=> Detached(S))
  BY <1>1 DEF CutOff, Detached
<1>6. IsTree' <=> IsTree
  BY <1>1, <1>2, <1>3, <1>5 DEF IsTree
<1> QED
  BY <1>1, <1>2, <1>3, <1>4, <1>5, <1>6

\* The packing is not concerned by a step that leaves it alone.
LEMMA PackStays ==
    ASSUME PackInv, UNCHANGED <<blocks, packed, chunk, batches>>,
           Passed' => Passed \/ stage = "walk", stage' = "pack" => stage \in {"walk", "pack"},
           ~Passed' => ~Passed,
           ~(stage' = "done" /\ error' = Null) \/ (stage = "done" /\ error = Null)
    PROVE  PackInv'
<1>1. Ordered' = Ordered /\ Sendable' = Sendable
  BY SameBlocks
<1>2. WithinLimits(chunk)' <=> WithinLimits(chunk)
  BY DEF WithinLimits
<1>3. Greedy(batches)' <=> Greedy(batches)
  BY DEF Greedy, WithinLimits, FullBefore
<1>4. FullBefore(batches[Len(batches)], chunk[1])' <=> FullBefore(batches[Len(batches)], chunk[1])
  BY DEF FullBefore
<1>5. stage' = "pack" /\ batches' # << >> => stage = "pack" /\ batches # << >>
  BY DEF PackInv, Passed
<1> QED
  BY <1>1, <1>2, <1>3, <1>4, <1>5 DEF PackInv

\* An exception ends the call.
LEMMA FailStep ==
    ASSUME InputsAreValid, PlanInv, NEW kind \in Errors, Fail(kind), stage # "done",
           kind = "mapping" <=> stage = "map",
           kind = "validation" => stage \in {"check", "walk"} /\ ~IsTree,
           kind \in {"wire", "planning"} => stage = "pack",
           kind = "wire" => ~(fragments # Null /\ Uploadable(fragments))
    PROVE  PlanInv'
<1>1. /\ error' = kind /\ stage' = "done" /\ error = Null /\ kind # Null
      /\ UNCHANGED <<fragments, blocks, start, current, seen, packed, chunk, batches>>
  BY DEF Fail, PlanInv, BlocksInv, InputsAreValid
<1>2. /\ (NodesAreValid' <=> NodesAreValid) /\ (ParentsAreValid' <=> ParentsAreValid)
      /\ (IsTree' <=> IsTree) /\ (\A S : CutOff(S)' <=> CutOff(S)) /\ Indices' = Indices
  BY <1>1, SameBlocks
<1>3. Passed' <=> stage = "pack"
  BY <1>1 DEF Passed, Errors
<1>4. Passed <=> stage = "pack"
  BY DEF Passed
<1>5. BlocksInv'
  <2>1. Len(blocks') \in Nat /\ \A k \in Indices' : blocks'[k].order \in Int /\ blocks'[k].bytes \in Int
    BY <1>1, <1>2 DEF PlanInv, BlocksInv
  <2>2. fragments' # Null /\ error' # "mapping" =>
          fragments' \in Artifacts /\ FragmentsAreValid(fragments') /\ blocks' = MappedBlocks(fragments')
    <3>1. fragments # Null /\ stage # "map" =>
            fragments \in Artifacts /\ FragmentsAreValid(fragments) /\ blocks = MappedBlocks(fragments)
      BY <1>1 DEF PlanInv, BlocksInv, InputsAreValid, Errors
    <3> QED
      BY <1>1, <3>1
  <2> QED
    BY <1>1, <2>1, <2>2 DEF BlocksInv
<1>6. WalkInv'
  BY <1>1, <1>2, <1>3, <1>4 DEF PlanInv, WalkInv, Walking
<1>7. PackInv'
  BY <1>1, <1>3, <1>4, PackStays DEF PlanInv
<1>8. Uploadable(fragments)' <=> Uploadable(fragments)
  BY <1>1 DEF Uploadable
<1> QED
  BY <1>1, <1>2, <1>5, <1>6, <1>7, <1>8 DEF PlanInv, Errors

\* The fragments become blocks, or the artifact is refused.
LEMMA MapStep ==
    ASSUME InputsAreValid, PlanInv, MapFragments
    PROVE  PlanInv'
<1>1. stage = "map" /\ fragments \in Artifacts /\ error = Null
  BY DEF MapFragments, PlanInv, BlocksInv
<1>2. CASE Fail("mapping")
  BY <1>1, <1>2, FailStep DEF Errors
<1>3. CASE /\ FragmentsAreValid(fragments) /\ blocks' = MappedBlocks(fragments) /\ stage' = "check"
           /\ UNCHANGED <<fragments, start, current, seen, packed, chunk, batches, error>>
  <2> DEFINE n == Len(fragments)
  <2>1. /\ n \in Nat /\ Len(blocks') = n + 1 /\ blocks'[1] = RootBlock
        /\ \E p \in [1..n -> 1..n] : \A k \in 1..n : blocks'[k + 1] = BlockOf(fragments[p[k]], k)
    BY <1>1, <1>3, MappedFacts
  <2>2. \A k \in Indices' : blocks'[k].order \in Int /\ blocks'[k].bytes \in Int
    <3> SUFFICES ASSUME NEW k \in 1..n + 1
                 PROVE  blocks'[k].order \in Int /\ blocks'[k].bytes \in Int
      BY <2>1 DEF Indices
    <3>1. CASE k = 1
      <4>1. RootBlock.order = 0 /\ RootBlock.bytes = 1
        BY DEF RootBlock
      <4>2. 0 \in Int /\ 1 \in Int
        OBVIOUS
      <4> QED
        BY <2>1, <3>1, <4>1, <4>2, Zenon
    <3>2. CASE k # 1
      <4>1. PICK i : i \in 1..n /\ k = i + 1
        <5>1. k - 1 \in 1..n /\ k = (k - 1) + 1
          BY <2>1, <3>2
        <5> QED
          BY <5>1
      <4>2. PICK f \in 1..n : blocks'[k] = BlockOf(fragments[f], i)
        BY <2>1, <4>1
      <4>3. fragments[f].bytes \in Int
        BY <1>1, <4>2 DEF InputsAreValid
      <4> QED
        BY <4>1, <4>2, <4>3 DEF BlockOf
    <3> QED
      BY <3>1, <3>2
  <2>3. BlocksInv'
    BY <1>1, <1>3, <2>1, <2>2 DEF BlocksInv, PlanInv
  <2>4. ~Passed /\ ~Passed' /\ ~Walking' /\ stage' # "walk"
    BY <1>1, <1>3 DEF Passed, Walking
  <2>5. WalkInv'
    BY <1>1, <1>3, <2>4 DEF WalkInv, PlanInv
  <2>6. PackInv'
    <3>1. packed' = 0 /\ chunk' = << >> /\ batches' = << >>
      BY <1>3, <2>4 DEF PlanInv, PackInv
    <3>2. WithinLimits(chunk)
      BY DEF PlanInv, PackInv
    <3>3. WithinLimits(chunk')
      BY <1>3, <3>2
    <3>4. FlattenSeq(batches') \o chunk' = [k \in 1..packed' |-> Ordered'[k]]
      BY <3>1 DEF FlattenSeq
    <3>5. packed' \in 0..Len(blocks') /\ chunk' \in Seq(Sendable') /\ batches' \in Seq(Seq(Sendable'))
      BY <2>1, <3>1
    <3> QED
      BY <1>3, <2>4, <3>1, <3>3, <3>4, <3>5, GreedyNone DEF PackInv
  <2> QED
    BY <1>1, <1>3, <2>3, <2>5, <2>6 DEF PlanInv, InputsAreValid, Errors
<1> QED
  BY <1>2, <1>3 DEF MapFragments

\* A step of the validator that raises nothing leaves everything but the walk.
LEMMA WalkStays ==
    ASSUME PlanInv, stage \in {"check", "walk"},
           UNCHANGED <<fragments, blocks, packed, chunk, batches, error>>,
           stage' \in {"walk", "pack"}, stage' = "pack" => stage = "walk",
           WalkInv'
    PROVE  PlanInv'
<1>1. (IsTree' <=> IsTree) /\ Indices' = Indices
  BY SameBlocks
<1>2. error = Null /\ error' = Null
  BY DEF PlanInv, BlocksInv
<1>3. BlocksInv'
  BY <1>1, <1>2 DEF PlanInv, BlocksInv
<1>4. ~Passed
  BY DEF Passed
<1>5. PackInv'
  <2>1. packed' = 0 /\ chunk' = << >> /\ batches' = << >>
    BY <1>4 DEF PlanInv, PackInv
  <2>2. Ordered' = Ordered /\ Sendable' = Sendable
    BY SameBlocks
  <2>3. WithinLimits(chunk) /\ packed \in 0..Len(blocks)
    BY DEF PlanInv, PackInv
  <2>4. WithinLimits(chunk') /\ packed' \in 0..Len(blocks')
    BY <2>3
  <2>5. FlattenSeq(batches') \o chunk' = [k \in 1..packed' |-> Ordered'[k]]
    BY <2>1 DEF FlattenSeq
  <2> QED
    BY <2>1, <2>2, <2>4, <2>5, GreedyNone DEF PackInv
<1>6. Uploadable(fragments)' <=> Uploadable(fragments)
  BY DEF Uploadable
<1> QED
  BY <1>1, <1>3, <1>5, <1>6 DEF PlanInv

\* The single nodes are looked at.
LEMMA CheckStep ==
    ASSUME InputsAreValid, PlanInv, CheckNodes
    PROVE  PlanInv'
<1>1. stage = "check" /\ Len(blocks) \in Nat
  BY DEF CheckNodes, PlanInv, BlocksInv
<1>2. CASE ~(NodesAreValid /\ ParentsAreValid) /\ Fail("validation")
  BY <1>1, <1>2, BadParents, FailStep DEF Errors
<1>3. CASE /\ NodesAreValid /\ ParentsAreValid /\ stage' = "walk" /\ current' = Ids[1]
           /\ UNCHANGED <<fragments, blocks, start, seen, packed, chunk, batches, error>>
  <2>1. start = 1 /\ seen = {} /\ start' = 1 /\ seen' = {}
    BY <1>1, <1>3 DEF PlanInv, WalkInv
  <2>2. 1 \in Indices
    <3>1. \E k \in Indices : TRUE
      BY <1>1, <1>3, OneRoot
    <3> QED
      BY <1>1, <3>1 DEF Indices
  <2>3. /\ Ids' = Ids /\ Indices' = Indices /\ NodesAreValid' /\ ParentsAreValid'
        /\ \A S : CutOff(S)' <=> CutOff(S)
    BY <1>3, SameBlocks
  <2>4. \A S : CutOff(S) => \A k \in S : 1 <= k
    BY <1>1 DEF CutOff, Indices
  <2>5. \A S : CutOff(S)' /\ start' \in S => \E m \in S : Ids'[m] = current'
    BY <1>3, <2>1, <2>3
  <2>6. ~Passed'
    BY <1>3 DEF Passed
  <2>7. WalkInv'
    BY <1>3, <2>1, <2>2, <2>3, <2>4, <2>5, <2>6 DEF WalkInv
  <2> QED
    BY <1>1, <1>3, <2>7, WalkStays
<1> QED
  BY <1>2, <1>3 DEF CheckNodes

\* What is known on the way up a parent chain.
LEMMA ChainFacts ==
    ASSUME PlanInv, stage = "walk", start <= Len(blocks)
    PROVE  /\ Len(blocks) \in Nat /\ start \in Nat \ {0}
           /\ NodesAreValid /\ ParentsAreValid
           /\ \A S : CutOff(S) => \A k \in S : start <= k
           /\ \E m \in Indices : Ids[m] = current
           /\ seen \subseteq {Ids[m] : m \in Indices} \ {Root}
           /\ \A id \in seen : ParentOf(id) \in seen \cup {current}
           /\ \A S : CutOff(S) /\ start \in S => \E m \in S : Ids[m] = current
BY DEF PlanInv, BlocksInv, WalkInv, Walking

\* One step up; coming back to where it has been, the chain has met a cycle.
LEMMA WalkUpStep ==
    ASSUME InputsAreValid, PlanInv, WalkUp
    PROVE  PlanInv'
<1>1. stage = "walk" /\ start <= Len(blocks) /\ current # Root
  BY DEF WalkUp
<1>2. /\ Len(blocks) \in Nat /\ NodesAreValid /\ ParentsAreValid /\ start \in Nat \ {0}
      /\ seen \subseteq {Ids[m] : m \in Indices} \ {Root}
      /\ \A id \in seen : ParentOf(id) \in seen \cup {current}
  BY <1>1, ChainFacts
<1>3. CASE current \in seen /\ Fail("validation")
  <2>1. \A id \in seen : ParentOf(id) \in seen
    BY <1>2, <1>3
  <2>2. CutOff({m \in Indices : Ids[m] \in seen})
    BY <1>2, <2>1, ClosedIsCutOff
  <2>3. \E m : m \in {k \in Indices : Ids[k] \in seen}
    BY <1>2, <1>3
  <2>4. ~IsTree
    BY <1>2, <2>2, <2>3, TreeFacts
  <2> QED
    BY <1>1, <1>3, <2>4, FailStep DEF Errors
<1>4. CASE /\ current \notin seen /\ seen' = Visited(current) /\ current' = ParentOf(current)
           /\ UNCHANGED <<fragments, blocks, stage, start, packed, chunk, batches, error>>
  <2>1. PICK c \in Indices : Ids[c] = current
    BY <1>1, ChainFacts
  <2>2. PICK m \in Indices : Ids[m] = ParentOf(current)
    BY <1>1, <1>2, <2>1 DEF ParentsAreValid, Indices
  <2>3. /\ Ids' = Ids /\ Indices' = Indices /\ Root' = Root /\ NodesAreValid' /\ ParentsAreValid'
        /\ (\A S : CutOff(S)' <=> CutOff(S)) /\ \A id : ParentOf(id)' = ParentOf(id)
    BY <1>2, <1>4, SameBlocks
  <2>4. seen' \subseteq {Ids[k] : k \in Indices} \ {Root}
    BY <1>1, <1>2, <1>4, <2>1 DEF Visited
  <2>5. \A id \in seen' : ParentOf(id) \in seen' \cup {current'}
    BY <1>2, <1>4 DEF Visited
  <2>6. ASSUME NEW S, CutOff(S), start \in S PROVE \E k \in S : Ids[k] = current'
    <3>1. PICK k \in S : Ids[k] = current
      BY <1>1, <2>6, ChainFacts
    <3> QED
      BY <1>2, <1>4, <2>6, <3>1, CutOffIsClosed
  <2>7. \A S : CutOff(S) => \A k \in S : start <= k
    BY <1>1, ChainFacts
  <2>8. ~Passed' /\ stage' = "walk"
    BY <1>1, <1>4 DEF Passed
  <2>9. \A id \in seen' : ParentOf(id)' \in seen' \cup {current'}
    BY <2>3, <2>5
  <2>10. \E k \in Indices' : Ids'[k] = current'
    BY <1>4, <2>2, <2>3
  <2>11. seen' \subseteq {Ids'[k] : k \in Indices'} \ {Root'}
    BY <2>3, <2>4
  <2>12. \A S : CutOff(S)' /\ start' \in S => \E k \in S : Ids'[k] = current'
    BY <1>4, <2>3, <2>6
  <2>13. \A S : CutOff(S)' => \A k \in S : start' <= k
    BY <1>4, <2>3, <2>7
  <2>14. WalkInv'
    BY <1>2, <1>4, <2>3, <2>8, <2>9, <2>10, <2>11, <2>12, <2>13 DEF WalkInv
  <2> QED
    BY <1>1, <1>4, <2>14, WalkStays
<1> QED
  BY <1>3, <1>4 DEF WalkUp

\* A chain that has come to the root began outside of every set that is cut off.
LEMMA WalkNextStep ==
    ASSUME InputsAreValid, PlanInv, WalkNext
    PROVE  PlanInv'
<1>1. /\ stage = "walk" /\ start <= Len(blocks) /\ current = Root /\ start' = start + 1
      /\ current' = (IF start' > Len(blocks) THEN Null ELSE Ids[start']) /\ seen' = {}
      /\ UNCHANGED <<fragments, blocks, stage, packed, chunk, batches, error>>
  BY DEF WalkNext, NextStart
<1>2. /\ Len(blocks) \in Nat /\ NodesAreValid /\ ParentsAreValid /\ start \in Nat \ {0}
  BY <1>1, ChainFacts
<1>3. /\ Ids' = Ids /\ Indices' = Indices /\ Root' = Root /\ NodesAreValid' /\ ParentsAreValid'
      /\ (\A S : CutOff(S)' <=> CutOff(S))
  BY <1>1, <1>2, SameBlocks
<1>4. ASSUME NEW S, CutOff(S), NEW k \in S PROVE start' <= k
  <2>1. k \in Indices /\ start <= k
    BY <1>1, <1>4, ChainFacts DEF CutOff
  <2>2. start \notin S
    <3> SUFFICES ASSUME start \in S PROVE FALSE
      OBVIOUS
    <3>1. PICK m \in S : Ids[m] = current
      BY <1>1, <1>4, ChainFacts
    <3> QED
      BY <1>1, <1>2, <1>4, <3>1, CutOffIsClosed
  <2> QED
    BY <1>1, <1>2, <1>4, <2>1, <2>2 DEF Indices
<1>5. ~Passed' /\ stage' = "walk"
  BY <1>1 DEF Passed
<1>6. start' <= Len(blocks') => start' \in Indices /\ current' = Ids[start']
  BY <1>1, <1>2 DEF Indices
<1>7. Walking' => start' \in Indices' /\ current' = Ids'[start']
  BY <1>3, <1>6 DEF Walking
<1>8. \A S : CutOff(S)' => \A k \in S : start' <= k
  BY <1>3, <1>4
<1>9. WalkInv'
  BY <1>1, <1>2, <1>3, <1>5, <1>7, <1>8 DEF WalkInv
<1> QED
  BY <1>1, <1>9, WalkStays

\* After the last chain no set of blocks is cut off.
LEMMA OrderStep ==
    ASSUME InputsAreValid, PlanInv, OrderBlocks
    PROVE  PlanInv'
<1>1. /\ stage = "walk" /\ start > Len(blocks) /\ stage' = "pack"
      /\ UNCHANGED <<fragments, blocks, start, current, seen, packed, chunk, batches, error>>
  BY DEF OrderBlocks
<1>2. /\ Len(blocks) \in Nat /\ NodesAreValid /\ ParentsAreValid /\ start \in Nat \ {0}
      /\ \A S : CutOff(S) => \A k \in S : start <= k
  BY <1>1 DEF PlanInv, BlocksInv, WalkInv
<1>3. NodesAreValid' /\ ParentsAreValid' /\ (\A S : CutOff(S)' <=> CutOff(S))
  BY <1>1, <1>2, SameBlocks
<1>4. ~Walking' /\ start' > Len(blocks')
  BY <1>1 DEF Walking
<1>5. WalkInv'
  BY <1>1, <1>2, <1>3, <1>4 DEF WalkInv
<1> QED
  BY <1>1, <1>5, WalkStays

\* The blocks, once they are a tree, are what can be sent.
LEMMA SendableFacts ==
    ASSUME PlanInv, stage = "pack"
    PROVE  /\ Len(blocks) \in Nat /\ error = Null
           /\ \A b \in Sendable : b.bytes \in Int
           /\ \A k \in Indices : Ordered[k] \in Sendable
<1>1. NodesAreValid /\ Len(blocks) \in Nat /\ error = Null
      /\ \A k \in Indices : blocks[k].order \in Int /\ blocks[k].bytes \in Int
  BY DEF PlanInv, BlocksInv, WalkInv, Passed
<1>2. PICK p \in [Indices -> Indices] : Ordered = [i \in Indices |-> blocks[p[i]]]
  BY <1>1, OrderFacts
<1>3. \A k \in Indices : Ordered[k].bytes \in Int
  BY <1>1, <1>2
<1> QED
  BY <1>1, <1>3 DEF Sendable

\* One more element of a list.
LEMMA PrefixAppend ==
    ASSUME NEW n \in Nat, NEW f, NEW s, s = [k \in 1..n |-> f[k]]
    PROVE  Append(s, f[n + 1]) = [k \in 1..n + 1 |-> f[k]]
<1> DEFINE B == {f[k] : k \in 1..n + 1}
           t == Append(s, f[n + 1])
           u == [k \in 1..n + 1 |-> f[k]]
<1>1. s \in Seq(B) /\ Len(s) = n /\ f[n + 1] \in B
  OBVIOUS
<1>2. /\ t \in Seq(B) /\ Len(t) = n + 1 /\ t[n + 1] = f[n + 1]
      /\ \A k \in 1..n : t[k] = s[k]
  <2> HIDE DEF B
  <2> QED
    BY <1>1
<1>3. u \in Seq(B) /\ Len(u) = n + 1
  OBVIOUS
<1>4. \A k \in 1..n + 1 : t[k] = u[k]
  <2> TAKE k \in 1..n + 1
  <2>1. CASE k = n + 1
    BY <1>2, <2>1
  <2>2. CASE k # n + 1
    <3>1. k \in 1..n
      BY <2>2
    <3> QED
      BY <1>2, <3>1
  <2> QED
    BY <2>1, <2>2
<1>5. DOMAIN t = 1..n + 1 /\ DOMAIN u = 1..n + 1
  <2> HIDE DEF t, B
  <2> QED
    BY <1>2
<1> HIDE DEF t, u, B
<1>6. t = u
  BY <1>2, <1>3, <1>4
<1> QED
  BY <1>6 DEF t, u

\* Appending to the end of a list is appending to its last part.
LEMMA AppendToLast ==
    ASSUME NEW B, NEW s \in Seq(B), NEW c \in Seq(B), NEW b \in B
    PROVE  /\ s \o c \in Seq(B)
           /\ s \o Append(c, b) = Append(s \o c, b)
           /\ s \o << b >> = Append(s, b)
OBVIOUS

\* A block that opens a batch, and one that is added to a batch with room for it.
LEMMA RoomFor ==
    ASSUME PlannerIsValid, NEW B, \A x \in B : x.bytes \in Int, NEW b \in B, ~TooLarge(b),
           NEW c \in Seq(B), WithinLimits(c)
    PROVE  /\ WithinLimits(<< b >>)
           /\ ~FullBefore(c, b) => WithinLimits(Append(c, b))
           /\ BytesOf(c) \in Int
<1>1. BytesOf(c) \in Int /\ BytesOf(Append(c, b)) = BytesOf(c) + b.bytes
  BY BytesOfAppend
<1>2. BytesOf(<< b >>) = b.bytes
  <2>1. PICK e : e = << >> /\ e \in Seq(B)
    <3>1. << >> \in Seq(B)
      OBVIOUS
    <3> QED
      BY <3>1
  <2>2. BytesOf(Append(e, b)) = BytesOf(e) + b.bytes
    BY <2>1, BytesOfAppend
  <2>3. Append(e, b) = << b >> /\ BytesOf(e) = 0 /\ 0 + b.bytes = b.bytes
    BY <2>1, BytesOfNone
  <2> QED
    BY <2>2, <2>3
<1>3. Len(<< b >>) = 1 /\ Len(Append(c, b)) = Len(c) + 1 /\ Len(c) \in Nat
  OBVIOUS
<1>4. MaxBlocks \in Nat \ {0} /\ (MaxBatchBytes # Null => MaxBatchBytes \in Nat \ {0})
  BY DEF PlannerIsValid
<1>5. b.bytes \in Int /\ (MaxBatchBytes # Null => b.bytes <= MaxBatchBytes)
  BY <1>4 DEF TooLarge
<1>6. WithinLimits(<< b >>)
  BY <1>2, <1>3, <1>4, <1>5 DEF WithinLimits
<1>7. ASSUME ~FullBefore(c, b) PROVE WithinLimits(Append(c, b))
  BY <1>1, <1>3, <1>4, <1>5, <1>7 DEF WithinLimits, FullBefore
<1> QED
  BY <1>1, <1>6, <1>7

\* A batch is full for a block exactly when the block would break a limit, and
\* then it holds something.
LEMMA FullFacts ==
    ASSUME PlannerIsValid, NEW B, \A x \in B : x.bytes \in Int, NEW b \in B, ~TooLarge(b),
           chunk \in Seq(B), WithinLimits(chunk)
    PROVE  /\ ExceedsCount \/ ExceedsBytes(b) <=> FullBefore(chunk, b)
           /\ FullBefore(chunk, b) => chunk # << >>
<1>1. BytesOf(chunk) \in Int
  BY RoomFor
<1>2. MaxBlocks \in Nat \ {0} /\ (MaxBatchBytes # Null => MaxBatchBytes \in Nat \ {0})
  BY DEF PlannerIsValid
<1>3. b.bytes \in Int /\ (MaxBatchBytes # Null => b.bytes <= MaxBatchBytes)
  BY <1>2 DEF TooLarge
<1>4. Len(chunk) \in Nat /\ (chunk = << >> <=> Len(chunk) = 0)
  OBVIOUS
<1>5. chunk = << >> => ~FullBefore(chunk, b)
  <2> SUFFICES ASSUME chunk = << >> PROVE ~FullBefore(chunk, b)
    OBVIOUS
  <2>1. BytesOf(chunk) = 0
    BY BytesOfNone
  <2> QED
    BY <1>2, <1>3, <1>4, <2>1 DEF FullBefore
<1>6. ExceedsCount <=> Len(chunk) = MaxBlocks
  BY <1>2, <1>4 DEF ExceedsCount, WithinLimits
<1> QED
  BY <1>5, <1>6 DEF FullBefore, ExceedsBytes

\* Closing a batch: what was said of it as the one being filled is now said of it
\* as the last of the batches.
LEMMA CloseBatch ==
    ASSUME NEW B, NEW bs \in Seq(Seq(B)), NEW c \in Seq(B),
           Greedy(bs),
           bs # << >> => FullBefore(bs[Len(bs)], c[1]),
           WithinLimits(c), c # << >>,
           NEW cs, cs = Append(bs, c)
    PROVE  cs \in Seq(Seq(B)) /\ cs # << >> /\ cs[Len(cs)] = c /\ Greedy(cs)
<1> USE DEF Greedy
<1> DEFINE n == Len(bs)
<1>1. /\ n \in Nat /\ cs \in Seq(Seq(B)) /\ Len(cs) = n + 1 /\ cs[n + 1] = c
      /\ \A k \in 1..n : cs[k] = bs[k]
  OBVIOUS
<1>2. \A k \in 1..n + 1 : k = n + 1 \/ k \in 1..n
  BY <1>1
<1>3. n # 0 => bs # << >> /\ n \in 1..n
  BY <1>1
<1>4. \A k \in 1..n + 1 : cs[k] # << >> /\ WithinLimits(cs[k])
  BY <1>1, <1>2
<1>5. ASSUME NEW k \in 1..n + 1, k + 1 <= n + 1 PROVE FullBefore(cs[k], cs[k + 1][1])
  <2>1. CASE k = n
    BY <1>1, <1>3, <1>5, <2>1
  <2>2. CASE k # n
    <3>1. k \in 1..n /\ k + 1 \in 1..n /\ k + 1 <= n
      BY <1>1, <1>5, <2>2
    <3> QED
      BY <1>1, <3>1
  <2> QED
    BY <2>1, <2>2
<1> QED
  BY <1>1, <1>4, <1>5

\* A step of the planner that raises nothing leaves everything but the packing.
LEMMA PackMoves ==
    ASSUME PlanInv, stage = "pack", stage' \in {"pack", "done"},
           UNCHANGED <<fragments, blocks, start, current, seen, error>>,
           PackInv'
    PROVE  PlanInv'
<1>1. /\ (NodesAreValid' <=> NodesAreValid) /\ (ParentsAreValid' <=> ParentsAreValid)
      /\ (IsTree' <=> IsTree) /\ (\A S : CutOff(S)' <=> CutOff(S)) /\ Indices' = Indices
  BY SameBlocks
<1>2. error = Null /\ error' = Null
  BY DEF PlanInv, BlocksInv
<1>3. Passed /\ ~Walking'
  BY DEF Passed, Walking
<1>4. BlocksInv'
  BY <1>1, <1>2 DEF PlanInv, BlocksInv
<1>5. WalkInv'
  <2>1. /\ start \in Nat \ {0} /\ NodesAreValid /\ ParentsAreValid /\ start > Len(blocks)
        /\ \A S : CutOff(S) => \A k \in S : start <= k
    BY <1>3 DEF PlanInv, WalkInv
  <2> QED
    BY <1>1, <1>3, <2>1 DEF WalkInv
<1>6. Uploadable(fragments)' <=> Uploadable(fragments)
  BY DEF Uploadable
<1> QED
  BY <1>1, <1>4, <1>5, <1>6 DEF PlanInv

\* The blocks of an artifact of this pipeline have a wire form.
LEMMA WireForm ==
    ASSUME InputsAreValid, PlannerIsValid, PlanInv, stage = "pack",
           fragments # Null, Uploadable(fragments), NEW k \in Indices
    PROVE  OnTheWire(Ordered[k])
<1>1. fragments \in Artifacts /\ FragmentsAreValid(fragments) /\ blocks = MappedBlocks(fragments)
  <2>1. error = Null /\ error # "mapping" /\ stage # "map"
    BY DEF PlanInv, BlocksInv, InputsAreValid, Errors
  <2> QED
    BY <2>1 DEF PlanInv, BlocksInv
<1> QED
  BY <1>1, MappedIsTree

\* One block goes into the batch that is being filled, or closes it.
LEMMA PackStep ==
    ASSUME InputsAreValid, PlannerIsValid, PlanInv, PackBlock
    PROVE  PlanInv'
<1> DEFINE b == Ordered[packed + 1]
<1>1. stage = "pack" /\ packed < Len(blocks)
  BY DEF PackBlock
<1>2. /\ Len(blocks) \in Nat /\ error = Null
      /\ \A x \in Sendable : x.bytes \in Int
      /\ \A k \in Indices : Ordered[k] \in Sendable
  BY <1>1, SendableFacts
<1>3. /\ packed \in 0..Len(blocks) /\ chunk \in Seq(Sendable) /\ batches \in Seq(Seq(Sendable))
      /\ FlattenSeq(batches) \o chunk = [k \in 1..packed |-> Ordered[k]]
      /\ WithinLimits(chunk)
  BY DEF PlanInv, PackInv
<1>4. packed + 1 \in Indices /\ b \in Sendable /\ packed \in Nat /\ packed + 1 \in 0..Len(blocks)
  BY <1>1, <1>2, <1>3 DEF Indices
<1>5. CASE ~OnTheWire(b) /\ Fail("wire")
  <2>1. ~(fragments # Null /\ Uploadable(fragments))
    BY <1>1, <1>4, <1>5, WireForm
  <2> QED
    BY <1>1, <1>5, <2>1, FailStep DEF Errors
<1>6. CASE TooLarge(b) /\ Fail("planning")
  BY <1>1, <1>6, FailStep DEF Errors
<1>7. CASE /\ ~TooLarge(b)
           /\ batches' = IF ExceedsCount \/ ExceedsBytes(b) THEN Append(batches, chunk) ELSE batches
           /\ chunk' = IF ExceedsCount \/ ExceedsBytes(b) THEN << b >> ELSE Append(chunk, b)
           /\ packed' = packed + 1
           /\ UNCHANGED <<fragments, blocks, stage, start, current, seen, error>>
  <2>1. /\ ExceedsCount \/ ExceedsBytes(b) <=> FullBefore(chunk, b)
        /\ FullBefore(chunk, b) => chunk # << >>
    BY <1>2, <1>3, <1>4, <1>7, FullFacts
  <2>2. /\ WithinLimits(<< b >>)
        /\ ~FullBefore(chunk, b) => WithinLimits(Append(chunk, b))
    BY <1>2, <1>3, <1>4, <1>7, RoomFor
  <2>3. Append([k \in 1..packed |-> Ordered[k]], b) = [k \in 1..packed + 1 |-> Ordered[k]]
    BY <1>4, PrefixAppend
  <2>4. /\ Ordered' = Ordered /\ Sendable' = Sendable /\ Passed' /\ stage' = "pack"
        /\ Len(blocks') = Len(blocks)
    BY <1>1, <1>7, SameBlocks DEF Passed
  <2>5. FlattenSeq(batches) \in Seq(Sendable)
        /\ FlattenSeq(Append(batches, chunk)) = FlattenSeq(batches) \o chunk
    BY <1>3, FlattenAppend
  <2> DEFINE flat == FlattenSeq(batches)
  <2>6. /\ Greedy(batches)
        /\ batches # << >> => chunk # << >> /\ FullBefore(batches[Len(batches)], chunk[1])
    BY <1>1 DEF PlanInv, PackInv
  <2> HIDE DEF b, flat
  <2>7. CASE FullBefore(chunk, b)
    <3>1. chunk' = << b >> /\ batches' = Append(batches, chunk) /\ chunk # << >>
      BY <1>7, <2>1, <2>7
    <3>2. /\ batches' \in Seq(Seq(Sendable)) /\ batches' # << >> /\ batches'[Len(batches')] = chunk
          /\ Greedy(batches')
      <4>1. batches # << >> => FullBefore(batches[Len(batches)], chunk[1])
        BY <2>6
      <4>2. Greedy(batches) /\ WithinLimits(chunk) /\ chunk # << >>
        BY <1>3, <2>6, <3>1
      <4>3. chunk \in Seq(Sendable) /\ batches \in Seq(Seq(Sendable)) /\ batches' = Append(batches, chunk)
        BY <1>3, <3>1
      <4> QED
        BY <4>1, <4>2, <4>3, CloseBatch
    <3>3. chunk' \in Seq(Sendable) /\ chunk' # << >> /\ chunk'[1] = b /\ WithinLimits(chunk')
      BY <1>4, <2>2, <3>1
    <3>4. FlattenSeq(batches') \o chunk' = [k \in 1..packed' |-> Ordered[k]]
      <4>1. (flat \o chunk) \in Seq(Sendable)
        <5>1. flat \in Seq(Sendable)
          BY <2>5 DEF flat
        <5> QED
          BY <1>3, <1>4, <5>1, AppendToLast
      <4>2. (flat \o chunk) \o << b >> = Append(flat \o chunk, b)
        BY <1>3, <1>4, <4>1, AppendToLast
      <4> QED
        BY <1>3, <1>7, <2>3, <2>5, <3>1, <4>2 DEF flat
    <3>5. FullBefore(batches'[Len(batches')], chunk'[1])
      BY <2>7, <3>2, <3>3
    <3>6. PackInv'
      BY <1>2, <1>4, <1>7, <2>4, <3>2, <3>3, <3>4, <3>5 DEF PackInv
    <3> QED
      BY <1>1, <1>7, <3>6, PackMoves
  <2>8. CASE ~FullBefore(chunk, b)
    <3>1. chunk' = Append(chunk, b) /\ batches' = batches
      BY <1>7, <2>1, <2>8
    <3>2. chunk' \in Seq(Sendable) /\ chunk' # << >> /\ WithinLimits(chunk')
      BY <1>3, <1>4, <2>2, <2>8, <3>1
    <3>3. batches # << >> => chunk'[1] = chunk[1]
      <4>1. chunk # << >> => Len(chunk) >= 1
        BY <1>3
      <4> QED
        BY <1>3, <1>4, <2>6, <3>1, <4>1
    <3>4. FlattenSeq(batches') \o chunk' = [k \in 1..packed' |-> Ordered[k]]
      <4>1. flat \o Append(chunk, b) = Append(flat \o chunk, b)
        <5>1. flat \in Seq(Sendable)
          BY <2>5 DEF flat
        <5> QED
          BY <1>3, <1>4, <5>1, AppendToLast
      <4> QED
        BY <1>3, <1>7, <2>3, <3>1, <4>1 DEF flat
    <3>5. batches' # << >> => FullBefore(batches'[Len(batches')], chunk'[1])
      BY <2>6, <3>1, <3>3
    <3>6. PackInv'
      BY <1>2, <1>3, <1>4, <1>7, <2>4, <2>6, <3>1, <3>2, <3>4, <3>5 DEF PackInv
    <3> QED
      BY <1>1, <1>7, <3>6, PackMoves
  <2> QED
    BY <2>7, <2>8
<1> QED
  BY <1>5, <1>6, <1>7 DEF PackBlock

\* The batch that is being filled becomes the last one.
LEMMA EndStep ==
    ASSUME InputsAreValid, PlannerIsValid, PlanInv, EndPlan
    PROVE  PlanInv'
<1>1. /\ stage = "pack" /\ packed = Len(blocks) /\ stage' = "done" /\ chunk' = << >>
      /\ batches' = IF chunk = << >> THEN batches ELSE Append(batches, chunk)
      /\ UNCHANGED <<fragments, blocks, start, current, seen, packed, error>>
  BY DEF EndPlan
<1>2. /\ packed \in 0..Len(blocks) /\ chunk \in Seq(Sendable) /\ batches \in Seq(Seq(Sendable))
      /\ FlattenSeq(batches) \o chunk = [k \in 1..packed |-> Ordered[k]]
      /\ WithinLimits(chunk)
      /\ Greedy(batches)
      /\ batches # << >> => chunk # << >> /\ FullBefore(batches[Len(batches)], chunk[1])
  BY <1>1 DEF PlanInv, PackInv
<1>3. /\ Ordered' = Ordered /\ Sendable' = Sendable /\ error = Null /\ Passed' /\ Len(blocks') = Len(blocks)
  <2>1. error = Null
    BY <1>1, SendableFacts
  <2> QED
    BY <1>1, <2>1, SameBlocks DEF Passed, PlanInv, InputsAreValid, Errors
<1>4. /\ FlattenSeq(batches) \in Seq(Sendable)
      /\ FlattenSeq(Append(batches, chunk)) = FlattenSeq(batches) \o chunk
  BY <1>2, FlattenAppend
<1>5. batches' \in Seq(Seq(Sendable)) /\ Greedy(batches')
  <2>1. CASE chunk = << >>
    BY <1>1, <1>2, <2>1
  <2>2. CASE chunk # << >>
    BY <1>1, <1>2, <2>2, CloseBatch
  <2> QED
    BY <2>1, <2>2
<1>6. FlattenSeq(batches') \o chunk' = [k \in 1..packed' |-> Ordered[k]]
  <2>1. CASE chunk = << >>
    BY <1>1, <1>2, <2>1
  <2>2. CASE chunk # << >>
    <3>1. (FlattenSeq(batches) \o chunk) \in Seq(Sendable)
      <4> DEFINE flat == FlattenSeq(batches)
      <4>1. flat \in Seq(Sendable)
        BY <1>4
      <4> HIDE DEF flat
      <4>2. flat \o chunk \in Seq(Sendable)
        BY <1>2, <4>1
      <4> QED
        BY <4>2 DEF flat
    <3> DEFINE flat == FlattenSeq(batches) \o chunk
    <3>2. flat \in Seq(Sendable) /\ flat = [k \in 1..packed |-> Ordered[k]] /\ FlattenSeq(batches') = flat
      BY <1>1, <1>2, <1>4, <2>2, <3>1
    <3> HIDE DEF flat
    <3>3. flat \o << >> = flat
      BY <3>2
    <3> QED
      BY <1>1, <3>2, <3>3
  <2> QED
    BY <2>1, <2>2
<1>7. WithinLimits(<< >>)
  BY BytesOfNone DEF WithinLimits, PlannerIsValid
<1>8. PackInv'
  BY <1>1, <1>2, <1>3, <1>5, <1>6, <1>7 DEF PackInv
<1> QED
  BY <1>1, <1>8, PackMoves

-----------------------------------------------------------------------------
(* The theorems.                                                           *)

\* The invariant holds initially.
LEMMA InitPlanInv ==
    ASSUME InputsAreValid, PlannerIsValid, PlanInit
    PROVE  PlanInv
<1>1. /\ start = 1 /\ seen = {} /\ packed = 0 /\ chunk = << >> /\ batches = << >> /\ error = Null
      /\ stage \in {"map", "check"} /\ Null \notin Errors
  BY DEF PlanInit, InputsAreValid
<1>2. /\ stage = "map" => fragments \in Artifacts /\ blocks = << >>
      /\ stage = "check" => fragments = Null /\ blocks \in Graphs
  BY DEF PlanInit
<1>3. Len(blocks) \in Nat /\ \A k \in Indices : blocks[k].order \in Int /\ blocks[k].bytes \in Int
  <2>1. CASE stage = "map"
    BY <1>2, <2>1 DEF Indices
  <2>2. CASE stage = "check"
    BY <1>2, <2>2 DEF Indices, InputsAreValid
  <2> QED
    BY <1>1, <2>1, <2>2
<1>4. BlocksInv
  BY <1>1, <1>2, <1>3 DEF BlocksInv
<1>5. ~Passed /\ ~Walking /\ stage # "walk"
  BY <1>1 DEF Passed, Walking
<1>6. WalkInv
  BY <1>1, <1>5 DEF WalkInv
<1>7. PackInv
  <2>1. WithinLimits(<< >>)
    BY BytesOfNone DEF WithinLimits, PlannerIsValid
  <2>2. FlattenSeq(batches) \o chunk = [k \in 1..packed |-> Ordered[k]]
    BY <1>1 DEF FlattenSeq
  <2> QED
    BY <1>1, <1>3, <1>5, <2>1, <2>2, GreedyNone DEF PackInv
<1> QED
  BY <1>1, <1>4, <1>6, <1>7 DEF PlanInv, Errors

\* Nothing said here can change while nothing changes.
LEMMA PlanStutters ==
    ASSUME PlanInv, UNCHANGED planVars
    PROVE  PlanInv'
<1>1. /\ UNCHANGED <<fragments, blocks, stage, start, current, seen, packed, chunk, batches, error>>
  BY DEF planVars
<1>2. /\ Ids' = Ids /\ Indices' = Indices /\ Root' = Root
      /\ (NodesAreValid' <=> NodesAreValid) /\ (ParentsAreValid' <=> ParentsAreValid)
      /\ (IsTree' <=> IsTree) /\ (\A S : CutOff(S)' <=> CutOff(S))
      /\ \A id : ParentOf(id)' = ParentOf(id)
  BY <1>1, SameBlocks
<1>3. (Passed' <=> Passed) /\ (Walking' <=> Walking)
  BY <1>1 DEF Passed, Walking
<1>4. BlocksInv'
  BY <1>1, <1>2 DEF PlanInv, BlocksInv
<1>5. WalkInv'
  BY <1>1, <1>2, <1>3 DEF PlanInv, WalkInv
<1>6. PackInv'
  BY <1>1, <1>3, PackStays DEF PlanInv, Passed
<1>7. Uploadable(fragments)' <=> Uploadable(fragments)
  BY <1>1 DEF Uploadable
<1> QED
  BY <1>1, <1>2, <1>4, <1>5, <1>6, <1>7 DEF PlanInv

\* Every step preserves the invariant.
LEMMA NextPlanInv ==
    ASSUME InputsAreValid, PlannerIsValid, PlanInv, [PlanNext]_planVars
    PROVE  PlanInv'
<1>1. CASE PlanStop \/ UNCHANGED planVars
  BY <1>1, PlanStutters DEF PlanStop
<1>2. CASE PlanStep
  BY <1>2, MapStep, CheckStep, WalkUpStep, WalkNextStep, OrderStep, PackStep, EndStep DEF PlanStep
<1> QED
  BY <1>1, <1>2 DEF PlanNext

\* What passes is a tree, what is refused as no tree is none.
LEMMA InvImpliesTrees ==
    ASSUME PlanInv
    PROVE  OnlyTreesPass
<1>1. ASSUME stage = "pack" PROVE IsTree
  <2>1. /\ Len(blocks) \in Nat /\ NodesAreValid /\ ParentsAreValid
        /\ start \in Nat /\ start > Len(blocks)
        /\ \A S : CutOff(S) => \A k \in S : start <= k
    BY <1>1 DEF PlanInv, BlocksInv, WalkInv, Passed
  <2>2. \A S : CutOff(S) => S = {}
    <3> SUFFICES ASSUME NEW S, CutOff(S), NEW k \in S PROVE FALSE
      OBVIOUS
    <3>1. k \in 1..Len(blocks) /\ start <= k
      BY <2>1 DEF CutOff, Indices
    <3> QED
      BY <2>1, <3>1
  <2> QED
    BY <2>1, <2>2, TreeFacts DEF ParentsAreValid
<1> QED
  BY <1>1 DEF OnlyTreesPass, PlanInv

\* The batches are within the limits and as large as they allow.
LEMMA InvImpliesGreedy ==
    ASSUME PlanInv
    PROVE  BatchesAreTheGreedyPartition
<1>1. \A k \in 1..Len(batches) - 1 : k \in 1..Len(batches) /\ k + 1 <= Len(batches)
  BY DEF PlanInv, PackInv
<1> QED
  BY <1>1 DEF PlanInv, PackInv, Greedy, BatchesAreTheGreedyPartition, WithinLimits, FullBefore

\* An artifact is sent whole and in order.
LEMMA InvImpliesUploadable ==
    ASSUME InputsAreValid, PlannerIsValid, PlanInv
    PROVE  MappedArtifactIsUploadable
<1> SUFFICES ASSUME fragments # Null, Uploadable(fragments)
             PROVE  /\ error \notin {"validation", "wire"}
                    /\ stage = "done" /\ error = Null =>
                          LET sent == FlattenSeq(batches)
                          IN  /\ Len(sent) = Len(fragments) + 1
                              /\ sent[1].id = RootId
                              /\ \A i \in 2..Len(sent) - 1 :
                                    SequenceOf(sent[i].id) < SequenceOf(sent[i + 1].id)
  BY DEF MappedArtifactIsUploadable
<1>1. stage = "done" /\ error # "mapping" =>
         fragments \in Artifacts /\ FragmentsAreValid(fragments) /\ blocks = MappedBlocks(fragments)
  BY DEF PlanInv, BlocksInv
<1>2. error \notin {"validation", "wire"}
  <2>1. error # "wire"
    BY DEF PlanInv
  <2>2. ASSUME error = "validation" PROVE FALSE
    <3>1. ~IsTree /\ stage = "done"
      BY <2>2 DEF PlanInv, BlocksInv, InputsAreValid, Errors
    <3> QED
      BY <1>1, <2>2, <3>1, MappedIsTree
  <2> QED
    BY <2>1, <2>2
<1>3. ASSUME stage = "done", error = Null
      PROVE  LET sent == FlattenSeq(batches)
             IN  /\ Len(sent) = Len(fragments) + 1
                 /\ sent[1].id = RootId
                 /\ \A i \in 2..Len(sent) - 1 : SequenceOf(sent[i].id) < SequenceOf(sent[i + 1].id)
  <2> DEFINE sent == FlattenSeq(batches)
             n == Len(fragments)
  <2>1. fragments \in Artifacts /\ FragmentsAreValid(fragments) /\ blocks = MappedBlocks(fragments)
    BY <1>1, <1>3 DEF InputsAreValid, Errors
  <2>2. PICK p \in [1..n -> 1..n] :
           /\ \A i, k \in 1..n : i < k => fragments[p[i]].sequence < fragments[p[k]].sequence
           /\ \A k \in 1..n : blocks[k + 1] = BlockOf(fragments[p[k]], k)
    BY <2>1, MappedFacts
  <2>3. n \in Nat /\ Len(blocks) = n + 1 /\ blocks[1] = RootBlock /\ Indices = 1..n + 1
    BY <2>1, MappedFacts DEF Indices
  <2>4. \A k \in 1..n + 1 : Ordered[k] = blocks[k]
    BY <2>1, <2>3, MappedIsTree
  <2>5. sent = [k \in 1..n + 1 |-> Ordered[k]]
    <3>1. /\ batches \in Seq(Seq(Sendable)) /\ packed = Len(blocks)
          /\ sent \o << >> = [k \in 1..packed |-> Ordered[k]]
      BY <1>3 DEF PlanInv, PackInv
    <3>2. sent \in Seq(Sendable)
      <4>1. << >> \in Seq(Sendable)
        OBVIOUS
      <4> QED
        BY <3>1, <4>1, FlattenAppend
    <3> HIDE DEF sent
    <3>3. sent \o << >> = sent
      BY <3>2
    <3> QED
      BY <2>3, <3>1, <3>3
  <2> HIDE DEF sent
  <2>6. Len(sent) = n + 1 /\ sent[1] = RootBlock /\ \A k \in 1..n : sent[k + 1] = blocks[k + 1]
    BY <2>3, <2>4, <2>5
  <2>7. sent[1].id = RootId
    <3>1. RootBlock.id = RootId
      BY DEF RootBlock
    <3> QED
      BY <2>6, <3>1, Zenon
  <2>8. \A k \in 1..n : SequenceOf(sent[k + 1].id) = fragments[p[k]].sequence
    <3> TAKE k \in 1..n
    <3>1. p[k] \in 1..n /\ Strip(fragments[p[k]].id) = fragments[p[k]].id
      BY <2>2 DEF Uploadable
    <3>2. sent[k + 1].id = fragments[p[k]].id
      <4>1. sent[k + 1] = BlockOf(fragments[p[k]], k)
        BY <2>2, <2>6
      <4>2. BlockOf(fragments[p[k]], k).id = Strip(fragments[p[k]].id)
        BY DEF BlockOf
      <4> QED
        BY <3>1, <4>1, <4>2, Zenon
    <3>3. \A a, c \in 1..n : fragments[a].id = fragments[c].id => a = c
      <4> DEFINE ids == [m \in 1..Len(fragments) |-> fragments[m].id]
      <4>1. Unique(ids)
        BY <2>1 DEF FragmentsAreValid
      <4>2. Len(ids) = n /\ \A m \in 1..n : ids[m] = fragments[m].id
        BY <2>3
      <4> HIDE DEF ids
      <4> QED
        BY <4>1, <4>2 DEF Unique
    <3>4. (CHOOSE m \in 1..n : fragments[m].id = fragments[p[k]].id) = p[k]
      BY <3>1, <3>3
    <3> QED
      BY <3>2, <3>4 DEF SequenceOf
  <2>9. ASSUME NEW i \in 2..Len(sent) - 1
        PROVE  SequenceOf(sent[i].id) < SequenceOf(sent[i + 1].id)
    <3>1. PICK k \in 1..n : i = k + 1 /\ k + 1 \in 1..n
      <4>1. i - 1 \in 1..n /\ i = (i - 1) + 1 /\ (i - 1) + 1 \in 1..n
        BY <2>3, <2>6
      <4> QED
        BY <4>1
    <3>2. fragments[p[k]].sequence < fragments[p[k + 1]].sequence
      <4>1. k < k + 1
        BY <2>3
      <4> HIDE DEF n
      <4> QED
        BY <2>2, <3>1, <4>1
    <3> QED
      BY <2>8, <3>1, <3>2
  <2>10. /\ Len(sent) = n + 1
         /\ sent[1].id = RootId
         /\ \A i \in 2..Len(sent) - 1 : SequenceOf(sent[i].id) < SequenceOf(sent[i + 1].id)
    BY <2>6, <2>7, <2>9
  <2> QED
    BY <2>10 DEF sent
<1> QED
  BY <1>2, <1>3

\* PlanInv is an invariant of the planner, for every artifact and graph of blocks
\* and all limits.
THEOREM PlanInvariance == PlanSpec => []PlanInv
<1>1. PlanInit => PlanInv
  BY InitPlanInv, PlanAssumption
<1>2. PlanInv /\ [PlanNext]_planVars => PlanInv'
  BY NextPlanInv, PlanAssumption
<1> QED
  BY <1>1, <1>2, PTL DEF PlanSpec

\* validate_logical_blocks accepts one connected tree and nothing else, whatever
\* the number of blocks; _partition fills its batches greedily and drops nothing;
\* and what the mapper makes of an uploadable artifact passes and is sent whole,
\* root first and then by sequence number.
THEOREM PlanIsGreedy == PlanSpec => []PlanIsTheGreedyPartition
<1>1. PlanInv => PlanIsTheGreedyPartition
  BY InvImpliesTrees, InvImpliesGreedy, InvImpliesUploadable, PlanAssumption
     DEF PlanIsTheGreedyPartition
<1> QED
  BY <1>1, PlanInvariance, PTL

-----------------------------------------------------------------------------
(* Splitter: sums.                                                          *)

\* The partial sums of a sequence of numbers.
IsTotal(s, f) == f = [n \in 0..Len(s) |-> IF n = 0 THEN 0 ELSE f[n - 1] + s[n]]

\* There are such sums, and Total is the last of them.
LEMMA TotalFacts ==
    ASSUME NEW s \in Seq(Int)
    PROVE  \E f : /\ f \in [0..Len(s) -> Int] /\ f[0] = 0
                  /\ \A n \in 1..Len(s) : f[n] = f[n - 1] + s[n]
                  /\ Total(s) = f[Len(s)]
<1> DEFINE size == [n \in 1..Len(s) |-> s[n]]
           f == CHOOSE f : IsTotal(s, f)
<1>1. Len(s) \in Nat /\ size \in [1..Len(s) -> Int]
  OBVIOUS
<1>2. \E g : IsTotal(s, g)
  <2>1. PICK g : g = [k \in 0..Len(s) |-> IF k = 0 THEN 0 ELSE g[k - 1] + size[k]]
    <3> HIDE DEF size
    <3> QED
      BY <1>1, SumSolution
  <2>2. \A k \in 0..Len(s) : k # 0 => size[k] = s[k]
    OBVIOUS
  <2> HIDE DEF size
  <2>3. g = [k \in 0..Len(s) |-> IF k = 0 THEN 0 ELSE g[k - 1] + s[k]]
    BY <2>1, <2>2
  <2> QED
    BY <2>3 DEF IsTotal
<1>3. IsTotal(s, f)
  BY <1>2
<1>4. Total(s) = f[Len(s)]
  BY DEF Total, IsTotal
<1> HIDE DEF f
<1>5. f[0] = 0 /\ \A n \in 1..Len(s) : f[n] = f[n - 1] + s[n]
  BY <1>1, <1>3 DEF IsTotal
<1>6. \A n \in 0..Len(s) : f[n] \in Int
  <2> DEFINE S == {n \in 0..Len(s) : f[n] \in Int}
  <2>1. 0 \in S
    BY <1>1, <1>5
  <2>2. \A k \in 1..Len(s) : k - 1 \in S => k \in S
    BY <1>5
  <2> HIDE DEF S
  <2>3. \A k \in 0..Len(s) : k \in S
    BY <1>1, <2>1, <2>2, InductionUpTo
  <2> QED
    BY <2>3 DEF S
<1>7. f \in [0..Len(s) -> Int]
  BY <1>3, <1>6 DEF IsTotal
<1> QED
  BY <1>4, <1>5, <1>7

\* Sums, number by number.
LEMMA TotalAppend ==
    ASSUME NEW s \in Seq(Int)
    PROVE  /\ Total(s) \in Int /\ Total(<< >>) = 0
           /\ \A x \in Int : Total(<<x>>) = x /\ Total(Append(s, x)) = Total(s) + x
<1>1. ASSUME NEW t \in Seq(Int), NEW y \in Int
      PROVE  Total(t) \in Int /\ Total(Append(t, y)) = Total(t) + y
  <2> DEFINE n == Len(t)
             tt == Append(t, y)
  <2>1. /\ tt \in Seq(Int) /\ Len(tt) = n + 1 /\ n \in Nat /\ tt[n + 1] = y
        /\ \A k \in 1..n : tt[k] = t[k]
    OBVIOUS
  <2>2. PICK f : /\ f \in [0..n -> Int] /\ f[0] = 0
                 /\ \A k \in 1..n : f[k] = f[k - 1] + t[k]
                 /\ Total(t) = f[n]
    BY TotalFacts
  <2> HIDE DEF tt
  <2>3. PICK g : /\ g \in [0..n + 1 -> Int] /\ g[0] = 0
                 /\ \A k \in 1..n + 1 : g[k] = g[k - 1] + tt[k]
                 /\ Total(tt) = g[n + 1]
    BY <2>1, TotalFacts
  <2> HIDE DEF n
  <2> DEFINE S == {k \in 0..n : f[k] = g[k]}
  <2>4. 0 \in S
    BY <2>1, <2>2, <2>3
  <2>5. \A k \in 1..n : k - 1 \in S => k \in S
    <3> SUFFICES ASSUME NEW k \in 1..n, k - 1 \in S PROVE k \in 0..n /\ f[k] = g[k]
      BY <2>1
    <3>1. f[k - 1] = g[k - 1] /\ k \in 1..n + 1
      BY <2>1
    <3>2. tt[k] = t[k] /\ f[k] = f[k - 1] + t[k] /\ g[k] = g[k - 1] + tt[k]
      BY <2>1, <2>2, <2>3, <3>1
    <3> QED
      BY <2>1, <3>1, <3>2
  <2> HIDE DEF S
  <2>6. n \in S
    BY <2>1, <2>4, <2>5, InductionUpTo, n \in 0..n
  <2>7. f[n] = g[n] /\ n + 1 \in 1..n + 1 /\ (n + 1) - 1 = n /\ f[n] \in Int
    BY <2>1, <2>2, <2>6 DEF S
  <2>8. g[n + 1] = g[n] + y
    BY <2>1, <2>3, <2>7
  <2> QED
    BY <2>2, <2>3, <2>7, <2>8 DEF tt
<1>2. Total(<< >>) = 0
  <2>1. << >> \in Seq(Int) /\ Len(<< >>) = 0
    OBVIOUS
  <2>2. PICK f : f[0] = 0 /\ Total(<< >>) = f[Len(<< >>)]
    BY <2>1, TotalFacts
  <2> QED
    BY <2>1, <2>2
<1>3. ASSUME NEW x \in Int PROVE Total(<<x>>) = x
  <2>1. <<x>> = Append(<< >>, x) /\ << >> \in Seq(Int)
    OBVIOUS
  <2>2. Total(Append(<< >>, x)) = Total(<< >>) + x
    BY <1>1, <2>1
  <2> QED
    BY <1>2, <2>1, <2>2
<1> QED
  BY <1>1, <1>2, <1>3

\* The sum of no number, and of one.
LEMMA TotalOfOne ==
    ASSUME NEW x \in Int
    PROVE  Total(<< >>) = 0 /\ Total(<<x>>) = x
<1>1. \A s \in Seq(Int) : Total(<< >>) = 0 /\ \A y \in Int : Total(<<y>>) = y
  BY TotalAppend, Zenon
<1>2. << >> \in Seq(Int)
  OBVIOUS
<1> QED
  BY <1>1, <1>2, Zenon

-----------------------------------------------------------------------------
(* What it means that tokens tell a text: the same tokens, or, where one    *)
(* had to be cut, as many characters.                                       *)

Strings == Seq(Tokens)

IsWhole(toks) == \A k \in 1..Len(toks) : ~(toks[k].c > HardChars)

Retells(mine, told) ==
    /\ mine \in Strings /\ told \in Strings
    /\ ClustersOf(mine) = ClustersOf(told)
    /\ IsWhole(told) => mine = told

\* The clusters of each token.
ClusterLists(toks) == [k \in 1..Len(toks) |-> toks[k].g]

\* They are taken token by token.
LEMMA ClusterListsConcat ==
    ASSUME NEW s \in Strings, NEW t \in Strings
    PROVE  /\ ClusterLists(s) \in Seq(Clusters) /\ ClusterLists(t) \in Seq(Clusters)
           /\ ClusterLists(s \o t) = ClusterLists(s) \o ClusterLists(t)
<1>1. \A k \in 1..Len(s) : s[k].g \in Clusters
  BY DEF Strings, Tokens
<1>2. \A k \in 1..Len(t) : t[k].g \in Clusters
  BY DEF Strings, Tokens
<1>3. Len(s) \in Nat /\ Len(t) \in Nat
  BY DEF Strings
<1> DEFINE a == ClusterLists(s)
           b == ClusterLists(t)
<1>4. a \in Seq(Clusters) /\ Len(a) = Len(s) /\ \A k \in 1..Len(s) : a[k] = s[k].g
  BY <1>1, <1>3 DEF ClusterLists
<1>5. b \in Seq(Clusters) /\ Len(b) = Len(t) /\ \A k \in 1..Len(t) : b[k] = t[k].g
  BY <1>2, <1>3 DEF ClusterLists
<1> HIDE DEF a, b
<1>6. /\ s \o t \in Strings /\ Len(s \o t) = Len(s) + Len(t)
      /\ \A k \in 1..Len(s \o t) : (s \o t)[k] = IF k <= Len(s) THEN s[k] ELSE t[k - Len(s)]
  BY DEF Strings
<1> DEFINE v == s \o t
<1> HIDE DEF v
<1>7. ClusterLists(v) = [k \in 1..Len(s) + Len(t) |-> v[k].g]
  BY <1>6 DEF ClusterLists, v
<1>8. \A k \in 1..Len(s) + Len(t) : v[k].g = IF k <= Len(s) THEN a[k] ELSE b[k - Len(s)]
  BY <1>3, <1>4, <1>5, <1>6, SMTT(30) DEF v
<1>9. a \o b = [k \in 1..Len(s) + Len(t) |-> IF k <= Len(s) THEN a[k] ELSE b[k - Len(s)]]
  <2>1. a \o b = [k \in 1..Len(a) + Len(b) |-> IF k <= Len(a) THEN a[k] ELSE b[k - Len(a)]]
    BY <1>4, <1>5, ConcatPlaces, Zenon
  <2> QED
    BY <1>4, <1>5, <2>1
<1>10. ClusterLists(v) = a \o b
  BY <1>7, <1>8, <1>9
<1> QED
  BY <1>4, <1>5, <1>10 DEF v, a, b

\* The clusters of a concatenation.
LEMMA ClustersConcat ==
    ASSUME NEW s \in Strings, NEW t \in Strings
    PROVE  /\ ClustersOf(s) \in Clusters /\ ClustersOf(t) \in Clusters
           /\ ClustersOf(s \o t) = ClustersOf(s) \o ClustersOf(t)
<1> DEFINE a == ClusterLists(s)
           b == ClusterLists(t)
<1>1. a \in Seq(Seq(Nat \ {0})) /\ b \in Seq(Seq(Nat \ {0})) /\ ClusterLists(s \o t) = a \o b
  BY ClusterListsConcat DEF Clusters
<1>2. ClustersOf(s) = FlattenSeq(a) /\ ClustersOf(t) = FlattenSeq(b)
      /\ ClustersOf(s \o t) = FlattenSeq(ClusterLists(s \o t))
  BY DEF ClustersOf, ClusterLists
<1> HIDE DEF a, b
<1>3. /\ FlattenSeq(a) \in Seq(Nat \ {0}) /\ FlattenSeq(b) \in Seq(Nat \ {0})
      /\ FlattenSeq(a \o b) = FlattenSeq(a) \o FlattenSeq(b)
  BY <1>1, FlattenConcat
<1> QED
  BY <1>1, <1>2, <1>3 DEF Clusters

\* What tells two texts tells both together.
LEMMA RetellsConcat ==
    ASSUME NEW v, NEW x, NEW w, NEW y, Retells(v, x), Retells(w, y)
    PROVE  Retells(v \o w, x \o y)
<1>1. v \in Strings /\ x \in Strings /\ w \in Strings /\ y \in Strings
  BY DEF Retells
<1>2. v \o w \in Strings /\ x \o y \in Strings
  BY <1>1 DEF Strings
<1>3. ClustersOf(v \o w) = ClustersOf(x \o y)
  <2>1. ClustersOf(v) = ClustersOf(x) /\ ClustersOf(w) = ClustersOf(y)
    BY DEF Retells
  <2>2. /\ ClustersOf(v \o w) = ClustersOf(v) \o ClustersOf(w)
        /\ ClustersOf(x \o y) = ClustersOf(x) \o ClustersOf(y)
    BY <1>1, ClustersConcat, Zenon
  <2> QED
    BY <2>1, <2>2, Zenon
<1>4. IsWhole(x \o y) => IsWhole(x) /\ IsWhole(y)
  <2> SUFFICES ASSUME IsWhole(x \o y) PROVE IsWhole(x) /\ IsWhole(y)
    OBVIOUS
  <2>1. ASSUME NEW k \in 1..Len(x) PROVE ~(x[k].c > HardChars)
    <3>1. k \in 1..Len(x \o y) /\ (x \o y)[k] = x[k]
      BY <1>1 DEF Strings
    <3> QED
      BY <3>1 DEF IsWhole
  <2>2. ASSUME NEW k \in 1..Len(y) PROVE ~(y[k].c > HardChars)
    <3>1. Len(x) + k \in 1..Len(x \o y) /\ (x \o y)[Len(x) + k] = y[k]
      BY <1>1 DEF Strings
    <3> QED
      BY <3>1 DEF IsWhole
  <2> QED
    BY <2>1, <2>2 DEF IsWhole
<1> QED
  BY <1>2, <1>3, <1>4 DEF Retells

\* A text tells itself.
LEMMA RetellsItself ==
    ASSUME NEW x \in Strings
    PROVE  Retells(x, x)
  BY DEF Retells

-----------------------------------------------------------------------------
(* _force_text_chunks: what becomes of a part that is too long.             *)

\* A cluster of g is beyond the guard.
HoldsGiant(g) == \E n \in 1..Len(g) : g[n] > HardChars

\* A chunk is within the guards or a single token, not too long but for a cluster.
IsAlone(c) == Len(c) = 1 /\ (c[1].c > HardChars => HoldsGiant(c[1].g))

WithinGuards(c) == c \in Strings /\ c # << >> /\ (~TooLong(c) \/ IsAlone(c))

AllFit(cs) == cs \in Seq(Strings) /\ \A k \in 1..Len(cs) : WithinGuards(cs[k])

\* What the assumption says of the numbers.
LEMMA GuardFacts ==
    HardChars \in Nat \ {0} /\ HardSentences \in Nat \ {0} /\ Null \notin Nat
<1>1. /\ MinChars \in Nat /\ TargetChars \in Nat /\ SoftChars \in Nat /\ HardChars \in Nat
      /\ TargetSentences \in Nat /\ HardSentences \in Nat /\ Null \notin Nat
  BY SplitAssumption
<1>2. /\ 0 < MinChars /\ MinChars <= TargetChars /\ TargetChars <= SoftChars
      /\ SoftChars <= HardChars /\ 0 < TargetSentences /\ TargetSentences <= HardSentences
  BY SplitAssumption DEF ProfileIsValid
<1> QED
  BY <1>1, <1>2

\* Chunks that fit stay so when more of them follow.
LEMMA AllFitConcat ==
    ASSUME NEW a, NEW b, AllFit(a), AllFit(b)
    PROVE  AllFit(a \o b)
<1>1. a \in Seq(Strings) /\ b \in Seq(Strings)
  BY DEF AllFit
<1>2. /\ a \o b \in Seq(Strings) /\ Len(a \o b) = Len(a) + Len(b)
      /\ \A k \in 1..Len(a \o b) : (a \o b)[k] = IF k <= Len(a) THEN a[k] ELSE b[k - Len(a)]
  BY <1>1
<1>3. ASSUME NEW k \in 1..Len(a \o b) PROVE WithinGuards((a \o b)[k])
  <2>1. CASE k <= Len(a)
    BY <1>1, <1>2, <2>1 DEF AllFit
  <2>2. CASE ~(k <= Len(a))
    <3>1. k - Len(a) \in 1..Len(b)
      BY <1>1, <1>2, <2>2
    <3> QED
      BY <1>2, <2>2, <3>1 DEF AllFit
  <2> QED
    BY <2>1, <2>2
<1> QED
  BY <1>2, <1>3 DEF AllFit

\* The clusters of one token.
LEMMA ClustersOfOne ==
    ASSUME NEW t \in Tokens
    PROVE  <<t>> \in Strings /\ ClustersOf(<<t>>) = t.g /\ ClustersOf(<< >>) = << >>
<1>1. <<t>> \in Strings /\ t.g \in Seq(Nat \ {0}) /\ << >> \in Seq(Seq(Nat \ {0}))
  BY DEF Strings, Tokens, Clusters
<1>2. ClusterLists(<<t>>) = Append(<< >>, t.g) /\ ClusterLists(<< >>) = << >>
  BY DEF ClusterLists
<1>3. FlattenSeq(<< >>) = << >>
  BY DEF FlattenSeq
<1>4. FlattenSeq(Append(<< >>, t.g)) = FlattenSeq(<< >>) \o t.g /\ << >> \o t.g = t.g
  <2>1. FlattenSeq(Append(<< >>, t.g)) = FlattenSeq(<< >>) \o t.g
    BY <1>1, FlattenAppend, Zenon
  <2> QED
    BY <1>1, <2>1
<1>5. ClustersOf(<<t>>) = FlattenSeq(ClusterLists(<<t>>))
      /\ ClustersOf(<< >>) = FlattenSeq(ClusterLists(<< >>))
  BY DEF ClustersOf, ClusterLists
<1> QED
  BY <1>1, <1>2, <1>3, <1>4, <1>5

\* Clusters have characters.
LEMMA ClustersAreLong ==
    ASSUME NEW g \in Clusters, g # << >>
    PROVE  Total(g) \in Nat \ {0}
<1> DEFINE n == Len(g)
<1>1. g \in Seq(Int) /\ n \in Nat /\ n # 0 /\ \A k \in 1..n : g[k] \in Nat \ {0}
  BY DEF Clusters
<1>2. PICK f : /\ f \in [0..n -> Int] /\ f[0] = 0
               /\ \A k \in 1..n : f[k] = f[k - 1] + g[k]
               /\ Total(g) = f[n]
  BY <1>1, TotalFacts
<1> HIDE DEF n
<1> DEFINE S == {k \in 0..n : f[k] >= k}
<1>3. 0 \in S
  BY <1>1, <1>2
<1>4. \A k \in 1..n : k - 1 \in S => k \in S
  <2> SUFFICES ASSUME NEW k \in 1..n, k - 1 \in S PROVE k \in 0..n /\ f[k] >= k
    OBVIOUS
  <2>1. f[k - 1] \in Int /\ f[k - 1] >= k - 1 /\ f[k] = f[k - 1] + g[k] /\ g[k] \in Nat \ {0}
    BY <1>1, <1>2
  <2> QED
    BY <1>1, <2>1
<1> HIDE DEF S
<1>5. n \in S
  BY <1>1, <1>3, <1>4, InductionUpTo, n \in 0..n
<1>6. f[n] >= n /\ f[n] \in Int
  BY <1>1, <1>2, <1>5 DEF S
<1> QED
  BY <1>1, <1>2, <1>6

\* A piece of a token is a token, and a chunk of its own.
LEMMA PieceFacts ==
    ASSUME NEW t \in Tokens, NEW g \in Clusters, g # << >>,
           Total(g) > HardChars => HoldsGiant(g)
    PROVE  /\ Piece(t, g) \in Strings /\ WithinGuards(Piece(t, g))
           /\ ClustersOf(Piece(t, g)) = g
<1> DEFINE p == [t EXCEPT !.c = Total(g), !.g = g]
<1>1. Total(g) \in Nat \ {0}
  BY ClustersAreLong
<1>2. p \in Tokens /\ p.g = g /\ p.c = Total(g)
  BY <1>1 DEF Tokens
<1>3. Piece(t, g) = <<p>>
  BY DEF Piece
<1> HIDE DEF p
<1>4. <<p>> \in Strings /\ ClustersOf(<<p>>) = g /\ <<p>> # << >>
  BY <1>2, ClustersOfOne
<1>5. IsAlone(<<p>>)
  BY <1>2 DEF IsAlone
<1> QED
  BY <1>3, <1>4, <1>5 DEF WithinGuards

\* What the loop over the clusters of a token knows of those it has met.
GraphemeInv(acc, told) ==
    /\ acc \in [chunks : Seq(Strings), cur : Clusters]
    /\ AllFit(acc.chunks)
    /\ FlattenSeq(acc.chunks) \in Strings
    /\ ClustersOf(FlattenSeq(acc.chunks)) \o acc.cur = told
    /\ told # << >> => acc.cur # << >>
    /\ acc.cur # << >> => (Total(acc.cur) > HardChars => HoldsGiant(acc.cur))

\* The open piece joins the chunks.
LEMMA PieceJoins ==
    ASSUME NEW acc, NEW told, GraphemeInv(acc, told), acc.cur # << >>, NEW t \in Tokens
    PROVE  LET all == Append(acc.chunks, Piece(t, acc.cur))
           IN  /\ AllFit(all) /\ all \in Seq(Strings) /\ all # << >>
               /\ FlattenSeq(all) \in Strings /\ ClustersOf(FlattenSeq(all)) = told
<1> DEFINE chunks == acc.chunks
           p      == Piece(t, acc.cur)
           all    == Append(chunks, p)
           said   == FlattenSeq(chunks)
<1>1. /\ chunks \in Seq(Strings) /\ AllFit(chunks) /\ said \in Strings /\ acc.cur \in Clusters
      /\ ClustersOf(said) \o acc.cur = told
  BY DEF GraphemeInv
<1>2. p \in Strings /\ WithinGuards(p) /\ ClustersOf(p) = acc.cur
  BY <1>1, PieceFacts DEF GraphemeInv
<1> HIDE DEF chunks, p
<1>3. AllFit(<<p>>)
  BY <1>2 DEF AllFit
<1>4. all = chunks \o <<p>> /\ all \in Seq(Strings) /\ all # << >>
  BY <1>1, <1>2, AppendFacts
<1>5. AllFit(all)
  <2> HIDE DEF all
  <2> QED
    BY <1>1, <1>3, <1>4, AllFitConcat
<1>6. FlattenSeq(all) = said \o p
  BY <1>1, <1>2, FlattenAppend DEF Strings
<1> HIDE DEF said, all
<1>7. said \o p \in Strings
  BY <1>1, <1>2 DEF Strings
<1>8. ClustersOf(said \o p) = told
  BY <1>1, <1>2, ClustersConcat
<1> QED
  BY <1>4, <1>5, <1>6, <1>7, <1>8 DEF all, chunks, p

\* One cluster more.
LEMMA GraphemeStepKeeps ==
    ASSUME NEW acc, NEW told \in Clusters, GraphemeInv(acc, told), NEW t \in Tokens,
           NEW x \in Nat \ {0}
    PROVE  GraphemeInv(GraphemeStep(acc, t, x), Append(told, x))
<1> DEFINE cur  == acc.cur
           said == ClustersOf(FlattenSeq(acc.chunks))
           new  == GraphemeStep(acc, t, x)
<1>1. /\ acc = [chunks |-> acc.chunks, cur |-> cur] /\ acc.chunks \in Seq(Strings)
      /\ cur \in Clusters /\ FlattenSeq(acc.chunks) \in Strings /\ said \o cur = told
      /\ AllFit(acc.chunks)
      /\ cur # << >> => (Total(cur) > HardChars => HoldsGiant(cur))
  BY DEF GraphemeInv
<1>2. said \in Clusters
  BY <1>1, ClustersConcat
<1>3. Append(cur, x) \in Clusters /\ Append(cur, x) # << >> /\ <<x>> \in Clusters
      /\ Append(told, x) = told \o <<x>>
  BY <1>1, AppendFacts DEF Clusters
<1>4. CASE cur # << >> /\ Total(cur) + x > HardChars
  <2> DEFINE all == Append(acc.chunks, Piece(t, cur))
  <2>1. new = [chunks |-> all, cur |-> <<x>>]
    BY <1>4 DEF GraphemeStep
  <2>2. /\ AllFit(all) /\ all \in Seq(Strings)
        /\ FlattenSeq(all) \in Strings /\ ClustersOf(FlattenSeq(all)) = told
    BY <1>4, PieceJoins
  <2>3. <<x>> # << >>
    OBVIOUS
  <2>4. Total(<<x>>) > HardChars => HoldsGiant(<<x>>)
    BY TotalOfOne, x \in Int DEF HoldsGiant
  <2> HIDE DEF all, new
  <2> QED
    BY <1>3, <2>1, <2>2, <2>3, <2>4 DEF GraphemeInv, new
<1>5. CASE ~(cur # << >> /\ Total(cur) + x > HardChars)
  <2>1. new = [acc EXCEPT !.cur = Append(cur, x)]
    BY <1>5 DEF GraphemeStep
  <2>2. new = [chunks |-> acc.chunks, cur |-> Append(cur, x)]
    BY <1>1, <2>1
  <2>3. said \o Append(cur, x) = Append(told, x)
    <3> DEFINE P == Nat \ {0}
    <3> HIDE DEF said, cur
    <3>1. said \in Seq(P) /\ cur \in Seq(P) /\ x \in P
      BY <1>1, <1>2 DEF Clusters
    <3> HIDE DEF P
    <3>2. said \o Append(cur, x) = Append(said \o cur, x)
      BY <3>1, ConcatAppend
    <3> QED
      BY <1>1, <3>2
  <2>4. Total(Append(cur, x)) > HardChars => HoldsGiant(Append(cur, x))
    <3>1. CASE cur = << >>
      <4>1. Append(cur, x) = <<x>>
        BY <3>1
      <4>2. Total(<<x>>) = x /\ <<x>>[1] = x /\ Len(<<x>>) = 1
        BY TotalOfOne, x \in Int
      <4> QED
        BY <4>1, <4>2 DEF HoldsGiant
    <3>2. CASE cur # << >>
      <4>1. cur \in Seq(Int) /\ x \in Int
        BY <1>1 DEF Clusters
      <4>2. Total(cur) \in Int /\ Total(Append(cur, x)) = Total(cur) + x
        BY <4>1, TotalAppend
      <4> QED
        BY <1>5, <3>2, <4>1, <4>2
    <3> QED
      BY <3>1, <3>2
  <2>5. new.chunks = acc.chunks /\ new.cur = Append(cur, x)
        /\ new \in [chunks : Seq(Strings), cur : Clusters]
    BY <1>1, <1>3, <2>2
  <2> HIDE DEF new
  <2> QED
    BY <1>1, <1>3, <2>3, <2>4, <2>5 DEF GraphemeInv, new
<1> QED
  BY <1>4, <1>5

\* The results of the loop, cluster by cluster.
IsGraphemeLoop(t, f) ==
    f = [n \in 0..Len(t.g) |->
            IF n = 0 THEN [chunks |-> << >>, cur |-> << >>] ELSE GraphemeStep(f[n - 1], t, t.g[n])]

\* A token too long is cut into pieces that hold its clusters, in order and whole.
LEMMA PiecesTell ==
    ASSUME NEW t \in Tokens, t.c > HardChars
    PROVE  /\ AllFit(GraphemeBoundedChunks(t)) /\ GraphemeBoundedChunks(t) # << >>
           /\ Retells(FlattenSeq(GraphemeBoundedChunks(t)), <<t>>)
<1> DEFINE A == {acc \in [chunks : Seq(Strings), cur : Clusters] :
                    \E told \in Clusters : GraphemeInv(acc, told)}
           empty == [chunks |-> << >>, cur |-> << >>]
           n == Len(t.g)
           step == [k \in 1..n |-> [x \in A |-> GraphemeStep(x, t, t.g[k])]]
<1>1. n \in Nat /\ t.g \in Clusters /\ \A k \in 1..n : t.g[k] \in Nat \ {0}
  BY DEF Tokens, Clusters
<1>2. GraphemeInv(empty, << >>) /\ << >> \in Clusters /\ empty \in [chunks : Seq(Strings), cur : Clusters]
  <2>1. FlattenSeq(<< >>) = << >>
    BY DEF FlattenSeq
  <2>2. << >> \in Strings /\ << >> \in Clusters /\ << >> \in Seq(Strings)
    BY DEF Strings, Clusters
  <2>3. ClustersOf(<< >>) = << >>
    BY ClustersOfOne
  <2>4. AllFit(<< >>)
    BY DEF AllFit
  <2>5. empty \in [chunks : Seq(Strings), cur : Clusters]
        /\ empty.chunks = << >> /\ empty.cur = << >> /\ << >> \o << >> = << >>
    BY <2>2
  <2> HIDE DEF empty
  <2> QED
    BY <2>1, <2>2, <2>3, <2>4, <2>5 DEF GraphemeInv
<1>3. ASSUME NEW x, NEW told \in Clusters, GraphemeInv(x, told), NEW k \in 1..n
      PROVE  /\ GraphemeStep(x, t, t.g[k]) \in A
             /\ GraphemeInv(GraphemeStep(x, t, t.g[k]), Append(told, t.g[k]))
  <2>1. GraphemeInv(GraphemeStep(x, t, t.g[k]), Append(told, t.g[k]))
    BY <1>1, <1>3, GraphemeStepKeeps
  <2>2. Append(told, t.g[k]) \in Clusters
    BY <1>1 DEF Clusters
  <2>3. GraphemeStep(x, t, t.g[k]) \in [chunks : Seq(Strings), cur : Clusters]
    BY <2>1 DEF GraphemeInv
  <2> QED
    BY <2>1, <2>2, <2>3
<1>4. empty \in A
  <2> HIDE DEF empty
  <2> QED
    BY <1>2
<1>5. \A k \in 1..n : \A x \in A : GraphemeStep(x, t, t.g[k]) \in A
  BY <1>3
<1>6. \E f : IsGraphemeLoop(t, f)
  <2> HIDE DEF A
  <2>1. IsStep(step, n, A)
    BY <1>5 DEF IsStep
  <2>2. \A k \in 1..n : \A x \in A : step[k][x] = GraphemeStep(x, t, t.g[k])
    OBVIOUS
  <2> HIDE DEF step, empty, n
  <2>3. PICK f : IsRecursion(f, n, A, empty, step)
    BY <1>1, <1>4, <2>1, RecursionUpTo
  <2>4. \A k \in 1..n : f[k] = GraphemeStep(f[k - 1], t, t.g[k])
    <3> TAKE k \in 1..n
    <3>1. k - 1 \in 0..n
      BY <1>1
    <3>2. f[k - 1] \in A /\ f[k] = step[k][f[k - 1]]
      BY <2>3, <3>1 DEF IsRecursion
    <3> QED
      BY <2>2, <3>2
  <2>5. f = [k \in 0..n |-> IF k = 0 THEN empty ELSE GraphemeStep(f[k - 1], t, t.g[k])]
    BY <1>1, <2>3, <2>4 DEF IsRecursion
  <2> QED
    BY <2>5 DEF IsGraphemeLoop, n, empty
<1> DEFINE f == CHOOSE f : IsGraphemeLoop(t, f)
<1>7. IsGraphemeLoop(t, f)
  BY <1>6
<1>8. GraphemeBoundedChunks(t) = Append(f[n].chunks, Piece(t, f[n].cur))
  BY DEF GraphemeBoundedChunks, IsGraphemeLoop
<1> HIDE DEF f
<1>9. f[0] = empty /\ \A k \in 1..n : f[k] = GraphemeStep(f[k - 1], t, t.g[k])
  <2> HIDE DEF A, step
  <2>1. f = [k \in 0..n |-> IF k = 0 THEN empty ELSE GraphemeStep(f[k - 1], t, t.g[k])]
    BY <1>7 DEF IsGraphemeLoop
  <2> HIDE DEF n, empty
  <2>2. 0 \in 0..n /\ \A k \in 1..n : k \in 0..n /\ k # 0
    BY <1>1
  <2> QED
    BY <2>1, <2>2
<1> DEFINE S == {k \in 0..n : GraphemeInv(f[k], SubSeq(t.g, 1, k))}
<1>10. 0 \in S
  <2>1. SubSeq(t.g, 1, 0) = << >>
    BY <1>1 DEF Clusters
  <2> HIDE DEF empty, n, A, step
  <2>2. GraphemeInv(f[0], SubSeq(t.g, 1, 0))
    BY <1>2, <1>9, <2>1
  <2> QED
    BY <1>1, <2>2
<1>11. \A k \in 1..n : k - 1 \in S => k \in S
  <2> SUFFICES ASSUME NEW k \in 1..n, k - 1 \in S
               PROVE  k \in 0..n /\ GraphemeInv(f[k], SubSeq(t.g, 1, k))
    OBVIOUS
  <2> DEFINE before == SubSeq(t.g, 1, k - 1)
  <2>1. before \in Clusters /\ SubSeq(t.g, 1, k) = Append(before, t.g[k])
    BY <1>1, PrefixFacts DEF Clusters
  <2>2. GraphemeInv(f[k - 1], before)
    OBVIOUS
  <2> HIDE DEF before
  <2>3. GraphemeInv(GraphemeStep(f[k - 1], t, t.g[k]), Append(before, t.g[k]))
    BY <1>3, <2>1, <2>2
  <2>4. f[k] = GraphemeStep(f[k - 1], t, t.g[k])
    BY <1>9
  <2>5. k \in 0..n
    BY <1>1
  <2> QED
    BY <2>1, <2>3, <2>4, <2>5, Zenon
<1> HIDE DEF S
<1>12. n \in S
  BY <1>1, <1>10, <1>11, InductionUpTo, n \in 0..n
<1>13. SubSeq(t.g, 1, n) = t.g
  BY <1>1 DEF Clusters
<1>14. GraphemeInv(f[n], t.g)
  BY <1>12, <1>13 DEF S
<1>15. t.g # << >>
  <2>1. t.c \in Nat \ {0} /\ t.c = Total(t.g)
    BY DEF Tokens
  <2>2. Total(<< >>) = 0
    BY TotalOfOne, 0 \in Int
  <2> QED
    BY <2>1, <2>2
<1>16. f[n].cur # << >>
  BY <1>14, <1>15 DEF GraphemeInv
<1> DEFINE ps == GraphemeBoundedChunks(t)
<1>17. /\ AllFit(ps) /\ ps # << >> /\ FlattenSeq(ps) \in Strings
       /\ ClustersOf(FlattenSeq(ps)) = t.g
  BY <1>8, <1>14, <1>16, PieceJoins
<1> HIDE DEF ps
<1>18. ~IsWhole(<<t>>)
  BY DEF IsWhole
<1>19. Retells(FlattenSeq(ps), <<t>>)
  BY <1>17, <1>18, ClustersOfOne DEF Retells
<1> QED
  BY <1>17, <1>19 DEF ps

\* The open chunk as a list of chunks.
LEMMA NonEmptyFacts ==
    ASSUME NEW c \in Strings, c = << >> \/ WithinGuards(c)
    PROVE  AllFit(NonEmpty(c)) /\ FlattenSeq(NonEmpty(c)) = c
<1>1. CASE c = << >>
  <2>1. NonEmpty(c) = << >>
    BY <1>1 DEF NonEmpty
  <2>2. FlattenSeq(<< >>) = << >>
    BY DEF FlattenSeq
  <2>3. AllFit(<< >>)
    BY DEF AllFit
  <2> QED
    BY <1>1, <2>1, <2>2, <2>3
<1>2. CASE c # << >>
  <2>1. NonEmpty(c) = Append(<< >>, c) /\ Len(NonEmpty(c)) = 1 /\ NonEmpty(c)[1] = c
    BY <1>2 DEF NonEmpty
  <2>2. FlattenSeq(<< >>) = << >>
    BY DEF FlattenSeq
  <2>3. << >> \in Seq(Seq(Tokens)) /\ c \in Seq(Tokens) /\ << >> \o c = c
    BY DEF Strings
  <2>4. FlattenSeq(Append(<< >>, c)) = FlattenSeq(<< >>) \o c
    BY <2>3, FlattenAppend
  <2>5. Append(<< >>, c) \in Seq(Strings)
    OBVIOUS
  <2> QED
    BY <1>2, <2>1, <2>2, <2>3, <2>4, <2>5 DEF AllFit
<1> QED
  BY <1>1, <1>2

\* What the loop over the words knows of those it has met.
ForceInv(acc, told) ==
    /\ acc \in [chunks : Seq(Strings), cur : Strings]
    /\ AllFit(acc.chunks)
    /\ acc.cur = << >> \/ WithinGuards(acc.cur)
    /\ Retells(FlattenSeq(acc.chunks) \o acc.cur, told)
    /\ told # << >> => acc.chunks # << >> \/ acc.cur # << >>

\* One word more.
LEMMA ForceStepKeeps ==
    ASSUME NEW acc, NEW told, ForceInv(acc, told), NEW t \in Tokens
    PROVE  ForceInv(ForceStep(acc, t), Append(told, t))
<1> DEFINE chunks == acc.chunks
           cur    == acc.cur
           trial  == Append(cur, t)
           said   == FlattenSeq(chunks) \o cur
           new    == ForceStep(acc, t)
<1>1. /\ chunks \in Seq(Strings) /\ cur \in Strings /\ AllFit(chunks)
      /\ cur = << >> \/ WithinGuards(cur)
      /\ Retells(said, told)
      /\ acc = [chunks |-> chunks, cur |-> cur]
  BY DEF ForceInv
<1>2. told \in Strings /\ said \in Strings /\ <<t>> \in Strings
  BY <1>1, ClustersOfOne DEF Retells
<1>3. chunks \in Seq(Seq(Tokens)) /\ FlattenSeq(chunks) \in Strings
  <2>1. chunks \in Seq(Seq(Tokens)) /\ << >> \in Seq(Tokens)
    BY <1>1 DEF Strings
  <2> HIDE DEF chunks
  <2> QED
    BY <2>1, FlattenAppend DEF Strings
<1>4. Append(told, t) = told \o <<t>> /\ Append(told, t) # << >> /\ trial = cur \o <<t>>
      /\ trial # << >> /\ trial \in Strings
  <2>1. \A s \in Seq(Tokens) : /\ Append(s, t) \in Seq(Tokens) /\ Append(s, t) # << >>
                               /\ Append(s, t) = s \o <<t>>
    BY AppendFacts
  <2> HIDE DEF cur
  <2> QED
    BY <1>1, <1>2, <2>1 DEF Strings
<1>5. CASE t.c > HardChars
  <2> DEFINE G == GraphemeBoundedChunks(t)
  <2>1. AllFit(G) /\ G # << >> /\ Retells(FlattenSeq(G), <<t>>)
    BY <1>5, PiecesTell
  <2>2. new = [chunks |-> chunks \o NonEmpty(cur) \o G, cur |-> << >>]
    BY <1>5 DEF ForceStep
  <2>3. AllFit(NonEmpty(cur)) /\ FlattenSeq(NonEmpty(cur)) = cur
    BY <1>1, NonEmptyFacts
  <2> HIDE DEF new, chunks, cur, G
  <2> DEFINE all == chunks \o NonEmpty(cur)
  <2>4. AllFit(all)
    BY <1>1, <2>3, AllFitConcat
  <2>5. /\ G \in Seq(Seq(Tokens)) /\ NonEmpty(cur) \in Seq(Seq(Tokens))
        /\ all \in Seq(Seq(Tokens))
    BY <2>1, <2>3, <2>4 DEF AllFit, Strings
  <2>6. FlattenSeq(all) = said
    <3> DEFINE open == NonEmpty(cur)
    <3>1. open \in Seq(Seq(Tokens)) /\ FlattenSeq(open) = cur
      BY <2>3, <2>5
    <3> HIDE DEF open
    <3>2. FlattenSeq(chunks \o open) = FlattenSeq(chunks) \o FlattenSeq(open)
      BY <1>3, <3>1, FlattenConcat
    <3> QED
      BY <3>1, <3>2 DEF open
  <2> HIDE DEF all
  <2>7. FlattenSeq(all \o G) = said \o FlattenSeq(G)
    BY <2>5, <2>6, FlattenConcat
  <2> HIDE DEF said
  <2>8. AllFit(all \o G)
    BY <2>1, <2>4, AllFitConcat
  <2>9. Retells(said \o FlattenSeq(G), told \o <<t>>)
    BY <1>1, <2>1, RetellsConcat
  <2>10. all \o G # << >> /\ all \o G \in Seq(Strings)
    BY <2>1, <2>5, <2>8 DEF AllFit
  <2>11. new.chunks = all \o G /\ new.cur = << >>
         /\ new \in [chunks : Seq(Strings), cur : Strings]
    <3>1. << >> \in Strings
      BY DEF Strings
    <3>2. new = [chunks |-> all \o G, cur |-> << >>]
      BY <2>2 DEF all
    <3> QED
      BY <2>10, <3>1, <3>2
  <2>12. (said \o FlattenSeq(G)) \o << >> = said \o FlattenSeq(G)
    BY <2>9 DEF Retells, Strings
  <2> QED
    BY <1>4, <2>7, <2>8, <2>9, <2>10, <2>11, <2>12 DEF ForceInv, new
<1>6. CASE ~(t.c > HardChars) /\ cur # << >> /\ TooLong(trial)
  <2>1. new = [chunks |-> Append(chunks, cur), cur |-> <<t>>]
    BY <1>6 DEF ForceStep
  <2>2. WithinGuards(cur) /\ WithinGuards(<<t>>)
    BY <1>1, <1>2, <1>6 DEF WithinGuards, IsAlone
  <2> HIDE DEF new, chunks, cur
  <2>3. AllFit(Append(chunks, cur))
    <3>1. AllFit(<<cur>>)
      BY <1>1, <2>2 DEF AllFit
    <3>2. Append(chunks, cur) = chunks \o <<cur>>
      BY <1>1
    <3> QED
      BY <1>1, <3>1, <3>2, AllFitConcat
  <2>4. FlattenSeq(Append(chunks, cur)) = said
    <3>1. cur \in Seq(Tokens)
      BY <1>1 DEF Strings
    <3> QED
      BY <1>3, <3>1, FlattenAppend
  <2> HIDE DEF said
  <2>5. Retells(said \o <<t>>, told \o <<t>>)
    BY <1>1, <1>2, RetellsItself, RetellsConcat
  <2>6. new.chunks = Append(chunks, cur) /\ new.cur = <<t>> /\ <<t>> # << >>
        /\ new \in [chunks : Seq(Strings), cur : Strings]
    BY <1>1, <1>2, <2>1
  <2> QED
    BY <1>4, <2>2, <2>3, <2>4, <2>5, <2>6 DEF ForceInv, new
<1>7. CASE ~(t.c > HardChars) /\ ~(cur # << >> /\ TooLong(trial))
  <2>1. new = [acc EXCEPT !.cur = trial]
    BY <1>7 DEF ForceStep
  <2>2. new = [chunks |-> chunks, cur |-> trial]
    BY <1>1, <2>1
  <2>3. WithinGuards(trial)
    <3>1. cur = << >> => Len(trial) = 1 /\ trial[1] = t
      OBVIOUS
    <3> QED
      BY <1>4, <1>7, <3>1 DEF WithinGuards, IsAlone
  <2>4. FlattenSeq(chunks) \o trial = said \o <<t>>
    <3> DEFINE a == FlattenSeq(chunks)
               b == <<t>>
    <3>1. a \in Seq(Tokens) /\ cur \in Seq(Tokens) /\ b \in Seq(Tokens) /\ trial = cur \o b
      BY <1>1, <1>2, <1>3, <1>4 DEF Strings
    <3> HIDE DEF a, b, cur, trial
    <3>0. JoinsUp(Tokens)
      BY ConcatAssoc
    <3>2. (a \o cur) \o b = a \o (cur \o b)
      BY <3>0, <3>1, ZenonT(60) DEF JoinsUp
    <3> QED
      BY <3>1, <3>2 DEF a, b
  <2> HIDE DEF new, chunks, cur, trial, said
  <2>5. Retells(said \o <<t>>, told \o <<t>>)
    BY <1>1, <1>2, RetellsItself, RetellsConcat
  <2>6. new.chunks = chunks /\ new.cur = trial
        /\ new \in [chunks : Seq(Strings), cur : Strings]
    BY <1>1, <1>4, <2>2
  <2> QED
    BY <1>1, <1>4, <2>3, <2>4, <2>5, <2>6 DEF ForceInv, new
<1> QED
  BY <1>5, <1>6, <1>7

\* The results of the loop, word by word.
IsForceLoop(toks, f) ==
    f = [n \in 0..Len(toks) |->
            IF n = 0 THEN [chunks |-> << >>, cur |-> << >>] ELSE ForceStep(f[n - 1], toks[n])]

\* _force_text_chunks: chunks that fit and tell the text.
LEMMA ForceTells ==
    ASSUME NEW toks \in Strings
    PROVE  /\ AllFit(ForceTextChunks(toks))
           /\ Retells(FlattenSeq(ForceTextChunks(toks)), toks)
           /\ toks # << >> => ForceTextChunks(toks) # << >>
<1> DEFINE A == {acc \in [chunks : Seq(Strings), cur : Strings] :
                    \E told \in Strings : ForceInv(acc, told)}
           empty == [chunks |-> << >>, cur |-> << >>]
           n == Len(toks)
           step == [k \in 1..n |-> [x \in A |-> ForceStep(x, toks[k])]]
<1>1. n \in Nat /\ \A k \in 1..n : toks[k] \in Tokens
  BY DEF Strings
<1>2. << >> \in Strings /\ Append(<< >>, << >>) # << >>
  BY DEF Strings
<1>3. ForceInv(empty, << >>)
  <2>1. FlattenSeq(<< >>) = << >>
    BY DEF FlattenSeq
  <2>2. Retells(<< >>, << >>)
    BY <1>2, RetellsItself
  <2>3. AllFit(<< >>)
    BY DEF AllFit
  <2>4. empty \in [chunks : Seq(Strings), cur : Strings]
        /\ empty.chunks = << >> /\ empty.cur = << >> /\ << >> \o << >> = << >>
    BY <1>2
  <2> HIDE DEF empty
  <2> QED
    BY <2>1, <2>2, <2>3, <2>4 DEF ForceInv
<1>4. ASSUME NEW x, NEW told \in Strings, ForceInv(x, told), NEW k \in 1..n
      PROVE  ForceStep(x, toks[k]) \in A /\ ForceInv(ForceStep(x, toks[k]), Append(told, toks[k]))
  <2>1. ForceInv(ForceStep(x, toks[k]), Append(told, toks[k]))
    BY <1>1, <1>4, ForceStepKeeps
  <2>2. Append(told, toks[k]) \in Strings
    BY <1>1 DEF Strings
  <2>3. ForceStep(x, toks[k]) \in [chunks : Seq(Strings), cur : Strings]
    BY <2>1 DEF ForceInv
  <2> QED
    BY <2>1, <2>2, <2>3
<1>5. empty \in A
  <2>1. empty \in [chunks : Seq(Strings), cur : Strings]
    BY <1>2
  <2> HIDE DEF empty
  <2> QED
    BY <1>2, <1>3, <2>1
<1>6. \A k \in 1..n : \A x \in A : ForceStep(x, toks[k]) \in A
  BY <1>4
<1>7. \E f : IsForceLoop(toks, f)
  <2> HIDE DEF A
  <2>1. IsStep(step, n, A)
    BY <1>6 DEF IsStep
  <2>2. \A k \in 1..n : \A x \in A : step[k][x] = ForceStep(x, toks[k])
    OBVIOUS
  <2> HIDE DEF step, empty, n
  <2>3. PICK f : IsRecursion(f, n, A, empty, step)
    BY <1>1, <1>5, <2>1, RecursionUpTo
  <2>4. \A k \in 1..n : f[k] = ForceStep(f[k - 1], toks[k])
    <3> TAKE k \in 1..n
    <3>1. k - 1 \in 0..n
      BY <1>1
    <3>2. f[k - 1] \in A /\ f[k] = step[k][f[k - 1]]
      BY <2>3, <3>1 DEF IsRecursion
    <3> QED
      BY <2>2, <3>2
  <2>5. f = [k \in 0..n |-> IF k = 0 THEN empty ELSE ForceStep(f[k - 1], toks[k])]
    BY <1>1, <2>3, <2>4 DEF IsRecursion
  <2> QED
    BY <2>5 DEF IsForceLoop, n, empty
<1> DEFINE f == CHOOSE f : IsForceLoop(toks, f)
<1>8. IsForceLoop(toks, f)
  BY <1>7
<1>9. ForceTextChunks(toks) = f[n].chunks \o NonEmpty(f[n].cur)
  BY DEF ForceTextChunks, IsForceLoop
<1> HIDE DEF f
<1>10. f[0] = empty /\ \A k \in 1..n : f[k] = ForceStep(f[k - 1], toks[k])
  BY <1>1, <1>8 DEF IsForceLoop
<1> DEFINE S == {k \in 0..n : ForceInv(f[k], SubSeq(toks, 1, k))}
<1>11. 0 \in S
  <2>1. SubSeq(toks, 1, 0) = << >>
    BY DEF Strings
  <2>2. f[0] = empty
    BY <1>10
  <2> HIDE DEF empty
  <2>3. ForceInv(f[0], SubSeq(toks, 1, 0))
    BY <1>3, <2>1, <2>2
  <2> QED
    BY <1>1, <2>3
<1>12. \A k \in 1..n : k - 1 \in S => k \in S
  <2> SUFFICES ASSUME NEW k \in 1..n, k - 1 \in S PROVE k \in S
    OBVIOUS
  <2>1. SubSeq(toks, 1, k) = Append(SubSeq(toks, 1, k - 1), toks[k])
        /\ SubSeq(toks, 1, k - 1) \in Strings
    BY <1>1 DEF Strings
  <2>2. ForceInv(f[k - 1], SubSeq(toks, 1, k - 1))
    OBVIOUS
  <2> HIDE DEF A, n, S
  <2>3. ForceInv(f[k], SubSeq(toks, 1, k))
    BY <1>4, <1>10, <2>1, <2>2
  <2> QED
    BY <2>3 DEF S
<1>13. ForceInv(f[n], toks)
  <2>1. SubSeq(toks, 1, n) = toks
    BY DEF Strings
  <2>2. n \in S
    <3> HIDE DEF S
    <3> QED
      BY <1>1, <1>11, <1>12, InductionUpTo, n \in 0..n
  <2> QED
    BY <2>1, <2>2
<1> DEFINE chunks == f[n].chunks
           cur == f[n].cur
<1>14. /\ chunks \in Seq(Strings) /\ cur \in Strings /\ AllFit(chunks)
       /\ cur = << >> \/ WithinGuards(cur)
       /\ Retells(FlattenSeq(chunks) \o cur, toks)
       /\ toks # << >> => chunks # << >> \/ cur # << >>
  BY <1>13 DEF ForceInv
<1> HIDE DEF chunks, cur
<1>15. AllFit(NonEmpty(cur)) /\ FlattenSeq(NonEmpty(cur)) = cur
  BY <1>14, NonEmptyFacts
<1>16. AllFit(chunks \o NonEmpty(cur))
  BY <1>14, <1>15, AllFitConcat
<1>17. FlattenSeq(chunks \o NonEmpty(cur)) = FlattenSeq(chunks) \o cur
  <2>1. chunks \in Seq(Seq(Tokens)) /\ NonEmpty(cur) \in Seq(Seq(Tokens))
    BY <1>14, <1>15 DEF AllFit, Strings
  <2> QED
    BY <1>15, <2>1, FlattenConcat
<1>18. toks # << >> => chunks \o NonEmpty(cur) # << >>
  <2>1. chunks \in Seq(Strings) /\ NonEmpty(cur) \in Seq(Strings)
    BY <1>14, <1>15 DEF AllFit
  <2>2. cur # << >> => NonEmpty(cur) # << >>
    BY DEF NonEmpty
  <2> QED
    BY <1>14, <2>1, <2>2
<1>19. ForceTextChunks(toks) = chunks \o NonEmpty(cur)
  BY <1>9 DEF chunks, cur
<1> QED
  BY <1>14, <1>16, <1>17, <1>18, <1>19

-----------------------------------------------------------------------------
(* _text_units and _table_units: the chunks of an element.                  *)

ToksOf(us) == [k \in 1..Len(us) |-> us[k].toks]

\* The tokens of records that follow each other.
LEMMA TokensConcat ==
    ASSUME NEW R, \A u \in R : u.toks \in Strings, NEW us \in Seq(R), NEW vs \in Seq(R)
    PROVE  TokensOf(us) \in Strings /\ TokensOf(us \o vs) = TokensOf(us) \o TokensOf(vs)
<1>1. \A ws \in Seq(R) : /\ ToksOf(ws) \in Seq(Seq(Tokens)) /\ Len(ToksOf(ws)) = Len(ws)
                         /\ \A k \in 1..Len(ws) : ToksOf(ws)[k] = ws[k].toks
                         /\ TokensOf(ws) = FlattenSeq(ToksOf(ws))
  <2> TAKE ws \in Seq(R)
  <2>1. Len(ws) \in Nat /\ \A k \in 1..Len(ws) : ws[k].toks \in Seq(Tokens)
    BY DEF Strings
  <2>2. ToksOf(ws) \in Seq(Seq(Tokens)) /\ Len(ToksOf(ws)) = Len(ws)
    BY <2>1 DEF ToksOf
  <2> QED
    BY <2>1, <2>2 DEF TokensOf, ToksOf
<1> DEFINE all == us \o vs
<1>2. /\ all \in Seq(R) /\ Len(all) = Len(us) + Len(vs) /\ Len(us) \in Nat /\ Len(vs) \in Nat
      /\ \A k \in 1..Len(all) : all[k] = IF k <= Len(us) THEN us[k] ELSE vs[k - Len(us)]
  OBVIOUS
<1> HIDE DEF all
<1>3. ToksOf(all) = ToksOf(us) \o ToksOf(vs)
  <2> DEFINE a == ToksOf(us)
             b == ToksOf(vs)
             c == ToksOf(all)
  <2>1. /\ a \in Seq(Seq(Tokens)) /\ Len(a) = Len(us) /\ \A k \in 1..Len(us) : a[k] = us[k].toks
        /\ b \in Seq(Seq(Tokens)) /\ Len(b) = Len(vs) /\ \A k \in 1..Len(vs) : b[k] = vs[k].toks
        /\ c \in Seq(Seq(Tokens)) /\ Len(c) = Len(all) /\ \A k \in 1..Len(all) : c[k] = all[k].toks
    BY <1>1, <1>2
  <2> HIDE DEF a, b, c
  <2>2. \A k \in 1..Len(us) + Len(vs) : c[k] = IF k <= Len(us) THEN a[k] ELSE b[k - Len(us)]
    <3> TAKE k \in 1..Len(us) + Len(vs)
    <3>1. c[k] = all[k].toks
      BY <1>2, <2>1
    <3>2. CASE k <= Len(us)
      <4>1. k \in 1..Len(us) /\ all[k] = us[k]
        BY <1>2, <3>2
      <4> QED
        BY <2>1, <3>1, <3>2, <4>1
    <3>3. CASE ~(k <= Len(us))
      <4>1. k - Len(us) \in 1..Len(vs) /\ all[k] = vs[k - Len(us)]
        BY <1>2, <3>3
      <4> QED
        BY <2>1, <3>1, <3>3, <4>1
    <3> QED
      BY <3>2, <3>3
  <2>3. c = a \o b
    <3>1. a \o b = [k \in 1..Len(a) + Len(b) |-> IF k <= Len(a) THEN a[k] ELSE b[k - Len(a)]]
      BY <2>1, ConcatPlaces
    <3>2. c = [k \in 1..Len(us) + Len(vs) |-> c[k]]
      BY <1>2, <2>1
    <3> QED
      BY <2>1, <2>2, <3>1, <3>2
  <2> QED
    BY <2>3 DEF a, b, c
<1>4. ToksOf(us) \in Seq(Seq(Tokens)) /\ ToksOf(vs) \in Seq(Seq(Tokens))
  BY <1>1
<1>5. FlattenSeq(ToksOf(us)) \in Seq(Tokens)
      /\ FlattenSeq(ToksOf(us) \o ToksOf(vs)) = FlattenSeq(ToksOf(us)) \o FlattenSeq(ToksOf(vs))
  BY <1>4, FlattenConcat
<1> QED
  BY <1>1, <1>2, <1>3, <1>5 DEF all, Strings

\* One record more.
LEMMA TokensAppend ==
    ASSUME NEW R, \A u \in R : u.toks \in Strings, NEW us \in Seq(R), NEW v \in R
    PROVE  TokensOf(Append(us, v)) = TokensOf(us) \o v.toks
<1>1. Append(us, v) = us \o <<v>> /\ <<v>> \in Seq(R)
  OBVIOUS
<1>2. TokensOf(us \o <<v>>) = TokensOf(us) \o TokensOf(<<v>>)
  BY <1>1, TokensConcat
<1>3. TokensOf(<<v>>) = v.toks
  <2>1. v.toks \in Seq(Tokens) /\ << >> \in Seq(Seq(Tokens)) /\ << >> \o v.toks = v.toks
    BY DEF Strings
  <2>2. ToksOf(<<v>>) = Append(<< >>, v.toks)
    BY DEF ToksOf
  <2>3. FlattenSeq(<< >>) = << >>
    BY DEF FlattenSeq
  <2>4. FlattenSeq(Append(<< >>, v.toks)) = FlattenSeq(<< >>) \o v.toks
    BY <2>1, FlattenAppend
  <2> QED
    BY <2>1, <2>2, <2>3, <2>4 DEF TokensOf, ToksOf
<1> QED
  BY <1>1, <1>2, <1>3

Chunks == [toks : Strings, sentences : Nat, forced : BOOLEAN,
           from : Nat \cup {Null}, to : Nat \cup {Null}]

AllSound(cs) ==
    /\ cs \in Seq(Chunks)
    /\ \A k \in 1..Len(cs) : WithinGuards(cs[k].toks) /\ cs[k].sentences <= HardSentences

\* The rows of v follow those of u.
Contiguous(u, v) ==
    u.from # Null => /\ v.from \in {u.to, u.to + 1}
                     /\ v.from = u.to => u.from = u.to

Follow(cs) == \A k \in 1..Len(cs) - 1 : Contiguous(cs[k], cs[k + 1])

\* Sound chunks stay so when more of them follow.
LEMMA AllSoundConcat ==
    ASSUME NEW a, NEW b, AllSound(a), AllSound(b)
    PROVE  /\ AllSound(a \o b)
           /\ TokensOf(a \o b) = TokensOf(a) \o TokensOf(b)
           /\ TokensOf(a) \in Strings /\ TokensOf(b) \in Strings
<1>1. a \in Seq(Chunks) /\ b \in Seq(Chunks)
  BY DEF AllSound
<1>2. /\ a \o b \in Seq(Chunks) /\ Len(a \o b) = Len(a) + Len(b)
      /\ \A k \in 1..Len(a \o b) : (a \o b)[k] = IF k <= Len(a) THEN a[k] ELSE b[k - Len(a)]
  BY <1>1
<1>3. ASSUME NEW k \in 1..Len(a \o b)
      PROVE  WithinGuards((a \o b)[k].toks) /\ (a \o b)[k].sentences <= HardSentences
  <2>1. CASE k <= Len(a)
    BY <1>1, <1>2, <2>1 DEF AllSound
  <2>2. CASE ~(k <= Len(a))
    <3>1. k - Len(a) \in 1..Len(b)
      BY <1>1, <1>2, <2>2
    <3> QED
      BY <1>2, <2>2, <3>1 DEF AllSound
  <2> QED
    BY <2>1, <2>2
<1>4. \A c \in Chunks : c.toks \in Strings
  BY DEF Chunks
<1>5. TokensOf(a \o b) = TokensOf(a) \o TokensOf(b) /\ TokensOf(a) \in Strings
  BY <1>1, <1>4, TokensConcat
<1>6. TokensOf(b) \in Strings
  BY <1>1, <1>4, TokensConcat
<1> QED
  BY <1>2, <1>3, <1>5, <1>6 DEF AllSound

\* Lists of chunks whose rows follow each other.
LEMMA FollowConcat ==
    ASSUME NEW a, NEW b, AllSound(a), AllSound(b), Follow(a), Follow(b),
           a # << >> /\ b # << >> => Contiguous(a[Len(a)], b[1])
    PROVE  Follow(a \o b)
<1>1. a \in Seq(Chunks) /\ b \in Seq(Chunks) /\ Len(a) \in Nat /\ Len(b) \in Nat
  BY DEF AllSound
<1>2. /\ Len(a \o b) = Len(a) + Len(b)
      /\ \A k \in 1..Len(a \o b) : (a \o b)[k] = IF k <= Len(a) THEN a[k] ELSE b[k - Len(a)]
  BY <1>1
<1> DEFINE c == a \o b
<1> HIDE DEF c
<1>3. ASSUME NEW k \in 1..Len(c) - 1 PROVE Contiguous(c[k], c[k + 1])
  <2>1. k \in 1..Len(c) /\ k + 1 \in 1..Len(c)
    BY <1>1, <1>2, <1>3 DEF c
  <2>2. CASE k + 1 <= Len(a)
    <3>1. c[k] = a[k] /\ c[k + 1] = a[k + 1] /\ k \in 1..Len(a) - 1
      BY <1>1, <1>2, <2>1, <2>2 DEF c
    <3> QED
      BY <3>1 DEF Follow
  <2>3. CASE k = Len(a)
    <3>1. c[k] = a[Len(a)] /\ c[k + 1] = b[1] /\ a # << >> /\ b # << >>
      BY <1>1, <1>2, <2>1, <2>3 DEF c
    <3> QED
      BY <3>1
  <2>4. CASE k > Len(a)
    <3> DEFINE j == k - Len(a)
    <3>1. c[k] = b[j] /\ c[k + 1] = b[j + 1] /\ j \in 1..Len(b) - 1
      BY <1>1, <1>2, <2>1, <2>4 DEF c
    <3> QED
      BY <3>1 DEF Follow
  <2> QED
    BY <1>1, <2>1, <2>2, <2>3, <2>4
<1> QED
  BY <1>3 DEF Follow, c

ForcedChunks(parts, m, r) == [k \in 1..Len(parts) |-> Chunk(parts[k], m, TRUE, r, r)]

\* The chunks of a part that had to be cut.
LEMMA ForcedFacts ==
    ASSUME NEW parts, AllFit(parts), NEW m \in Nat, m <= HardSentences,
           NEW r \in Nat \cup {Null}
    PROVE  /\ AllSound(ForcedChunks(parts, m, r)) /\ Len(ForcedChunks(parts, m, r)) = Len(parts)
           /\ TokensOf(ForcedChunks(parts, m, r)) = FlattenSeq(parts)
           /\ \A k \in 1..Len(parts) : /\ ForcedChunks(parts, m, r)[k].from = r
                                       /\ ForcedChunks(parts, m, r)[k].to = r
<1> DEFINE cs == ForcedChunks(parts, m, r)
<1>1. parts \in Seq(Strings) /\ Len(parts) \in Nat
      /\ \A k \in 1..Len(parts) : parts[k] \in Strings /\ WithinGuards(parts[k])
  BY DEF AllFit
<1>2. ASSUME NEW k \in 1..Len(parts)
      PROVE  /\ Chunk(parts[k], m, TRUE, r, r) \in Chunks
             /\ Chunk(parts[k], m, TRUE, r, r).toks = parts[k]
             /\ Chunk(parts[k], m, TRUE, r, r).sentences = m
             /\ Chunk(parts[k], m, TRUE, r, r).from = r
             /\ Chunk(parts[k], m, TRUE, r, r).to = r
  BY <1>1 DEF Chunk, Chunks
<1>3. cs \in Seq(Chunks) /\ Len(cs) = Len(parts)
  <2> DEFINE c(k) == Chunk(parts[k], m, TRUE, r, r)
             n    == Len(parts)
  <2>1. n \in Nat /\ \A k \in 1..n : c(k) \in Chunks
    BY <1>1, <1>2
  <2>2. cs = [k \in 1..n |-> c(k)]
    BY DEF ForcedChunks
  <2> HIDE DEF c, n, cs
  <2>3. cs \in Seq(Chunks) /\ Len(cs) = n
    BY <2>1, <2>2
  <2> QED
    BY <2>3 DEF n
<1>4. \A k \in 1..Len(parts) : /\ cs[k].toks = parts[k] /\ cs[k].sentences = m
                               /\ cs[k].from = r /\ cs[k].to = r
  BY <1>2 DEF ForcedChunks
<1>5. ToksOf(cs) = parts
  BY <1>1, <1>3, <1>4 DEF ToksOf
<1> HIDE DEF cs
<1>6. TokensOf(cs) = FlattenSeq(parts)
  BY <1>5 DEF TokensOf, ToksOf
<1>7. AllSound(cs)
  BY <1>1, <1>3, <1>4 DEF AllSound
<1> QED
  BY <1>3, <1>4, <1>6, <1>7 DEF cs

\* What the loop over the sentences knows of those it has met.
TextInv(acc, told) ==
    /\ acc \in [chunks : Seq(Chunks), cur : Strings, n : Nat]
    /\ AllSound(acc.chunks)
    /\ \A k \in 1..Len(acc.chunks) : acc.chunks[k].from = Null
    /\ acc.cur = << >> => acc.n = 0
    /\ acc.cur # << >> => ~TooLong(acc.cur) /\ acc.n <= HardSentences
    /\ Retells(TokensOf(acc.chunks) \o acc.cur, told)

\* The open chunk joins the others.
LEMMA EmittedFacts ==
    ASSUME NEW acc, NEW told, TextInv(acc, told)
    PROVE  /\ AllSound(Emitted(acc))
           /\ \A k \in 1..Len(Emitted(acc)) : Emitted(acc)[k].from = Null
           /\ Retells(TokensOf(Emitted(acc)), told)
<1> DEFINE chunks == acc.chunks
           cur    == acc.cur
<1>1. /\ chunks \in Seq(Chunks) /\ cur \in Strings /\ acc.n \in Nat /\ AllSound(chunks)
      /\ \A k \in 1..Len(chunks) : chunks[k].from = Null
      /\ Retells(TokensOf(chunks) \o cur, told)
  BY DEF TextInv
<1>2. TokensOf(chunks) \in Strings
  BY <1>1, AllSoundConcat
<1>3. CASE cur = << >>
  <2>1. Emitted(acc) = chunks
    BY <1>3 DEF Emitted
  <2>2. TokensOf(chunks) \o << >> = TokensOf(chunks)
    BY <1>2 DEF Strings
  <2> QED
    BY <1>1, <1>3, <2>1, <2>2
<1>4. CASE cur # << >>
  <2> DEFINE c == Chunk(cur, acc.n, FALSE, Null, Null)
  <2>1. Emitted(acc) = Append(chunks, c)
    BY <1>4 DEF Emitted
  <2>2. /\ c \in Chunks /\ c.toks = cur /\ c.sentences = acc.n /\ c.from = Null
    BY <1>1 DEF Chunk, Chunks
  <2>3. WithinGuards(cur) /\ acc.n <= HardSentences
    BY <1>1, <1>4 DEF TextInv, WithinGuards
  <2> HIDE DEF c, chunks, cur
  <2>4. TokensOf(Append(chunks, c)) = TokensOf(chunks) \o cur
    <3>1. \A x \in Chunks : x.toks \in Strings
      BY DEF Chunks
    <3> QED
      BY <1>1, <2>2, <3>1, TokensAppend
  <2>5. AllSound(Append(chunks, c))
        /\ \A k \in 1..Len(Append(chunks, c)) : Append(chunks, c)[k].from = Null
    <3>1. /\ Append(chunks, c) \in Seq(Chunks) /\ Len(Append(chunks, c)) = Len(chunks) + 1
          /\ \A k \in 1..Len(chunks) : Append(chunks, c)[k] = chunks[k]
          /\ Append(chunks, c)[Len(chunks) + 1] = c /\ Len(chunks) \in Nat
      BY <1>1, <2>2
    <3> HIDE DEF AllSound
    <3>2. \A k \in 1..Len(chunks) + 1 :
             /\ WithinGuards(Append(chunks, c)[k].toks) /\ Append(chunks, c)[k].sentences <= HardSentences
             /\ Append(chunks, c)[k].from = Null
      <4> TAKE k \in 1..Len(chunks) + 1
      <4>1. CASE k = Len(chunks) + 1
        BY <2>2, <2>3, <3>1, <4>1
      <4>2. CASE k # Len(chunks) + 1
        <5>1. k \in 1..Len(chunks)
          BY <3>1, <4>2
        <5> QED
          BY <1>1, <3>1, <5>1 DEF AllSound
      <4> QED
        BY <4>1, <4>2
    <3> QED
      BY <3>1, <3>2 DEF AllSound
  <2> QED
    BY <1>1, <2>1, <2>4, <2>5
<1> QED
  BY <1>3, <1>4

\* One sentence more.
LEMMA TakeSentenceKeeps ==
    ASSUME NEW acc, NEW told, TextInv(acc, told), NEW s \in Strings \ {<< >>}
    PROVE  TextInv(TakeSentence(acc, s), told \o s)
<1> DEFINE chunks == acc.chunks
           cur    == acc.cur
           n      == acc.n
           new    == TakeSentence(acc, s)
           em     == Emitted(acc)
<1>1. /\ chunks \in Seq(Chunks) /\ cur \in Strings /\ n \in Nat /\ AllSound(chunks)
      /\ \A k \in 1..Len(chunks) : chunks[k].from = Null
      /\ cur = << >> => n = 0
      /\ Retells(TokensOf(chunks) \o cur, told)
      /\ acc = [chunks |-> chunks, cur |-> cur, n |-> n]
  BY DEF TextInv
<1>2. /\ AllSound(em) /\ em \in Seq(Chunks) /\ \A k \in 1..Len(em) : em[k].from = Null
      /\ Retells(TokensOf(em), told)
  BY EmittedFacts DEF AllSound
<1>3. HardSentences \in Nat \ {0} /\ Null \in Nat \cup {Null} /\ << >> \in Strings
  BY GuardFacts DEF Strings
<1>4. CASE TooLong(s)
  <2> DEFINE forced == ForceTextChunks(s)
             cs     == ForcedChunks(forced, 1, Null)
  <2>1. AllFit(forced) /\ Retells(FlattenSeq(forced), s)
    BY ForceTells
  <2> HIDE DEF forced
  <2>2. /\ AllSound(cs) /\ Len(cs) = Len(forced)
        /\ TokensOf(cs) = FlattenSeq(forced)
        /\ \A k \in 1..Len(cs) : cs[k].from = Null
    <3>1. 1 \in Nat /\ 1 <= HardSentences
      BY <1>3
    <3>2. \A m \in Nat : \A r \in Nat \cup {Null} : m <= HardSentences =>
             /\ AllSound(ForcedChunks(forced, m, r))
             /\ Len(ForcedChunks(forced, m, r)) = Len(forced)
             /\ TokensOf(ForcedChunks(forced, m, r)) = FlattenSeq(forced)
             /\ \A k \in 1..Len(forced) : ForcedChunks(forced, m, r)[k].from = r
      BY <2>1, ForcedFacts
    <3>3. /\ AllSound(ForcedChunks(forced, 1, Null))
          /\ Len(ForcedChunks(forced, 1, Null)) = Len(forced)
          /\ TokensOf(ForcedChunks(forced, 1, Null)) = FlattenSeq(forced)
          /\ \A k \in 1..Len(forced) : ForcedChunks(forced, 1, Null)[k].from = Null
      BY <1>3, <3>1, <3>2, Zenon
    <3> QED
      BY <3>3, Zenon
  <2>3. new = [chunks |-> em \o cs, cur |-> << >>, n |-> 0]
    BY <1>4 DEF TakeSentence, forced, ForcedChunks
  <2> HIDE DEF new, cs, em, chunks, cur, n
  <2>4. AllSound(em \o cs) /\ TokensOf(em \o cs) = TokensOf(em) \o TokensOf(cs)
    BY <1>2, <2>2, AllSoundConcat
  <2>5. Retells(TokensOf(em \o cs), told \o s)
    BY <1>2, <2>1, <2>2, <2>4, RetellsConcat
  <2>6. \A k \in 1..Len(em \o cs) : (em \o cs)[k].from = Null
    <3>1. cs \in Seq(Chunks)
      BY <2>2 DEF AllSound
    <3>2. /\ Len(em \o cs) = Len(em) + Len(cs) /\ Len(em) \in Nat /\ Len(cs) \in Nat
          /\ \A k \in 1..Len(em \o cs) : (em \o cs)[k] = IF k <= Len(em) THEN em[k]
                                                         ELSE cs[k - Len(em)]
      BY <1>2, <3>1
    <3> TAKE k \in 1..Len(em \o cs)
    <3>3. CASE k <= Len(em)
      BY <1>2, <3>2, <3>3
    <3>4. CASE ~(k <= Len(em))
      <4>1. k - Len(em) \in 1..Len(cs)
        BY <3>2, <3>4
      <4> QED
        BY <2>2, <3>2, <3>4, <4>1
    <3> QED
      BY <3>3, <3>4
  <2>7. /\ new.chunks = em \o cs /\ new.cur = << >> /\ new.n = 0
        /\ new \in [chunks : Seq(Chunks), cur : Strings, n : Nat]
    BY <1>3, <2>3, <2>4 DEF AllSound
  <2>8. TokensOf(em \o cs) \o << >> = TokensOf(em \o cs)
    BY <2>5 DEF Retells, Strings
  <2> QED
    BY <2>4, <2>5, <2>6, <2>7, <2>8 DEF TextInv, new
<1>5. CASE ~TooLong(s) /\ cur # << >> /\ (TooLong(cur \o s) \/ n + 1 > HardSentences)
  <2>1. new = [chunks |-> em, cur |-> s, n |-> 1]
    BY <1>5 DEF TakeSentence
  <2> HIDE DEF new, em, chunks, cur, n
  <2>2. Retells(TokensOf(em) \o s, told \o s)
    BY <1>2, RetellsItself, RetellsConcat
  <2>3. /\ new.chunks = em /\ new.cur = s /\ new.n = 1
        /\ new \in [chunks : Seq(Chunks), cur : Strings, n : Nat]
    BY <1>2, <2>1
  <2> QED
    BY <1>2, <1>3, <1>5, <2>2, <2>3 DEF TextInv, new
<1>6. CASE ~TooLong(s) /\ ~(cur # << >> /\ (TooLong(cur \o s) \/ n + 1 > HardSentences))
  <2>1. new = [acc EXCEPT !.cur = cur \o s, !.n = n + 1]
    BY <1>6 DEF TakeSentence
  <2>2. new = [chunks |-> chunks, cur |-> cur \o s, n |-> n + 1]
    BY <1>1, <2>1
  <2>3. TokensOf(chunks) \in Strings
    BY <1>1, AllSoundConcat
  <2> HIDE DEF new, em, chunks, cur, n
  <2>4. Retells((TokensOf(chunks) \o cur) \o s, told \o s)
    BY <1>1, RetellsItself, RetellsConcat
  <2>5. (TokensOf(chunks) \o cur) \o s = TokensOf(chunks) \o (cur \o s)
        /\ cur \o s \in Strings /\ cur \o s # << >> /\ (cur = << >> => cur \o s = s)
    <3> DEFINE a == TokensOf(chunks)
    <3>1. a \in Seq(Tokens) /\ cur \in Seq(Tokens) /\ s \in Seq(Tokens) /\ s # << >>
      BY <1>1, <2>3 DEF Strings
    <3> HIDE DEF a
    <3>0. JoinsUp(Tokens)
      BY ConcatAssoc
    <3>2. (a \o cur) \o s = a \o (cur \o s) /\ cur \o s \in Seq(Tokens)
      BY <3>0, <3>1, ZenonT(60) DEF JoinsUp
    <3>3. cur \o s # << >>
      BY <3>1, JoinFacts
    <3>4. cur = << >> => cur \o s = s
      BY <3>1, ConcatNothing
    <3> QED
      BY <3>2, <3>3, <3>4 DEF a, Strings
  <2>6. ~TooLong(cur \o s) /\ n + 1 \in Nat /\ n + 1 <= HardSentences
    <3>1. CASE cur = << >>
      BY <1>1, <1>3, <1>6, <2>5, <3>1
    <3>2. CASE cur # << >>
      BY <1>1, <1>3, <1>6, <3>2
    <3> QED
      BY <3>1, <3>2
  <2>7. /\ new.chunks = chunks /\ new.cur = cur \o s /\ new.n = n + 1
        /\ new \in [chunks : Seq(Chunks), cur : Strings, n : Nat]
    BY <1>1, <2>2, <2>5, <2>6
  <2> QED
    BY <1>1, <2>4, <2>5, <2>6, <2>7 DEF TextInv, new
<1> QED
  BY <1>4, <1>5, <1>6

\* The results of the loop over the sentences, one by one.
IsTextLoop(sentences, f) ==
    f = [n \in 0..Len(sentences) |->
            IF n = 0 THEN [chunks |-> << >>, cur |-> << >>, n |-> 0]
            ELSE TakeSentence(f[n - 1], sentences[n])]

\* Texts of an element: its sentences, or its rows.
TextBodies == Seq(Strings \ {<< >>})

\* The text up to the k-th sentence and with it.
LEMMA TextPrefixes ==
    ASSUME NEW said \in TextBodies
    PROVE  /\ Len(said) \in Nat /\ FlattenSeq(SubSeq(said, 1, 0)) = << >>
           /\ SubSeq(said, 1, Len(said)) = said
           /\ \A k \in 1..Len(said) :
                 /\ said[k] \in Strings \ {<< >>}
                 /\ FlattenSeq(SubSeq(said, 1, k - 1)) \in Strings
                 /\ FlattenSeq(SubSeq(said, 1, k)) = FlattenSeq(SubSeq(said, 1, k - 1)) \o said[k]
<1>1. said \in Seq(Seq(Tokens)) /\ Len(said) \in Nat
      /\ \A k \in 1..Len(said) : said[k] \in Strings \ {<< >>}
  BY DEF TextBodies, Strings
<1>2. SubSeq(said, 1, 0) = << >> /\ SubSeq(said, 1, Len(said)) = said
  BY <1>1, PrefixFacts
<1>3. FlattenSeq(<< >>) = << >>
  BY DEF FlattenSeq
<1>4. ASSUME NEW k \in 1..Len(said)
      PROVE  /\ FlattenSeq(SubSeq(said, 1, k - 1)) \in Strings
             /\ FlattenSeq(SubSeq(said, 1, k)) = FlattenSeq(SubSeq(said, 1, k - 1)) \o said[k]
  <2> DEFINE a == SubSeq(said, 1, k - 1)
             t == said[k]
  <2>1. a \in Seq(Seq(Tokens)) /\ t \in Seq(Tokens) /\ SubSeq(said, 1, k) = Append(a, t)
    BY <1>1, PrefixFacts
  <2> HIDE DEF a, t
  <2>2. FlattenSeq(a) \in Seq(Tokens) /\ FlattenSeq(Append(a, t)) = FlattenSeq(a) \o t
    BY <2>1, FlattenAppend
  <2> QED
    BY <2>1, <2>2 DEF a, t, Strings
<1> QED
  BY <1>1, <1>2, <1>3, <1>4

\* _text_units: sound chunks without rows that tell the sentences.
LEMMA TextTells ==
    ASSUME NEW said \in TextBodies
    PROVE  /\ AllSound(TextChunks(said))
           /\ \A k \in 1..Len(TextChunks(said)) : TextChunks(said)[k].from = Null
           /\ Retells(TokensOf(TextChunks(said)), FlattenSeq(said))
<1> DEFINE R == [chunks : Seq(Chunks), cur : Strings, n : Nat]
           A == {acc \in R : \E told \in Strings : TextInv(acc, told)}
           empty == [chunks |-> << >>, cur |-> << >>, n |-> 0]
           n == Len(said)
           F(k) == FlattenSeq(SubSeq(said, 1, k))
           step == [k \in 1..n |-> [x \in A |-> TakeSentence(x, said[k])]]
<1>1. /\ n \in Nat /\ F(0) = << >> /\ F(n) = FlattenSeq(said)
      /\ \A k \in 1..n : /\ said[k] \in Strings \ {<< >>} /\ F(k - 1) \in Strings
                         /\ F(k) = F(k - 1) \o said[k]
  BY TextPrefixes
<1> HIDE DEF F
<1>2. << >> \in Strings
  BY DEF Strings
<1>3. empty \in R /\ TextInv(empty, << >>)
  <2>1. TokensOf(<< >>) = << >>
    <3>1. ToksOf(<< >>) = << >>
      BY DEF ToksOf
    <3>2. FlattenSeq(<< >>) = << >>
      BY DEF FlattenSeq
    <3> QED
      BY <3>1, <3>2 DEF TokensOf, ToksOf
  <2>2. Retells(<< >>, << >>)
    BY <1>2, RetellsItself
  <2>3. AllSound(<< >>)
    BY DEF AllSound
  <2>4. empty \in R /\ empty.chunks = << >> /\ empty.cur = << >> /\ << >> \o << >> = << >>
        /\ empty.n = 0 /\ Len(<< >>) = 0
    BY <1>2
  <2> HIDE DEF empty
  <2> QED
    BY <2>1, <2>2, <2>3, <2>4 DEF TextInv
<1>4. ASSUME NEW x, NEW told \in Strings, TextInv(x, told), NEW k \in 1..n
      PROVE  TakeSentence(x, said[k]) \in A /\ TextInv(TakeSentence(x, said[k]), told \o said[k])
  <2>1. TextInv(TakeSentence(x, said[k]), told \o said[k])
    BY <1>1, <1>4, TakeSentenceKeeps
  <2>2. told \o said[k] \in Strings
    BY <2>1 DEF TextInv, Retells
  <2>3. TakeSentence(x, said[k]) \in R
    BY <2>1 DEF TextInv
  <2> HIDE DEF R
  <2> QED
    BY <2>1, <2>2, <2>3
<1>5. empty \in A
  <2> HIDE DEF empty, R
  <2> QED
    BY <1>2, <1>3
<1>6. \A k \in 1..n : \A x \in A : TakeSentence(x, said[k]) \in A
  BY <1>4
<1>7. \E f : IsTextLoop(said, f)
  <2> HIDE DEF A
  <2>1. IsStep(step, n, A)
    BY <1>6 DEF IsStep
  <2>2. \A k \in 1..n : \A x \in A : step[k][x] = TakeSentence(x, said[k])
    OBVIOUS
  <2> HIDE DEF step, empty, n
  <2>3. PICK f : IsRecursion(f, n, A, empty, step)
    BY <1>1, <1>5, <2>1, RecursionUpTo
  <2>4. \A k \in 1..n : f[k] = TakeSentence(f[k - 1], said[k])
    <3> TAKE k \in 1..n
    <3>1. k - 1 \in 0..n
      BY <1>1
    <3>2. f[k - 1] \in A /\ f[k] = step[k][f[k - 1]]
      BY <2>3, <3>1 DEF IsRecursion
    <3> QED
      BY <2>2, <3>2
  <2>5. f = [k \in 0..n |-> IF k = 0 THEN empty ELSE TakeSentence(f[k - 1], said[k])]
    BY <1>1, <2>3, <2>4 DEF IsRecursion
  <2> QED
    BY <2>5 DEF IsTextLoop, n, empty
<1> DEFINE f == CHOOSE f : IsTextLoop(said, f)
<1>8. IsTextLoop(said, f)
  BY <1>7
<1>9. TextChunks(said) = Emitted(f[n])
  BY DEF TextChunks, IsTextLoop
<1> HIDE DEF f
<1>10. f[0] = empty /\ \A k \in 1..n : f[k] = TakeSentence(f[k - 1], said[k])
  BY <1>1, <1>8 DEF IsTextLoop
<1> DEFINE S == {k \in 0..n : TextInv(f[k], F(k))}
<1>11. 0 \in S
  <2> HIDE DEF empty
  <2>1. TextInv(f[0], F(0))
    BY <1>1, <1>3, <1>10
  <2> QED
    BY <1>1, <2>1
<1>12. \A k \in 1..n : k - 1 \in S => k \in S
  <2> SUFFICES ASSUME NEW k \in 1..n, k - 1 \in S PROVE k \in S
    OBVIOUS
  <2>1. TextInv(f[k - 1], F(k - 1))
    OBVIOUS
  <2> HIDE DEF A, n, S
  <2>2. TextInv(f[k], F(k))
    BY <1>1, <1>4, <1>10, <2>1
  <2> QED
    BY <1>1, <2>2 DEF S
<1>13. TextInv(f[n], FlattenSeq(said))
  <2>1. n \in S
    <3> HIDE DEF S
    <3> QED
      BY <1>1, <1>11, <1>12, InductionUpTo, n \in 0..n
  <2> QED
    BY <1>1, <2>1
<1> QED
  BY <1>9, <1>13, EmittedFacts

-----------------------------------------------------------------------------
\* What the loop over the rows knows of those it has met.
RowInv(acc, told) ==
    /\ acc \in [chunks : Seq(Chunks), cur : Strings, start : Nat, row : Nat]
    /\ AllSound(acc.chunks) /\ Follow(acc.chunks)
    /\ \A k \in 1..Len(acc.chunks) : acc.chunks[k].to \in Nat
    /\ acc.chunks # << >> => acc.chunks[Len(acc.chunks)].to + 1 = acc.start
    /\ acc.cur = << >> => acc.start = acc.row + 1
    /\ acc.cur # << >> => ~TooLong(acc.cur)
    /\ Retells(TokensOf(acc.chunks) \o acc.cur, told)

\* A sound list of one chunk.
LEMMA OneChunk ==
    ASSUME NEW c \in Chunks, WithinGuards(c.toks), c.sentences <= HardSentences
    PROVE  AllSound(<<c>>) /\ Follow(<<c>>) /\ TokensOf(<<c>>) = c.toks
<1>1. AllSound(<<c>>)
  <2>1. <<c>> \in Seq(Chunks) /\ Len(<<c>>) = 1 /\ <<c>>[1] = c
    OBVIOUS
  <2> QED
    BY <2>1 DEF AllSound
<1>2. Follow(<<c>>)
  <2>1. 1..Len(<<c>>) - 1 = {}
    OBVIOUS
  <2> QED
    BY <2>1, Zenon DEF Follow
<1>3. TokensOf(<<c>>) = c.toks
  <2>1. c.toks \in Seq(Tokens) /\ << >> \in Seq(Seq(Tokens)) /\ << >> \o c.toks = c.toks
    BY DEF Chunks, Strings
  <2>2. ToksOf(<<c>>) = Append(<< >>, c.toks)
    BY DEF ToksOf
  <2>3. FlattenSeq(<< >>) = << >>
    BY DEF FlattenSeq
  <2>4. FlattenSeq(Append(<< >>, c.toks)) = FlattenSeq(<< >>) \o c.toks
    BY <2>1, FlattenAppend
  <2> QED
    BY <2>1, <2>2, <2>3, <2>4 DEF TokensOf, ToksOf
<1> QED
  BY <1>1, <1>2, <1>3

\* The open chunk joins the others.
LEMMA EmittedRowsFacts ==
    ASSUME NEW acc, NEW told, RowInv(acc, told)
    PROVE  /\ AllSound(EmittedRows(acc)) /\ Follow(EmittedRows(acc))
           /\ \A k \in 1..Len(EmittedRows(acc)) : EmittedRows(acc)[k].to \in Nat
           /\ EmittedRows(acc) # << >> => EmittedRows(acc)[Len(EmittedRows(acc))].to = acc.row
           /\ Retells(TokensOf(EmittedRows(acc)), told)
<1> DEFINE chunks == acc.chunks
           cur    == acc.cur
<1>1. /\ chunks \in Seq(Chunks) /\ cur \in Strings /\ acc.start \in Nat /\ acc.row \in Nat
      /\ AllSound(chunks) /\ Follow(chunks)
      /\ \A k \in 1..Len(chunks) : chunks[k].to \in Nat
      /\ chunks # << >> => chunks[Len(chunks)].to + 1 = acc.start
      /\ cur = << >> => acc.start = acc.row + 1
      /\ cur # << >> => ~TooLong(cur)
      /\ Retells(TokensOf(chunks) \o cur, told)
  BY DEF RowInv
<1>2. TokensOf(chunks) \in Strings /\ Len(chunks) \in Nat
  BY <1>1, AllSoundConcat
<1>3. CASE cur = << >>
  <2>1. EmittedRows(acc) = chunks
    BY <1>3 DEF EmittedRows
  <2>2. TokensOf(chunks) \o << >> = TokensOf(chunks)
    BY <1>2 DEF Strings
  <2> HIDE DEF chunks, cur
  <2>3. chunks # << >> => chunks[Len(chunks)].to = acc.row
    <3> SUFFICES ASSUME chunks # << >> PROVE chunks[Len(chunks)].to = acc.row
      OBVIOUS
    <3>1. Len(chunks) \in 1..Len(chunks)
      BY <1>1, <1>2
    <3>2. chunks[Len(chunks)].to \in Nat
      BY <1>1, <3>1
    <3> QED
      BY <1>1, <1>3, <3>2
  <2> QED
    BY <1>1, <1>3, <2>1, <2>2, <2>3
<1>4. CASE cur # << >>
  <2> DEFINE c == Chunk(cur, 0, chunks # << >>, acc.start, acc.row)
  <2>1. EmittedRows(acc) = Append(chunks, c)
    BY <1>4 DEF EmittedRows
  <2>2. /\ c \in Chunks /\ c.toks = cur /\ c.sentences = 0
        /\ c.from = acc.start /\ c.to = acc.row
    BY <1>1 DEF Chunk, Chunks
  <2>3. WithinGuards(cur) /\ 0 <= HardSentences
    BY <1>1, <1>4, GuardFacts DEF WithinGuards
  <2> HIDE DEF c, chunks, cur
  <2>4. AllSound(<<c>>) /\ Follow(<<c>>) /\ TokensOf(<<c>>) = cur
    BY <2>2, <2>3, OneChunk
  <2>5. Append(chunks, c) = chunks \o <<c>>
    BY <1>1, <2>2, AppendFacts
  <2>6. chunks # << >> /\ <<c>> # << >> => Contiguous(chunks[Len(chunks)], <<c>>[1])
    <3> SUFFICES ASSUME chunks # << >> PROVE Contiguous(chunks[Len(chunks)], c)
      OBVIOUS
    <3>1. Len(chunks) \in 1..Len(chunks)
      BY <1>1, <1>2
    <3>2. chunks[Len(chunks)].to \in Nat /\ c.from = chunks[Len(chunks)].to + 1
      BY <1>1, <2>2, <3>1
    <3> QED
      BY <3>2 DEF Contiguous
  <2>7. Follow(chunks \o <<c>>)
    BY <1>1, <2>4, <2>6, FollowConcat
  <2>8. AllSound(chunks \o <<c>>) /\ TokensOf(chunks \o <<c>>) = TokensOf(chunks) \o cur
    BY <1>1, <2>4, AllSoundConcat
  <2>9. /\ Len(Append(chunks, c)) = Len(chunks) + 1
        /\ \A k \in 1..Len(chunks) : Append(chunks, c)[k] = chunks[k]
        /\ Append(chunks, c)[Len(chunks) + 1] = c
    BY <1>1, <2>2
  <2>10. \A k \in 1..Len(chunks) + 1 : Append(chunks, c)[k].to \in Nat
    BY <1>1, <1>2, <2>2, <2>9
  <2> QED
    BY <1>1, <2>1, <2>2, <2>5, <2>7, <2>8, <2>9, <2>10
<1> QED
  BY <1>3, <1>4

\* One row more.
LEMMA RowStepKeeps ==
    ASSUME NEW acc, NEW told, RowInv(acc, told), NEW s \in Strings \ {<< >>}
    PROVE  RowInv(RowStep(acc, s), told \o s)
<1> DEFINE chunks == acc.chunks
           cur    == acc.cur
           place     == acc.row + 1
           new    == RowStep(acc, s)
           em     == EmittedRows(acc)
           R      == [chunks : Seq(Chunks), cur : Strings, start : Nat, row : Nat]
<1>1. /\ chunks \in Seq(Chunks) /\ cur \in Strings /\ acc.start \in Nat /\ acc.row \in Nat
      /\ AllSound(chunks) /\ Follow(chunks)
      /\ \A k \in 1..Len(chunks) : chunks[k].to \in Nat
      /\ chunks # << >> => chunks[Len(chunks)].to + 1 = acc.start
      /\ cur = << >> => acc.start = acc.row + 1
      /\ cur # << >> => ~TooLong(cur)
      /\ Retells(TokensOf(chunks) \o cur, told)
      /\ acc = [chunks |-> chunks, cur |-> cur, start |-> acc.start, row |-> acc.row]
  BY DEF RowInv
<1>2. /\ AllSound(em) /\ em \in Seq(Chunks) /\ Len(em) \in Nat /\ Follow(em)
      /\ \A k \in 1..Len(em) : em[k].to \in Nat
      /\ em # << >> => em[Len(em)].to = acc.row
      /\ Retells(TokensOf(em), told)
  <2>1. /\ AllSound(em) /\ Follow(em)
        /\ \A k \in 1..Len(em) : em[k].to \in Nat
        /\ em # << >> => em[Len(em)].to = acc.row
        /\ Retells(TokensOf(em), told)
    BY EmittedRowsFacts
  <2>2. em \in Seq(Chunks)
    BY <2>1 DEF AllSound
  <2>3. Len(em) \in Nat
    BY <2>2
  <2> QED
    BY <2>1, <2>2, <2>3
<1>3. HardSentences \in Nat \ {0} /\ << >> \in Strings /\ place \in Nat
  BY <1>1, GuardFacts DEF Strings
<1>4. CASE TooLong(s)
  <2> DEFINE forced == ForceTextChunks(s)
             cs     == ForcedChunks(forced, 0, place)
  <2>1. AllFit(forced) /\ Retells(FlattenSeq(forced), s) /\ forced # << >>
    BY ForceTells
  <2>2. forced \in Seq(Strings) /\ Len(forced) \in Nat /\ Len(forced) # 0
    <3>1. forced \in Seq(Strings)
      BY <2>1 DEF AllFit
    <3> HIDE DEF forced
    <3> QED
      BY <2>1, <3>1
  <2> HIDE DEF forced, place
  <2>3. /\ AllSound(cs) /\ Len(cs) = Len(forced)
        /\ TokensOf(cs) = FlattenSeq(forced)
        /\ \A k \in 1..Len(forced) : cs[k].from = place /\ cs[k].to = place
    <3>1. 0 \in Nat /\ 0 <= HardSentences /\ place \in Nat \cup {Null}
      BY <1>3
    <3>2. \A m \in Nat : \A r \in Nat \cup {Null} : m <= HardSentences =>
             /\ AllSound(ForcedChunks(forced, m, r))
             /\ Len(ForcedChunks(forced, m, r)) = Len(forced)
             /\ TokensOf(ForcedChunks(forced, m, r)) = FlattenSeq(forced)
             /\ \A k \in 1..Len(forced) : /\ ForcedChunks(forced, m, r)[k].from = r
                                          /\ ForcedChunks(forced, m, r)[k].to = r
      BY <2>1, ForcedFacts
    <3> QED
      BY <3>1, <3>2, Zenon
  <2>4. new = [chunks |-> em \o cs, cur |-> << >>, start |-> place + 1, row |-> place]
    BY <1>4 DEF RowStep, forced, ForcedChunks, place
  <2> HIDE DEF new, cs, em, chunks, cur
  <2>5. Follow(cs) /\ cs \in Seq(Chunks)
    <3>1. cs \in Seq(Chunks)
      BY <2>3 DEF AllSound
    <3>2. ASSUME NEW k \in 1..Len(cs) - 1 PROVE Contiguous(cs[k], cs[k + 1])
      <4>1. k \in 1..Len(forced) /\ k + 1 \in 1..Len(forced)
        BY <2>2, <2>3
      <4>2. cs[k].from = place /\ cs[k].to = place /\ cs[k + 1].from = place
        BY <2>3, <4>1
      <4> QED
        BY <4>2 DEF Contiguous
    <3> QED
      BY <3>1, <3>2 DEF Follow
  <2>6. em # << >> /\ cs # << >> => Contiguous(em[Len(em)], cs[1])
    <3> SUFFICES ASSUME em # << >> PROVE Contiguous(em[Len(em)], cs[1])
      OBVIOUS
    <3>1. 1 \in 1..Len(forced)
      BY <2>2
    <3>2. cs[1].from = place /\ em[Len(em)].to = acc.row
      BY <1>2, <2>3, <3>1
    <3>3. place = acc.row + 1 /\ place # acc.row
      BY <1>1 DEF place
    <3> QED
      BY <3>2, <3>3 DEF Contiguous
  <2>7. Follow(em \o cs)
    BY <1>2, <2>3, <2>5, <2>6, FollowConcat
  <2>8. AllSound(em \o cs) /\ TokensOf(em \o cs) = TokensOf(em) \o TokensOf(cs)
    BY <1>2, <2>3, AllSoundConcat
  <2>9. Retells(TokensOf(em \o cs), told \o s)
    BY <1>2, <2>1, <2>3, <2>8, RetellsConcat
  <2>10. /\ Len(em \o cs) = Len(em) + Len(forced) /\ Len(em \o cs) # 0
         /\ \A k \in 1..Len(em \o cs) : (em \o cs)[k] = IF k <= Len(em) THEN em[k]
                                                        ELSE cs[k - Len(em)]
    <3>1. em \in Seq(Chunks) /\ cs \in Seq(Chunks) /\ Len(cs) = Len(forced)
      BY <1>2, <2>3, <2>5
    <3>2. /\ Len(em \o cs) = Len(em) + Len(cs)
          /\ \A k \in 1..Len(em \o cs) : (em \o cs)[k] = IF k <= Len(em) THEN em[k]
                                                         ELSE cs[k - Len(em)]
      BY <3>1
    <3> QED
      BY <1>2, <2>2, <3>1, <3>2
  <2>11. \A k \in 1..Len(em \o cs) : (em \o cs)[k].to \in Nat
    <3> TAKE k \in 1..Len(em \o cs)
    <3>1. CASE k <= Len(em)
      BY <1>2, <2>10, <3>1
    <3>2. CASE ~(k <= Len(em))
      <4>1. k - Len(em) \in 1..Len(forced)
        BY <1>2, <2>2, <2>10, <3>2
      <4> QED
        BY <1>3, <2>3, <2>10, <3>2, <4>1
    <3> QED
      BY <3>1, <3>2
  <2>12. (em \o cs)[Len(em \o cs)].to = place
    <3>1. Len(em \o cs) \in 1..Len(em \o cs) /\ ~(Len(em \o cs) <= Len(em))
          /\ Len(em \o cs) - Len(em) \in 1..Len(forced)
      BY <1>2, <2>2, <2>10
    <3> QED
      BY <2>3, <2>10, <3>1
  <2>13. new \in R
    <3>1. em \o cs \in Seq(Chunks)
      BY <2>8 DEF AllSound
    <3>2. place \in Nat /\ place + 1 \in Nat
      BY <1>3
    <3> QED
      BY <1>3, <2>4, <3>1, <3>2
  <2>14. /\ new.chunks = em \o cs /\ new.cur = << >> /\ new.start = place + 1 /\ new.row = place
    BY <2>4
  <2>15. TokensOf(em \o cs) \o << >> = TokensOf(em \o cs)
    BY <2>9 DEF Retells, Strings
  <2>16. RowInv(new, told \o s)
    BY <2>7, <2>8, <2>9, <2>11, <2>12, <2>13, <2>14, <2>15 DEF RowInv
  <2> QED
    BY <2>16 DEF new
<1>5. CASE ~TooLong(s) /\ cur # << >> /\ TooLong(cur \o s)
  <2>1. new = [chunks |-> em, cur |-> s, start |-> place, row |-> place]
    BY <1>5 DEF RowStep
  <2> HIDE DEF new, em, chunks, cur
  <2>2. Retells(TokensOf(em) \o s, told \o s)
    BY <1>2, RetellsItself, RetellsConcat
  <2>3. new \in R
    BY <1>2, <1>3, <2>1
  <2>4. new.chunks = em /\ new.cur = s /\ new.start = place /\ new.row = place
    BY <2>1
  <2>5. em # << >> => em[Len(em)].to + 1 = place
    BY <1>2
  <2> HIDE DEF place
  <2>6. RowInv(new, told \o s)
    BY <1>2, <1>5, <2>2, <2>3, <2>4, <2>5 DEF RowInv
  <2> QED
    BY <2>6 DEF new
<1>6. CASE ~TooLong(s) /\ ~(cur # << >> /\ TooLong(cur \o s))
  <2> DEFINE first == IF cur = << >> THEN place ELSE acc.start
  <2>1. new = [acc EXCEPT !.cur = cur \o s, !.row = place, !.start = first]
    BY <1>6 DEF RowStep
  <2>2. new = [chunks |-> chunks, cur |-> cur \o s, start |-> first, row |-> place]
    BY <1>1, <2>1
  <2>3. TokensOf(chunks) \in Strings
    BY <1>1, AllSoundConcat
  <2>4. first \in Nat /\ (chunks # << >> => chunks[Len(chunks)].to + 1 = first)
    BY <1>1, <1>3
  <2> HIDE DEF new, em, chunks, cur, place, first
  <2>5. Retells((TokensOf(chunks) \o cur) \o s, told \o s)
    BY <1>1, RetellsItself, RetellsConcat
  <2>6. (TokensOf(chunks) \o cur) \o s = TokensOf(chunks) \o (cur \o s)
        /\ cur \o s \in Strings /\ cur \o s # << >> /\ (cur = << >> => cur \o s = s)
    <3> DEFINE a == TokensOf(chunks)
    <3>1. a \in Seq(Tokens) /\ cur \in Seq(Tokens) /\ s \in Seq(Tokens) /\ s # << >>
      BY <1>1, <2>3 DEF Strings
    <3> HIDE DEF a
    <3>0. JoinsUp(Tokens)
      BY ConcatAssoc
    <3>2. (a \o cur) \o s = a \o (cur \o s) /\ cur \o s \in Seq(Tokens)
      BY <3>0, <3>1, ZenonT(60) DEF JoinsUp
    <3>3. cur \o s # << >>
      BY <3>1, JoinFacts
    <3>4. cur = << >> => cur \o s = s
      BY <3>1, ConcatNothing
    <3> QED
      BY <3>2, <3>3, <3>4 DEF a, Strings
  <2>7. ~TooLong(cur \o s)
    <3>1. CASE cur = << >>
      BY <1>6, <2>6, <3>1
    <3>2. CASE cur # << >>
      BY <1>6, <3>2
    <3> QED
      BY <3>1, <3>2
  <2>8. new \in R
    BY <1>1, <1>3, <2>2, <2>4, <2>6
  <2>9. /\ new.chunks = chunks /\ new.cur = cur \o s /\ new.start = first /\ new.row = place
    BY <2>2
  <2>10. RowInv(new, told \o s)
    BY <1>1, <2>4, <2>5, <2>6, <2>7, <2>8, <2>9 DEF RowInv
  <2> QED
    BY <2>10 DEF new
<1> QED
  BY <1>4, <1>5, <1>6

\* The results of the loop over the rows, one by one.
IsTableLoop(rows, f) ==
    f = [n \in 0..Len(rows) |->
            IF n = 0 THEN [chunks |-> << >>, cur |-> << >>, start |-> 1, row |-> 0]
            ELSE RowStep(f[n - 1], rows[n])]

\* _table_units: sound chunks whose rows follow each other and that tell the rows.
LEMMA TableTells ==
    ASSUME NEW said \in TextBodies
    PROVE  /\ AllSound(TableChunks(said)) /\ Follow(TableChunks(said))
           /\ Retells(TokensOf(TableChunks(said)), FlattenSeq(said))
<1> DEFINE R == [chunks : Seq(Chunks), cur : Strings, start : Nat, row : Nat]
           A == {acc \in R : \E told \in Strings : RowInv(acc, told)}
           empty == [chunks |-> << >>, cur |-> << >>, start |-> 1, row |-> 0]
           n == Len(said)
           F(k) == FlattenSeq(SubSeq(said, 1, k))
           step == [k \in 1..n |-> [x \in A |-> RowStep(x, said[k])]]
<1>1. /\ n \in Nat /\ F(0) = << >> /\ F(n) = FlattenSeq(said)
      /\ \A k \in 1..n : /\ said[k] \in Strings \ {<< >>} /\ F(k - 1) \in Strings
                         /\ F(k) = F(k - 1) \o said[k]
  BY TextPrefixes
<1> HIDE DEF F
<1>2. << >> \in Strings
  BY DEF Strings
<1>3. empty \in R /\ RowInv(empty, << >>)
  <2>1. TokensOf(<< >>) = << >>
    <3>1. ToksOf(<< >>) = << >>
      BY DEF ToksOf
    <3>2. FlattenSeq(<< >>) = << >>
      BY DEF FlattenSeq
    <3> QED
      BY <3>1, <3>2 DEF TokensOf, ToksOf
  <2>2. Retells(<< >>, << >>)
    BY <1>2, RetellsItself
  <2>3. AllSound(<< >>)
    BY DEF AllSound
  <2>4. Follow(<< >>)
    <3>1. 1..Len(<< >>) - 1 = {}
      OBVIOUS
    <3> QED
      BY <3>1, Zenon DEF Follow
  <2>5. empty \in R /\ empty.chunks = << >> /\ empty.cur = << >> /\ << >> \o << >> = << >>
        /\ empty.start = empty.row + 1 /\ Len(<< >>) = 0
    BY <1>2
  <2> HIDE DEF empty
  <2> QED
    BY <2>1, <2>2, <2>3, <2>4, <2>5 DEF RowInv
<1>4. ASSUME NEW x, NEW told \in Strings, RowInv(x, told), NEW k \in 1..n
      PROVE  RowStep(x, said[k]) \in A /\ RowInv(RowStep(x, said[k]), told \o said[k])
  <2>1. RowInv(RowStep(x, said[k]), told \o said[k])
    BY <1>1, <1>4, RowStepKeeps
  <2>2. told \o said[k] \in Strings
    BY <2>1 DEF RowInv, Retells
  <2>3. RowStep(x, said[k]) \in R
    BY <2>1 DEF RowInv
  <2> HIDE DEF R
  <2> QED
    BY <2>1, <2>2, <2>3
<1>5. empty \in A
  <2> HIDE DEF empty, R
  <2> QED
    BY <1>2, <1>3
<1>6. \A k \in 1..n : \A x \in A : RowStep(x, said[k]) \in A
  BY <1>4
<1>7. \E f : IsTableLoop(said, f)
  <2> HIDE DEF A
  <2>1. IsStep(step, n, A)
    BY <1>6 DEF IsStep
  <2>2. \A k \in 1..n : \A x \in A : step[k][x] = RowStep(x, said[k])
    OBVIOUS
  <2> HIDE DEF step, empty, n
  <2>3. PICK f : IsRecursion(f, n, A, empty, step)
    BY <1>1, <1>5, <2>1, RecursionUpTo
  <2>4. \A k \in 1..n : f[k] = RowStep(f[k - 1], said[k])
    <3> TAKE k \in 1..n
    <3>1. k - 1 \in 0..n
      BY <1>1
    <3>2. f[k - 1] \in A /\ f[k] = step[k][f[k - 1]]
      BY <2>3, <3>1 DEF IsRecursion
    <3> QED
      BY <2>2, <3>2
  <2>5. f = [k \in 0..n |-> IF k = 0 THEN empty ELSE RowStep(f[k - 1], said[k])]
    BY <1>1, <2>3, <2>4 DEF IsRecursion
  <2> QED
    BY <2>5 DEF IsTableLoop, n, empty
<1> DEFINE f == CHOOSE f : IsTableLoop(said, f)
<1>8. IsTableLoop(said, f)
  BY <1>7
<1>9. TableChunks(said) = EmittedRows(f[n])
  BY DEF TableChunks, IsTableLoop
<1> HIDE DEF f
<1>10. f[0] = empty /\ \A k \in 1..n : f[k] = RowStep(f[k - 1], said[k])
  BY <1>1, <1>8 DEF IsTableLoop
<1> DEFINE S == {k \in 0..n : RowInv(f[k], F(k))}
<1>11. 0 \in S
  <2> HIDE DEF empty
  <2>1. RowInv(f[0], F(0))
    BY <1>1, <1>3, <1>10
  <2> QED
    BY <1>1, <2>1
<1>12. \A k \in 1..n : k - 1 \in S => k \in S
  <2> SUFFICES ASSUME NEW k \in 1..n, k - 1 \in S PROVE k \in S
    OBVIOUS
  <2>1. RowInv(f[k - 1], F(k - 1))
    OBVIOUS
  <2> HIDE DEF A, n, S
  <2>2. RowInv(f[k], F(k))
    BY <1>1, <1>4, <1>10, <2>1
  <2> QED
    BY <1>1, <2>2 DEF S
<1>13. RowInv(f[n], FlattenSeq(said))
  <2>1. n \in S
    <3> HIDE DEF S
    <3> QED
      BY <1>1, <1>11, <1>12, InductionUpTo, n \in 0..n
  <2> QED
    BY <1>1, <2>1
<1> QED
  BY <1>9, <1>13, EmittedRowsFacts

-----------------------------------------------------------------------------
(* The units of an element.                                                 *)

ChunksOf(e) == IF e.rows THEN TableChunks(e.text) ELSE TextChunks(e.text)

\* The chunks of an element.
LEMMA ChunksTell ==
    ASSUME NEW e \in Elements
    PROVE  /\ AllSound(ChunksOf(e)) /\ Follow(ChunksOf(e))
           /\ Retells(TokensOf(ChunksOf(e)), FlattenSeq(e.text))
<1>1. e.text \in TextBodies
  BY DEF Elements, TextBodies, Strings
<1>2. CASE e.rows
  BY <1>1, <1>2, TableTells DEF ChunksOf
<1>3. CASE ~e.rows
  <2> DEFINE cs == TextChunks(e.text)
  <2>1. /\ AllSound(cs) /\ Retells(TokensOf(cs), FlattenSeq(e.text))
        /\ \A k \in 1..Len(cs) : cs[k].from = Null
    BY <1>1, TextTells
  <2>2. ChunksOf(e) = cs
    BY <1>3 DEF ChunksOf
  <2> HIDE DEF cs
  <2>3. Len(cs) \in Nat
    BY <2>1 DEF AllSound
  <2>4. ASSUME NEW k \in 1..Len(cs) - 1 PROVE Contiguous(cs[k], cs[k + 1])
    <3>1. k \in 1..Len(cs)
      BY <2>3
    <3> QED
      BY <2>1, <3>1 DEF Contiguous
  <2> QED
    BY <2>1, <2>2, <2>4 DEF Follow
<1> QED
  BY <1>2, <1>3

UnitRecords == [element : Nat, type : STRING, hierarchy : Seq(Nat), toks : Strings,
                sentences : Nat, continuation : Nat, forced : BOOLEAN, notice : BOOLEAN,
                colon : BOOLEAN, from : Nat \cup {Null}, to : Nat \cup {Null}]

\* A unit is within the guards or a single token.
SoundUnit(u) == u \in UnitRecords /\ WithinGuards(u.toks) /\ u.sentences <= HardSentences

\* The units of an element.
LEMMA UnitsFacts ==
    ASSUME NEW e \in Elements, NEW i \in Nat, NEW above \in Seq(Nat)
    PROVE  /\ Units(e, i, above) \in Seq(UnitRecords)
           /\ \A k \in 1..Len(Units(e, i, above)) :
                 /\ SoundUnit(Units(e, i, above)[k])
                 /\ Units(e, i, above)[k].element = i
                 /\ Units(e, i, above)[k].continuation = k - 1
           /\ Follow(Units(e, i, above))
           /\ Retells(TokensOf(Units(e, i, above)), FlattenSeq(e.text))
<1> DEFINE cs == ChunksOf(e)
           us == Units(e, i, above)
           n  == Len(cs)
           unit(k) == [element |-> i, type |-> e.type, hierarchy |-> above, toks |-> cs[k].toks,
                       sentences |-> cs[k].sentences, continuation |-> k - 1,
                       forced |-> cs[k].forced \/ (~e.rows /\ n > 1),
                       notice |-> e.notice, colon |-> e.colon /\ k = n,
                       from |-> cs[k].from, to |-> cs[k].to]
<1>1. AllSound(cs) /\ Follow(cs) /\ Retells(TokensOf(cs), FlattenSeq(e.text))
  BY ChunksTell
<1>2. us = [k \in 1..n |-> unit(k)]
  BY DEF Units, ChunksOf
<1> HIDE DEF cs
<1>3. /\ cs \in Seq(Chunks) /\ n \in Nat
      /\ \A k \in 1..n : cs[k] \in Chunks /\ WithinGuards(cs[k].toks) /\ cs[k].sentences <= HardSentences
  BY <1>1 DEF AllSound
<1>4. e.type \in STRING /\ e.rows \in BOOLEAN /\ e.notice \in BOOLEAN /\ e.colon \in BOOLEAN
  BY DEF Elements
<1> HIDE DEF n
<1>5. ASSUME NEW k \in 1..n
      PROVE  /\ unit(k) \in UnitRecords /\ unit(k).toks = cs[k].toks
             /\ unit(k).sentences = cs[k].sentences /\ unit(k).element = i
             /\ unit(k).continuation = k - 1 /\ unit(k).from = cs[k].from
             /\ unit(k).to = cs[k].to
  <2> DEFINE c == cs[k]
             forced == c.forced \/ (~e.rows /\ n > 1)
             colon  == e.colon /\ k = n
  <2>1. /\ c.toks \in Strings /\ c.sentences \in Nat /\ c.from \in Nat \cup {Null}
        /\ c.to \in Nat \cup {Null}
    BY <1>3 DEF Chunks
  <2>2. forced \in BOOLEAN /\ colon \in BOOLEAN
    OBVIOUS
  <2>3. k - 1 \in Nat
    BY <1>3
  <2> HIDE DEF c, forced, colon
  <2>4. unit(k) = [element |-> i, type |-> e.type, hierarchy |-> above, toks |-> c.toks,
                   sentences |-> c.sentences, continuation |-> k - 1, forced |-> forced,
                   notice |-> e.notice, colon |-> colon, from |-> c.from, to |-> c.to]
    BY DEF c, forced, colon
  <2> HIDE DEF unit
  <2>5. unit(k) \in UnitRecords
    BY <1>4, <2>1, <2>2, <2>3, <2>4 DEF UnitRecords
  <2> QED
    BY <2>4, <2>5 DEF c
<1> HIDE DEF unit, us
<1>6. us \in Seq(UnitRecords) /\ Len(us) = n /\ \A k \in 1..n : us[k] = unit(k)
  <2>1. \A k \in 1..n : unit(k) \in UnitRecords
    BY <1>5
  <2>2. DOMAIN us = 1..n /\ us = [k \in 1..n |-> us[k]] /\ \A k \in 1..n : us[k] = unit(k)
    BY <1>2, Zenon
  <2>3. \A k \in 1..n : us[k] \in UnitRecords
    BY <2>1, <2>2, Zenon
  <2>4. us \in Seq(UnitRecords) /\ Len(us) = n
    BY <1>3, <2>2, <2>3, MapFacts
  <2> QED
    BY <2>2, <2>4
<1>7. \A k \in 1..n : /\ SoundUnit(us[k]) /\ us[k].element = i /\ us[k].continuation = k - 1
                      /\ us[k].toks = cs[k].toks
                      /\ us[k].from = cs[k].from /\ us[k].to = cs[k].to
  BY <1>3, <1>5, <1>6, ZenonT(60) DEF SoundUnit
<1>8. Follow(us)
  <2>1. ASSUME NEW k \in 1..n - 1 PROVE Contiguous(us[k], us[k + 1])
    <3>1. k \in 1..n /\ k + 1 \in 1..n
      BY <1>3
    <3>2. Contiguous(cs[k], cs[k + 1])
      BY <1>1 DEF Follow, n
    <3> QED
      BY <1>7, <3>1, <3>2 DEF Contiguous
  <2> QED
    BY <1>6, <2>1 DEF Follow
<1>9. TokensOf(us) = TokensOf(cs)
  <2>1. ToksOf(us) = [k \in 1..n |-> us[k].toks] /\ ToksOf(cs) = [k \in 1..n |-> cs[k].toks]
    BY <1>6 DEF ToksOf, n
  <2>2. ToksOf(us) = ToksOf(cs)
    BY <1>7, <2>1
  <2> QED
    BY <2>2 DEF TokensOf, ToksOf
<1>10. Retells(TokensOf(us), FlattenSeq(e.text))
  BY <1>1, <1>9
<1> QED
  BY <1>6, <1>7, <1>8, <1>10 DEF us

-----------------------------------------------------------------------------
(* The list of all units.                                                   *)

\* Units in the order of the document: no two of them are the same piece.
Before(u, v) ==
    \/ u.element < v.element
    \/ u.element = v.element /\ u.continuation < v.continuation

AllBefore(us, vs) == \A a \in 1..Len(us), b \in 1..Len(vs) : Before(us[a], vs[b])

\* The units of the first p elements.
UnitsInv(us, es, p) ==
    /\ us \in Seq(UnitRecords)
    /\ \A k \in 1..Len(us) : SoundUnit(us[k]) /\ us[k].element \in 1..p
    /\ \A j, k \in 1..Len(us) : j < k => Before(us[j], us[k])
    /\ \A k \in 1..Len(us) - 1 :
          us[k].element = us[k + 1].element => Contiguous(us[k], us[k + 1])

TextsKept(us, es, p) ==
    \A i \in 1..p : ~es[i].suppressed =>
        Retells(TokensOf(ElementUnits(us, i)), FlattenSeq(es[i].text))

\* The places between which the units of an element are.
LEMMA ExtremesFacts ==
    ASSUME NEW n \in Nat, NEW T, T \subseteq 1..n, T # {}
    PROVE  /\ SmallestOf(T) \in T /\ \A k \in T : SmallestOf(T) <= k
           /\ LargestOf(T) \in T /\ \A k \in T : k <= LargestOf(T)
<1>1. T \in SUBSET Nat /\ T \subseteq 0..n
  OBVIOUS
<1>2. \E m \in T : \A k \in T : m <= k
  BY <1>1, LeastElement
<1>3. PICK m \in T : \A k \in T : k <= m
  BY <1>1, GreatestElement
<1>4. \A k \in T : m >= k
  BY <1>1, <1>3
<1>5. \E x \in T : \A k \in T : x >= k
  BY <1>4
<1>6. SmallestOf(T) \in T /\ \A k \in T : SmallestOf(T) <= k
  BY <1>2 DEF SmallestOf
<1>7. LargestOf(T) \in T /\ \A k \in T : LargestOf(T) >= k
  BY <1>5 DEF LargestOf
<1>8. \A k \in T : k <= LargestOf(T)
  BY <1>1, <1>7
<1> QED
  BY <1>6, <1>7, <1>8

\* What follows does not change the units of an element.
LEMMA EarlierElements ==
    ASSUME NEW us \in Seq(UnitRecords), NEW vs \in Seq(UnitRecords), NEW i \in Nat,
           \A k \in 1..Len(vs) : vs[k].element # i
    PROVE  ElementUnits(us \o vs, i) = ElementUnits(us, i)
<1> DEFINE w == us \o vs
           n == Len(us)
           old == {k \in 1..Len(us) : us[k].element = i}
           mine == {k \in 1..Len(w) : w[k].element = i}
<1>1. /\ n \in Nat /\ Len(vs) \in Nat /\ w \in Seq(UnitRecords) /\ Len(w) = n + Len(vs)
      /\ \A k \in 1..n : w[k] = us[k]
      /\ \A k \in 1..Len(vs) : w[n + k] = vs[k]
  OBVIOUS
<1>2. mine = old
  <2>1. ASSUME NEW k \in mine PROVE k \in old
    <3>1. k \in 1..Len(w) /\ w[k].element = i
      OBVIOUS
    <3> HIDE DEF w, n
    <3>2. CASE k \in 1..n
      BY <1>1, <3>1, <3>2 DEF n
    <3>3. CASE k \notin 1..n
      <4>1. k - n \in 1..Len(vs) /\ n + (k - n) = k
        BY <1>1, <3>1, <3>3
      <4> QED
        BY <1>1, <3>1, <4>1
    <3> QED
      BY <3>2, <3>3
  <2>2. ASSUME NEW k \in old PROVE k \in mine
    <3>1. k \in 1..n /\ us[k].element = i
      OBVIOUS
    <3> HIDE DEF w, n
    <3> QED
      BY <1>1, <3>1
  <2> HIDE DEF mine, old
  <2> QED
    BY <2>1, <2>2
<1>3. CASE old = {}
  <2>1. ElementUnits(w, i) = << >>
    BY <1>2, <1>3 DEF ElementUnits
  <2>2. ElementUnits(us, i) = << >>
    BY <1>3 DEF ElementUnits
  <2> QED
    BY <2>1, <2>2
<1>4. CASE old # {}
  <2> DEFINE a == SmallestOf(old)
             b == LargestOf(old)
  <2>1. ElementUnits(w, i) = SubSeq(w, a, b)
    BY <1>2, <1>4 DEF ElementUnits
  <2>2. ElementUnits(us, i) = SubSeq(us, a, b)
    BY <1>4 DEF ElementUnits
  <2>3. a \in 1..n /\ b \in 1..n
    <3>1. old \subseteq 1..n
      OBVIOUS
    <3> HIDE DEF old, n
    <3> QED
      BY <1>1, <1>4, <3>1, ExtremesFacts
  <2> HIDE DEF w, a, b, old
  <2>4. SubSeq(w, a, b) = SubSeq(us, a, b)
    <3>1. SubSeq(w, a, b) = [k \in 1..b - a + 1 |-> w[a + k - 1]]
      BY <1>1, <2>3
    <3>2. SubSeq(us, a, b) = [k \in 1..b - a + 1 |-> us[a + k - 1]]
      BY <1>1, <2>3
    <3>3. \A k \in 1..b - a + 1 : w[a + k - 1] = us[a + k - 1]
      BY <1>1, <2>3
    <3> QED
      BY <3>1, <3>2, <3>3
  <2> QED
    BY <2>1, <2>2, <2>4 DEF w
<1> QED
  BY <1>3, <1>4

\* The units of the element that was taken last are those that were added.
LEMMA LastElement ==
    ASSUME NEW us \in Seq(UnitRecords), NEW vs \in Seq(UnitRecords), NEW i \in Nat,
           \A k \in 1..Len(us) : us[k].element # i,
           \A k \in 1..Len(vs) : vs[k].element = i
    PROVE  ElementUnits(us \o vs, i) = vs
<1> DEFINE w == us \o vs
           n == Len(us)
           m == Len(vs)
           mine == {k \in 1..Len(w) : w[k].element = i}
<1>1. /\ n \in Nat /\ m \in Nat /\ w \in Seq(UnitRecords) /\ Len(w) = n + m
      /\ \A k \in 1..n : w[k] = us[k]
      /\ \A k \in 1..m : w[n + k] = vs[k]
  OBVIOUS
<1> HIDE DEF w, n, m
<1>2. mine = n + 1..n + m
  <2>1. ASSUME NEW k \in mine PROVE k \in n + 1..n + m
    <3>1. k \in 1..n + m /\ w[k].element = i
      BY <1>1
    <3>2. k \notin 1..n
      BY <1>1, <3>1 DEF n
    <3> QED
      BY <1>1, <3>1, <3>2
  <2>2. ASSUME NEW k \in n + 1..n + m PROVE k \in mine
    <3>1. k - n \in 1..m /\ n + (k - n) = k /\ k \in 1..n + m
      BY <1>1
    <3>2. w[k] = vs[k - n]
      BY <1>1, <3>1
    <3>3. w[k].element = i
      BY <3>1, <3>2 DEF m
    <3> QED
      BY <1>1, <3>1, <3>3
  <2> HIDE DEF mine
  <2> QED
    BY <2>1, <2>2
<1>3. CASE m = 0
  <2>1. mine = {}
    BY <1>1, <1>2, <1>3
  <2>2. ElementUnits(w, i) = << >>
    BY <2>1 DEF ElementUnits
  <2>3. vs = << >>
    BY <1>3 DEF m
  <2> QED
    BY <2>2, <2>3 DEF w
<1>4. CASE m # 0
  <2> DEFINE a == SmallestOf(mine)
             b == LargestOf(mine)
  <2>1. n + 1 \in mine /\ n + m \in mine
    <3>1. n + 1 \in n + 1..n + m /\ n + m \in n + 1..n + m
      BY <1>1, <1>4
    <3> QED
      BY <1>2, <3>1, Zenon
  <2>2. ElementUnits(w, i) = SubSeq(w, a, b)
    BY <2>1 DEF ElementUnits
  <2> HIDE DEF mine
  <2>3. a = n + 1 /\ b = n + m
    <3>1. mine \subseteq 1..n + m /\ mine # {} /\ n + m \in Nat
      <4>1. \A k \in n + 1..n + m : k \in 1..n + m
        BY <1>1
      <4>2. mine \subseteq 1..n + m
        BY <1>2, <4>1, Zenon
      <4>3. mine # {}
        BY <2>1, Zenon
      <4> QED
        BY <1>1, <4>2, <4>3
    <3>2. a \in mine /\ b \in mine /\ \A k \in mine : a <= k /\ k <= b
      BY <3>1, ExtremesFacts
    <3>3. a <= n + 1 /\ n + m <= b /\ a \in n + 1..n + m /\ b \in n + 1..n + m
      BY <1>2, <2>1, <3>2
    <3> HIDE DEF a, b
    <3> QED
      BY <1>1, <3>3
  <2> HIDE DEF a, b
  <2>4. SubSeq(w, n + 1, n + m) = [k \in 1..m |-> w[n + k]]
    <3>1. SubSeq(w, n + 1, n + m) = [k \in 1..(n + m) - (n + 1) + 1 |-> w[(n + 1) + k - 1]]
      BY <1>1, <1>4
    <3>2. (n + m) - (n + 1) + 1 = m /\ \A k \in 1..m : (n + 1) + k - 1 = n + k
      BY <1>1
    <3> QED
      BY <3>1, <3>2
  <2>5. vs = [k \in 1..m |-> vs[k]]
    BY DEF m
  <2> QED
    BY <1>1, <2>2, <2>3, <2>4, <2>5 DEF w
<1> QED
  BY <1>3, <1>4

\* The units of one element more.
LEMMA UnitsAdded ==
    ASSUME NEW es \in Seq(Elements), NEW p \in Nat, p + 1 \in 1..Len(es),
           NEW us, UnitsInv(us, es, p), NEW above \in Seq(Nat)
    PROVE  /\ UnitsInv(us, es, p + 1)
           /\ UnitsInv(us \o Units(es[p + 1], p + 1, above), es, p + 1)
           /\ TextsKept(us, es, p) =>
                TextsKept(us \o Units(es[p + 1], p + 1, above), es, p + 1)
           /\ TextsKept(us, es, p) /\ es[p + 1].suppressed => TextsKept(us, es, p + 1)
<1> DEFINE e  == es[p + 1]
           vs == Units(e, p + 1, above)
           w  == us \o vs
           n  == Len(us)
           m  == Len(vs)
<1>1. /\ us \in Seq(UnitRecords) /\ n \in Nat
      /\ \A k \in 1..n : SoundUnit(us[k]) /\ us[k].element \in 1..p
      /\ \A j, k \in 1..n : j < k => Before(us[j], us[k])
      /\ \A k \in 1..n - 1 : us[k].element = us[k + 1].element => Contiguous(us[k], us[k + 1])
  BY DEF UnitsInv
<1>2. e \in Elements /\ p + 1 \in Nat
  OBVIOUS
<1>3. /\ vs \in Seq(UnitRecords) /\ m \in Nat
      /\ \A k \in 1..m : SoundUnit(vs[k]) /\ vs[k].element = p + 1 /\ vs[k].continuation = k - 1
      /\ \A k \in 1..m - 1 : Contiguous(vs[k], vs[k + 1])
      /\ Retells(TokensOf(vs), FlattenSeq(e.text))
  <2> HIDE DEF e, vs, m
  <2>1. /\ vs \in Seq(UnitRecords)
        /\ \A k \in 1..Len(vs) : SoundUnit(vs[k]) /\ vs[k].element = p + 1
                                 /\ vs[k].continuation = k - 1
        /\ Follow(vs)
        /\ Retells(TokensOf(vs), FlattenSeq(e.text))
    BY <1>2, UnitsFacts DEF vs
  <2>2. m \in Nat
    BY <2>1 DEF m
  <2> QED
    BY <2>1, <2>2 DEF Follow, m
<1> HIDE DEF e, vs, w, n, m
<1>4. /\ w \in Seq(UnitRecords) /\ Len(w) = n + m
      /\ \A k \in 1..n : w[k] = us[k]
      /\ \A k \in 1..m : w[n + k] = vs[k]
  BY <1>1, <1>3 DEF w, n, m
<1>5. ASSUME NEW k \in 1..n + m, k \notin 1..n
      PROVE  k - n \in 1..m /\ n + (k - n) = k /\ w[k] = vs[k - n]
  <2>1. k - n \in 1..m /\ n + (k - n) = k
    BY <1>1, <1>3, <1>5
  <2> QED
    BY <1>4, <2>1
<1>6. \A k \in 1..n : us[k].element \in 1..p + 1
  BY <1>1
<1>7. UnitsInv(us, es, p + 1)
  BY <1>1, <1>6 DEF UnitsInv, n
<1>8. UnitsInv(w, es, p + 1)
  <2>1. ASSUME NEW k \in 1..n + m PROVE SoundUnit(w[k]) /\ w[k].element \in 1..p + 1
    <3>1. CASE k \in 1..n
      BY <1>1, <1>4, <1>6, <3>1
    <3>2. CASE k \notin 1..n
      <4>1. k - n \in 1..m /\ w[k] = vs[k - n]
        BY <1>5, <3>2
      <4>2. p + 1 \in 1..p + 1
        OBVIOUS
      <4> QED
        BY <1>3, <4>1, <4>2
    <3> QED
      BY <3>1, <3>2
  <2>2. ASSUME NEW j \in 1..n + m, NEW k \in 1..n + m, j < k PROVE Before(w[j], w[k])
    <3>1. CASE j \in 1..n /\ k \in 1..n
      BY <1>1, <1>4, <2>2, <3>1
    <3>2. CASE j \in 1..n /\ k \notin 1..n
      <4>1. k - n \in 1..m /\ w[k] = vs[k - n] /\ w[j] = us[j]
        BY <1>4, <1>5, <3>2
      <4>2. us[j].element \in 1..p /\ vs[k - n].element = p + 1
        BY <1>1, <1>3, <3>2, <4>1
      <4>3. us[j].element < vs[k - n].element
        BY <4>2
      <4> QED
        BY <4>1, <4>3 DEF Before
    <3>3. CASE j \notin 1..n
      <4>1. k \notin 1..n
        BY <1>1, <2>2, <3>3
      <4>2. /\ j - n \in 1..m /\ w[j] = vs[j - n]
            /\ k - n \in 1..m /\ w[k] = vs[k - n]
        BY <1>5, <3>3, <4>1
      <4>3. /\ vs[j - n].element = vs[k - n].element
            /\ vs[j - n].continuation = (j - n) - 1 /\ vs[k - n].continuation = (k - n) - 1
        BY <1>3, <4>2
      <4>4. (j - n) - 1 < (k - n) - 1
        BY <1>1, <2>2
      <4> QED
        BY <4>2, <4>3, <4>4 DEF Before
    <3> QED
      BY <3>1, <3>2, <3>3
  <2>3. ASSUME NEW k \in 1..(n + m) - 1, w[k].element = w[k + 1].element
        PROVE  Contiguous(w[k], w[k + 1])
    <3>1. k \in 1..n + m /\ k + 1 \in 1..n + m
      BY <1>1, <1>3
    <3>2. CASE k + 1 \in 1..n
      <4>1. k \in 1..n /\ k \in 1..n - 1
        BY <1>1, <3>2
      <4>2. w[k] = us[k] /\ w[k + 1] = us[k + 1]
        BY <1>4, <3>2, <4>1
      <4> QED
        BY <1>1, <2>3, <4>1, <4>2
    <3>3. CASE k \in 1..n /\ k + 1 \notin 1..n
      <4>1. w[k] = us[k] /\ us[k].element \in 1..p
        BY <1>1, <1>4, <3>3
      <4>2. (k + 1) - n \in 1..m /\ w[k + 1] = vs[(k + 1) - n]
        BY <1>5, <3>1, <3>3
      <4>3. w[k + 1].element = p + 1
        BY <1>3, <4>2
      <4> QED
        BY <2>3, <4>1, <4>3
    <3>4. CASE k \notin 1..n
      <4>1. k + 1 \notin 1..n
        BY <1>1, <3>1, <3>4
      <4>2. /\ k - n \in 1..m /\ w[k] = vs[k - n]
            /\ (k + 1) - n \in 1..m /\ w[k + 1] = vs[(k + 1) - n]
        BY <1>5, <3>1, <3>4, <4>1
      <4>3. (k + 1) - n = (k - n) + 1 /\ k - n \in 1..m - 1
        <5>1. k \in Int /\ n \in Int /\ m \in Int /\ k <= (n + m) - 1 /\ k - n \in 1..m
          BY <1>1, <1>3, <4>2
        <5>2. (k + 1) - n = (k - n) + 1
          BY <5>1
        <5>3. k - n \in 1..m - 1
          BY <5>1
        <5> QED
          BY <5>2, <5>3
      <4> QED
        BY <1>3, <4>2, <4>3
    <3> QED
      BY <3>2, <3>3, <3>4
  <2> QED
    BY <1>4, <2>1, <2>2, <2>3 DEF UnitsInv
<1>9. ASSUME TextsKept(us, es, p) PROVE TextsKept(w, es, p + 1)
  <2> SUFFICES ASSUME NEW i \in 1..p + 1, ~es[i].suppressed
               PROVE  Retells(TokensOf(ElementUnits(w, i)), FlattenSeq(es[i].text))
    BY DEF TextsKept
  <2>1. CASE i = p + 1
    <3>1. \A k \in 1..Len(us) : us[k].element # p + 1
      BY <1>1 DEF n
    <3>2. \A k \in 1..Len(vs) : vs[k].element = p + 1
      BY <1>3 DEF m
    <3>3. ElementUnits(w, p + 1) = vs
      <4>1. us \in Seq(UnitRecords) /\ vs \in Seq(UnitRecords) /\ p + 1 \in Nat
        BY <1>1, <1>2, <1>3
      <4> QED
        BY <3>1, <3>2, <4>1, LastElement, Zenon DEF w
    <3> QED
      BY <1>3, <2>1, <3>3 DEF e
  <2>2. CASE i # p + 1
    <3>1. i \in 1..p /\ i \in Nat
      BY <2>2
    <3>2. \A k \in 1..Len(vs) : vs[k].element # i
      BY <1>3, <3>1 DEF m
    <3>3. ElementUnits(w, i) = ElementUnits(us, i)
      BY <1>1, <1>3, <3>1, <3>2, EarlierElements DEF w
    <3> QED
      BY <1>9, <3>1, <3>3 DEF TextsKept
  <2> QED
    BY <2>1, <2>2
<1>10. ASSUME TextsKept(us, es, p), es[p + 1].suppressed PROVE TextsKept(us, es, p + 1)
  <2>1. \A i \in 1..p + 1 : i \in 1..p \/ i = p + 1
    OBVIOUS
  <2> QED
    BY <1>10, <2>1 DEF TextsKept
<1> QED
  BY <1>7, <1>8, <1>9, <1>10 DEF w, vs, e

-----------------------------------------------------------------------------
(* Sizes and ids.                                                           *)

\* The sizes of one unit are those of its tokens.
LEMMA SizesOfOne ==
    ASSUME NEW u, SoundUnit(u)
    PROVE  /\ SizeChars(<<u>>) = Chars(u.toks) /\ SizeWords(<<u>>) = CountWords(u.toks)
           /\ SizeReliable(<<u>>) = Reliable(u.toks)
           /\ ~(SizeSentences(<<u>>) > HardSentences)
<1> DEFINE toks == u.toks
           n    == Len(toks)
<1>1. toks \in Seq(Tokens) /\ n \in Nat /\ \A k \in 1..n : toks[k] \in Tokens
  BY DEF SoundUnit, UnitRecords, Strings
<1>2. u.sentences \in Nat /\ u.sentences <= HardSentences /\ HardSentences \in Nat
  BY GuardFacts DEF SoundUnit, UnitRecords
<1> HIDE DEF toks, n
<1>3. \A k \in 1..n : toks[k].c \in Int /\ toks[k].w \in Int
  BY <1>1 DEF Tokens
<1>4. Chars(toks) \in Int
  <2>1. Lengths(toks) \in Seq(Int)
    BY <1>1, <1>3 DEF Lengths, n
  <2>2. Total(Lengths(toks)) \in Int
    BY <2>1, TotalAppend
  <2> QED
    BY <1>1, <2>2 DEF Chars, n
<1>5. CountWords(toks) \in Int
  <2> DEFINE words == [k \in 1..Len(toks) |-> toks[k].w]
  <2>1. words \in Seq(Int)
    BY <1>1, <1>3 DEF n
  <2> HIDE DEF words
  <2>2. Total(words) \in Int
    BY <2>1, TotalAppend
  <2> QED
    BY <2>2 DEF CountWords, words
<1>6. Len(<<u>>) = 1 /\ <<u>>[1] = u /\ 1..1 = {1}
  OBVIOUS
<1>7. /\ [k \in 1..Len(<<u>>) |-> Chars(<<u>>[k].toks)] = <<Chars(toks)>>
      /\ [k \in 1..Len(<<u>>) |-> CountWords(<<u>>[k].toks)] = <<CountWords(toks)>>
      /\ [k \in 1..Len(<<u>>) |-> <<u>>[k].sentences] = <<u.sentences>>
  BY DEF toks
<1>8. SizeChars(<<u>>) = Chars(toks)
  BY <1>4, <1>6, <1>7, TotalOfOne DEF SizeChars
<1>9. SizeWords(<<u>>) = CountWords(toks)
  BY <1>5, <1>7, TotalOfOne DEF SizeWords
<1>10. SizeSentences(<<u>>) = u.sentences
  BY <1>2, <1>7, TotalOfOne DEF SizeSentences
<1>11. SizeReliable(<<u>>) = Reliable(toks)
  <2>1. SizeReliable(<<u>>) <=> \A k \in 1..1 : Reliable(<<u>>[k].toks)
    BY <1>6, Zenon DEF SizeReliable
  <2>2. (\A k \in 1..1 : Reliable(<<u>>[k].toks)) <=> Reliable(toks)
    BY <1>6, Zenon DEF toks
  <2>3. SizeReliable(<<u>>) \in BOOLEAN /\ Reliable(toks) \in BOOLEAN
    BY DEF SizeReliable, Reliable
  <2> QED
    BY <2>1, <2>2, <2>3
<1> QED
  BY <1>2, <1>8, <1>9, <1>10, <1>11 DEF toks

\* A token alone: what it is too long for.
LEMMA AloneFacts ==
    ASSUME NEW t \in Tokens, TooLong(<<t>>)
    PROVE  t.c > HardChars \/ (t.r /\ t.w > HardWords)
<1>1. t.c \in Int /\ t.w \in Int
  BY DEF Tokens
<1>2. /\ Len(<<t>>) = 1 /\ Lengths(<<t>>) = <<t.c>>
      /\ [k \in 1..Len(<<t>>) |-> <<t>>[k].w] = <<t.w>>
  BY DEF Lengths
<1>3. Total(<<t.c>>) = t.c /\ Total(<<t.w>>) = t.w
  BY <1>1, TotalOfOne
<1>4. CountWords(<<t>>) = t.w
  BY <1>2, <1>3 DEF CountWords
<1>5. Chars(<<t>>) = t.c
  BY <1>1, <1>2, <1>3 DEF Chars
<1>6. Reliable(<<t>>) => t.r
  BY <1>2 DEF Reliable
<1> QED
  BY <1>4, <1>5, <1>6 DEF TooLong

\* A unit exceeds the guards only if it is a token that cannot be cut.
LEMMA OnlyATokenExceeds ==
    ASSUME NEW u, SoundUnit(u), ExceedsHard(<<u>>)
    PROVE  \E k \in 1..Len(u.toks) : Uncuttable(u.toks[k])
<1>1. TooLong(u.toks)
  BY SizesOfOne DEF ExceedsHard, TooLong
<1>2. u.toks \in Seq(Tokens) /\ IsAlone(u.toks)
  BY <1>1 DEF SoundUnit, WithinGuards, UnitRecords, Strings
<1>3. u.toks = <<u.toks[1]>> /\ u.toks[1] \in Tokens /\ 1 \in 1..Len(u.toks)
  BY <1>2 DEF IsAlone
<1>4. TooLong(<<u.toks[1]>>)
  BY <1>1, <1>3
<1>5. u.toks[1].c > HardChars \/ (u.toks[1].r /\ u.toks[1].w > HardWords)
  BY <1>3, <1>4, AloneFacts
<1>6. Uncuttable(u.toks[1])
  BY <1>2, <1>5 DEF IsAlone, HoldsGiant, Uncuttable
<1> QED
  BY <1>3, <1>6

\* What the places of a list of units hold.
LEMMA UnitFields ==
    ASSUME NEW us \in Seq(UnitRecords)
    PROVE  /\ Len(us) \in Nat
           /\ \A k \in 1..Len(us) : us[k].element \in Nat /\ us[k].continuation \in Nat
<1>1. \A u \in UnitRecords : u.element \in Nat /\ u.continuation \in Nat
  BY DEF UnitRecords
<1>2. Len(us) \in Nat /\ \A k \in 1..Len(us) : us[k] \in UnitRecords
  OBVIOUS
<1> QED
  BY <1>1, <1>2

\* The solution of the recursion for the elements of units.
IsSources(us, f) ==
    f = [n \in 0..Len(us) |->
            IF n = 0 THEN << >>
            ELSE IF us[n].element \in ToSet(f[n - 1]) THEN f[n - 1]
            ELSE Append(f[n - 1], us[n].element)]

\* The members of a sequence.
LEMMA MembersFacts ==
    ASSUME NEW s \in Seq(Nat), NEW x \in Nat
    PROVE  ToSet(<< >>) = {} /\ ToSet(Append(s, x)) = ToSet(s) \cup {x}
<1>1. ToSet(<< >>) = {}
  BY DEF ToSet
<1>2. /\ Len(s) \in Nat /\ DOMAIN s = 1..Len(s) /\ DOMAIN Append(s, x) = 1..Len(s) + 1
      /\ Append(s, x)[Len(s) + 1] = x
      /\ \A k \in 1..Len(s) : Append(s, x)[k] = s[k]
  OBVIOUS
<1> DEFINE t == Append(s, x)
<1> HIDE DEF t
<1>3. ASSUME NEW k \in 1..Len(s) + 1 PROVE t[k] \in ToSet(s) \cup {x}
  <2>1. CASE k = Len(s) + 1
    BY <1>2, <2>1 DEF t
  <2>2. CASE k # Len(s) + 1
    <3>1. k \in 1..Len(s)
      BY <1>2, <2>2
    <3> QED
      BY <1>2, <3>1 DEF t, ToSet
  <2> QED
    BY <2>1, <2>2
<1>4. ASSUME NEW y \in ToSet(s) \cup {x} PROVE \E k \in 1..Len(s) + 1 : t[k] = y
  <2>1. CASE y = x
    <3>1. Len(s) + 1 \in 1..Len(s) + 1
      BY <1>2
    <3> QED
      BY <1>2, <2>1, <3>1 DEF t
  <2>2. CASE y # x
    <3>1. PICK k \in 1..Len(s) : s[k] = y
      BY <1>2, <1>4, <2>2 DEF ToSet
    <3>2. k \in 1..Len(s) + 1 /\ t[k] = y
      BY <1>2, <3>1 DEF t
    <3> QED
      BY <3>2
  <2> QED
    BY <2>1, <2>2
<1>5. ToSet(t) = ToSet(s) \cup {x}
  <2>1. ToSet(t) = {t[k] : k \in 1..Len(s) + 1}
    BY <1>2 DEF t, ToSet
  <2> QED
    BY <1>3, <1>4, <2>1
<1> QED
  BY <1>1, <1>5 DEF t

\* The elements of units are those that their ids name.
LEMMA SourceIdsFacts ==
    ASSUME NEW us \in Seq(UnitRecords)
    PROVE  ToSet(SourceIds(us)) = {us[k].element : k \in 1..Len(us)}
<1> DEFINE n == Len(us)
           Step(x, e) == IF e \in ToSet(x) THEN x ELSE Append(x, e)
           step == [k \in 1..n |-> [x \in Seq(Nat) |-> Step(x, us[k].element)]]
           E(k) == {us[j].element : j \in 1..k}
<1>1. n \in Nat /\ \A k \in 1..n : us[k].element \in Nat
  BY UnitFields
<1>2. ASSUME NEW x \in Seq(Nat), NEW e \in Nat
      PROVE  Step(x, e) \in Seq(Nat) /\ ToSet(Step(x, e)) = ToSet(x) \cup {e}
  <2>1. CASE e \in ToSet(x)
    BY <2>1
  <2>2. CASE e \notin ToSet(x)
    <3>1. Append(x, e) \in Seq(Nat)
      OBVIOUS
    <3> QED
      BY <2>2, <3>1, MembersFacts
  <2> QED
    BY <2>1, <2>2
<1> HIDE DEF Step, n
<1>3. \E f : IsSources(us, f)
  <2>1. IsStep(step, n, Seq(Nat))
    BY <1>1, <1>2 DEF IsStep
  <2>2. \A k \in 1..n : \A x \in Seq(Nat) : step[k][x] = Step(x, us[k].element)
    OBVIOUS
  <2>3. << >> \in Seq(Nat)
    OBVIOUS
  <2> HIDE DEF step
  <2>4. PICK f : IsRecursion(f, n, Seq(Nat), << >>, step)
    BY <1>1, <2>1, <2>3, RecursionUpTo
  <2>5. \A k \in 1..n : f[k] = Step(f[k - 1], us[k].element)
    <3> TAKE k \in 1..n
    <3>1. k - 1 \in 0..n
      BY <1>1
    <3>2. f[k - 1] \in Seq(Nat) /\ f[k] = step[k][f[k - 1]]
      BY <2>4, <3>1 DEF IsRecursion
    <3> QED
      BY <2>2, <3>2
  <2>6. f = [k \in 0..n |-> IF k = 0 THEN << >> ELSE Step(f[k - 1], us[k].element)]
    BY <1>1, <2>4, <2>5 DEF IsRecursion
  <2> QED
    BY <2>6 DEF IsSources, Step, n
<1> DEFINE f == CHOOSE f : IsSources(us, f)
<1>4. IsSources(us, f)
  BY <1>3
<1>5. SourceIds(us) = f[n]
  BY DEF SourceIds, IsSources, n
<1> HIDE DEF f
<1>6. f[0] = << >> /\ \A k \in 1..n : f[k] = Step(f[k - 1], us[k].element)
  <2>1. f = [k \in 0..n |-> IF k = 0 THEN << >> ELSE Step(f[k - 1], us[k].element)]
    BY <1>4 DEF IsSources, Step, n
  <2> QED
    BY <1>1, <2>1
<1> DEFINE S == {k \in 0..n : f[k] \in Seq(Nat) /\ ToSet(f[k]) = E(k)}
<1>7. 0 \in S
  <2>1. E(0) = {} /\ << >> \in Seq(Nat)
    OBVIOUS
  <2>2. ToSet(<< >>) = {}
    BY DEF ToSet
  <2> HIDE DEF E
  <2>3. f[0] \in Seq(Nat) /\ ToSet(f[0]) = E(0)
    BY <1>6, <2>1, <2>2
  <2> QED
    BY <1>1, <2>3
<1>8. \A k \in 1..n : k - 1 \in S => k \in S
  <2> SUFFICES ASSUME NEW k \in 1..n, k - 1 \in S PROVE k \in S
    OBVIOUS
  <2>1. f[k - 1] \in Seq(Nat) /\ ToSet(f[k - 1]) = E(k - 1)
    OBVIOUS
  <2>2. f[k] \in Seq(Nat) /\ ToSet(f[k]) = ToSet(f[k - 1]) \cup {us[k].element}
    BY <1>1, <1>2, <1>6, <2>1
  <2>3. E(k) = E(k - 1) \cup {us[k].element}
    <3>1. \A j \in 1..k : j \in 1..k - 1 \/ j = k
      BY <1>1
    <3>2. \A j \in 1..k - 1 : j \in 1..k
      BY <1>1
    <3>3. k \in 1..k
      BY <1>1
    <3> QED
      BY <3>1, <3>2, <3>3
  <2> HIDE DEF E
  <2>4. f[k] \in Seq(Nat) /\ ToSet(f[k]) = E(k)
    BY <2>1, <2>2, <2>3
  <2> QED
    BY <1>1, <2>4
<1>9. n \in S
  <2> HIDE DEF S
  <2> QED
    BY <1>1, <1>7, <1>8, InductionUpTo, n \in 0..n
<1> QED
  BY <1>5, <1>9 DEF n

\* The last continuation of a list is one of its units'.
LEMMA LastContinuationFacts ==
    ASSUME NEW us \in Seq(UnitRecords), us # << >>
    PROVE  \E a \in 1..Len(us) : LastContinuation(us) = us[a].continuation
<1> DEFINE T == {us[k].continuation : k \in 1..Len(us)}
           n == Len(us)
           C(k) == {us[j].continuation : j \in 1..k}
           HasMax(k) == \E m \in C(k) : \A x \in C(k) : m >= x
           S == {k \in 0..n : k = 0 \/ HasMax(k)}
<1>1. n \in Nat /\ n # 0 /\ \A k \in 1..n : us[k].continuation \in Nat
  <2>1. n # 0
    OBVIOUS
  <2> QED
    BY <2>1, UnitFields
<1>2. 0 \in S
  BY <1>1
<1>3. \A k \in 1..n : k - 1 \in S => k \in S
  <2> SUFFICES ASSUME NEW k \in 1..n, k - 1 \in S PROVE k \in 0..n /\ HasMax(k)
    OBVIOUS
  <2>3. k \in 0..n
    BY <1>1
  <2>1. CASE k = 1
    <3> DEFINE c == us[1].continuation
    <3>1. C(k) = {c}
      <4>1. 1..k = {1}
        BY <2>1
      <4> QED
        BY <4>1
    <3>2. c \in Nat /\ c >= c
      BY <1>1, <2>1
    <3> HIDE DEF C, c
    <3> QED
      BY <2>3, <3>1, <3>2
  <2>2. CASE k # 1
    <3>1. PICK m \in C(k - 1) : \A x \in C(k - 1) : m >= x
      BY <2>2
    <3>2. \A j \in 1..k : j \in 1..k - 1 \/ j = k
      BY <1>1
    <3>3. \A j \in 1..k - 1 : j \in 1..k /\ j \in 1..n
      BY <1>1
    <3> DEFINE c == us[k].continuation
    <3>4. c \in Nat /\ m \in Nat /\ c \in C(k) /\ m \in C(k)
      <4>1. k \in 1..k
        BY <1>1
      <4>2. c \in C(k)
        BY <4>1
      <4>3. m \in C(k)
        BY <3>3
      <4>4. m \in Nat
        BY <1>1, <3>3
      <4> QED
        BY <1>1, <4>2, <4>3, <4>4
    <3>5. \A x \in C(k) : x \in C(k - 1) \/ x = c
      BY <3>2
    <3>6. \A x \in C(k - 1) : x \in Nat
      BY <1>1, <3>3
    <3> HIDE DEF C, c
    <3>7. CASE m >= c
      BY <3>1, <3>4, <3>5, <3>7
    <3>8. CASE ~(m >= c)
      <4>1. \A x \in C(k) : c >= x
        BY <3>1, <3>4, <3>5, <3>6, <3>8
      <4> QED
        BY <3>4, <4>1
    <3> QED
      BY <2>3, <3>7, <3>8
  <2> QED
    BY <2>1, <2>2
<1>4. n \in S
  <2> HIDE DEF S
  <2> QED
    BY <1>1, <1>2, <1>3, InductionUpTo, n \in 0..n
<1>5. T # {} /\ \E m \in T : \A x \in T : m >= x
  BY <1>1, <1>4
<1>6. LastContinuation(us) = LargestOf(T)
  BY DEF LastContinuation
<1> HIDE DEF T
<1>7. LargestOf(T) \in T
  BY <1>5 DEF LargestOf
<1> QED
  BY <1>6, <1>7 DEF T

\* Two fragments one before the other have ids of their own.
LEMMA IdentitiesDiffer ==
    ASSUME NEW us \in Seq(UnitRecords), NEW vs \in Seq(UnitRecords), us # << >>, vs # << >>,
           AllBefore(us, vs)
    PROVE  Identity(us) # Identity(vs)
<1> SUFFICES ASSUME Identity(us) = Identity(vs) PROVE FALSE
  OBVIOUS
<1>1. SourceIds(us) = SourceIds(vs) /\ LastContinuation(us) = LastContinuation(vs)
  BY DEF Identity
<1>2. {us[k].element : k \in 1..Len(us)} = {vs[k].element : k \in 1..Len(vs)}
  BY <1>1, SourceIdsFacts
<1>3. PICK a \in 1..Len(us) : LastContinuation(us) = us[a].continuation
  BY LastContinuationFacts
<1>4. PICK b \in 1..Len(vs) : LastContinuation(vs) = vs[b].continuation
  BY LastContinuationFacts
<1>5. \A k \in 1..Len(us) : us[k].element \in Nat /\ us[k].continuation \in Nat
  BY UnitFields
<1>6. \A k \in 1..Len(vs) : vs[k].element \in Nat /\ vs[k].continuation \in Nat
  BY UnitFields
<1>7. \A j \in 1..Len(us), k \in 1..Len(vs) :
         \/ us[j].element < vs[k].element
         \/ us[j].element = vs[k].element /\ us[j].continuation < vs[k].continuation
  BY DEF AllBefore, Before
<1>8. PICK c \in 1..Len(vs) : vs[c].element = us[a].element
  BY <1>2
<1>9. PICK d \in 1..Len(us) : us[d].element = vs[b].element
  BY <1>2
<1>10. us[d].element <= vs[c].element
  <2>1. us[d].element < vs[c].element \/ us[d].element = vs[c].element
    BY <1>7
  <2>2. us[d].element \in Nat /\ vs[c].element \in Nat
    BY <1>5, <1>6
  <2> QED
    BY <2>1, <2>2
<1>11. us[a].element = vs[b].element
  <2>1. us[a].element <= vs[b].element
    <3>1. us[a].element < vs[b].element \/ us[a].element = vs[b].element
      BY <1>7
    <3>2. us[a].element \in Nat /\ vs[b].element \in Nat
      BY <1>5, <1>6
    <3> QED
      BY <3>1, <3>2
  <2>2. vs[b].element <= us[a].element
    BY <1>8, <1>9, <1>10
  <2> QED
    BY <1>5, <1>6, <2>1, <2>2
<1>12. us[a].continuation < vs[b].continuation
  BY <1>5, <1>6, <1>7, <1>11
<1>13. us[a].continuation = vs[b].continuation
  BY <1>1, <1>3, <1>4
<1> QED
  BY <1>5, <1>6, <1>12, <1>13

-----------------------------------------------------------------------------
(* Groups of units.                                                         *)

GroupRecords == [units : Seq(UnitRecords), reason : Reasons, forced : BOOLEAN]

\* Groups that were closed: none is empty or exceeds the guards.
ClosedGroups(gs) ==
    /\ gs \in Seq(GroupRecords)
    /\ \A k \in 1..Len(gs) : gs[k].units # << >> /\ ~ExceedsHard(gs[k].units)

PiecesOf(gs) == [k \in 1..Len(gs) |-> gs[k].units]

\* The units of groups, by place.
LEMMA PiecesFacts ==
    ASSUME NEW gs \in Seq(GroupRecords)
    PROVE  /\ PiecesOf(gs) \in Seq(Seq(UnitRecords)) /\ Len(PiecesOf(gs)) = Len(gs)
           /\ \A k \in 1..Len(gs) : PiecesOf(gs)[k] = gs[k].units
           /\ UnitsOf(gs) = FlattenSeq(PiecesOf(gs)) /\ UnitsOf(gs) \in Seq(UnitRecords)
<1> DEFINE n == Len(gs)
           p == PiecesOf(gs)
<1>1. \A g \in GroupRecords : g.units \in Seq(UnitRecords)
  BY DEF GroupRecords
<1>2. n \in Nat /\ \A k \in 1..n : gs[k].units \in Seq(UnitRecords)
  BY <1>1
<1>3. DOMAIN p = 1..n /\ p = [k \in 1..n |-> p[k]] /\ \A k \in 1..n : p[k] = gs[k].units
  BY DEF PiecesOf
<1> HIDE DEF p, n
<1>4. \A k \in 1..n : p[k] \in Seq(UnitRecords)
  BY <1>2, <1>3
<1>5. p \in Seq(Seq(UnitRecords)) /\ Len(p) = n
  BY <1>2, <1>3, <1>4, MapFacts
<1>6. FlattenSeq(p) \in Seq(UnitRecords)
  BY <1>5, FlattenAppend, << >> \in Seq(UnitRecords)
<1>7. UnitsOf(gs) = FlattenSeq(p)
  BY DEF UnitsOf, PiecesOf, p
<1> QED
  BY <1>3, <1>5, <1>6, <1>7 DEF p, n

\* No groups, and one more.
LEMMA UnitsOfFacts ==
    ASSUME NEW gs \in Seq(GroupRecords), NEW g \in GroupRecords
    PROVE  UnitsOf(<< >>) = << >> /\ UnitsOf(Append(gs, g)) = UnitsOf(gs) \o g.units
<1>1. UnitsOf(<< >>) = << >>
  <2>1. PiecesOf(<< >>) = << >>
    BY DEF PiecesOf
  <2>2. FlattenSeq(<< >>) = << >>
    BY DEF FlattenSeq
  <2> QED
    BY <2>1, <2>2 DEF UnitsOf, PiecesOf
<1> DEFINE hs == Append(gs, g)
           n  == Len(gs)
           a  == PiecesOf(gs)
           b  == PiecesOf(hs)
           t  == g.units
<1>2. /\ hs \in Seq(GroupRecords) /\ Len(hs) = n + 1 /\ n \in Nat /\ hs[n + 1] = g
      /\ \A k \in 1..n : hs[k] = gs[k]
  OBVIOUS
<1>3. a \in Seq(Seq(UnitRecords)) /\ Len(a) = n /\ \A k \in 1..n : a[k] = gs[k].units
  BY PiecesFacts
<1>4. t \in Seq(UnitRecords)
  BY DEF GroupRecords
<1> HIDE DEF hs, a, b, n, t
<1>5. /\ b \in Seq(Seq(UnitRecords)) /\ Len(b) = n + 1
      /\ \A k \in 1..n + 1 : b[k] = hs[k].units
  BY <1>2, PiecesFacts DEF b
<1>6. \A k \in 1..n : b[k] = a[k]
  <2> TAKE k \in 1..n
  <2>1. k \in 1..n + 1
    BY <1>2
  <2> QED
    BY <1>2, <1>3, <1>5, <2>1
<1>7. b[n + 1] = t
  BY <1>2, <1>5 DEF t
<1>8. b = Append(a, t)
  <2>1. /\ Append(a, t) \in Seq(Seq(UnitRecords)) /\ Len(Append(a, t)) = n + 1
        /\ Append(a, t)[n + 1] = t /\ \A k \in 1..n : Append(a, t)[k] = a[k]
    BY <1>2, <1>3, <1>4
  <2>2. \A k \in 1..n + 1 : k \in 1..n \/ k = n + 1
    BY <1>2
  <2>3. \A k \in 1..n + 1 : b[k] = Append(a, t)[k]
    BY <1>6, <1>7, <2>1, <2>2
  <2> QED
    BY <1>2, <1>5, <2>1, <2>3
<1>9. FlattenSeq(b) = FlattenSeq(a) \o t
  BY <1>3, <1>4, <1>8, FlattenAppend
<1>10. UnitsOf(gs) = FlattenSeq(a)
  BY PiecesFacts DEF a
<1>11. UnitsOf(hs) = FlattenSeq(b)
  BY <1>2, PiecesFacts DEF b
<1> QED
  BY <1>1, <1>9, <1>10, <1>11 DEF hs, t

\* One closed group more.
LEMMA ClosedAppend ==
    ASSUME NEW gs, ClosedGroups(gs), NEW g \in GroupRecords, g.units # << >>, ~ExceedsHard(g.units)
    PROVE  /\ ClosedGroups(Append(gs, g)) /\ UnitsOf(gs) \in Seq(UnitRecords)
           /\ g.units \in Seq(UnitRecords)
           /\ UnitsOf(Append(gs, g)) = UnitsOf(gs) \o g.units
<1> DEFINE hs == Append(gs, g)
           n  == Len(gs)
<1>1. gs \in Seq(GroupRecords)
      /\ \A k \in 1..n : gs[k].units # << >> /\ ~ExceedsHard(gs[k].units)
  BY DEF ClosedGroups
<1>2. /\ hs \in Seq(GroupRecords) /\ Len(hs) = n + 1 /\ n \in Nat /\ hs[n + 1] = g
      /\ \A k \in 1..n : hs[k] = gs[k]
  BY <1>1
<1> HIDE DEF hs, n
<1>3. ASSUME NEW k \in 1..n + 1 PROVE hs[k].units # << >> /\ ~ExceedsHard(hs[k].units)
  <2>1. CASE k = n + 1
    BY <1>2, <2>1
  <2>2. CASE k # n + 1
    <3>1. k \in 1..n
      BY <1>2, <2>2
    <3> QED
      BY <1>1, <1>2, <3>1
  <2> QED
    BY <2>1, <2>2
<1>4. ClosedGroups(hs)
  BY <1>2, <1>3 DEF ClosedGroups
<1>5. UnitsOf(hs) = UnitsOf(gs) \o g.units /\ UnitsOf(gs) \in Seq(UnitRecords)
  BY <1>1, UnitsOfFacts, PiecesFacts DEF hs
<1>6. g.units \in Seq(UnitRecords)
  BY DEF GroupRecords
<1> QED
  BY <1>4, <1>5, <1>6 DEF hs

\* The last group grows by the units of another one.
LEMMA ClosedGrows ==
    ASSUME NEW gs, ClosedGroups(gs), gs # << >>, NEW g \in GroupRecords, NEW h \in GroupRecords,
           h.units = gs[Len(gs)].units \o g.units, ~ExceedsHard(h.units), g.units # << >>
    PROVE  /\ ClosedGroups([gs EXCEPT ![Len(gs)] = h])
           /\ UnitsOf([gs EXCEPT ![Len(gs)] = h]) = UnitsOf(gs) \o g.units
<1> DEFINE n == Len(gs)
           a == SubSeq(gs, 1, n - 1)
           l == gs[n]
           hs == [gs EXCEPT ![n] = h]
<1>1. /\ gs \in Seq(GroupRecords) /\ n \in Nat /\ n # 0
      /\ \A k \in 1..n : gs[k].units # << >> /\ ~ExceedsHard(gs[k].units)
  BY DEF ClosedGroups
<1>2. n \in 1..n /\ SubSeq(gs, 1, n) = gs
  BY <1>1
<1>3. /\ a \in Seq(GroupRecords) /\ Len(a) = n - 1 /\ l \in GroupRecords /\ gs = Append(a, l)
  BY <1>1, <1>2, PrefixFacts
<1>4. \A k \in 1..n - 1 : a[k] = gs[k]
  BY <1>1
<1>5. hs = Append(a, h)
  <2>1. /\ hs \in Seq(GroupRecords) /\ Len(hs) = n /\ hs[n] = h
        /\ \A k \in 1..n - 1 : hs[k] = gs[k]
    BY <1>1, <1>2
  <2> HIDE DEF a, hs, n
  <2>2. /\ Append(a, h) \in Seq(GroupRecords) /\ Len(Append(a, h)) = n
        /\ Append(a, h)[n] = h /\ \A k \in 1..n - 1 : Append(a, h)[k] = a[k]
    BY <1>1, <1>3
  <2>3. \A k \in 1..n : k \in 1..n - 1 \/ k = n
    BY <1>1
  <2>4. \A k \in 1..n : hs[k] = Append(a, h)[k]
    BY <1>4, <2>1, <2>2, <2>3
  <2> QED
    BY <2>1, <2>2, <2>4
<1>6. ClosedGroups(a)
  <2>1. \A k \in 1..n - 1 : k \in 1..n
    BY <1>1
  <2> HIDE DEF a, n
  <2> QED
    BY <1>1, <1>3, <1>4, <2>1 DEF ClosedGroups
<1>7. l.units # << >> /\ ~ExceedsHard(l.units)
  BY <1>1, <1>2
<1> HIDE DEF a, l, hs
<1>8. /\ UnitsOf(gs) = UnitsOf(a) \o l.units /\ UnitsOf(a) \in Seq(UnitRecords)
      /\ l.units \in Seq(UnitRecords)
  BY <1>3, <1>6, <1>7, ClosedAppend
<1>9. h.units # << >> /\ h.units = l.units \o g.units /\ g.units \in Seq(UnitRecords)
  <2>1. h.units = l.units \o g.units /\ g.units \in Seq(UnitRecords)
    BY DEF l, GroupRecords
  <2> HIDE DEF n
  <2> QED
    BY <1>8, <2>1, JoinFacts
<1>10. ClosedGroups(hs) /\ UnitsOf(hs) = UnitsOf(a) \o h.units
  BY <1>5, <1>6, <1>9, ClosedAppend
<1>11. JoinsUp(UnitRecords)
  BY ConcatAssoc
<1>12. UnitsOf(a) \o (l.units \o g.units) = (UnitsOf(a) \o l.units) \o g.units
  BY <1>8, <1>9, <1>11, Zenon DEF JoinsUp
<1> QED
  BY <1>8, <1>9, <1>10, <1>12 DEF hs, n

\* A prefix stays where it is when more follows.
LEMMA PrefixStays ==
    ASSUME NEW A, NEW s \in Seq(A), NEW t \in Seq(A), NEW n \in 0..Len(s)
    PROVE  SubSeq(s \o t, 1, n) = SubSeq(s, 1, n)
<1> DEFINE w == s \o t
<1>1. /\ w \in Seq(A) /\ Len(w) = Len(s) + Len(t) /\ Len(s) \in Nat /\ Len(t) \in Nat
      /\ \A k \in 1..Len(s) : w[k] = s[k]
  OBVIOUS
<1> HIDE DEF w
<1>2. SubSeq(w, 1, n) = [k \in 1..n |-> w[k]]
  BY <1>1
<1>3. SubSeq(s, 1, n) = [k \in 1..n |-> s[k]]
  BY <1>1
<1>4. \A k \in 1..n : w[k] = s[k]
  BY <1>1
<1> QED
  BY <1>2, <1>3, <1>4 DEF w

-----------------------------------------------------------------------------
(* The invariant of the splitter.                                           *)

SplitTypes ==
    /\ elements \in Seq(Elements) /\ pos \in 0..Len(elements) /\ hierarchy \in Seq(Nat)
    /\ units \in Seq(UnitRecords) /\ taken \in 0..Len(units)
    /\ buffer \in Seq(UnitRecords) /\ index \in 0..Len(groups)
    /\ phase \in {"split", "merge", "make", "done"}
    /\ raised \in SplitErrors \cup {Null}

\* The units so far tell the elements so far.
UnitsPart ==
    /\ UnitsInv(units, elements, pos)
    /\ raised = Null => TextsKept(units, elements, pos)

\* Groups hold the units that were taken, before and after they are merged.
GroupsPart ==
    /\ ClosedGroups(groups) /\ ClosedGroups(joined)
    /\ buffer # << >> => ~ExceedsHard(buffer)
    /\ raised = Null => UnitsOf(groups) \o buffer = SubSeq(units, 1, taken)
    /\ phase = "split" => joined = << >> /\ index = 0
    /\ phase # "split" => /\ raised = Null /\ buffer = << >> /\ taken = Len(units)
                          /\ UnitsOf(joined) = UnitsOf(SubSeq(groups, 1, index))
    /\ phase \in {"make", "done"} => index = Len(groups)
    /\ made = IF phase = "done" THEN [i \in 1..Len(joined) |-> MakeFragment(joined[i], i - 1)]
              ELSE << >>

\* Only a unit, not a fragment, is ever too large.
ErrorPart ==
    /\ raised \notin {"SPLITTER_HARD_GUARD_VIOLATION", "SPLITTER_FRAGMENT_EXCEEDS_HARD_GUARD"}
    /\ raised = "SPLITTER_UNIT_EXCEEDS_HARD_GUARD" =>
          taken # 0 /\ ExceedsHard(<< units[taken] >>)

SplitInv == SplitTypes /\ UnitsPart /\ GroupsPart /\ ErrorPart

\* It holds at the start.
LEMMA SplitStart == SplitInit => SplitInv
<1> SUFFICES ASSUME SplitInit PROVE SplitInv
  OBVIOUS
<1>1. elements \in Seq(Elements)
  BY SplitAssumption DEF SplitInit
<1>2. SplitTypes
  BY <1>1 DEF SplitInit, SplitTypes
<1>3. Len(<< >>) = 0 /\ 1..0 = {} /\ 1..Len(<< >>) - 1 = {} /\ pos = 0 /\ units = << >>
  BY DEF SplitInit
<1>4. UnitsPart
  <2>1. << >> \in Seq(UnitRecords)
    OBVIOUS
  <2>2. UnitsInv(<< >>, elements, 0)
    BY <1>3, <2>1, Zenon DEF UnitsInv
  <2>3. TextsKept(<< >>, elements, 0)
    BY <1>3, Zenon DEF TextsKept
  <2> QED
    BY <1>3, <2>2, <2>3 DEF UnitsPart
<1>5. GroupsPart
  <2>1. ClosedGroups(<< >>)
    BY DEF ClosedGroups
  <2>2. UnitsOf(<< >>) = << >>
    <3>1. PiecesOf(<< >>) = << >>
      BY DEF PiecesOf
    <3>2. FlattenSeq(<< >>) = << >>
      BY DEF FlattenSeq
    <3> QED
      BY <3>1, <3>2 DEF UnitsOf, PiecesOf
  <2>3. << >> \o << >> = << >> /\ SubSeq(<< >>, 1, 0) = << >>
    OBVIOUS
  <2> QED
    BY <2>1, <2>2, <2>3 DEF SplitInit, GroupsPart
<1>6. ErrorPart
  BY SplitAssumption DEF SplitInit, ErrorPart, SplitErrors
<1> QED
  BY <1>2, <1>4, <1>5, <1>6 DEF SplitInv

\* The headings above an element.
LEMMA HeadingsFacts ==
    ASSUME NEW h \in Seq(Nat), NEW n \in Nat, NEW l \in Nat \ {0}
    PROVE  Append(SubSeq(h, 1, IF Len(h) < l - 1 THEN Len(h) ELSE l - 1), n) \in Seq(Nat)
<1> DEFINE m == IF Len(h) < l - 1 THEN Len(h) ELSE l - 1
<1>1. m \in 0..Len(h)
  OBVIOUS
<1> HIDE DEF m
<1>2. SubSeq(h, 1, m) \in Seq(Nat)
  BY <1>1
<1>3. Append(SubSeq(h, 1, m), n) \in Seq(Nat)
  BY <1>2
<1> QED
  BY <1>3 DEF m

\* An element is taken.
LEMMA TakeElementKeeps == SplitInv /\ TakeElement => SplitInv'
<1> SUFFICES ASSUME SplitInv, TakeElement PROVE SplitInv'
  OBVIOUS
<1> DEFINE e == elements[pos + 1]
           above == IF e.type = "HEADING" /\ ~e.suppressed
                    THEN Append(SubSeq(hierarchy, 1,
                                       IF Len(hierarchy) < e.level - 1 THEN Len(hierarchy)
                                                                       ELSE e.level - 1), pos + 1)
                    ELSE hierarchy
           new == Units(e, pos + 1, above)
<1>1. /\ phase = "split" /\ raised = Null /\ taken = Len(units) /\ pos < Len(elements)
      /\ pos' = pos + 1 /\ hierarchy' = above /\ elements' = elements /\ taken' = taken
      /\ buffer' = buffer /\ groups' = groups /\ joined' = joined /\ index' = index
      /\ made' = made /\ phase' = phase
  BY DEF TakeElement
<1>2. \/ ~e.suppressed /\ units' = units \o new /\ raised' = raised
      \/ raised' = "SPLITTER_GRAPHEME_EXCEEDS_HARD_CHAR_GUARD" /\ units' = units
      \/ e.suppressed /\ units' = units /\ raised' = raised
  BY DEF TakeElement
<1>3. /\ elements \in Seq(Elements) /\ pos \in 0..Len(elements) /\ hierarchy \in Seq(Nat)
      /\ units \in Seq(UnitRecords) /\ taken \in 0..Len(units) /\ buffer \in Seq(UnitRecords)
      /\ index \in 0..Len(groups)
  BY DEF SplitInv, SplitTypes
<1>4. pos \in Nat /\ pos + 1 \in 1..Len(elements) /\ pos + 1 \in 0..Len(elements)
      /\ e \in Elements /\ pos + 1 \in Nat
  BY <1>1, <1>3
<1>5. above \in Seq(Nat)
  <2>1. e.level \in Nat \ {0}
    BY <1>4 DEF Elements
  <2> QED
    BY <1>3, <1>4, <2>1, HeadingsFacts
<1> HIDE DEF above
<1>6. UnitsInv(units, elements, pos) /\ TextsKept(units, elements, pos)
  BY <1>1 DEF SplitInv, UnitsPart
<1>7. /\ UnitsInv(units, elements, pos + 1)
      /\ UnitsInv(units \o new, elements, pos + 1)
      /\ TextsKept(units \o new, elements, pos + 1)
      /\ e.suppressed => TextsKept(units, elements, pos + 1)
  BY <1>3, <1>4, <1>5, <1>6, UnitsAdded
<1>8. new \in Seq(UnitRecords)
  BY <1>4, <1>5, UnitsFacts
<1> HIDE DEF new, e
<1>9. /\ units' \in Seq(UnitRecords) /\ taken \in 0..Len(units')
      /\ SubSeq(units', 1, taken) = SubSeq(units, 1, taken)
  <2>1. CASE units' = units
    BY <1>3, <2>1
  <2>2. CASE units' = units \o new
    <3>1. SubSeq(units \o new, 1, taken) = SubSeq(units, 1, taken)
      BY <1>3, <1>8, PrefixStays
    <3>2. units \o new \in Seq(UnitRecords) /\ Len(units \o new) = Len(units) + Len(new)
          /\ Len(new) \in Nat /\ Len(units) \in Nat
      BY <1>3, <1>8
    <3> QED
      BY <1>3, <2>2, <3>1, <3>2
  <2> QED
    BY <1>2, <2>1, <2>2
<1>10. raised' \in SplitErrors \cup {Null} /\ (raised' = Null \/ raised' \notin {Null})
       /\ raised' \notin {"SPLITTER_HARD_GUARD_VIOLATION", "SPLITTER_FRAGMENT_EXCEEDS_HARD_GUARD"}
       /\ raised' # "SPLITTER_UNIT_EXCEEDS_HARD_GUARD"
  <2>1. /\ Null \notin {"SPLITTER_HARD_GUARD_VIOLATION", "SPLITTER_FRAGMENT_EXCEEDS_HARD_GUARD"}
        /\ Null # "SPLITTER_UNIT_EXCEEDS_HARD_GUARD"
        /\ "SPLITTER_GRAPHEME_EXCEEDS_HARD_CHAR_GUARD" \in SplitErrors
    BY SplitAssumption DEF SplitErrors
  <2> QED
    BY <1>1, <1>2, <2>1
<1>11. SplitTypes'
  BY <1>1, <1>3, <1>4, <1>5, <1>9, <1>10 DEF SplitTypes
<1>12. UnitsPart'
  <2>1. UnitsInv(units', elements, pos + 1)
    BY <1>2, <1>7
  <2>2. raised' = Null => TextsKept(units', elements, pos + 1)
    <3>1. "SPLITTER_GRAPHEME_EXCEEDS_HARD_CHAR_GUARD" # Null
      BY SplitAssumption DEF SplitErrors
    <3> QED
      BY <1>2, <1>7, <3>1
  <2> QED
    BY <1>1, <2>1, <2>2 DEF UnitsPart
<1>13. GroupsPart'
  <2>1. GroupsPart
    BY DEF SplitInv
  <2> QED
    BY <1>1, <1>9, <2>1 DEF GroupsPart
<1>14. ErrorPart'
  BY <1>10 DEF ErrorPart
<1> QED
  BY <1>11, <1>12, <1>13, <1>14 DEF SplitInv

\* Why a group ends.
LEMMA ClosedByFacts ==
    ASSUME NEW u
    PROVE  /\ ClosedBy(u) \in Reasons \cup {Null} /\ Null \notin Reasons
           /\ buffer = << >> => ClosedBy(u) = Null
           /\ buffer # << >> /\ ClosedBy(u) = Null => ~ExceedsHard(Append(buffer, u))
<1>1. /\ Null # "SECTION_BOUNDARY" /\ Null # "HARD_MAX" /\ Null # "SOFT_MAX_SAFE_BOUNDARY"
      /\ Null # "STRUCTURAL_BOUNDARY" /\ Null \notin Reasons
  BY SplitAssumption DEF Reasons
<1> QED
  BY <1>1, Zenon DEF ClosedBy, Reasons

\* A unit is taken.
LEMMA TakeUnitKeeps == SplitInv /\ TakeUnit => SplitInv'
<1> SUFFICES ASSUME SplitInv, TakeUnit PROVE SplitInv'
  OBVIOUS
<1> DEFINE u == units[taken + 1]
           reason == ClosedBy(u)
<1>1. /\ phase = "split" /\ raised = Null /\ taken < Len(units) /\ taken' = taken + 1
      /\ elements' = elements /\ pos' = pos /\ hierarchy' = hierarchy /\ units' = units
      /\ joined' = joined /\ index' = index /\ made' = made /\ phase' = phase
  BY DEF TakeUnit
<1>2. \/ /\ ExceedsHard(<< u >>) /\ raised' = "SPLITTER_UNIT_EXCEEDS_HARD_GUARD"
         /\ buffer' = buffer /\ groups' = groups
      \/ /\ ~ExceedsHard(<< u >>) /\ reason = Null
         /\ buffer' = Append(buffer, u) /\ groups' = groups /\ raised' = raised
      \/ /\ ~ExceedsHard(<< u >>) /\ reason # Null
         /\ groups' = Flushed(reason, reason = "HARD_MAX")
         /\ buffer' = << u >> /\ raised' = raised
  <2>1. ~(buffer # << >> /\ ExceedsHard(buffer))
    BY DEF SplitInv, GroupsPart
  <2> HIDE DEF u, reason
  <2>2. \/ /\ ExceedsHard(<< u >>) /\ raised' = "SPLITTER_UNIT_EXCEEDS_HARD_GUARD"
           /\ buffer' = buffer /\ groups' = groups
        \/ /\ ~ExceedsHard(<< u >>) /\ reason = Null
           /\ buffer' = Append(buffer, u) /\ groups' = groups /\ raised' = raised
        \/ /\ ~ExceedsHard(<< u >>) /\ reason # Null
           /\ Flush(reason, reason = "HARD_MAX", << u >>)
    BY DEF TakeUnit, u, reason
  <2> QED
    BY <2>1, <2>2 DEF Flush
<1>3. /\ elements \in Seq(Elements) /\ pos \in 0..Len(elements) /\ hierarchy \in Seq(Nat)
      /\ units \in Seq(UnitRecords) /\ taken \in 0..Len(units) /\ buffer \in Seq(UnitRecords)
      /\ index \in 0..Len(groups)
  BY DEF SplitInv, SplitTypes
<1>4. /\ taken + 1 \in 1..Len(units) /\ taken + 1 \in 0..Len(units) /\ u \in UnitRecords
      /\ (taken + 1) - 1 = taken /\ taken + 1 # 0
  BY <1>1, <1>3
<1>5. SubSeq(units, 1, taken + 1) = Append(SubSeq(units, 1, taken), u)
      /\ SubSeq(units, 1, taken) \in Seq(UnitRecords)
  BY <1>3, <1>4, PrefixFacts
<1>6. /\ ClosedGroups(groups) /\ ClosedGroups(joined) /\ joined = << >> /\ index = 0 /\ made = << >>
      /\ buffer # << >> => ~ExceedsHard(buffer)
      /\ UnitsOf(groups) \o buffer = SubSeq(units, 1, taken)
  BY <1>1 DEF SplitInv, GroupsPart
<1>7. UnitsOf(groups) \in Seq(UnitRecords) /\ Len(groups) \in Nat
  BY <1>6, PiecesFacts DEF ClosedGroups
<1>8. /\ reason \in Reasons \cup {Null}
      /\ buffer = << >> => reason = Null
      /\ buffer # << >> /\ reason = Null => ~ExceedsHard(Append(buffer, u))
  BY ClosedByFacts
<1>9. UnitsPart /\ ErrorPart
  BY DEF SplitInv
<1>10. Append(buffer, u) \in Seq(UnitRecords) /\ << u >> \in Seq(UnitRecords)
       /\ Append(buffer, u) = buffer \o << u >> /\ << u >> # << >>
  BY <1>3, <1>4, AppendFacts
<1> HIDE DEF reason
<1>11. /\ "SPLITTER_UNIT_EXCEEDS_HARD_GUARD" \in SplitErrors
       /\ "SPLITTER_UNIT_EXCEEDS_HARD_GUARD" # Null
       /\ "SPLITTER_FRAGMENT_EXCEEDS_HARD_GUARD" # Null
       /\ "SPLITTER_HARD_GUARD_VIOLATION" # Null
  BY SplitAssumption DEF SplitErrors
<1>12. CASE raised' = "SPLITTER_UNIT_EXCEEDS_HARD_GUARD" /\ buffer' = buffer /\ groups' = groups
            /\ ExceedsHard(<< u >>)
  <2>1. SplitTypes'
    BY <1>1, <1>3, <1>4, <1>11, <1>12 DEF SplitTypes
  <2>2. UnitsPart'
    BY <1>1, <1>9, <1>11, <1>12 DEF UnitsPart
  <2>3. GroupsPart'
    BY <1>1, <1>6, <1>11, <1>12 DEF GroupsPart
  <2>4. ErrorPart'
    BY <1>1, <1>4, <1>12 DEF ErrorPart
  <2> QED
    BY <2>1, <2>2, <2>3, <2>4 DEF SplitInv
<1> HIDE DEF u
<1>13. ASSUME ~ExceedsHard(<< u >>), raised' = raised, buffer' \in Seq(UnitRecords),
              ~ExceedsHard(buffer'), ClosedGroups(groups'),
              UnitsOf(groups') \o buffer' = SubSeq(units, 1, taken + 1)
       PROVE  SplitInv'
  <2>1. index' \in 0..Len(groups')
    <3>1. Len(groups') \in Nat
      BY <1>13 DEF ClosedGroups
    <3> QED
      BY <1>1, <1>6, <3>1
  <2>2. SplitTypes'
    BY <1>1, <1>3, <1>4, <1>13, <2>1 DEF SplitTypes
  <2>3. UnitsPart'
    BY <1>1, <1>9, <1>13 DEF UnitsPart
  <2>4. GroupsPart'
    BY <1>1, <1>6, <1>13 DEF GroupsPart
  <2>5. ErrorPart'
    BY <1>1, <1>11, <1>13 DEF ErrorPart
  <2> QED
    BY <2>2, <2>3, <2>4, <2>5 DEF SplitInv
<1>14. CASE /\ ~ExceedsHard(<< u >>) /\ reason = Null
            /\ buffer' = Append(buffer, u) /\ groups' = groups /\ raised' = raised
  <2>1. ~ExceedsHard(buffer')
    <3>1. CASE buffer = << >>
      <4>1. Append(buffer, u) = << u >>
        BY <3>1
      <4> QED
        BY <1>14, <4>1
    <3>2. CASE buffer # << >>
      BY <1>8, <1>14, <3>2
    <3> QED
      BY <3>1, <3>2
  <2>2. UnitsOf(groups) \o Append(buffer, u) = Append(UnitsOf(groups) \o buffer, u)
    BY <1>3, <1>4, <1>7, ConcatAppend, SMTT(30)
  <2> QED
    BY <1>5, <1>6, <1>10, <1>13, <1>14, <2>1, <2>2
<1>15. CASE /\ ~ExceedsHard(<< u >>) /\ reason # Null
            /\ groups' = Flushed(reason, reason = "HARD_MAX")
            /\ buffer' = << u >> /\ raised' = raised
  <2> DEFINE forced == reason = "HARD_MAX"
             g == [units |-> buffer, reason |-> reason, forced |-> forced]
  <2>1. forced \in BOOLEAN /\ buffer # << >> /\ reason \in Reasons
    BY <1>8, <1>15
  <2> HIDE DEF forced
  <2>2. g \in GroupRecords /\ g.units = buffer
    BY <1>3, <2>1 DEF GroupRecords
  <2>3. groups' = Append(groups, g)
    BY <1>15, <2>1 DEF Flushed, forced
  <2> HIDE DEF g
  <2>4. ClosedGroups(Append(groups, g)) /\ UnitsOf(Append(groups, g)) = UnitsOf(groups) \o buffer
    BY <1>6, <2>1, <2>2, ClosedAppend
  <2>5. Append(SubSeq(units, 1, taken), u) = SubSeq(units, 1, taken) \o << u >>
    BY <1>4, <1>5, AppendFacts
  <2>6. UnitsOf(groups') \o buffer' = SubSeq(units, 1, taken + 1)
    BY <1>5, <1>6, <1>15, <2>3, <2>4, <2>5
  <2> QED
    BY <1>10, <1>13, <1>15, <2>3, <2>4, <2>6
<1> QED
  BY <1>2, <1>12, <1>14, <1>15 DEF u

\* The groups up to the k-th one.
LEMMA PrefixUnits ==
    ASSUME NEW gs, ClosedGroups(gs), NEW k \in 1..Len(gs)
    PROVE  /\ gs[k] \in GroupRecords /\ gs[k].units \in Seq(UnitRecords)
           /\ gs[k].units # << >> /\ ~ExceedsHard(gs[k].units)
           /\ UnitsOf(SubSeq(gs, 1, k - 1)) \in Seq(UnitRecords)
           /\ UnitsOf(SubSeq(gs, 1, k)) = UnitsOf(SubSeq(gs, 1, k - 1)) \o gs[k].units
<1> DEFINE a == SubSeq(gs, 1, k - 1)
           g == gs[k]
<1>1. gs \in Seq(GroupRecords) /\ g.units # << >> /\ ~ExceedsHard(g.units)
  BY DEF ClosedGroups
<1>2. a \in Seq(GroupRecords) /\ g \in GroupRecords /\ SubSeq(gs, 1, k) = Append(a, g)
  BY <1>1, PrefixFacts
<1> HIDE DEF a, g
<1>3. UnitsOf(a) \in Seq(UnitRecords) /\ UnitsOf(Append(a, g)) = UnitsOf(a) \o g.units
  BY <1>2, PiecesFacts, UnitsOfFacts
<1>4. g.units \in Seq(UnitRecords)
  BY <1>2 DEF GroupRecords
<1> QED
  BY <1>1, <1>2, <1>3, <1>4 DEF a, g

\* Nothing is left to gather.
LEMMA EndDocumentKeeps == SplitInv /\ EndDocument => SplitInv'
<1> SUFFICES ASSUME SplitInv, EndDocument PROVE SplitInv'
  OBVIOUS
<1>1. /\ phase = "split" /\ raised = Null /\ taken = Len(units)
      /\ groups' = Flushed("DOCUMENT_END", FALSE) /\ buffer' = << >> /\ phase' = "merge"
      /\ elements' = elements /\ pos' = pos /\ hierarchy' = hierarchy /\ units' = units
      /\ taken' = taken /\ joined' = joined /\ index' = index /\ made' = made
      /\ raised' = raised
  <2>1. ~(buffer # << >> /\ ExceedsHard(buffer))
    BY DEF SplitInv, GroupsPart
  <2> QED
    BY <2>1 DEF EndDocument, Flush
<1>2. /\ elements \in Seq(Elements) /\ pos \in 0..Len(elements) /\ hierarchy \in Seq(Nat)
      /\ units \in Seq(UnitRecords) /\ taken \in 0..Len(units) /\ buffer \in Seq(UnitRecords)
  BY DEF SplitInv, SplitTypes
<1>3. /\ ClosedGroups(groups) /\ ClosedGroups(joined) /\ joined = << >> /\ index = 0 /\ made = << >>
      /\ buffer # << >> => ~ExceedsHard(buffer)
      /\ UnitsOf(groups) \o buffer = SubSeq(units, 1, taken)
  BY <1>1 DEF SplitInv, GroupsPart
<1>4. UnitsOf(groups) \in Seq(UnitRecords)
  BY <1>3, PiecesFacts DEF ClosedGroups
<1>5. ClosedGroups(groups') /\ UnitsOf(groups') = UnitsOf(groups) \o buffer
  <2>1. CASE buffer = << >>
    <3>1. groups' = groups
      BY <1>1, <2>1 DEF Flushed
    <3>2. UnitsOf(groups) \o << >> = UnitsOf(groups)
      BY <1>4, ConcatNothing
    <3> QED
      BY <1>3, <2>1, <3>1, <3>2
  <2>2. CASE buffer # << >>
    <3> DEFINE g == [units |-> buffer, reason |-> "DOCUMENT_END", forced |-> FALSE]
    <3>1. g \in GroupRecords /\ g.units = buffer
      BY <1>2 DEF GroupRecords, Reasons
    <3>2. groups' = Append(groups, g)
      BY <1>1, <2>2 DEF Flushed
    <3> HIDE DEF g
    <3> QED
      BY <1>3, <2>2, <3>1, <3>2, ClosedAppend
  <2> QED
    BY <2>1, <2>2
<1>6. groups' \in Seq(GroupRecords) /\ Len(groups') \in Nat
  BY <1>5 DEF ClosedGroups
<1>7. UnitsOf(groups') \o << >> = UnitsOf(groups')
  BY <1>6, PiecesFacts, ConcatNothing
<1>8. SubSeq(groups', 1, 0) = << >>
  BY <1>6, PrefixFacts
<1>9. SplitTypes'
  <2>1. raised \in SplitErrors \cup {Null} /\ << >> \in Seq(UnitRecords)
    BY <1>1
  <2>2. 0 \in 0..Len(groups')
    BY <1>6
  <2> QED
    BY <1>1, <1>2, <1>3, <2>1, <2>2 DEF SplitTypes
<1>10. UnitsPart'
  BY <1>1 DEF SplitInv, UnitsPart
<1>11. GroupsPart'
  BY <1>1, <1>3, <1>5, <1>7, <1>8 DEF GroupsPart
<1>12. ErrorPart'
  BY <1>1 DEF SplitInv, ErrorPart
<1> QED
  BY <1>9, <1>10, <1>11, <1>12 DEF SplitInv

\* Two groups become one.
LEMMA JoinedFacts ==
    ASSUME NEW g \in GroupRecords, NEW h \in GroupRecords, h.units # << >>,
           MayMerge(g.units, h.units)
    PROVE  /\ Joined(g, h) \in GroupRecords /\ Joined(g, h).units = g.units \o h.units
           /\ Joined(g, h).units # << >> /\ ~ExceedsHard(Joined(g, h).units)
<1> DEFINE forced == g.forced \/ h.forced
           us == g.units \o h.units
<1>1. g.units \in Seq(UnitRecords) /\ h.units \in Seq(UnitRecords)
  BY DEF GroupRecords
<1>2. us \in Seq(UnitRecords) /\ us # << >>
  BY <1>1, JoinFacts
<1>3. forced \in BOOLEAN
  OBVIOUS
<1>4. ~ExceedsHard(us)
  BY DEF MayMerge
<1>5. Joined(g, h) = [units |-> us, reason |-> "SMALL_FRAGMENT_MERGE", forced |-> forced]
  BY DEF Joined
<1> HIDE DEF us, forced
<1> QED
  BY <1>2, <1>3, <1>4, <1>5 DEF us, GroupRecords, Reasons

\* A group is consolidated.
LEMMA MergeGroupKeeps == SplitInv /\ MergeGroup => SplitInv'
<1> SUFFICES ASSUME SplitInv, MergeGroup PROVE SplitInv'
  OBVIOUS
<1> DEFINE g == groups[index + 1]
           h == groups[index + 2]
           l == joined[Len(joined)]
           forward  == /\ Small(g.units) /\ index + 1 < Len(groups)
                       /\ MayMerge(g.units, h.units)
           backward == /\ ~forward /\ joined # << >> /\ Small(g.units)
                       /\ MayMerge(l.units, g.units)
<1>1. /\ phase = "merge" /\ index < Len(groups)
      /\ groups' = groups /\ buffer' = buffer /\ phase' = phase
      /\ elements' = elements /\ pos' = pos /\ hierarchy' = hierarchy /\ units' = units
      /\ taken' = taken /\ made' = made /\ raised' = raised
  BY DEF MergeGroup
<1>2. \/ forward /\ joined' = Append(joined, Joined(g, h)) /\ index' = index + 2
      \/ backward /\ joined' = [joined EXCEPT ![Len(joined)] = Joined(l, g)] /\ index' = index + 1
      \/ joined' = Append(joined, g) /\ index' = index + 1
  BY DEF MergeGroup, Steps
<1>3. /\ elements \in Seq(Elements) /\ pos \in 0..Len(elements) /\ hierarchy \in Seq(Nat)
      /\ units \in Seq(UnitRecords) /\ taken \in 0..Len(units) /\ buffer \in Seq(UnitRecords)
      /\ index \in 0..Len(groups) /\ raised \in SplitErrors \cup {Null}
  BY DEF SplitInv, SplitTypes
<1>4. /\ ClosedGroups(groups) /\ ClosedGroups(joined) /\ raised = Null /\ buffer = << >>
      /\ taken = Len(units) /\ UnitsOf(joined) = UnitsOf(SubSeq(groups, 1, index))
      /\ UnitsOf(groups) \o buffer = SubSeq(units, 1, taken) /\ made = << >>
  BY <1>1 DEF SplitInv, GroupsPart
<1> DEFINE a == UnitsOf(SubSeq(groups, 1, index))
           b == UnitsOf(SubSeq(groups, 1, index + 1))
<1>5. Len(groups) \in Nat /\ index \in Nat /\ index + 1 \in 1..Len(groups)
      /\ (index + 1) - 1 = index /\ index + 1 \in 0..Len(groups)
  BY <1>1, <1>3, <1>4 DEF ClosedGroups
<1>6. /\ g \in GroupRecords /\ g.units # << >> /\ ~ExceedsHard(g.units)
      /\ g.units \in Seq(UnitRecords) /\ a \in Seq(UnitRecords) /\ b = a \o g.units
  BY <1>4, <1>5, PrefixUnits
<1> HIDE DEF a
<1>7. ASSUME ClosedGroups(joined'), NEW n \in 0..Len(groups), index' = n,
             UnitsOf(joined') = UnitsOf(SubSeq(groups, 1, n))
      PROVE  SplitInv'
  <2>1. SplitTypes'
    BY <1>1, <1>3, <1>7 DEF SplitTypes
  <2>2. UnitsPart'
    BY <1>1 DEF SplitInv, UnitsPart
  <2>3. GroupsPart'
    BY <1>1, <1>4, <1>7 DEF GroupsPart
  <2>4. ErrorPart'
    BY <1>1 DEF SplitInv, ErrorPart
  <2> QED
    BY <2>1, <2>2, <2>3, <2>4 DEF SplitInv
<1>8. UnitsOf(joined) = a
  BY <1>4 DEF a
<1>9. CASE forward /\ joined' = Append(joined, Joined(g, h)) /\ index' = index + 2
  <2>1. index + 2 \in 1..Len(groups) /\ (index + 2) - 1 = index + 1 /\ index + 2 \in 0..Len(groups)
    BY <1>5, <1>9
  <2>2. /\ h \in GroupRecords /\ h.units # << >> /\ h.units \in Seq(UnitRecords)
        /\ UnitsOf(SubSeq(groups, 1, index + 2)) = b \o h.units
    BY <1>4, <2>1, PrefixUnits
  <2> HIDE DEF b, g, h
  <2>3. /\ Joined(g, h) \in GroupRecords /\ Joined(g, h).units = g.units \o h.units
        /\ Joined(g, h).units # << >> /\ ~ExceedsHard(Joined(g, h).units)
    BY <1>6, <1>9, <2>2, JoinedFacts
  <2>4. /\ ClosedGroups(Append(joined, Joined(g, h)))
        /\ UnitsOf(Append(joined, Joined(g, h))) = a \o (g.units \o h.units)
    BY <1>4, <1>8, <2>3, ClosedAppend
  <2>5. JoinsUp(UnitRecords)
    BY ConcatAssoc
  <2>6. a \o (g.units \o h.units) = (a \o g.units) \o h.units
    BY <1>6, <2>2, <2>5, ZenonT(60) DEF JoinsUp
  <2>7. UnitsOf(joined') = UnitsOf(SubSeq(groups, 1, index + 2))
    BY <1>6, <1>9, <2>2, <2>4, <2>6
  <2> QED
    BY <1>7, <1>9, <2>1, <2>4, <2>7
<1>10. CASE backward /\ joined' = [joined EXCEPT ![Len(joined)] = Joined(l, g)]
            /\ index' = index + 1
  <2>1. joined # << >> /\ MayMerge(l.units, g.units)
    BY <1>10
  <2>2. Len(joined) \in 1..Len(joined)
    BY <1>4, <2>1 DEF ClosedGroups
  <2>3. l \in GroupRecords
    BY <1>4, <2>2, PrefixUnits
  <2>4. /\ Joined(l, g) \in GroupRecords /\ Joined(l, g).units = l.units \o g.units
        /\ ~ExceedsHard(Joined(l, g).units)
    BY <1>6, <2>1, <2>3, JoinedFacts
  <2> HIDE DEF b, g
  <2>5. /\ ClosedGroups([joined EXCEPT ![Len(joined)] = Joined(l, g)])
        /\ UnitsOf([joined EXCEPT ![Len(joined)] = Joined(l, g)]) = UnitsOf(joined) \o g.units
    BY <1>4, <1>6, <2>1, <2>4, ClosedGrows
  <2>6. UnitsOf(joined') = b
    BY <1>6, <1>8, <1>10, <2>5
  <2> QED
    BY <1>5, <1>7, <1>10, <2>5, <2>6 DEF b
<1>11. CASE joined' = Append(joined, g) /\ index' = index + 1
  <2> HIDE DEF b, g
  <2>1. ClosedGroups(Append(joined, g)) /\ UnitsOf(Append(joined, g)) = UnitsOf(joined) \o g.units
    BY <1>4, <1>6, ClosedAppend
  <2>2. UnitsOf(joined') = b
    BY <1>6, <1>8, <1>11, <2>1
  <2> QED
    BY <1>5, <1>7, <1>11, <2>1, <2>2 DEF b
<1> QED
  BY <1>2, <1>9, <1>10, <1>11

\* All groups are consolidated.
LEMMA EndMergeKeeps == SplitInv /\ EndMerge => SplitInv'
<1> SUFFICES ASSUME SplitInv, EndMerge PROVE SplitInv'
  OBVIOUS
<1>1. /\ phase = "merge" /\ index = Len(groups) /\ phase' = "make"
      /\ groups' = groups /\ buffer' = buffer /\ joined' = joined /\ index' = index
      /\ elements' = elements /\ pos' = pos /\ hierarchy' = hierarchy /\ units' = units
      /\ taken' = taken /\ made' = made /\ raised' = raised
  BY DEF EndMerge
<1>2. SplitTypes'
  BY <1>1 DEF SplitInv, SplitTypes
<1>3. UnitsPart'
  BY <1>1 DEF SplitInv, UnitsPart
<1>4. GroupsPart'
  BY <1>1 DEF SplitInv, GroupsPart
<1>5. ErrorPart'
  BY <1>1 DEF SplitInv, ErrorPart
<1> QED
  BY <1>2, <1>3, <1>4, <1>5 DEF SplitInv

\* The fragments are made: no group exceeds the guards.
LEMMA MakeFragmentsKeeps == SplitInv /\ MakeFragments => SplitInv'
<1> SUFFICES ASSUME SplitInv, MakeFragments PROVE SplitInv'
  OBVIOUS
<1>1. /\ phase = "make" /\ phase' = "done"
      /\ groups' = groups /\ buffer' = buffer /\ joined' = joined /\ index' = index
      /\ elements' = elements /\ pos' = pos /\ hierarchy' = hierarchy /\ units' = units
      /\ taken' = taken
  BY DEF MakeFragments
<1>2. /\ made' = [i \in 1..Len(joined) |-> MakeFragment(joined[i], i - 1)] /\ raised' = raised
  <2>1. ~ \E i \in 1..Len(joined) : ExceedsHard(joined[i].units)
    BY DEF SplitInv, GroupsPart, ClosedGroups
  <2> QED
    BY <2>1 DEF MakeFragments
<1>3. SplitTypes'
  BY <1>1, <1>2 DEF SplitInv, SplitTypes
<1>4. UnitsPart'
  BY <1>1, <1>2 DEF SplitInv, UnitsPart
<1>5. GroupsPart'
  <2>1. GroupsPart
    BY DEF SplitInv
  <2> QED
    BY <1>1, <1>2, <2>1 DEF GroupsPart
<1>6. ErrorPart'
  BY <1>1, <1>2 DEF SplitInv, ErrorPart
<1> QED
  BY <1>3, <1>4, <1>5, <1>6 DEF SplitInv

\* Every step keeps the invariant.
LEMMA SplitStep == SplitInv /\ [SplitNext]_splitVars => SplitInv'
<1> SUFFICES ASSUME SplitInv, [SplitNext]_splitVars PROVE SplitInv'
  OBVIOUS
<1>1. CASE TakeElement
  BY <1>1, TakeElementKeeps
<1>2. CASE TakeUnit
  BY <1>2, TakeUnitKeeps
<1>3. CASE EndDocument
  BY <1>3, EndDocumentKeeps
<1>4. CASE MergeGroup
  BY <1>4, MergeGroupKeeps
<1>5. CASE EndMerge
  BY <1>5, EndMergeKeeps
<1>6. CASE MakeFragments
  BY <1>6, MakeFragmentsKeeps
<1>7. CASE UNCHANGED splitVars
  BY <1>7 DEF splitVars, SplitInv, SplitTypes, UnitsPart, GroupsPart, ErrorPart
<1>8. CASE Finished
  BY <1>7, <1>8 DEF Finished
<1> QED
  BY <1>1, <1>2, <1>3, <1>4, <1>5, <1>6, <1>7, <1>8 DEF SplitNext

-----------------------------------------------------------------------------
(* What the invariant says.                                                 *)

\* The fragments, by place.
LEMMA MadeFacts ==
    ASSUME NEW gs, ClosedGroups(gs), NEW fs,
           fs = [i \in 1..Len(gs) |-> MakeFragment(gs[i], i - 1)]
    PROVE  /\ Len(fs) = Len(gs)
           /\ \A i \in 1..Len(gs) : fs[i].units = gs[i].units /\ fs[i].id = Identity(gs[i].units)
           /\ UnitsOf(fs) = UnitsOf(gs)
<1> DEFINE n == Len(gs)
           A == {MakeFragment(gs[i], i - 1) : i \in 1..n}
           pieces(hs) == [i \in 1..n |-> hs[i].units]
<1>1. n \in Nat
  BY DEF ClosedGroups
<1> HIDE DEF n
<1>2. DOMAIN fs = 1..n /\ fs = [i \in 1..n |-> fs[i]] /\ \A i \in 1..n : fs[i] \in A
  BY DEF n
<1>3. Len(fs) = n
  <2> HIDE DEF A
  <2> QED
    BY <1>1, <1>2, MapFacts
<1>4. \A i \in 1..n : fs[i].units = gs[i].units /\ fs[i].id = Identity(gs[i].units)
  BY DEF n, MakeFragment
<1>5. pieces(fs) = pieces(gs)
  BY <1>4
<1>6. UnitsOf(fs) = FlattenSeq(pieces(fs)) /\ UnitsOf(gs) = FlattenSeq(pieces(gs))
  BY <1>3 DEF UnitsOf, n
<1> QED
  BY <1>3, <1>4, <1>5, <1>6 DEF n

\* All units are in the fragments, at the end.
LEMMA MadeAtTheEnd ==
    ASSUME SplitInv, phase = "done"
    PROVE  /\ ClosedGroups(joined) /\ UnitsOf(joined) = units /\ UnitsOf(made) = units
           /\ Len(made) = Len(joined)
           /\ \A i \in 1..Len(joined) : made[i].id = Identity(joined[i].units)
<1>1. /\ ClosedGroups(groups) /\ ClosedGroups(joined) /\ buffer = << >> /\ taken = Len(units)
      /\ raised = Null /\ UnitsOf(groups) \o buffer = SubSeq(units, 1, taken)
      /\ UnitsOf(joined) = UnitsOf(SubSeq(groups, 1, index)) /\ index = Len(groups)
      /\ made = [i \in 1..Len(joined) |-> MakeFragment(joined[i], i - 1)]
  BY DEF SplitInv, GroupsPart
<1>2. units \in Seq(UnitRecords)
  BY DEF SplitInv, SplitTypes
<1>3. UnitsOf(groups) \o << >> = UnitsOf(groups) /\ SubSeq(units, 1, Len(units)) = units
      /\ SubSeq(groups, 1, Len(groups)) = groups
  <2>1. UnitsOf(groups) \in Seq(UnitRecords) /\ groups \in Seq(GroupRecords)
    BY <1>1, PiecesFacts DEF ClosedGroups
  <2> QED
    BY <1>2, <2>1, PrefixFacts, ConcatNothing
<1>4. UnitsOf(joined) = units
  BY <1>1, <1>3
<1> QED
  BY <1>1, <1>4, MadeFacts

\* Units are neither lost nor repeated nor moved.
LEMMA UnitsAreKept == SplitInv => GroupsKeepUnits
<1> SUFFICES ASSUME SplitInv, raised = Null
             PROVE  /\ UnitsOf(groups) \o buffer = SubSeq(units, 1, taken)
                    /\ phase # "split" => UnitsOf(groups) = units
                    /\ phase = "merge" => UnitsOf(joined) = UnitsOf(SubSeq(groups, 1, index))
                    /\ phase = "done" => UnitsOf(made) = units
  BY DEF GroupsKeepUnits
<1>1. /\ ClosedGroups(groups) /\ UnitsOf(groups) \o buffer = SubSeq(units, 1, taken)
      /\ phase # "split" => buffer = << >> /\ taken = Len(units)
      /\ phase # "split" => UnitsOf(joined) = UnitsOf(SubSeq(groups, 1, index))
  BY DEF SplitInv, GroupsPart
<1>2. units \in Seq(UnitRecords)
  BY DEF SplitInv, SplitTypes
<1>3. UnitsOf(groups) \o << >> = UnitsOf(groups) /\ SubSeq(units, 1, Len(units)) = units
  <2>1. UnitsOf(groups) \in Seq(UnitRecords)
    BY <1>1, PiecesFacts DEF ClosedGroups
  <2> QED
    BY <1>2, <2>1, PrefixFacts, ConcatNothing
<1>4. phase = "done" => UnitsOf(made) = units
  BY MadeAtTheEnd
<1> QED
  BY <1>1, <1>3, <1>4

\* The units of an element hold its text.
LEMMA TextIsKept == SplitInv => UnitsKeepText
<1> SUFFICES ASSUME SplitInv, NEW i \in 1..pos, ~elements[i].suppressed, raised = Null
             PROVE  LET mine == TokensOf(ElementUnits(units, i))
                        said == FlattenSeq(elements[i].text)
                    IN  IF \E k \in 1..Len(said) : said[k].c > HardChars
                        THEN ClustersOf(mine) = ClustersOf(said)
                        ELSE mine = said
  BY DEF UnitsKeepText
<1> DEFINE mine == TokensOf(ElementUnits(units, i))
           said == FlattenSeq(elements[i].text)
<1>1. Retells(mine, said)
  BY DEF SplitInv, UnitsPart, TextsKept
<1> HIDE DEF mine, said
<1>2. /\ ClustersOf(mine) = ClustersOf(said)
      /\ (\A k \in 1..Len(said) : ~(said[k].c > HardChars)) => mine = said
  BY <1>1, Zenon DEF Retells, IsWhole
<1> QED
  BY <1>2, Zenon DEF mine, said

\* No group exceeds the guards.
LEMMA GuardsAreKept == SplitInv => GuardsHold
  BY DEF SplitInv, GroupsPart, ErrorPart, ClosedGroups, GuardsHold

\* Of two groups of units in order, the one comes before the other.
LEMMA PiecesInOrder ==
    ASSUME NEW gs, ClosedGroups(gs),
           \A j, k \in 1..Len(UnitsOf(gs)) : j < k => Before(UnitsOf(gs)[j], UnitsOf(gs)[k]),
           NEW i \in 1..Len(gs), NEW k \in 1..Len(gs), i < k
    PROVE  Identity(gs[i].units) # Identity(gs[k].units)
<1> DEFINE p == PiecesOf(gs)
           v == UnitsOf(gs)
<1>1. /\ p \in Seq(Seq(UnitRecords)) /\ Len(p) = Len(gs) /\ v = FlattenSeq(p)
      /\ \A m \in 1..Len(gs) : p[m] = gs[m].units
      /\ v \in Seq(UnitRecords)
  BY PiecesFacts DEF ClosedGroups
<1>2. \A j, m \in 1..Len(v) : j < m => Before(v[j], v[m])
  OBVIOUS
<1> HIDE DEF p, v
<1>3. PICK off : IsOffset(off, p, v)
  BY <1>1, FlattenPlaces
<1>4. /\ p[i] \in Seq(UnitRecords) /\ p[k] \in Seq(UnitRecords)
      /\ p[i] # << >> /\ p[k] # << >>
  <2>1. gs[i].units # << >> /\ gs[k].units # << >>
    BY DEF ClosedGroups
  <2>2. i \in 1..Len(p) /\ k \in 1..Len(p)
    BY <1>1
  <2>3. p[i] \in Seq(UnitRecords) /\ p[k] \in Seq(UnitRecords)
    BY <1>1, <2>2
  <2> QED
    BY <1>1, <2>1, <2>3
<1>5. /\ off[i] \in 0..Len(v) /\ off[k] \in 0..Len(v)
      /\ off[i] + Len(p[i]) <= off[k]
      /\ \A m \in 1..Len(p[i]) : off[i] + m \in 1..Len(v) /\ v[off[i] + m] = p[i][m]
      /\ \A m \in 1..Len(p[k]) : off[k] + m \in 1..Len(v) /\ v[off[k] + m] = p[k][m]
  BY <1>1, <1>3 DEF IsOffset
<1>6. ASSUME NEW a \in 1..Len(p[i]), NEW b \in 1..Len(p[k])
      PROVE  Before(p[i][a], p[k][b])
  <2>1. /\ off[i] + a \in 1..Len(v) /\ v[off[i] + a] = p[i][a]
        /\ off[k] + b \in 1..Len(v) /\ v[off[k] + b] = p[k][b]
    BY <1>5
  <2>2. Len(p[i]) \in Nat /\ Len(p[k]) \in Nat /\ Len(v) \in Nat
    BY <1>1, <1>4
  <2>3. off[i] + a < off[k] + b
    <3>1. /\ off[i] \in Nat /\ off[k] \in Nat /\ off[i] + Len(p[i]) <= off[k]
          /\ a \in Nat /\ b \in Nat /\ a <= Len(p[i]) /\ b # 0
      BY <1>5, <2>2
    <3> QED
      BY <2>2, <3>1, SMTT(30)
  <2> QED
    BY <1>2, <2>1, <2>3
<1>7. AllBefore(p[i], p[k])
  BY <1>6 DEF AllBefore
<1>8. Identity(p[i]) # Identity(p[k])
  BY <1>4, <1>7, IdentitiesDiffer
<1> QED
  BY <1>1, <1>8

\* Fragments are told apart.
LEMMA IdsAreUnique == SplitInv => FragmentIdsAreUnique
<1> SUFFICES ASSUME SplitInv, NEW i \in 1..Len(made), NEW k \in 1..Len(made), i # k
             PROVE  made[i].id # made[k].id
  BY DEF FragmentIdsAreUnique
<1>1. phase = "done"
  <2>1. phase # "done" => made = << >>
    BY DEF SplitInv, GroupsPart
  <2>2. 1..Len(<< >>) = {}
    OBVIOUS
  <2> QED
    BY <2>1, <2>2
<1>2. /\ ClosedGroups(joined) /\ UnitsOf(joined) = units /\ Len(made) = Len(joined)
      /\ \A m \in 1..Len(joined) : made[m].id = Identity(joined[m].units)
  BY <1>1, MadeAtTheEnd
<1>3. \A j, m \in 1..Len(UnitsOf(joined)) :
          j < m => Before(UnitsOf(joined)[j], UnitsOf(joined)[m])
  BY <1>2 DEF SplitInv, UnitsPart, UnitsInv
<1>4. i \in 1..Len(joined) /\ k \in 1..Len(joined) /\ (i < k \/ k < i)
  BY <1>2
<1>5. Identity(joined[i].units) # Identity(joined[k].units)
  BY <1>2, <1>3, <1>4, PiecesInOrder
<1> QED
  BY <1>2, <1>4, <1>5

\* Rows follow on.
LEMMA RowsFollow == SplitInv => RowsAreContiguous
<1> SUFFICES ASSUME SplitInv, NEW i \in 1..Len(units) - 1, units[i].from # Null,
                    units[i].element = units[i + 1].element
             PROVE  /\ units[i + 1].from \in {units[i].to, units[i].to + 1}
                    /\ units[i + 1].from = units[i].to => units[i].from = units[i].to
  BY Zenon DEF RowsAreContiguous
<1>1. Contiguous(units[i], units[i + 1])
  BY DEF SplitInv, UnitsPart, UnitsInv
<1> QED
  BY <1>1 DEF Contiguous

\* A unit that is refused holds a token that cannot be cut.
LEMMA TokensAreToBlame == SplitInv => OnlyTokensExceed
<1> SUFFICES ASSUME SplitInv, raised = "SPLITTER_UNIT_EXCEEDS_HARD_GUARD"
             PROVE  \E i \in 1..Len(units[taken].toks) : Uncuttable(units[taken].toks[i])
  BY DEF OnlyTokensExceed
<1>1. taken # 0 /\ ExceedsHard(<< units[taken] >>)
  BY DEF SplitInv, ErrorPart
<1>2. taken \in 1..Len(units)
  BY <1>1 DEF SplitInv, SplitTypes
<1>3. SoundUnit(units[taken])
  BY <1>2 DEF SplitInv, UnitsPart, UnitsInv
<1> QED
  BY <1>1, <1>3, OnlyATokenExceeds

\* split(): the units taken so far tell the elements so far, stand in order, and
\* are in the groups, which are within the guards.
THEOREM SplitInvariance == SplitSpec => []SplitInv
<1> QED
  BY SplitStart, SplitStep, PTL DEF SplitSpec

\* LogicalSplitter: however a document is cut, gathered and merged, its fragments
\* hold its text once and in order, within the hard guards and under ids of their
\* own; the rows of a table follow on, and what is refused could not be cut.
THEOREM FaithfulFragments == SplitSpec => []FragmentsAreFaithful
<1>1. SplitInv => FragmentsAreFaithful
  BY UnitsAreKept, TextIsKept, GuardsAreKept, IdsAreUnique, RowsFollow, TokensAreToBlame
     DEF FragmentsAreFaithful
<1> QED
  BY SplitInvariance, <1>1, PTL
=============================================================================
