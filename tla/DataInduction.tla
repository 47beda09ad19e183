--------------------------- MODULE DataInduction ----------------------------
(***************************************************************************)
(* Induction over the natural numbers, and what the recursive definitions  *)
(* of the pipeline modules compute, in a form that needs no operator as a  *)
(* parameter: a predicate is the set of the numbers it holds of, a         *)
(* recursion step is a function.                                           *)
(***************************************************************************)
EXTENDS Integers, Sequences, SequencesExt, WellFoundedInduction, TLAPS

\* A set of natural numbers has a least element.
LEMMA LeastElement ==
    ASSUME NEW T \in SUBSET Nat, T # {}
    PROVE  \E n \in T : \A m \in T : n <= m
<1> DEFINE R == OpToRel(<, Nat)
<1>1. IsWellFoundedOn(R, Nat)
  BY NatLessThanWellFounded
<1> HIDE DEF R
<1>2. PICK x \in T : \A y \in T : ~(<<y, x>> \in R)
  BY <1>1, WFMin
<1>3. \A y \in T : y < x => <<y, x>> \in R
  BY DEF R, OpToRel
<1>4. \A y \in T : x <= y
  <2> TAKE y \in T
  <2>1. x \in Nat /\ y \in Nat /\ ~(y < x)
    BY <1>2, <1>3
  <2> QED
    BY <2>1
<1> QED
  BY <1>4

\* Induction up to n.
LEMMA InductionUpTo ==
    ASSUME NEW n \in Nat, NEW S, 0 \in S,
           \A k \in 1..n : k - 1 \in S => k \in S
    PROVE  \A k \in 0..n : k \in S
<1> DEFINE T == {k \in 0..n : k \notin S}
<1> SUFFICES ASSUME T # {} PROVE FALSE
  OBVIOUS
<1>1. PICK k \in T : \A m \in T : k <= m
  <2>1. T \in SUBSET Nat
    OBVIOUS
  <2> HIDE DEF T
  <2> QED
    BY <2>1, LeastElement
<1>2. k \in 1..n /\ k - 1 \in 0..n /\ k - 1 \notin T
  BY <1>1
<1> QED
  BY <1>2

\* Induction over all numbers.
LEMMA InductionOnNat ==
    ASSUME NEW S, 0 \in S, \A k \in Nat : k \in S => k + 1 \in S
    PROVE  Nat \subseteq S
<1> SUFFICES ASSUME NEW n \in Nat PROVE n \in S
  OBVIOUS
<1>1. \A k \in 1..n : k - 1 \in S => k \in S
  <2> TAKE k \in 1..n
  <2>1. k - 1 \in Nat /\ (k - 1) + 1 = k
    OBVIOUS
  <2> QED
    BY <2>1
<1> QED
  BY <1>1, InductionUpTo

\* A recursion over 0..n: where it starts, what it does with each number, and
\* what a solution is.
IsStep(step, n, A) == step \in [1..n -> [A -> A]]

IsRecursion(f, n, A, a, step) ==
    /\ f \in [0..n -> A]
    /\ f[0] = a
    /\ \A k \in 1..n : f[k] = step[k][f[k - 1]]

\* A recursion over 0..n has a solution.
LEMMA RecursionUpTo ==
    ASSUME NEW n \in Nat, NEW A, NEW a \in A, NEW step, IsStep(step, n, A)
    PROVE  \E f : IsRecursion(f, n, A, a, step)
<1> SUFFICES ASSUME step \in [1..n -> [A -> A]]
             PROVE  \E f \in [0..n -> A] :
                       f[0] = a /\ \A k \in 1..n : f[k] = step[k][f[k - 1]]
  BY DEF IsRecursion, IsStep
<1> DEFINE Solves(f, m) == f[0] = a /\ \A k \in 1..m : f[k] = step[k][f[k - 1]]
           S == {m \in 0..n : \E f \in [0..m -> A] : Solves(f, m)}
<1>1. 0 \in S
  <2>1. Solves([k \in 0..0 |-> a], 0)
    OBVIOUS
  <2>2. [k \in 0..0 |-> a] \in [0..0 -> A]
    OBVIOUS
  <2> HIDE DEF Solves
  <2> QED
    BY <2>1, <2>2
<1>2. ASSUME NEW m \in 1..n, m - 1 \in S PROVE m \in S
  <2>1. PICK f \in [0..(m - 1) -> A] : Solves(f, m - 1)
    BY <1>2
  <2> DEFINE g == [k \in 0..m |-> IF k = m THEN step[m][f[m - 1]] ELSE f[k]]
  <2>2. step[m][f[m - 1]] \in A
    BY <2>1
  <2>3. g \in [0..m -> A]
    BY <2>2
  <2>4. g[0] = a
    BY <2>1
  <2>5. \A k \in 1..m : g[k] = step[k][g[k - 1]]
    BY <2>1
  <2>6. Solves(g, m)
    BY <2>4, <2>5
  <2> HIDE DEF g, Solves
  <2> QED
    BY <2>3, <2>6
<1>3. n \in S
  <2>1. \A m \in 1..n : m - 1 \in S => m \in S
    BY <1>2
  <2> HIDE DEF S
  <2> QED
    BY <1>1, <2>1, InductionUpTo, n \in 0..n
<1> QED
  BY <1>3

\* A recursion that adds up: it has a solution.
LEMMA SumSolution ==
    ASSUME NEW n \in Nat, NEW size \in [1..n -> Int]
    PROVE  \E f : f = [k \in 0..n |-> IF k = 0 THEN 0 ELSE f[k - 1] + size[k]]
<1> DEFINE step == [k \in 1..n |-> [x \in Int |-> x + size[k]]]
<1>1. IsStep(step, n, Int)
  BY DEF IsStep
<1> HIDE DEF step
<1>2. PICK f : IsRecursion(f, n, Int, 0, step)
  BY <1>1, RecursionUpTo, 0 \in Int
<1>3. f \in [0..n -> Int] /\ f[0] = 0 /\ \A k \in 1..n : f[k] = f[k - 1] + size[k]
  <2>1. f \in [0..n -> Int] /\ f[0] = 0 /\ \A k \in 1..n : f[k] = step[k][f[k - 1]]
    BY <1>2 DEF IsRecursion
  <2>2. \A k \in 1..n : k - 1 \in 0..n /\ \A x \in Int : step[k][x] = x + size[k]
    BY DEF step
  <2> QED
    BY <2>1, <2>2
<1>4. f = [k \in 0..n |-> IF k = 0 THEN 0 ELSE f[k - 1] + size[k]]
  BY <1>3
<1> QED
  BY <1>4

\* What FlattenSeq computes, one sequence at a time.
IsFlattening(u, ss, n, B) ==
    /\ u \in [1..n -> Seq(B)]
    /\ FlattenSeq(ss) = u[n]
    /\ u[1] = ss[1]
    /\ \A k \in 1..n : k # 1 => u[k] = u[k - 1] \o ss[k]

\* It has such a sequence of partial results.
LEMMA FlattenFacts ==
    ASSUME NEW B, NEW ss \in Seq(Seq(B)), NEW n, n = Len(ss), n # 0
    PROVE  \E u : IsFlattening(u, ss, n, B)
<1> DEFINE Solves(f) == f = [k \in 1..Len(ss) |-> IF k = 1 THEN ss[k] ELSE f[k - 1] \o ss[k]]
           u == CHOOSE f : Solves(f)
           step == [k \in 1..n |-> [x \in Seq(B) |-> IF k = 1 THEN ss[k] ELSE x \o ss[k]]]
<1>1. n \in Nat \ {0} /\ \A k \in 1..n : ss[k] \in Seq(B)
  OBVIOUS
<1>2. \E f : Solves(f)
  <2>1. IsStep(step, n, Seq(B)) /\ << >> \in Seq(B)
    BY <1>1 DEF IsStep
  <2>2. \A k \in 1..n, x \in Seq(B) : step[k][x] = IF k = 1 THEN ss[k] ELSE x \o ss[k]
    BY <1>1
  <2> HIDE DEF step
  <2>3. PICK f : IsRecursion(f, n, Seq(B), << >>, step)
    BY <1>1, <2>1, RecursionUpTo
  <2>4. \A k \in 1..n : k - 1 \in 0..n /\ f[k - 1] \in Seq(B) /\ f[k] = step[k][f[k - 1]]
    <3>1. f \in [0..n -> Seq(B)] /\ \A k \in 1..n : f[k] = step[k][f[k - 1]]
      BY <2>3 DEF IsRecursion
    <3>2. \A k \in 1..n : k - 1 \in 0..n
      BY <1>1
    <3> QED
      BY <3>1, <3>2
  <2>5. \A k \in 1..n : f[k] = IF k = 1 THEN ss[k] ELSE f[k - 1] \o ss[k]
    BY <2>2, <2>4
  <2> DEFINE g == [k \in 1..n |-> f[k]]
  <2>6. \A k \in 1..n : g[k] = IF k = 1 THEN ss[k] ELSE g[k - 1] \o ss[k]
    <3> TAKE k \in 1..n
    <3>1. k # 1 => k - 1 \in 1..n
      BY <1>1
    <3> QED
      BY <2>5, <3>1
  <2>7. Solves(g)
    <3>1. g = [k \in 1..n |-> g[k]]
      OBVIOUS
    <3> HIDE DEF g
    <3> QED
      BY <2>6, <3>1
  <2> QED
    BY <2>7
<1>3. Solves(u)
  BY <1>2
<1>4. FlattenSeq(ss) = u[n]
  BY <1>1 DEF FlattenSeq
<1> HIDE DEF u
<1>5. u[1] = ss[1] /\ \A k \in 1..n : k # 1 => u[k] = u[k - 1] \o ss[k]
  <2>1. \A k \in 1..n : u[k] = IF k = 1 THEN ss[k] ELSE u[k - 1] \o ss[k]
    BY <1>3
  <2>2. 1 \in 1..n
    BY <1>1
  <2> QED
    BY <2>1, <2>2
<1>6. \A k \in 1..n : u[k] \in Seq(B)
  <2> DEFINE S == {0} \cup {k \in 1..n : u[k] \in Seq(B)}
  <2>1. 0 \in S
    OBVIOUS
  <2>2. \A k \in 1..n : k - 1 \in S => k \in S
    <3> SUFFICES ASSUME NEW k \in 1..n, k - 1 \in S PROVE u[k] \in Seq(B)
      OBVIOUS
    <3>1. CASE k = 1
      BY <1>1, <1>5, <3>1
    <3>2. CASE k # 1
      <4>1. u[k - 1] \in Seq(B) /\ ss[k] \in Seq(B)
        BY <1>1, <3>2
      <4>2. u[k] = u[k - 1] \o ss[k]
        BY <1>5, <3>2
      <4> QED
        BY <4>1, <4>2
    <3> QED
      BY <3>1, <3>2
  <2> HIDE DEF S
  <2>3. \A k \in 0..n : k \in S
    BY <1>1, <2>1, <2>2, InductionUpTo
  <2> QED
    BY <2>3 DEF S
<1>7. u \in [1..n -> Seq(B)]
  BY <1>3, <1>6
<1> QED
  BY <1>4, <1>5, <1>7 DEF IsFlattening

\* One sequence more adds its members at the end.
LEMMA FlattenAppend ==
    ASSUME NEW B, NEW ss \in Seq(Seq(B)), NEW t \in Seq(B)
    PROVE  /\ FlattenSeq(ss) \in Seq(B)
           /\ FlattenSeq(Append(ss, t)) = FlattenSeq(ss) \o t
<1> DEFINE n == Len(ss)
           tt == Append(ss, t)
<1>1. /\ tt \in Seq(Seq(B)) /\ Len(tt) = n + 1 /\ n \in Nat /\ tt[n + 1] = t
      /\ \A k \in 1..n : tt[k] = ss[k]
  OBVIOUS
<1>2. PICK v : IsFlattening(v, tt, n + 1, B)
  <2> HIDE DEF tt
  <2> QED
    BY <1>1, FlattenFacts, n + 1 # 0
<1>3. CASE n = 0
  <2>1. ss = << >> /\ FlattenSeq(ss) = << >>
    BY <1>3 DEF FlattenSeq
  <2>2. FlattenSeq(tt) = t
    BY <1>1, <1>2, <1>3 DEF IsFlattening
  <2>3. << >> \o t = t /\ << >> \in Seq(B)
    OBVIOUS
  <2> HIDE DEF tt
  <2>4. FlattenSeq(tt) = FlattenSeq(ss) \o t /\ FlattenSeq(ss) \in Seq(B)
    BY <2>1, <2>2, <2>3
  <2> QED
    BY <2>4 DEF tt
<1>4. CASE n # 0
  <2>1. PICK u : IsFlattening(u, ss, n, B)
    <3> HIDE DEF n
    <3> QED
      BY <1>4, FlattenFacts DEF n
  <2> DEFINE S == {0} \cup {k \in 1..n : u[k] = v[k]}
  <2>2. 0 \in S
    OBVIOUS
  <2>3. \A k \in 1..n : k - 1 \in S => k \in S
    <3> SUFFICES ASSUME NEW k \in 1..n, k - 1 \in S PROVE u[k] = v[k]
      OBVIOUS
    <3>1. k \in 1..n + 1 /\ tt[k] = ss[k] /\ (k # 1 => u[k - 1] = v[k - 1])
      BY <1>1
    <3> HIDE DEF tt, S
    <3> QED
      BY <1>2, <2>1, <3>1 DEF IsFlattening
  <2> HIDE DEF S
  <2>4. n \in S
    BY <1>1, <2>2, <2>3, InductionUpTo, n \in 0..n
  <2>5. u[n] = v[n] /\ n + 1 \in 1..n + 1 /\ n + 1 # 1 /\ (n + 1) - 1 = n /\ n \in 1..n
    BY <1>1, <1>4, <2>4 DEF S
  <2> HIDE DEF tt, n
  <2>6. v[n + 1] = v[n] \o t /\ FlattenSeq(tt) = v[n + 1]
    BY <1>1, <1>2, <2>5 DEF IsFlattening
  <2>7. FlattenSeq(ss) = u[n] /\ u[n] \in Seq(B)
    BY <2>1, <2>5 DEF IsFlattening
  <2> QED
    BY <2>5, <2>6, <2>7 DEF tt
<1> QED
  BY <1>3, <1>4

\* A set of numbers up to n has a greatest element.
LEMMA GreatestElement ==
    ASSUME NEW n \in Nat, NEW T, T \subseteq 0..n, T # {}
    PROVE  \E m \in T : \A k \in T : k <= m
<1> DEFINE U == {n - k : k \in T}
<1>1. U \in SUBSET Nat /\ U # {}
  <2>1. \A k \in T : n - k \in Nat
    OBVIOUS
  <2> QED
    BY <2>1
<1> HIDE DEF U
<1>2. PICK u \in U : \A v \in U : u <= v
  BY <1>1, LeastElement
<1>3. PICK m \in T : u = n - m
  BY <1>2 DEF U
<1>4. ASSUME NEW k \in T PROVE k <= m
  <2>1. n - k \in U
    BY DEF U
  <2>2. u <= n - k
    BY <1>2, <2>1
  <2> QED
    BY <1>3, <2>2
<1> QED
  BY <1>4

\* Sequences, joined in the order in which they are joined.
LEMMA ConcatAppend ==
    ASSUME NEW A, NEW s \in Seq(A), NEW t \in Seq(A), NEW x \in A
    PROVE  s \o t \in Seq(A) /\ s \o Append(t, x) = Append(s \o t, x)
<1>1. s \o t \in Seq(A) /\ Len(s \o t) = Len(s) + Len(t) /\ Len(s) \in Nat /\ Len(t) \in Nat
  OBVIOUS
<1>2. Append(t, x) \in Seq(A) /\ Len(Append(t, x)) = Len(t) + 1
  OBVIOUS
<1>3. \A k \in 1..Len(s) + (Len(t) + 1) : (s \o Append(t, x))[k] = Append(s \o t, x)[k]
  OBVIOUS
<1>4. s \o Append(t, x) \in Seq(A) /\ Len(s \o Append(t, x)) = Len(s) + (Len(t) + 1)
  BY <1>1, <1>2
<1>5. Append(s \o t, x) \in Seq(A) /\ Len(Append(s \o t, x)) = Len(s) + (Len(t) + 1)
  BY <1>1
<1> QED
  BY <1>1, <1>3, <1>4, <1>5

\* The places of joined sequences.
LEMMA ConcatPlaces ==
    ASSUME NEW A, NEW s \in Seq(A), NEW t \in Seq(A)
    PROVE  s \o t = [k \in 1..Len(s) + Len(t) |-> IF k <= Len(s) THEN s[k] ELSE t[k - Len(s)]]
<1> DEFINE u == [k \in 1..Len(s) + Len(t) |-> IF k <= Len(s) THEN s[k] ELSE t[k - Len(s)]]
<1>1. Len(s) \in Nat /\ Len(t) \in Nat /\ s \o t \in Seq(A) /\ Len(s \o t) = Len(s) + Len(t)
  OBVIOUS
<1>2. \A k \in 1..Len(s) + Len(t) : (s \o t)[k] = u[k] /\ u[k] \in A
  OBVIOUS
<1>3. u \in Seq(A) /\ Len(u) = Len(s) + Len(t)
  BY <1>1, <1>2
<1> HIDE DEF u
<1>4. s \o t = u
  BY <1>1, <1>2, <1>3
<1> QED
  BY <1>4 DEF u

\* Sequences are joined in any grouping, and member by member.
JoinsUp(A) ==
    \A s, t \in Seq(A) : /\ s \o t \in Seq(A)
                         /\ \A u \in Seq(A) : (s \o t) \o u = s \o (t \o u)
                         /\ \A x \in A : s \o Append(t, x) = Append(s \o t, x)

\* They are.
LEMMA ConcatAssoc ==
    ASSUME NEW A
    PROVE  JoinsUp(A)
<1>1. ASSUME NEW s \in Seq(A), NEW t \in Seq(A), NEW u \in Seq(A)
      PROVE  (s \o t) \o u = s \o (t \o u)
  OBVIOUS
<1>2. ASSUME NEW s \in Seq(A), NEW t \in Seq(A), NEW x \in A
      PROVE  s \o Append(t, x) = Append(s \o t, x)
  BY ConcatAppend
<1>3. ASSUME NEW s \in Seq(A), NEW t \in Seq(A)
      PROVE  s \o t \in Seq(A)
  OBVIOUS
<1> QED
  BY <1>1, <1>2, <1>3, Zenon DEF JoinsUp

\* One member more.
LEMMA AppendFacts ==
    ASSUME NEW A, NEW s \in Seq(A), NEW x \in A
    PROVE  /\ Append(s, x) \in Seq(A) /\ Append(s, x) # << >> /\ Append(s, x) = s \o <<x>>
           /\ Len(Append(s, x)) = Len(s) + 1 /\ <<x>> \in Seq(A)
<1>1. /\ <<x>> \in Seq(A) /\ Append(s, x) \in Seq(A) /\ Len(Append(s, x)) = Len(s) + 1
      /\ Len(s) \in Nat
  OBVIOUS
<1>2. Append(s, x) = s \o <<x>>
  OBVIOUS
<1>3. Append(s, x) # << >>
  BY <1>1
<1> QED
  BY <1>1, <1>2, <1>3

\* A function on 1..n is a sequence.
LEMMA MapFacts ==
    ASSUME NEW A, NEW n \in Nat, NEW f, DOMAIN f = 1..n, f = [k \in 1..n |-> f[k]],
           \A k \in 1..n : f[k] \in A
    PROVE  f \in Seq(A) /\ Len(f) = n
<1>1. f \in [1..n -> A]
  OBVIOUS
<1> QED
  BY <1>1

\* What ends in something is not empty.
LEMMA JoinFacts ==
    ASSUME NEW A, NEW s \in Seq(A), NEW t \in Seq(A), t # << >>
    PROVE  s \o t # << >>
<1>1. Len(s \o t) = Len(s) + Len(t) /\ Len(s) \in Nat /\ Len(t) \in Nat /\ s \o t \in Seq(A)
  OBVIOUS
<1>2. Len(t) # 0
  OBVIOUS
<1> QED
  BY <1>1, <1>2

\* Nothing is added.
LEMMA ConcatNothing ==
    ASSUME NEW A, NEW s \in Seq(A)
    PROVE  s \o << >> = s /\ << >> \o s = s /\ << >> \in Seq(A)
  OBVIOUS

\* A prefix and the member that follows it.
LEMMA PrefixFacts ==
    ASSUME NEW A, NEW s \in Seq(A)
    PROVE  /\ Len(s) \in Nat /\ SubSeq(s, 1, 0) = << >> /\ SubSeq(s, 1, Len(s)) = s
           /\ \A k \in 1..Len(s) :
                 /\ SubSeq(s, 1, k - 1) \in Seq(A) /\ s[k] \in A
                 /\ Len(SubSeq(s, 1, k - 1)) = k - 1
                 /\ SubSeq(s, 1, k) = Append(SubSeq(s, 1, k - 1), s[k])
  OBVIOUS

\* Flattening a concatenation.
LEMMA FlattenConcat ==
    ASSUME NEW B, NEW ss \in Seq(Seq(B)), NEW tt \in Seq(Seq(B))
    PROVE  /\ FlattenSeq(ss) \in Seq(B) /\ FlattenSeq(tt) \in Seq(B)
           /\ FlattenSeq(ss \o tt) = FlattenSeq(ss) \o FlattenSeq(tt)
<1> DEFINE n == Len(tt)
           F(k) == FlattenSeq(SubSeq(tt, 1, k))
           Good(k) == /\ F(k) \in Seq(B)
                      /\ FlattenSeq(ss \o SubSeq(tt, 1, k)) = FlattenSeq(ss) \o F(k)
           S == {k \in 0..n : Good(k)}
<1>1. n \in Nat /\ FlattenSeq(ss) \in Seq(B)
  BY FlattenAppend, << >> \in Seq(B)
<1>2. Good(0)
  <2>1. SubSeq(tt, 1, 0) = << >> /\ ss \o << >> = ss
    BY PrefixFacts, ConcatNothing
  <2>2. FlattenSeq(<< >>) = << >>
    BY DEF FlattenSeq
  <2>3. FlattenSeq(ss) \o << >> = FlattenSeq(ss) /\ << >> \in Seq(B)
    BY <1>1, ConcatNothing
  <2> QED
    BY <2>1, <2>2, <2>3
<1>3. ASSUME NEW k \in 1..n, Good(k - 1) PROVE Good(k)
  <2> DEFINE a == SubSeq(tt, 1, k - 1)
             t == tt[k]
  <2>1. a \in Seq(Seq(B)) /\ t \in Seq(B) /\ SubSeq(tt, 1, k) = Append(a, t)
    BY PrefixFacts
  <2>2. FlattenSeq(a) \in Seq(B) /\ FlattenSeq(ss \o a) = FlattenSeq(ss) \o FlattenSeq(a)
    BY <1>3
  <2> HIDE DEF a, t
  <2>0. JoinsUp(Seq(B))
    BY ConcatAssoc
  <2>3. ss \o Append(a, t) = Append(ss \o a, t) /\ ss \o a \in Seq(Seq(B))
    BY <2>0, <2>1, ZenonT(60) DEF JoinsUp
  <2>4. FlattenSeq(Append(a, t)) = FlattenSeq(a) \o t
    BY <2>1, FlattenAppend
  <2>5. FlattenSeq(Append(ss \o a, t)) = FlattenSeq(ss \o a) \o t
    BY <2>1, <2>3, FlattenAppend
  <2>6. (FlattenSeq(ss) \o FlattenSeq(a)) \o t = FlattenSeq(ss) \o (FlattenSeq(a) \o t)
    <3> DEFINE x == FlattenSeq(ss)
               y == FlattenSeq(a)
    <3>1. x \in Seq(B) /\ y \in Seq(B) /\ t \in Seq(B)
      BY <1>1, <2>1, <2>2
    <3> HIDE DEF x, y, Good, F, S
    <3>0. JoinsUp(B)
      BY ConcatAssoc
    <3>2. (x \o y) \o t = x \o (y \o t)
      BY <3>0, <3>1, ZenonT(60) DEF JoinsUp
    <3> QED
      BY <3>2 DEF x, y
  <2>7. FlattenSeq(a) \o t \in Seq(B)
    BY <2>1, <2>2
  <2> QED
    BY <2>1, <2>2, <2>3, <2>4, <2>5, <2>6, <2>7
<1>4. n \in S
  <2>1. 0 \in S /\ \A k \in 1..n : k - 1 \in S => k \in S
    <3> HIDE DEF Good, n
    <3> QED
      BY <1>1, <1>2, <1>3
  <2> HIDE DEF S
  <2> QED
    BY <1>1, <2>1, InductionUpTo, n \in 0..n
<1>5. SubSeq(tt, 1, n) = tt
  BY PrefixFacts
<1> QED
  BY <1>1, <1>4, <1>5

\* Where the members of the sequences stand in the flattened one: off[k] members
\* come before the k-th sequence.
IsOffset(off, ss, v) ==
    /\ off \in [1..Len(ss) -> 0..Len(v)]
    /\ \A k \in 1..Len(ss) : \A m \in 1..Len(ss[k]) :
          off[k] + m \in 1..Len(v) /\ v[off[k] + m] = ss[k][m]
    /\ \A j, k \in 1..Len(ss) : j < k => off[j] + Len(ss[j]) <= off[k]

\* There is such an offset for every sequence of sequences.
LEMMA FlattenPlaces ==
    ASSUME NEW B, NEW ss \in Seq(Seq(B))
    PROVE  \E off : IsOffset(off, ss, FlattenSeq(ss))
<1> DEFINE n == Len(ss)
           Part(k) == SubSeq(ss, 1, k)
           Good(k) == /\ FlattenSeq(Part(k)) \in Seq(B)
                      /\ \E off : IsOffset(off, Part(k), FlattenSeq(Part(k)))
           S == {k \in 0..n : Good(k)}
<1>1. n \in Nat /\ Part(n) = ss /\ Part(0) = << >>
  OBVIOUS
<1>2. Good(0)
  <2>1. FlattenSeq(<< >>) = << >>
    BY DEF FlattenSeq
  <2>2. << >> \in Seq(B) /\ Len(<< >>) = 0
    OBVIOUS
  <2>3. IsOffset(<< >>, << >>, << >>)
    BY <2>2 DEF IsOffset
  <2> HIDE DEF Part
  <2> QED
    BY <1>1, <2>1, <2>2, <2>3
<1>3. ASSUME NEW k \in 1..n, Good(k - 1) PROVE Good(k)
  <2> DEFINE a == Part(k - 1)
             t == ss[k]
             v == FlattenSeq(a)
             w == v \o t
  <2>1. a \in Seq(Seq(B)) /\ t \in Seq(B) /\ Part(k) = Append(a, t) /\ Len(a) = k - 1
    OBVIOUS
  <2>2. v \in Seq(B)
    BY <1>3
  <2>3. PICK off : IsOffset(off, a, v)
    BY <1>3
  <2>4. FlattenSeq(Part(k)) = w
    <3> HIDE DEF a, t
    <3> QED
      BY <2>1, FlattenAppend
  <2> DEFINE new == [j \in 1..k |-> IF j = k THEN Len(v) ELSE off[j]]
             b   == Append(a, t)
  <2> HIDE DEF a, t, v, Part
  <2>5. /\ w \in Seq(B) /\ Len(w) = Len(v) + Len(t) /\ Len(v) \in Nat /\ Len(t) \in Nat
        /\ \A p \in 1..Len(v) : w[p] = v[p]
        /\ \A m \in 1..Len(t) : w[Len(v) + m] = t[m]
    BY <2>1, <2>2
  <2>6. Len(b) = k /\ b[k] = t /\ \A j \in 1..k - 1 : b[j] = a[j]
    BY <2>1
  <2>7. off \in [1..k - 1 -> 0..Len(v)]
    BY <2>1, <2>3 DEF IsOffset
  <2> HIDE DEF w, b
  <2>8. new \in [1..k -> 0..Len(w)] /\ new[k] = Len(v) /\ \A j \in 1..k - 1 : new[j] = off[j]
    BY <2>5, <2>7, SMTT(30)
  <2> HIDE DEF new
  <2>9. ASSUME NEW j \in 1..k, NEW m \in 1..Len(b[j])
        PROVE  new[j] + m \in 1..Len(w) /\ w[new[j] + m] = b[j][m]
    <3>1. CASE j = k
      <4>1. new[j] = Len(v) /\ m \in 1..Len(t) /\ b[j] = t
        BY <2>6, <2>8, <3>1
      <4>2. new[j] + m \in 1..Len(w) /\ w[new[j] + m] = t[m]
        BY <2>5, <4>1
      <4> QED
        BY <4>1, <4>2
    <3>2. CASE j # k
      <4>1. j \in 1..k - 1 /\ new[j] = off[j] /\ b[j] = a[j]
        BY <2>6, <2>8, <3>2
      <4>2. off[j] + m \in 1..Len(v) /\ v[off[j] + m] = a[j][m]
        BY <2>1, <2>3, <4>1 DEF IsOffset
      <4> QED
        BY <2>5, <4>1, <4>2
    <3> QED
      BY <3>1, <3>2
  <2>10. ASSUME NEW j \in 1..k, NEW m \in 1..k, j < m PROVE new[j] + Len(b[j]) <= new[m]
    <3>1. j \in 1..k - 1 /\ new[j] = off[j] /\ b[j] = a[j] /\ off[j] \in 0..Len(v)
          /\ a[j] \in Seq(B)
      <4>1. j \in 1..k - 1
        BY <2>10
      <4>2. new[j] = off[j] /\ b[j] = a[j] /\ off[j] \in 0..Len(v)
        BY <2>6, <2>7, <2>8, <4>1
      <4>3. a[j] \in Seq(B)
        BY <2>1, <4>1
      <4> QED
        BY <4>1, <4>2, <4>3
    <3>2. CASE m = k
      <4>1. new[m] = Len(v)
        BY <2>8, <3>2
      <4>2. off[j] + Len(a[j]) <= Len(v)
        <5>1. CASE Len(a[j]) = 0
          BY <3>1, <5>1, <2>5, SMTT(30)
        <5>2. CASE Len(a[j]) # 0
          <6>1. Len(a[j]) \in 1..Len(a[j])
            BY <3>1, <5>2
          <6> QED
            <7>1. off[j] + Len(a[j]) \in 1..Len(v)
              BY <2>1, <2>3, <3>1, <6>1 DEF IsOffset
            <7> QED
              BY <2>5, <7>1
        <5> QED
          BY <5>1, <5>2
      <4> QED
        BY <3>1, <4>1, <4>2
    <3>3. CASE m # k
      <4>1. m \in 1..k - 1 /\ new[m] = off[m]
        BY <2>8, <3>3
      <4> QED
        BY <2>1, <2>3, <2>10, <3>1, <4>1 DEF IsOffset
    <3> QED
      BY <3>2, <3>3
  <2>11. IsOffset(new, b, w)
    BY <2>6, <2>8, <2>9, <2>10 DEF IsOffset
  <2> QED
    BY <2>1, <2>4, <2>5, <2>11 DEF b
<1>4. n \in S
  <2>1. 0 \in S
    BY <1>1, <1>2
  <2>2. \A k \in 1..n : k - 1 \in S => k \in S
    BY <1>3
  <2> HIDE DEF S
  <2> QED
    BY <1>1, <2>1, <2>2, InductionUpTo, n \in 0..n
<1>5. Good(n)
  BY <1>4
<1> QED
  BY <1>1, <1>5
=============================================================================
