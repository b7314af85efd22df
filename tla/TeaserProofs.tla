---------------------------- MODULE TeaserProofs ----------------------------
(***************************************************************************)
(* Proofs about the excerpt that stands with a page that the search finds  *)
(* (Teaser), for pages and words of any length: where a long word is cut,  *)
(* how the words of a page are weighed, which window of them is the best,  *)
(* and how the words of that window are quoted and joined.  What comes out *)
(* is what the page says the excerpt is (TeaserIs).                        *)
(*                                                                         *)
(* The loops of the code are recursive functions.  That one has a value at *)
(* each step follows from the function that gives its values outright,     *)
(* which solves the same equation; that two solutions agree, and what each *)
(* value satisfies, follow from the least step at which they would not.    *)
(***************************************************************************)
EXTENDS Teaser, SequenceTheorems, FiniteSetTheorems, WellFoundedInduction, TLAPS

-----------------------------------------------------------------------------
(***************************************************************************)
(* Numbers and recursive functions: what every step keeps.                 *)
(***************************************************************************)
\* The first of some numbers is one of them.
LEMMA FirstOf ==
  ASSUME NEW T \in SUBSET Nat, T # {}
  PROVE  (CHOOSE q \in T : \A r \in T : q <= r) \in T
<1>1. PICK q \in T : \A r \in T : <<r, q>> \notin OpToRel(<, Nat)
  BY WFMin, NatLessThanWellFounded, Zenon
<1>2. \A r \in T : ~ (r < q)
  BY <1>1, Zenon DEF OpToRel
<1>3. \A r \in T : q <= r
  BY <1>2
<1> QED
  BY <1>3

\* What holds of the first of the values of a recursive function, and of each
\* if of the one before, holds of all.
LEMMA Reaches ==
  ASSUME NEW n \in Nat, NEW g, NEW A, g[0] \in A[0],
         \A i \in 1..n : g[i - 1] \in A[i - 1] => g[i] \in A[i]
  PROVE  \A i \in 0..n : g[i] \in A[i]
<1> DEFINE Bad == {i \in 0..n : g[i] \notin A[i]}
<1> SUFFICES ASSUME Bad # {} PROVE FALSE
  OBVIOUS
<1>1. Bad \subseteq Nat
  OBVIOUS
<1>2. PICK k \in Bad : \A r \in Bad : <<r, k>> \notin OpToRel(<, Nat)
  BY <1>1, WFMin, NatLessThanWellFounded, Zenon
<1>3. \A r \in Bad : ~ (r < k)
  BY <1>1, <1>2, Zenon DEF OpToRel
<1>4. k \in 1..n
  OBVIOUS
<1>5. k - 1 \notin Bad
  BY <1>3, <1>4
<1>6. g[k - 1] \in A[k - 1]
  BY <1>4, <1>5
<1> QED
  BY <1>4, <1>6

\* The functions that begin with `base` and take a step from each value to the
\* next.
Steps(n, T) == [1..n -> [T -> T]]
Iteration(f, n, T, base, step) ==
  f \in [0..n -> T] /\ f[0] = base /\ \A k \in 1..n : f[k] = step[k][f[k - 1]]

\* Such a function exists, whatever the base and the steps.
LEMMA Iterates ==
  ASSUME NEW n \in Nat, NEW T, NEW base \in T, NEW step \in Steps(n, T)
  PROVE  \E f : Iteration(f, n, T, base, step)
<1> USE DEF Steps
<1> DEFINE Runs(f, m) == Iteration(f, m, T, base, step)
           Bad == {m \in 0..n : ~ \E f : Runs(f, m)}
<1> USE DEF Iteration
<1>1. Bad = {}
  <2> SUFFICES ASSUME Bad # {} PROVE FALSE
    OBVIOUS
  <2>1. Bad \subseteq Nat
    OBVIOUS
  <2>2. PICK m \in Bad : \A r \in Bad : <<r, m>> \notin OpToRel(<, Nat)
    BY <2>1, WFMin, NatLessThanWellFounded, Zenon
  <2>3. \A r \in Bad : ~ (r < m)
    BY <2>1, <2>2, Zenon DEF OpToRel
  <2>4. m \in 0..n /\ ~ \E f : Runs(f, m)
    OBVIOUS
  <2>5. m # 0
    <3> DEFINE f == [k \in 0..0 |-> base]
    <3>1. Runs(f, 0)
      OBVIOUS
    <3> QED
      BY <2>4, <3>1
  <2>6. PICK f : Runs(f, m - 1)
    <3>1. m - 1 \in 0..n /\ m - 1 < m
      BY <2>4, <2>5
    <3>2. m - 1 \notin Bad
      BY <2>3, <3>1
    <3> HIDE DEF Runs
    <3> QED
      BY <3>1, <3>2
  <2> DEFINE g == [k \in 0..m |-> IF k = m THEN step[m][f[m - 1]] ELSE f[k]]
  <2>7. Runs(g, m)
    <3>1. m \in 1..n /\ m - 1 \in 0..(m - 1) /\ f \in [0..(m - 1) -> T]
      BY <2>4, <2>5, <2>6
    <3>2. step[m][f[m - 1]] \in T
      BY <3>1
    <3>3. g \in [0..m -> T]
      BY <3>1, <3>2
    <3>4. g[0] = base
      BY <3>1, <2>6
    <3>5. ASSUME NEW k \in 1..m PROVE g[k] = step[k][g[k - 1]]
      <4>1. k - 1 \in 0..m /\ g[k - 1] = f[k - 1]
        BY <3>1
      <4>2. CASE k = m
        BY <4>1, <4>2
      <4>3. CASE k # m
        <5>1. k \in 1..(m - 1) /\ g[k] = f[k]
          BY <4>3, <3>1
        <5> QED
          BY <5>1, <4>1, <2>6
      <4> QED
        BY <4>2, <4>3
    <3> QED
      BY <3>3, <3>4, <3>5
  <2> QED
    BY <2>4, <2>7
<1>2. n \in 0..n
  OBVIOUS
<1>3. \E f : Runs(f, n)
  <2> HIDE DEF Runs
  <2> QED
    BY <1>1, <1>2
<1> QED
  BY <1>3

-----------------------------------------------------------------------------
(***************************************************************************)
(* The excerpts of the search (Teaser): where a long word is cut.          *)
(***************************************************************************)
\* The last and the first of some positions.
LEMMA MaxOf ==
  ASSUME NEW n \in Nat, NEW S \in SUBSET (0..n), S # {}
  PROVE  Max(S) \in S /\ \A x \in S : x <= Max(S)
<1> DEFINE T == {k \in 0..n : n - k \in S}
           d == CHOOSE q \in T : \A r \in T : q <= r
<1>1. T \in SUBSET Nat /\ T # {}
  <2>1. PICK x \in S : TRUE
    OBVIOUS
  <2>2. x \in 0..n
    BY <2>1
  <2>3. PICK k \in 0..n : n - k = x
    <3>1. n - x \in 0..n /\ n - (n - x) = x
      BY <2>2
    <3> QED
      BY <3>1, Zenon
  <2>4. k \in T
    BY <2>1, <2>3
  <2> QED
    BY <2>4
<1>2. d \in T /\ \A r \in T : d <= r
  <2>1. PICK q \in T : \A r \in T : <<r, q>> \notin OpToRel(<, Nat)
    BY <1>1, WFMin, NatLessThanWellFounded, Zenon
  <2>2. \A r \in T : ~ (r < q)
    BY <1>1, <2>1, Zenon DEF OpToRel
  <2>3. \A r \in T : q <= r
    BY <1>1, <2>2
  <2> HIDE DEF T
  <2> QED
    BY <2>3
<1> HIDE DEF d
<1>3. n - d \in S /\ \A x \in S : x <= n - d
  <2>1. d \in 0..n /\ n - d \in S
    BY <1>2
  <2>2. ASSUME NEW x \in S PROVE x <= n - d
    <3>1. x \in 0..n /\ n - x \in 0..n /\ n - (n - x) = x
      OBVIOUS
    <3>2. n - x \in T
      BY <3>1
    <3>3. d <= n - x
      BY <1>2, <3>2
    <3> QED
      BY <2>1, <3>1, <3>3
  <2> QED
    BY <2>1, <2>2
<1> DEFINE m == n - d
<1>4. m \in S /\ \A x \in S : x <= m
  BY <1>3
<1> HIDE DEF m
<1>5. \A x \in S : m >= x
  BY <1>4
<1>6. Max(S) \in S /\ \A x \in S : Max(S) >= x
  BY <1>4, <1>5, Zenon DEF Max
<1> QED
  BY <1>6

\* The last of some positions, by what it has to be.
LEMMA MaxIs ==
  ASSUME NEW n \in Nat, NEW S \in SUBSET (0..n), NEW m \in S, \A x \in S : x <= m
  PROVE  Max(S) = m
<1>1. S # {}
  OBVIOUS
<1>2. Max(S) \in S /\ m <= Max(S)
  BY <1>1, MaxOf
<1>3. Max(S) <= m /\ Max(S) \in 0..n /\ m \in 0..n
  BY <1>2
<1> QED
  BY <1>2, <1>3

\* The first of some positions, by what it has to be.
LEMMA MinIs ==
  ASSUME NEW S \in SUBSET Nat, NEW m \in S, \A x \in S : m <= x
  PROVE  Min(S) = m
<1>1. Min(S) \in S /\ \A x \in S : Min(S) <= x
  BY Zenon DEF Min
<1>2. Min(S) \in Nat /\ m \in Nat /\ Min(S) <= m /\ m <= Min(S)
  BY <1>1
<1> QED
  BY <1>2

Units == {"a", "w", "joiner", "high", "low"}

\* The surrogates come in pairs.
WellFormed(text) ==
  /\ text \in Seq(Units)
  /\ \A i \in 1..Len(text) :
       /\ text[i] = "high" => i < Len(text) /\ text[i + 1] = "low"
       /\ text[i] = "low" => i > 1 /\ text[i - 1] = "high"

\* Code points one after the other are well formed.
LEMMA PairsTogether ==
  ASSUME NEW s, NEW t, WellFormed(s), WellFormed(t)
  PROVE  WellFormed(s \o t)
<1>1. s \in Seq(Units) /\ t \in Seq(Units) /\ Len(s) \in Nat /\ Len(t) \in Nat
  BY LenProperties DEF WellFormed
<1> DEFINE u == s \o t
<1>2. /\ u \in Seq(Units) /\ Len(u) = Len(s) + Len(t)
      /\ \A i \in 1..(Len(s) + Len(t)) : u[i] = IF i <= Len(s) THEN s[i] ELSE t[i - Len(s)]
  BY <1>1, ConcatProperties, Zenon
<1> HIDE DEF u
<1>3. ASSUME NEW i \in 1..Len(u), u[i] = "high" PROVE i < Len(u) /\ u[i + 1] = "low"
  <2>1. CASE i <= Len(s)
    <3>1. i \in 1..Len(s) /\ s[i] = "high"
      BY <1>1, <1>2, <1>3, <2>1
    <3>2. i < Len(s) /\ s[i + 1] = "low"
      BY <3>1 DEF WellFormed
    <3>3. i + 1 \in 1..(Len(s) + Len(t)) /\ i + 1 <= Len(s)
      BY <1>1, <3>1, <3>2
    <3> QED
      BY <1>1, <1>2, <3>2, <3>3
  <2>2. CASE ~(i <= Len(s))
    <3>1. i - Len(s) \in 1..Len(t) /\ t[i - Len(s)] = "high"
      BY <1>1, <1>2, <1>3, <2>2
    <3>2. i - Len(s) < Len(t) /\ t[i - Len(s) + 1] = "low"
      BY <3>1 DEF WellFormed
    <3>3. /\ i + 1 \in 1..(Len(s) + Len(t)) /\ ~(i + 1 <= Len(s))
          /\ (i + 1) - Len(s) = i - Len(s) + 1
      BY <1>1, <1>2, <2>2, <3>2
    <3> QED
      BY <1>1, <1>2, <3>2, <3>3
  <2> QED
    BY <2>1, <2>2
<1>4. ASSUME NEW i \in 1..Len(u), u[i] = "low" PROVE i > 1 /\ u[i - 1] = "high"
  <2>1. CASE i <= Len(s)
    <3>1. i \in 1..Len(s) /\ s[i] = "low"
      BY <1>1, <1>2, <1>4, <2>1
    <3>2. i > 1 /\ s[i - 1] = "high"
      BY <3>1 DEF WellFormed
    <3>3. i - 1 \in 1..(Len(s) + Len(t)) /\ i - 1 <= Len(s)
      BY <1>1, <3>1, <3>2
    <3> QED
      BY <1>1, <1>2, <3>2, <3>3
  <2>2. CASE ~(i <= Len(s))
    <3>1. i - Len(s) \in 1..Len(t) /\ t[i - Len(s)] = "low" /\ i \in Nat
      BY <1>1, <1>2, <1>4, <2>2
    <3>2. i - Len(s) > 1 /\ t[i - Len(s) - 1] = "high"
      BY <3>1 DEF WellFormed
    <3>3. /\ i - 1 \in 1..(Len(s) + Len(t)) /\ ~(i - 1 <= Len(s))
          /\ (i - 1) - Len(s) = i - Len(s) - 1 /\ i > 1
      BY <1>1, <1>2, <2>2, <3>2
    <3>4. u[i - 1] = t[(i - 1) - Len(s)]
      BY <1>2, <3>3, Zenon
    <3> QED
      BY <3>2, <3>3, <3>4, Zenon
  <2> QED
    BY <2>1, <2>2
<1> QED
  BY <1>2, <1>3, <1>4 DEF WellFormed, u

\* The words that substringByByte() is called with have no half of a pair.
LEMMA PointsWellFormed ==
  ASSUME NEW n \in Nat, NEW points \in [1..n -> CodePoint]
  PROVE  WellFormed(FlattenSeq(points))
<1> DEFINE Texts == {t \in Seq(Units) : WellFormed(t)}
<1>1. \A p \in CodePoint : p \in Texts
  <2>1. \A c \in {"a", "w", "joiner"} : <<c>> \in Seq(Units) /\ Len(<<c>>) = 1 /\ <<c>>[1] = c
    BY DEF Units
  <2>2. \A c \in {"a", "w", "joiner"} : WellFormed(<<c>>)
    BY <2>1 DEF WellFormed
  <2>3. WellFormed(<<"high", "low">>)
    BY DEF WellFormed, Units
  <2>4. /\ WellFormed(<<"a">>) /\ WellFormed(<<"w">>) /\ WellFormed(<<"joiner">>)
        /\ WellFormed(<<"high", "low">>)
    BY <2>2, <2>3
  <2>5. \A p \in CodePoint : WellFormed(p)
    BY <2>4, Zenon DEF CodePoint
  <2> QED
    BY <2>5 DEF WellFormed
<1>2. points \in Seq(CodePoint) /\ Len(points) = n
  OBVIOUS
<1>3. CASE n = 0
  <2>1. FlattenSeq(points) = points /\ points = <<>>
    BY <1>2, <1>3 DEF FlattenSeq
  <2> QED
    BY <2>1, EmptySeq DEF WellFormed
<1>4. CASE n # 0
  <2> DEFINE After(f) == [i \in 1..Len(points) |->
                            IF i = 1 THEN points[i] ELSE f[i - 1] \o points[i]]
             g == CHOOSE f : f = After(f)
             m == n - 1
             step == [k \in 1..m |-> [c \in Texts |-> c \o points[k + 1]]]
  <2>1. FlattenSeq(points) = g[n]
    BY <1>2, <1>4 DEF FlattenSeq
  <2>2. m \in Nat /\ n = m + 1 /\ \A k \in 0..m : points[k + 1] \in Texts
    BY <1>1, <1>4
  <2> HIDE DEF m
  <2>3. ASSUME NEW c \in Texts, NEW k \in 0..m PROVE c \o points[k + 1] \in Texts
    <3>1. WellFormed(c) /\ WellFormed(points[k + 1])
      BY <2>2
    <3>2. WellFormed(c \o points[k + 1])
      BY <3>1, PairsTogether, Zenon
    <3> QED
      BY <3>2 DEF WellFormed
  <2> HIDE DEF Texts
  <2>4. step \in Steps(m, Texts)
    BY <2>3 DEF Steps
  <2>5. PICK h : Iteration(h, m, Texts, points[1], step)
    <3>1. points[1] \in Texts
      BY <2>2
    <3> HIDE DEF step
    <3> QED
      BY <2>2, <2>4, <3>1, Iterates
  <2> DEFINE f == [i \in 1..n |-> h[i - 1]]
  <2>6. f = After(f)
    <3>1. ASSUME NEW i \in 1..n, i # 1 PROVE f[i] = f[i - 1] \o points[i]
      <4>1. i - 1 \in 1..m /\ (i - 1) - 1 \in 0..m /\ i - 1 \in 1..n /\ (i - 1) + 1 = i
        BY <2>2, <3>1
      <4>2. h[(i - 1) - 1] \in Texts /\ h[i - 1] = step[i - 1][h[(i - 1) - 1]]
        BY <2>5, <4>1 DEF Iteration
      <4>3. step[i - 1][h[(i - 1) - 1]] = h[(i - 1) - 1] \o points[i]
        BY <4>1, <4>2
      <4> QED
        BY <4>1, <4>2, <4>3
    <3>2. f[1] = points[1]
      BY <1>4, <2>5 DEF Iteration
    <3> QED
      BY <1>2, <1>4, <3>1, <3>2
  <2>7. g = After(g)
    <3> HIDE DEF After, f
    <3> QED
      BY <2>6
  <2> HIDE DEF g
  <2>8. g[1] = points[1] /\ \A i \in 1..n : i # 1 => g[i] = g[i - 1] \o points[i]
    <3> DEFINE Rule(i) == IF i = 1 THEN points[i] ELSE g[i - 1] \o points[i]
    <3>1. g = [i \in 1..n |-> Rule(i)]
      BY <1>2, <2>7, Zenon
    <3> HIDE DEF Rule
    <3>2. \A i \in 1..n : g[i] = Rule(i)
      BY <3>1
    <3>3. 1 \in 1..n
      BY <1>4
    <3> QED
      BY <3>2, <3>3, Zenon DEF Rule
  <2> HIDE DEF f, step
  <2> DEFINE e == [i \in 0..m |-> g[i + 1]]
             A == [i \in 0..m |-> Texts]
  <2>9. \A i \in 0..m : e[i] \in A[i]
    <3>1. e[0] \in A[0]
      <4>1. 0 \in 0..m /\ 0 + 1 = 1
        BY <2>2
      <4>2. g[1] \in Texts
        BY <2>2, <2>8, <4>1
      <4> QED
        BY <4>1, <4>2
    <3>2. ASSUME NEW i \in 1..m, e[i - 1] \in A[i - 1] PROVE e[i] \in A[i]
      <4>1. g[i] \in Texts /\ i \in 0..m /\ i + 1 \in 1..n /\ i + 1 # 1 /\ (i + 1) - 1 = i
        BY <2>2, <3>2
      <4>2. g[i + 1] = g[i] \o points[i + 1]
        BY <2>8, <4>1
      <4> QED
        BY <2>3, <4>1, <4>2
    <3> HIDE DEF e, A
    <3> QED
      BY <2>2, <3>1, <3>2, Reaches
  <2>10. g[n] \in Texts
    BY <2>2, <2>9
  <2> QED
    BY <2>1, <2>10 DEF Texts
<1> QED
  BY <1>3, <1>4

\* What one code unit adds to the bytes of a text, and what the code adds for a
\* character of one unit or two.
UnitBytes(i) == IF page[i] = "low" THEN 0 ELSE Bytes(page, i)

\* The bytes up to a unit are those up to the one before it and its own.
LEMMA BytesAdd ==
  ASSUME page \in Seq(Units)
  PROVE  /\ BytesUpTo(0) = 0
         /\ \A i \in 1..Len(page) : BytesUpTo(i) = BytesUpTo(i - 1) + UnitBytes(i)
         /\ \A i \in 1..Len(page) : UnitBytes(i) \in Nat /\ Bytes(page, i) \in 1..3
         /\ \A i \in 0..Len(page) : BytesUpTo(i) \in Nat
<1> DEFINE m == Len(page)
           Rule(f, i) == IF i = 0 THEN 0 ELSE f[i - 1] + UnitBytes(i)
           After(f) == [i \in 0..m |-> Rule(f, i)]
           g == CHOOSE f : f = After(f)
           step == [i \in 1..m |-> [c \in Nat |-> c + UnitBytes(i)]]
<1>1. m \in Nat /\ \A i \in 1..m : page[i] \in Units
  BY LenProperties, ElementOfSeq
<1>2. \A i \in 1..m : Bytes(page, i) \in 1..3
  BY <1>1 DEF Bytes, Units
<1>3. \A i \in 1..m : UnitBytes(i) \in Nat
  BY <1>2 DEF UnitBytes
<1>4. \A n : BytesUpTo(n) = g[n]
  BY Zenon DEF BytesUpTo, UnitBytes
<1> HIDE DEF m
<1>5. step \in Steps(m, Nat)
  BY <1>3 DEF Steps
<1>6. PICK f : Iteration(f, m, Nat, 0, step)
  <2> HIDE DEF step
  <2> QED
    BY <1>1, <1>5, Iterates
<1>7. \A i \in 1..m : f[i] = f[i - 1] + UnitBytes(i)
  <2>1. ASSUME NEW i \in 1..m PROVE f[i] = f[i - 1] + UnitBytes(i)
    <3>1. i - 1 \in 0..m
      BY <1>1
    <3>2. f[i - 1] \in Nat /\ f[i] = step[i][f[i - 1]]
      BY <1>6, <3>1, Zenon DEF Iteration
    <3> QED
      BY <3>2
  <2> QED
    BY <2>1
<1>8. f = After(f)
  <2>1. f = [i \in 0..m |-> f[i]] /\ f[0] = 0
    BY <1>6 DEF Iteration
  <2>2. \A i \in 0..m : i = 0 \/ i \in 1..m
    BY <1>1
  <2>3. \A i \in 0..m : f[i] = Rule(f, i)
    BY <1>7, <2>1, <2>2
  <2> HIDE DEF Rule
  <2> QED
    BY <2>1, <2>3
<1>9. g = After(g)
  <2> HIDE DEF After
  <2> QED
    BY <1>8
<1> HIDE DEF g
<1>10. g[0] = 0 /\ \A i \in 1..m : g[i] = g[i - 1] + UnitBytes(i)
  BY <1>1, <1>9
<1> DEFINE A == [i \in 0..m |-> Nat]
<1>11. \A i \in 0..m : g[i] \in A[i]
  <2>1. g[0] \in A[0]
    BY <1>1, <1>10
  <2>2. ASSUME NEW i \in 1..m, g[i - 1] \in A[i - 1] PROVE g[i] \in A[i]
    <3>1. i - 1 \in 0..m /\ i \in 0..m
      BY <1>1
    <3>2. g[i - 1] \in Nat
      BY <2>2, <3>1
    <3>3. g[i] \in Nat
      BY <1>3, <1>10, <3>2
    <3> QED
      BY <3>1, <3>3
  <2> HIDE DEF A
  <2> QED
    BY <1>1, <2>1, <2>2, Reaches
<1> QED
  BY <1>2, <1>3, <1>4, <1>10, <1>11 DEF m

\* A longer beginning has no fewer bytes.
LEMMA BytesGrow ==
  ASSUME page \in Seq(Units), NEW a \in 0..Len(page), NEW b \in a..Len(page)
  PROVE  BytesUpTo(a) <= BytesUpTo(b)
<1> DEFINE m == b - a
           g == [k \in 0..m |-> a + k]
           A == [k \in 0..m |-> {i \in 0..Len(page) : BytesUpTo(a) <= BytesUpTo(i)}]
<1>1. Len(page) \in Nat /\ m \in Nat /\ a + m = b
  BY LenProperties
<1>2. g[0] \in A[0]
  BY <1>1, BytesAdd
<1>3. ASSUME NEW k \in 1..m, g[k - 1] \in A[k - 1] PROVE g[k] \in A[k]
  <2>1. /\ k - 1 \in 0..m /\ k \in 0..m /\ a + k \in 1..Len(page)
        /\ a + (k - 1) \in 0..Len(page) /\ a + (k - 1) = a + k - 1
    BY <1>1
  <2>2. BytesUpTo(a) <= BytesUpTo(a + (k - 1))
    BY <1>3, <2>1
  <2>3. /\ BytesUpTo(a + k) = BytesUpTo(a + (k - 1)) + UnitBytes(a + k)
        /\ UnitBytes(a + k) \in Nat /\ BytesUpTo(a + (k - 1)) \in Nat
        /\ BytesUpTo(a) \in Nat /\ BytesUpTo(a + k) \in Nat
    BY <2>1, BytesAdd
  <2>4. BytesUpTo(a) <= BytesUpTo(a + k)
    BY <2>2, <2>3
  <2> QED
    BY <2>1, <2>4
<1>4. \A k \in 0..m : g[k] \in A[k]
  <2> HIDE DEF g, A
  <2> QED
    BY <1>1, <1>2, <1>3, Reaches
<1>5. m \in 0..m /\ g[m] = b
  BY <1>1
<1> QED
  BY <1>4, <1>5

\* The pair of surrogates before the end of a beginning is followed by a joiner.
Lows(n) == {j \in 1..n : page[j] = "low"}
Joined(n) == Lows(n) # {} /\ page[Max(Lows(n)) + 1] = "joiner"

\* Where the loop may stop: not inside of a pair, and not after one with a joiner
\* before the end of the next pair without one.
Stops(n) ==
  \/ n \in {0, Len(page)}
  \/ page[n] # "high" /\ (Lows(n) # {} => page[Max(Lows(n)) + 1] # "joiner")

\* Where a word may be cut, in terms of the joiners.
LEMMA StopsIs ==
  ASSUME NEW n
  PROVE  Stops(n) <=> n \in {0, Len(page)} \/ (page[n] # "high" /\ ~ Joined(n))
BY Zenon DEF Stops, Joined

\* A character without a low surrogate changes nothing, one that ends with it is
\* the last.
LEMMA JoinedNext ==
  ASSUME WellFormed(page), NEW n \in 1..Len(page)
  PROVE  /\ page[n] # "low" => (Joined(n) <=> Joined(n - 1))
         /\ page[n] = "low" => (Joined(n) <=> page[n + 1] = "joiner")
<1>1. Len(page) \in Nat /\ n \in Nat /\ n - 1 \in Nat
  BY LenProperties DEF WellFormed
<1>2. CASE page[n] # "low"
  <2>1. Lows(n) = Lows(n - 1)
    <3>1. \A j \in 1..n : j \in 1..(n - 1) \/ j = n
      BY <1>1
    <3>2. \A j \in 1..(n - 1) : j \in 1..n
      BY <1>1
    <3> QED
      BY <1>2, <3>1, <3>2, Zenon DEF Lows
  <2> QED
    BY <1>2, <2>1 DEF Joined
<1>3. CASE page[n] = "low"
  <2>1. Lows(n) \in SUBSET (0..n) /\ n \in Lows(n) /\ \A j \in Lows(n) : j <= n
    BY <1>1, <1>3 DEF Lows
  <2>2. Max(Lows(n)) = n
    BY <1>1, <2>1, MaxIs
  <2> QED
    BY <1>3, <2>1, <2>2 DEF Joined
<1> QED
  BY <1>2, <1>3

CutState ==
  [i : Nat, flag : BOOLEAN, len : Nat, length : Nat, kept : Nat, full : BOOLEAN]

\* What the loop has kept is whole and within the limit, and what it has read
\* since ends nowhere.
CutOk(s) ==
  /\ s \in CutState /\ s.i \in 1..(Len(page) + 1) /\ s.kept \in 0..(s.i - 1)
  /\ Stops(s.kept) /\ s.length = BytesUpTo(s.kept) /\ s.length <= limit
  /\ s.i <= Len(page) => page[s.i] # "low" /\ (s.flag <=> Joined(s.i - 1))
  /\ s.length + s.len = BytesUpTo(s.i - 1)
  /\ \A n \in (s.kept + 1)..(s.i - 1) : ~ Stops(n)
  /\ s.full => \A n \in (s.kept + 1)..Len(page) : Stops(n) => BytesUpTo(n) > limit

\* The loop begins with nothing kept.
LEMMA CutBegins ==
  ASSUME WellFormed(page), limit \in Nat
  PROVE  CutOk([i |-> 1, flag |-> FALSE, len |-> 0, length |-> 0, kept |-> 0, full |-> FALSE])
<1>1. Len(page) \in Nat /\ page \in Seq(Units) /\ BytesUpTo(0) = 0
  BY LenProperties, BytesAdd DEF WellFormed
<1>2. 1 <= Len(page) => page[1] # "low"
  BY <1>1 DEF WellFormed
<1>3. Stops(0)
  BY StopsIs, Zenon
<1>4. ~ Joined(0)
  BY DEF Joined, Lows
<1>5. [i |-> 1, flag |-> FALSE, len |-> 0, length |-> 0, kept |-> 0, full |-> FALSE] \in CutState
  BY DEF CutState
<1> DEFINE s == [i |-> 1, flag |-> FALSE, len |-> 0, length |-> 0, kept |-> 0, full |-> FALSE]
<1>6. /\ s.i = 1 /\ s.kept = 0 /\ s.len = 0 /\ s.length = 0 /\ s.flag = FALSE
      /\ s.full = FALSE /\ s \in CutState
  BY <1>5
<1> SUFFICES CutOk(s)
  OBVIOUS
<1> HIDE DEF s
<1>7. 1 - 1 = 0 /\ 0 + 0 = 0 /\ 0 \in 0..0 /\ 1 \in 1..(Len(page) + 1) /\ 0 <= limit
      /\ \A n \in 1..0 : FALSE
  BY <1>1
<1>8. s.i - 1 = 0 /\ s.kept + 1 = 1
  BY <1>6
<1> QED
  BY <1>1, <1>2, <1>3, <1>4, <1>6, <1>7, <1>8 DEF CutOk

\* One turn of the loop.
LEMMA CutStep ==
  ASSUME WellFormed(page), limit \in Nat, NEW s, CutOk(s), ~s.full, s.i <= Len(page)
  PROVE  LET t == NextCharacter(page, limit, s) IN CutOk(t) /\ (t.full \/ t.i > s.i)
<1> DEFINE pair == page[s.i] = "high"
           i == IF pair THEN s.i + 1 ELSE s.i
           flag == IF pair /\ i < Len(page) THEN page[i + 1] = "joiner" ELSE s.flag
           len == s.len + Bytes(page, s.i)
           next == [s EXCEPT !.i = i + 1, !.flag = flag]
           goesOn == [next EXCEPT !.len = len]
           stops == [s EXCEPT !.full = TRUE]
           keeps == [next EXCEPT !.len = 0, !.length = @ + len, !.kept = i]
           t == NextCharacter(page, limit, s)
<1>1. t = IF flag /\ i # Len(page) THEN goesOn
          ELSE IF s.length + len > limit THEN stops ELSE keeps
  BY Zenon DEF NextCharacter
<1> SUFFICES CutOk(t) /\ (t.full \/ t.i > s.i)
  OBVIOUS
<1> HIDE DEF t
<1>2. /\ Len(page) \in Nat /\ page \in Seq(Units) /\ s \in CutState
      /\ s.i \in 1..Len(page) /\ s.kept \in 0..(s.i - 1) /\ s.len \in Nat /\ s.length \in Nat
      /\ page[s.i] # "low" /\ s.flag \in BOOLEAN
  BY LenProperties DEF WellFormed, CutOk, CutState
<1>3. /\ i \in s.i..Len(page) /\ (pair => i = s.i + 1 /\ page[i] = "low")
      /\ (~pair => i = s.i /\ page[i] # "low") /\ page[i] # "high"
  <2>1. pair => s.i < Len(page) /\ page[s.i + 1] = "low"
    BY <1>2 DEF WellFormed
  <2> QED
    BY <1>2, <2>1
<1>4. i + 1 <= Len(page) => page[i + 1] # "low"
  <2> SUFFICES ASSUME i + 1 <= Len(page), page[i + 1] = "low" PROVE FALSE
    OBVIOUS
  <2> HIDE DEF i
  <2>1. i + 1 \in 1..Len(page) /\ (i + 1) - 1 = i
    BY <1>2, <1>3
  <2>2. page[(i + 1) - 1] = "high"
    BY <2>1 DEF WellFormed
  <2> QED
    BY <1>3, <2>1, <2>2
<1>5. Bytes(page, s.i) \in 1..3 /\ BytesUpTo(i) = BytesUpTo(s.i - 1) + Bytes(page, s.i)
  <2>1. /\ Bytes(page, s.i) \in 1..3 /\ BytesUpTo(s.i - 1) \in Nat
        /\ BytesUpTo(s.i) = BytesUpTo(s.i - 1) + Bytes(page, s.i)
    <3>1. s.i - 1 \in 0..Len(page) /\ UnitBytes(s.i) = Bytes(page, s.i)
      BY <1>2 DEF UnitBytes
    <3> QED
      BY <1>2, <3>1, BytesAdd
  <2>2. CASE pair
    <3>1. i \in 1..Len(page) /\ UnitBytes(i) = 0 /\ i - 1 = s.i
      BY <1>2, <1>3, <2>2 DEF UnitBytes
    <3>2. BytesUpTo(i) = BytesUpTo(s.i) + 0
      BY <1>2, <3>1, BytesAdd
    <3> QED
      BY <2>1, <3>2
  <2>3. CASE ~pair
    BY <2>1, <2>3
  <2> QED
    BY <2>2, <2>3
<1> HIDE DEF pair
<1>6. i < Len(page) => (flag <=> Joined(i))
  <2>1. CASE pair
    <3>1. i \in 1..Len(page)
      BY <1>2, <1>3
    <3>2. Joined(i) <=> page[i + 1] = "joiner"
      BY <1>3, <2>1, <3>1, JoinedNext
    <3> QED
      BY <2>1, <3>2
  <2>2. CASE ~pair
    <3>1. Joined(i) <=> Joined(i - 1)
      BY <1>2, <1>3, <2>2, JoinedNext
    <3>2. flag = s.flag /\ i = s.i
      BY <2>2
    <3>3. s.flag <=> Joined(s.i - 1)
      BY DEF CutOk
    <3> QED
      BY <3>1, <3>2, <3>3, Zenon
  <2> QED
    BY <2>1, <2>2
<1>7. flag \in BOOLEAN /\ len \in Nat
  <2>1. (page[i + 1] = "joiner") \in BOOLEAN
    BY Zenon
  <2>2. flag \in BOOLEAN
    BY <1>2, <2>1, Zenon
  <2>3. len \in Nat
    BY <1>2, <1>5
  <2> QED
    BY <2>2, <2>3
<1>8. \A n \in (s.kept + 1)..(i - 1) : ~ Stops(n)
  <2>1. \A n \in (s.kept + 1)..(s.i - 1) : ~ Stops(n)
    BY DEF CutOk
  <2>2. pair => ~ Stops(s.i)
    <3>1. pair => s.i \notin {0, Len(page)} /\ page[s.i] = "high"
      BY <1>2, <1>3 DEF pair
    <3> QED
      BY <3>1, StopsIs, Zenon
  <2>3. \A n \in (s.kept + 1)..(i - 1) : n \in (s.kept + 1)..(s.i - 1) \/ (pair /\ n = s.i)
    BY <1>2, <1>3 DEF pair
  <2> QED
    BY <2>1, <2>2, <2>3, Zenon
<1>9. Stops(i) <=> i = Len(page) \/ ~flag
  <2>1. i \in 1..Len(page) /\ i # 0
    BY <1>2, <1>3
  <2> HIDE DEF i, flag
  <2>2. i = Len(page) \/ i < Len(page)
    BY <1>2, <2>1
  <2> QED
    BY <1>3, <1>6, <2>1, <2>2, StopsIs, Zenon
<1>10. s.length + len = BytesUpTo(i) /\ i + 1 \in 1..(Len(page) + 1) /\ (i + 1) - 1 = i
       /\ s.kept \in 0..i /\ i \in 0..i /\ i + 1 > s.i /\ i \in Nat /\ i + 1 \in Nat
  <2>1. s.length + s.len = BytesUpTo(s.i - 1)
    BY DEF CutOk
  <2>2. PICK before \in Nat : before = BytesUpTo(s.i - 1)
    <3>1. BytesUpTo(s.i - 1) \in Nat
      BY <1>2, BytesAdd
    <3> QED
      BY <3>1
  <2>3. PICK more \in Nat : more = Bytes(page, s.i)
    BY <1>5
  <2>4. /\ s.length + s.len = before /\ len = s.len + more /\ BytesUpTo(i) = before + more
        /\ s.length \in Nat /\ s.len \in Nat
    BY <1>2, <1>5, <2>1, <2>2, <2>3, Zenon DEF len
  <2>5. s.length + len = BytesUpTo(i)
    BY <2>4
  <2> HIDE DEF i, len
  <2>6. /\ i + 1 \in 1..(Len(page) + 1) /\ (i + 1) - 1 = i
        /\ s.kept \in 0..i /\ i \in 0..i /\ i + 1 > s.i /\ i \in Nat /\ i + 1 \in Nat
    BY <1>2, <1>3
  <2> QED
    BY <2>5, <2>6
<1>11. goesOn.i = i + 1 /\ goesOn.flag = flag /\ goesOn.len = len /\ goesOn.length = s.length
       /\ goesOn.kept = s.kept /\ goesOn.full = FALSE
  <2> HIDE DEF i, flag, len
  <2> QED
    BY <1>2 DEF CutState
<1>12. keeps.i = i + 1 /\ keeps.flag = flag /\ keeps.len = 0 /\ keeps.length = s.length + len
       /\ keeps.kept = i /\ keeps.full = FALSE
  <2> HIDE DEF i, flag, len
  <2> QED
    BY <1>2 DEF CutState
<1>13. stops.i = s.i /\ stops.flag = s.flag /\ stops.len = s.len /\ stops.length = s.length
       /\ stops.kept = s.kept /\ stops.full = TRUE
  BY <1>2 DEF CutState
<1>14. s.length + len \in Nat
  BY <1>2, <1>7
<1>15. goesOn \in CutState /\ keeps \in CutState /\ stops \in CutState
  <2> HIDE DEF i, flag, len
  <2> QED
    BY <1>2, <1>7, <1>10, <1>14 DEF CutState
<1> HIDE DEF i, flag, len, next, goesOn, stops, keeps
<1>16. i + 1 <= Len(page) => i < Len(page)
  BY <1>2, <1>10
<1>17. CASE flag /\ i # Len(page)
  <2>1. t = goesOn
    BY <1>1, <1>17
  <2>2. \A n \in (s.kept + 1)..i : ~ Stops(n)
    <3>1. \A n \in (s.kept + 1)..i : n \in (s.kept + 1)..(i - 1) \/ n = i
      BY <1>2, <1>10
    <3> QED
      BY <1>8, <1>9, <1>17, <3>1, Zenon
  <2>3. Stops(s.kept) /\ s.length = BytesUpTo(s.kept) /\ s.length <= limit
    BY DEF CutOk
  <2>4. CutOk(goesOn)
    BY <1>4, <1>6, <1>10, <1>11, <1>15, <1>16, <1>17, <2>2, <2>3, Zenon DEF CutOk
  <2> QED
    BY <1>10, <1>11, <2>1, <2>4, Zenon
<1>18. CASE ~(flag /\ i # Len(page)) /\ s.length + len > limit
  <2>1. t = stops
    BY <1>1, <1>18
  <2>2. ASSUME NEW n \in (s.kept + 1)..Len(page), Stops(n) PROVE BytesUpTo(n) > limit
    <3>1. ~(n \in (s.kept + 1)..(i - 1))
      BY <1>8, <2>2, Zenon
    <3>2. i \in 0..Len(page) /\ n \in i..Len(page)
      BY <1>2, <1>3, <1>10, <3>1
    <3>3. BytesUpTo(i) <= BytesUpTo(n)
      BY <1>2, <3>2, BytesGrow
    <3>4. BytesUpTo(i) \in Nat /\ BytesUpTo(n) \in Nat
      BY <1>2, <3>2, BytesAdd
    <3> QED
      BY <1>10, <1>18, <3>3, <3>4
  <2>3. CutOk(stops)
    BY <1>13, <1>15, <2>2, Zenon DEF CutOk
  <2> QED
    BY <1>13, <2>1, <2>3, Zenon
<1>19. CASE ~(flag /\ i # Len(page)) /\ ~(s.length + len > limit)
  <2>1. t = keeps
    BY <1>1, <1>19
  <2>2. Stops(i)
    BY <1>9, <1>19
  <2>3. s.length + len <= limit /\ (s.length + len) + 0 = BytesUpTo(i)
        /\ \A n \in (i + 1)..i : FALSE
    BY <1>10, <1>14, <1>19
  <2>4. CutOk(keeps)
    BY <1>4, <1>6, <1>10, <1>12, <1>15, <1>16, <2>2, <2>3, Zenon DEF CutOk
  <2> QED
    BY <1>10, <1>12, <2>1, <2>4, Zenon
<1> QED
  BY <1>17, <1>18, <1>19

\* The loop ends with the longest beginning that fits and ends where it may stop.
LEMMA CutStops ==
  ASSUME WellFormed(page), limit \in Nat
  PROVE  SubstringByByte(page, limit) =
           SubSeq(page, 1, Max({n \in 0..Len(page) : Stops(n) /\ BytesUpTo(n) <= limit}))
<1> DEFINE m == Len(page)
           base == [i |-> 1, flag |-> FALSE, len |-> 0, length |-> 0, kept |-> 0,
                    full |-> FALSE]
           T == {s \in CutState : CutOk(s)}
           Over(s) == s.full \/ s.i > m
           Turn(s) == IF s.full \/ s.i > Len(page) THEN s ELSE NextCharacter(page, limit, s)
           Rule(f, k) == IF k = 0 THEN base ELSE Turn(f[k - 1])
           After(f) == [k \in 0..m |-> Rule(f, k)]
           g == CHOOSE f : f = After(f)
           step == [k \in 1..m |-> [s \in T |-> Turn(s)]]
<1>1. m \in Nat
  BY LenProperties DEF WellFormed
<1>2. base \in T
  BY CutBegins DEF CutOk
<1>3. ASSUME NEW s \in T
      PROVE  Turn(s) \in T /\ (~ Over(s) => Turn(s).full \/ Turn(s).i > s.i)
  <2>1. CASE Over(s)
    BY <2>1
  <2>2. CASE ~ Over(s)
    <3> DEFINE t == NextCharacter(page, limit, s)
    <3>1. CutOk(s) /\ ~s.full /\ s.i <= Len(page)
      BY <1>1, <2>2 DEF CutState
    <3>2. CutOk(t) /\ (t.full \/ t.i > s.i)
      BY <3>1, CutStep
    <3>3. Turn(s) = t
      BY <2>2, Zenon
    <3> HIDE DEF t
    <3>4. t \in T
      BY <3>2 DEF CutOk
    <3> HIDE DEF Turn, T
    <3> QED
      BY <3>2, <3>3, <3>4, Zenon
  <2> QED
    BY <2>1, <2>2
<1>4. SubstringByByte(page, limit) = SubSeq(page, 1, g[m].kept)
  BY Zenon DEF SubstringByByte
<1> HIDE DEF m, base, Turn
<1>5. step \in Steps(m, T)
  BY <1>3 DEF Steps
<1>6. PICK f : Iteration(f, m, T, base, step)
  <2> HIDE DEF step, T
  <2> QED
    BY <1>1, <1>2, <1>5, Iterates
<1>7. \A k \in 1..m : f[k] = Turn(f[k - 1])
  <2>1. ASSUME NEW k \in 1..m PROVE f[k] = Turn(f[k - 1])
    <3>1. k - 1 \in 0..m
      BY <1>1
    <3>2. f[k - 1] \in T /\ f[k] = step[k][f[k - 1]]
      BY <1>6, <3>1, Zenon DEF Iteration
    <3> HIDE DEF T
    <3> QED
      BY <3>2
  <2> QED
    BY <2>1
<1>8. f = After(f)
  <2>1. f = [k \in 0..m |-> f[k]] /\ f[0] = base
    BY <1>6 DEF Iteration
  <2>2. \A k \in 0..m : k = 0 \/ k \in 1..m
    BY <1>1
  <2>3. \A k \in 0..m : f[k] = Rule(f, k)
    BY <1>7, <2>1, <2>2
  <2> HIDE DEF Rule
  <2> QED
    BY <2>1, <2>3
<1>9. g = After(g)
  <2> HIDE DEF After
  <2> QED
    BY <1>8
<1> HIDE DEF g
<1>10. g[0] = base /\ \A k \in 1..m : g[k] = Turn(g[k - 1])
  BY <1>1, <1>9
<1> HIDE DEF step
<1> DEFINE A == [k \in 0..m |-> {s \in T : s.full \/ s.i >= k + 1}]
<1>11. g[0] \in A[0]
  BY <1>1, <1>2, <1>10 DEF base
<1>12. ASSUME NEW k \in 1..m, g[k - 1] \in A[k - 1] PROVE g[k] \in A[k]
  <2> DEFINE s == g[k - 1]
             t == g[k]
  <2>1. k - 1 \in 0..m /\ k \in 0..m /\ k - 1 + 1 = k
    BY <1>1
  <2>2. s \in T /\ (s.full \/ s.i >= k) /\ t = Turn(s)
    BY <1>10, <1>12, <2>1
  <2> HIDE DEF s, t
  <2>3. t \in T /\ (~ Over(s) => t.full \/ t.i > s.i) /\ (Over(s) => t = s)
    BY <1>3, <2>2 DEF Turn, m
  <2>4. s.i \in Nat /\ t.i \in Nat
    BY <2>2, <2>3 DEF CutState
  <2>5. t.full \/ t.i >= k + 1
    BY <1>1, <2>2, <2>3, <2>4
  <2> HIDE DEF T, Over
  <2>6. t \in A[k]
    BY <2>1, <2>3, <2>5
  <2> QED
    BY <2>6 DEF t
<1>13. g[m] \in A[m]
  <2>1. \A k \in 0..m : g[k] \in A[k]
    <3> HIDE DEF A
    <3> QED
      BY <1>1, <1>11, <1>12, Reaches
  <2> QED
    BY <1>1, <2>1
<1> DEFINE s == g[m]
           S == {n \in 0..Len(page) : Stops(n) /\ BytesUpTo(n) <= limit}
<1>14. CutOk(s) /\ (s.full \/ s.i >= m + 1)
  BY <1>1, <1>13
<1> HIDE DEF s, A
<1>15. /\ s.i \in 1..(m + 1) /\ s.kept \in 0..(s.i - 1)
       /\ s.kept \in 0..m /\ Stops(s.kept) /\ BytesUpTo(s.kept) <= limit
  BY <1>1, <1>14 DEF CutOk, m
<1>16. s.kept \in S
  BY <1>15 DEF m
<1>17. ASSUME NEW n \in S PROVE n <= s.kept
  <2> SUFFICES ASSUME ~(n <= s.kept) PROVE FALSE
    OBVIOUS
  <2>1. n \in (s.kept + 1)..m /\ Stops(n) /\ BytesUpTo(n) <= limit
    BY <1>1, <1>15, <1>17 DEF m
  <2>2. ~s.full
    <3>1. s.full => BytesUpTo(n) > limit
      BY <1>14, <2>1 DEF CutOk, m
    <3>2. BytesUpTo(n) \in Nat
      BY <1>1, <2>1, <1>15, BytesAdd DEF WellFormed, m
    <3> QED
      BY <2>1, <3>1, <3>2
  <2>3. n \in (s.kept + 1)..(s.i - 1)
    BY <1>1, <1>14, <1>15, <2>1, <2>2
  <2> QED
    BY <1>14, <2>1, <2>3 DEF CutOk
<1>18. Max(S) = s.kept
  <2>1. S \in SUBSET (0..m)
    BY DEF m
  <2> HIDE DEF S
  <2> QED
    BY <1>1, <1>16, <1>17, <2>1, MaxIs
<1> QED
  BY <1>4, <1>18 DEF s

\* Where the joiners join pairs of surrogates, the loop may stop after each whole
\* character and nowhere else.
LEMMA StopsAreWhole ==
  ASSUME WellFormed(page), PairsJoined, NEW n \in 0..Len(page)
  PROVE  Stops(n) <=> Whole(n)
<1> SUFFICES ASSUME n \notin {0, Len(page)} PROVE Stops(n) <=> Whole(n)
  BY Zenon DEF Stops, Whole
<1>0. DOMAIN page = 1..Len(page)
  BY LenProperties DEF WellFormed
<1>1. Len(page) \in Nat /\ n \in 1..(Len(page) - 1) /\ n \in Nat
  <2>1. Len(page) \in Nat
    BY LenProperties DEF WellFormed
  <2> QED
    BY <2>1
<1>2. Lows(n) \in SUBSET (0..n)
  BY <1>1 DEF Lows
<1>3. ASSUME page[n] # "high", Joined(n) PROVE page[n] = "joiner" \/ page[n + 1] = "joiner"
  <2>1. PICK k \in Lows(n) : k = Max(Lows(n)) /\ page[k + 1] = "joiner"
    BY <1>1, <1>2, <1>3, MaxOf DEF Joined
  <2>2. \A x \in Lows(n) : x <= k
    BY <1>1, <1>2, <2>1, MaxOf
  <2> SUFFICES ASSUME page[n] # "joiner", page[n + 1] # "joiner" PROVE FALSE
    OBVIOUS
  <2>3. k \in 1..n /\ k # n /\ k + 1 # n
    BY <1>1, <2>1 DEF Lows
  <2>4. k + 1 \in 1..Len(page) /\ page[k + 1] = "joiner"
    BY <1>1, <2>1, <2>3
  <2>5. page[(k + 1) + 1] = "high"
    BY <1>0, <2>4, Zenon DEF PairsJoined
  <2>6. k + 2 \in 1..Len(page) /\ k + 2 <= n /\ page[k + 2] = "high"
    BY <1>1, <2>3, <2>5
  <2>7. k + 2 # n
    BY <1>3, <2>6
  <2>8. page[(k + 2) + 1] = "low"
    BY <2>6 DEF WellFormed
  <2>9. k + 3 \in 1..n /\ page[k + 3] = "low"
    BY <1>1, <2>3, <2>6, <2>7, <2>8
  <2>10. k + 3 \in Lows(n)
    BY <2>9 DEF Lows
  <2> QED
    BY <2>2, <2>3, <2>10
<1>4. ASSUME page[n] = "joiner" \/ page[n + 1] = "joiner" PROVE Joined(n)
  <2>1. CASE page[n] = "joiner"
    <3>1. n \in 2..(Len(page) - 1) /\ page[n - 1] = "low"
      <4>1. n \in 1..Len(page)
        BY <1>1
      <4> QED
        BY <1>0, <2>1, <4>1, Zenon DEF PairsJoined
    <3>2. n - 1 \in Lows(n) /\ n \notin Lows(n)
      BY <1>1, <2>1, <3>1 DEF Lows
    <3>3. \A x \in Lows(n) : x <= n - 1
      BY <1>1, <1>2, <3>2
    <3>4. Max(Lows(n)) = n - 1
      BY <1>1, <1>2, <3>2, <3>3, MaxIs
    <3>5. (n - 1) + 1 = n
      BY <1>1
    <3> QED
      BY <2>1, <3>2, <3>4, <3>5 DEF Joined
  <2>2. CASE page[n + 1] = "joiner"
    <3>1. n + 1 \in 1..Len(page) /\ (n + 1) - 1 = n
      BY <1>1
    <3>2. page[n] = "low"
      BY <1>0, <1>1, <2>2, <3>1 DEF PairsJoined
    <3>3. n \in Lows(n)
      BY <1>1, <3>2 DEF Lows
    <3>4. Max(Lows(n)) = n
      <4>1. \A x \in Lows(n) : x <= n
        BY <1>1, <1>2
      <4> QED
        BY <1>1, <1>2, <3>3, <4>1, MaxIs
    <3> QED
      BY <2>2, <3>3, <3>4 DEF Joined
  <2> QED
    BY <1>4, <2>1, <2>2
<1>5. Stops(n) <=> page[n] # "high" /\ ~Joined(n)
  BY StopsIs, Zenon
<1>6. Whole(n) <=> page[n] # "high" /\ ~(page[n] = "joiner" \/ page[n + 1] = "joiner")
  <2>1. page[n] \notin {"high", "joiner"} <=> page[n] # "high" /\ page[n] # "joiner"
    OBVIOUS
  <2> QED
    BY <2>1, Zenon DEF Whole
<1> QED
  BY <1>3, <1>4, <1>5, <1>6, Zenon

\* A word is cut to a beginning that fits and has no half of a pair, and to the
\* longest one of whole characters where the joiners join pairs.
THEOREM CutIsLongest ==
  ASSUME WellFormed(page), limit \in Nat
  PROVE  /\ \E n \in 0..Len(page) :
              /\ SubstringByByte(page, limit) = SubSeq(page, 1, n) /\ BytesUpTo(n) <= limit
              /\ n > 0 => page[n] # "high"
         /\ PairsJoined => SubstringByByte(page, limit) =
              SubSeq(page, 1, Max({n \in 0..Len(page) : Whole(n) /\ BytesUpTo(n) <= limit}))
<1> DEFINE S == {n \in 0..Len(page) : Stops(n) /\ BytesUpTo(n) <= limit}
<1>1. SubstringByByte(page, limit) = SubSeq(page, 1, Max(S))
  BY CutStops
<1>2. Len(page) \in Nat
  BY LenProperties DEF WellFormed
<1>3. Max(S) \in S
  <2>1. 0 \in S
    <3>1. Stops(0)
      BY StopsIs, Zenon
    <3>2. BytesUpTo(0) = 0
      BY BytesAdd DEF WellFormed
    <3> QED
      BY <1>2, <3>1, <3>2
  <2>2. S \in SUBSET (0..Len(page)) /\ S # {}
    BY <2>1
  <2> HIDE DEF S
  <2> QED
    BY <1>2, <2>2, MaxOf
<1>4. PICK n \in 0..Len(page) : n = Max(S)
  BY <1>3
<1>5. Stops(n) /\ BytesUpTo(n) <= limit
  BY <1>3, <1>4
<1>6. n > 0 => page[n] # "high"
  <2>1. CASE n = Len(page)
    BY <1>2, <2>1 DEF WellFormed
  <2>2. CASE n # Len(page)
    <3>1. n # 0 => page[n] # "high"
      BY <1>5, <2>2, StopsIs
    <3> QED
      BY <1>2, <3>1
  <2> QED
    BY <2>1, <2>2
<1>7. ASSUME PairsJoined
      PROVE  S = {k \in 0..Len(page) : Whole(k) /\ BytesUpTo(k) <= limit}
  BY <1>7, StopsAreWhole
<1> HIDE DEF S
<1> QED
  BY <1>1, <1>4, <1>5, <1>6, <1>7

-----------------------------------------------------------------------------
(***************************************************************************)
(* The excerpts of the search (Teaser): splitting a text.                  *)
(***************************************************************************)
Occurs(text, separator, p) ==
  /\ p + Len(separator) - 1 <= Len(text)
  /\ SubSeq(text, p, p + Len(separator) - 1) = separator

\* The pieces begin at the positions `at`, and one more would begin after them;
\* no separator begins in a piece, and one is between each and the next.
Between(text, separator, pieces, at) ==
  LET n == Len(separator)
      m == Len(pieces)
  IN /\ at \in [1..(m + 1) -> Nat \ {0}] /\ at[1] = 1
     /\ \A j \in 1..m :
          /\ at[j] + n <= at[j + 1]
          /\ pieces[j] = SubSeq(text, at[j], at[j + 1] - n - 1)
          /\ \A p \in at[j]..(at[j + 1] - n - 1) : ~ Occurs(text, separator, p)
          /\ j < m => Occurs(text, separator, at[j + 1] - n)

\* And one is after the last.
Ends(text, separator, pieces, at) ==
  LET m == Len(pieces)
  IN m = 0 \/ Occurs(text, separator, at[m + 1] - Len(separator))

\* What comes after the pieces is one more piece, up to the separator before
\* `next` or up to the end.
NextPiece(text, separator, from, next) ==
  LET n == Len(separator)
  IN /\ from + n <= next /\ next <= Len(text) + n + 1
     /\ \A p \in from..(next - n - 1) : ~ Occurs(text, separator, p)

Piece(text, separator, from, next) == SubSeq(text, from, next - Len(separator) - 1)

\* One more piece, from the end of the others.
LEMMA OnePiece ==
  ASSUME NEW S, NEW text \in Seq(S), NEW separator \in Seq(S), Len(separator) >= 1,
         NEW pieces \in Seq(Seq(S)), NEW at, Between(text, separator, pieces, at),
         Ends(text, separator, pieces, at),
         NEW next \in Nat,
         NextPiece(text, separator, at[Len(pieces) + 1], next)
  PROVE  LET more == Append(pieces, Piece(text, separator, at[Len(pieces) + 1], next))
         IN /\ more \in Seq(Seq(S)) /\ Len(more) = Len(pieces) + 1
            /\ \E to : /\ Between(text, separator, more, to)
                       /\ to[Len(more) + 1] = next
<1> DEFINE m == Len(pieces)
           n == Len(separator)
           from == at[m + 1]
           piece == SubSeq(text, from, next - n - 1)
           more == Append(pieces, Piece(text, separator, from, next))
           to == [j \in 1..(m + 2) |-> IF j = m + 2 THEN next ELSE at[j]]
<1>1. /\ n \in Nat /\ n >= 1 /\ m \in Nat /\ Len(text) \in Nat
      /\ DOMAIN pieces = 1..m /\ at \in [1..(m + 1) -> Nat \ {0}]
      /\ m + 1 \in 1..(m + 1) /\ from \in Nat /\ from >= 1
  <2>1. n \in Nat /\ m \in Nat /\ Len(text) \in Nat /\ DOMAIN pieces = 1..m
    BY LenProperties
  <2>2. at \in [1..(m + 1) -> Nat \ {0}]
    BY DEF Between
  <2>3. m + 1 \in 1..(m + 1)
    BY <2>1
  <2> QED
    BY <2>1, <2>2, <2>3
<1>2. /\ from + n <= next /\ next <= Len(text) + n + 1
      /\ \A p \in from..(next - n - 1) : ~ Occurs(text, separator, p)
  BY Zenon DEF NextPiece
<1>3. /\ at[1] = 1
      /\ \A j \in 1..m :
           /\ at[j] + n <= at[j + 1]
           /\ pieces[j] = SubSeq(text, at[j], at[j + 1] - n - 1)
           /\ \A p \in at[j]..(at[j + 1] - n - 1) : ~ Occurs(text, separator, p)
           /\ j < m => Occurs(text, separator, at[j + 1] - n)
      /\ m = 0 \/ Occurs(text, separator, at[m + 1] - n)
  BY Zenon DEF Between, Ends
<1> HIDE DEF m, n, from
<1>5. piece \in Seq(S)
  <2>1. from >= 1 /\ from \in Int /\ next - n - 1 \in Int /\ next - n - 1 <= Len(text)
    BY <1>1, <1>2
  <2>2. \A i \in from..(next - n - 1) : text[i] \in S
    <3>1. \A i \in from..(next - n - 1) : i \in 1..Len(text)
      BY ONLY <1>1, <2>1
    <3> QED
      BY <3>1, ElementOfSeq
  <2> QED
    BY ONLY <2>1, <2>2, SubSeqProperties, text \in Seq(S)
<1>6. more = Append(pieces, piece)
  BY Zenon DEF Piece, piece, n
<1> HIDE DEF piece, more
<1>7. /\ more \in Seq(Seq(S)) /\ Len(more) = m + 1
      /\ \A i \in 1..m : more[i] = pieces[i]
      /\ more[m + 1] = piece
  BY ONLY <1>5, <1>6, AppendProperties, pieces \in Seq(Seq(S)) DEF m
<1>8. /\ to \in [1..(m + 2) -> Nat \ {0}] /\ to[m + 2] = next
      /\ \A j \in 1..(m + 1) : to[j] = at[j]
  <2>1. next \in Nat \ {0}
    BY <1>1, <1>2
  <2> QED
    BY <1>1, <2>1
<1> HIDE DEF to
<1>9. \A j \in 1..(m + 1) :
        /\ to[j] + n <= to[j + 1]
        /\ more[j] = SubSeq(text, to[j], to[j + 1] - n - 1)
        /\ \A p \in to[j]..(to[j + 1] - n - 1) : ~ Occurs(text, separator, p)
        /\ j < m + 1 => Occurs(text, separator, to[j + 1] - n)
  <2> SUFFICES ASSUME NEW j \in 1..(m + 1)
               PROVE  /\ to[j] + n <= to[j + 1]
                      /\ more[j] = SubSeq(text, to[j], to[j + 1] - n - 1)
                      /\ \A p \in to[j]..(to[j + 1] - n - 1) : ~ Occurs(text, separator, p)
                      /\ j < m + 1 => Occurs(text, separator, to[j + 1] - n)
    OBVIOUS
  <2>1. CASE j = m + 1
    <3>1. to[j] = from /\ to[j + 1] = next /\ j + 1 = m + 2 /\ ~(j < m + 1)
      <4>1. from = at[m + 1]
        BY Zenon DEF m, from
      <4> QED
        BY ONLY <1>1, <1>8, <2>1, <4>1
    <3>2. more[j] = piece
      BY <1>7, <2>1
    <3> QED
      BY <1>2, <3>1, <3>2 DEF piece
  <2>2. CASE j # m + 1
    <3>1. j \in 1..m /\ j + 1 \in 1..(m + 1)
      BY <1>1, <2>2
    <3>2. to[j] = at[j] /\ to[j + 1] = at[j + 1] /\ more[j] = pieces[j]
      BY <1>7, <1>8, <3>1
    <3>3. Occurs(text, separator, at[j + 1] - n)
      <4>1. j < m \/ (j = m /\ m # 0)
        BY <1>1, <3>1
      <4> QED
        BY <1>3, <3>1, <4>1, Zenon
    <3> QED
      BY <1>3, <3>1, <3>2, <3>3, Zenon
  <2> QED
    BY <2>1, <2>2
<1>10. to[1] = 1 /\ (m + 1) + 1 = m + 2
  BY <1>1, <1>3, <1>8
<1>11. Between(text, separator, more, to)
  BY <1>7, <1>8, <1>9, <1>10, Zenon DEF Between, n
<1>12. to[Len(more) + 1] = next
  BY <1>7, <1>8, <1>10
<1> QED
  BY <1>7, <1>11, <1>12, Zenon DEF m, from, more

\* A text is split at the separators that begin after the last one.
LEMMA SplitPieces ==
  ASSUME NEW S, NEW text \in Seq(S), NEW separator \in Seq(S), Len(separator) >= 1
  PROVE  LET pieces == Split(text, separator)
         IN /\ pieces \in Seq(Seq(S)) /\ Len(pieces) >= 1
            /\ \E at : /\ Between(text, separator, pieces, at)
                       /\ at[Len(pieces) + 1] = Len(text) + Len(separator) + 1
<1> DEFINE n == Len(separator)
           m == Len(text)
           T == [pieces : Seq(Seq(S)), from : Nat \ {0}]
           base == [pieces |-> <<>>, from |-> 1]
           Found(i, r) == r.from <= i - n + 1 /\ SubSeq(text, i - n + 1, i) = separator
           Cut(i, r) == [pieces |-> Append(r.pieces, SubSeq(text, r.from, i - n)),
                         from |-> i + 1]
           Turn(i, r) == IF Found(i, r) THEN Cut(i, r) ELSE r
           Rule(f, k) == IF k = 0 THEN base ELSE Turn(k, f[k - 1])
           After(f) == [k \in 0..m |-> Rule(f, k)]
           g == CHOOSE f : f = After(f)
           step == [k \in 1..m |-> [s \in T |-> Turn(k, s)]]
<1>1. m \in Nat /\ n \in Nat /\ n >= 1
  BY LenProperties
<1>2. base \in T
  OBVIOUS
<1>3. ASSUME NEW i \in 1..m, NEW r \in T PROVE Turn(i, r) \in T
  <2>1. CASE Found(i, r)
    <3> DEFINE piece == SubSeq(text, r.from, i - n)
    <3>1. r.from \in Int /\ r.from >= 1 /\ i - n \in Int /\ i - n <= m
      BY <1>1
    <3>2. \A j \in r.from..(i - n) : text[j] \in S
      <4>1. \A j \in r.from..(i - n) : j \in 1..m
        BY <1>1, <3>1
      <4> QED
        BY <4>1, ElementOfSeq
    <3>3. piece \in Seq(S)
      <4> HIDE DEF T, n, m
      <4> QED
        BY <3>1, <3>2, SubSeqProperties
    <3> HIDE DEF piece
    <3>4. Append(r.pieces, piece) \in Seq(Seq(S))
      BY <3>3, AppendProperties
    <3>5. Cut(i, r) \in T
      BY <3>4 DEF piece
    <3> HIDE DEF Cut, Found, T
    <3> QED
      BY <2>1, <3>5
  <2>2. CASE ~ Found(i, r)
    <3> HIDE DEF Cut, Found, T
    <3> QED
      BY <2>2
  <2> QED
    BY <2>1, <2>2
<1>4. Split(text, separator) = Append(g[m].pieces, SubSeq(text, g[m].from, m))
  BY Zenon DEF Split
<1>5. ASSUME NEW pieces \in Seq(Seq(S)), NEW at, NEW next \in Nat,
             Between(text, separator, pieces, at), Ends(text, separator, pieces, at),
             NextPiece(text, separator, at[Len(pieces) + 1], next)
      PROVE  LET more == Append(pieces, Piece(text, separator, at[Len(pieces) + 1], next))
             IN /\ more \in Seq(Seq(S)) /\ Len(more) = Len(pieces) + 1
                /\ \E to : /\ Between(text, separator, more, to)
                           /\ to[Len(more) + 1] = next
  BY ONLY OnePiece, <1>5, text \in Seq(S), separator \in Seq(S), Len(separator) >= 1, SMT
<1> HIDE DEF m, n, base, Turn
<1>6. step \in Steps(m, T)
  BY <1>3 DEF Steps
<1>7. PICK f : Iteration(f, m, T, base, step)
  <2> HIDE DEF step, T
  <2> QED
    BY <1>1, <1>2, <1>6, Iterates
<1>8. \A k \in 1..m : f[k] = Turn(k, f[k - 1])
  <2>1. ASSUME NEW k \in 1..m PROVE f[k] = Turn(k, f[k - 1])
    <3>1. k - 1 \in 0..m
      BY <1>1
    <3>2. f[k - 1] \in T /\ f[k] = step[k][f[k - 1]]
      BY <1>7, <3>1, Zenon DEF Iteration
    <3> HIDE DEF T
    <3> QED
      BY <3>2
  <2> QED
    BY <2>1
<1>9. f = After(f)
  <2>1. f = [k \in 0..m |-> f[k]] /\ f[0] = base
    BY <1>7 DEF Iteration
  <2>2. \A k \in 0..m : k = 0 \/ k \in 1..m
    BY <1>1
  <2>3. \A k \in 0..m : f[k] = Rule(f, k)
    BY <1>8, <2>1, <2>2
  <2> HIDE DEF Rule
  <2> QED
    BY <2>1, <2>3
<1>10. g = After(g)
  <2> HIDE DEF After
  <2> QED
    BY <1>9
<1> HIDE DEF g
<1>11. g[0] = base /\ \A k \in 1..m : g[k] = Turn(k, g[k - 1])
  BY <1>1, <1>10
<1> HIDE DEF step
<1> DEFINE Good(i, s) ==
             /\ s \in T /\ s.from <= i + 1
             /\ \E at : /\ Between(text, separator, s.pieces, at)
                        /\ Ends(text, separator, s.pieces, at)
                        /\ at[Len(s.pieces) + 1] = s.from
             /\ \A p \in s.from..(i - n + 1) : ~ Occurs(text, separator, p)
           A == [i \in 0..m |-> {s \in T : Good(i, s)}]
<1>12. g[0] \in A[0]
  <2> DEFINE at == [j \in 1..1 |-> 1]
  <2>1. /\ base \in T /\ base.pieces = <<>> /\ base.from = 1 /\ Len(base.pieces) = 0
        /\ base.from <= 0 + 1
    BY <1>2 DEF base
  <2>2. Between(text, separator, base.pieces, at) /\ Ends(text, separator, base.pieces, at)
    <3>1. 1..0 = {}
      OBVIOUS
    <3> QED
      BY <2>1, <3>1 DEF Between, Ends
  <2>3. at[Len(base.pieces) + 1] = base.from
    BY <2>1
  <2>4. \A p \in base.from..(0 - n + 1) : ~ Occurs(text, separator, p)
    <3>1. base.from..(0 - n + 1) = {}
      BY <1>1, <2>1
    <3> QED
      BY <3>1
  <2> HIDE DEF at, T
  <2>5. Good(0, base)
    BY <2>1, <2>2, <2>3, <2>4, Zenon
  <2> HIDE DEF Good
  <2> QED
    BY <1>1, <1>11, <2>1, <2>5
<1>13. ASSUME NEW i \in 1..m, g[i - 1] \in A[i - 1] PROVE g[i] \in A[i]
  <2> DEFINE r == g[i - 1]
             t == g[i]
  <2>1. i - 1 \in 0..m /\ i \in 0..m /\ (i - 1) - n + 1 = i - n /\ (i - 1) + 1 = i
    BY <1>1
  <2>2. r \in T /\ Good(i - 1, r) /\ t = Turn(i, r)
    <3> HIDE DEF Good
    <3> QED
      BY <1>11, <1>13, <2>1
  <2> HIDE DEF r, t
  <2>3. t \in T
    BY <1>3, <2>2
  <2>4. PICK at : /\ Between(text, separator, r.pieces, at)
                  /\ Ends(text, separator, r.pieces, at)
                  /\ at[Len(r.pieces) + 1] = r.from
    BY <2>2
  <2>5. /\ r.from \in Nat /\ r.from >= 1 /\ r.from <= i
        /\ r.pieces \in Seq(Seq(S))
        /\ \A p \in r.from..(i - n) : ~ Occurs(text, separator, p)
    BY <2>1, <2>2
  <2>6. CASE Found(i, r)
    <3>1. t = Cut(i, r)
      BY <2>2, <2>6 DEF Turn
    <3>2. t.from = i + 1 /\ t.pieces = Append(r.pieces, SubSeq(text, r.from, i - n))
      BY <3>1
    <3> DEFINE next == i + 1
    <3>3. /\ next \in Nat /\ r.from + n <= next /\ next <= m + n + 1
          /\ next - n - 1 = i - n /\ next - n = i - n + 1
      BY <1>1, <2>5, <2>6
    <3>4. \A p \in r.from..(next - n - 1) : ~ Occurs(text, separator, p)
      BY <2>5, <3>3
    <3>5. Occurs(text, separator, next - n)
      <4>1. (i - n + 1) + n - 1 = i /\ i <= m
        BY <1>1
      <4> QED
        BY <1>1, <2>6, <3>3, <4>1 DEF Occurs, n, m
    <3> HIDE DEF next
    <3> DEFINE from == at[Len(r.pieces) + 1]
               more == Append(r.pieces, Piece(text, separator, from, next))
    <3> HIDE DEF T, Found, Cut, Good
    <3>6. NextPiece(text, separator, from, next)
      BY <1>1, <2>4, <3>3, <3>4 DEF NextPiece, n, m
    <3>7. /\ Len(more) = Len(r.pieces) + 1
          /\ \E to : /\ Between(text, separator, more, to)
                     /\ Ends(text, separator, more, to)
                     /\ to[Len(more) + 1] = next
          /\ more = t.pieces
      <4>1. more = t.pieces
        BY <2>4, <3>2, <3>3 DEF Piece, n
      <4>2. /\ Len(more) = Len(r.pieces) + 1
            /\ \E to : Between(text, separator, more, to) /\ to[Len(more) + 1] = next
        BY <2>4, <2>5, <3>3, <3>6, <1>5, Zenon
      <4> QED
        BY <3>5, <4>1, <4>2, Zenon DEF Ends, n
    <3>8. \A p \in t.from..(i - n + 1) : ~ Occurs(text, separator, p)
      <4>1. t.from..(i - n + 1) = {}
        BY <1>1, <3>2
      <4> QED
        BY <4>1
    <3>9. t.from <= i + 1 /\ t.from = next
      BY <1>1, <3>2 DEF next
    <3>10. Good(i, t)
      BY <2>3, <3>7, <3>8, <3>9, Zenon DEF Good
    <3> HIDE DEF Good
    <3> QED
      BY <2>1, <2>3, <3>10 DEF t
  <2>7. CASE ~ Found(i, r)
    <3>1. t = r
      BY <2>2, <2>7 DEF Turn
    <3>2. \A p \in r.from..(i - n + 1) : ~ Occurs(text, separator, p)
      <4> SUFFICES ASSUME NEW p \in r.from..(i - n + 1) PROVE ~ Occurs(text, separator, p)
        OBVIOUS
      <4>1. p \in r.from..(i - n) \/ p = i - n + 1
        BY <1>1, <2>5
      <4>2. CASE p \in r.from..(i - n)
        BY <2>5, <4>2
      <4>3. CASE p = i - n + 1
        <5>1. p + n - 1 = i
          BY <1>1, <4>3
        <5>2. SubSeq(text, p, i) # separator
          BY <1>1, <2>5, <2>7, <4>3
        <5> QED
          BY <5>1, <5>2 DEF Occurs, n
      <4> QED
        BY <4>1, <4>2, <4>3
    <3>3. t.from <= i + 1
      BY <2>5, <3>1
    <3> HIDE DEF T, Found, Cut
    <3>4. Good(i, t)
      BY <2>2, <2>4, <3>1, <3>2, <3>3, Zenon
    <3> HIDE DEF Good
    <3> QED
      BY <2>1, <2>3, <3>4 DEF t
  <2> QED
    BY <2>6, <2>7
<1>14. g[m] \in A[m]
  <2>1. \A k \in 0..m : g[k] \in A[k]
    <3> HIDE DEF A
    <3> QED
      BY <1>1, <1>12, <1>13, Reaches
  <2>2. m \in 0..m
    BY <1>1
  <2> HIDE DEF A
  <2> QED
    BY <2>1, <2>2, Zenon
<1> DEFINE s == g[m]
<1>15. Good(m, s)
  <2> HIDE DEF Good, T
  <2> QED
    BY <1>1, <1>14
<1>16. Split(text, separator) = Append(s.pieces, SubSeq(text, s.from, m))
  BY <1>4
<1> HIDE DEF s, A
<1>17. /\ s.from \in Nat /\ s.from <= m + 1 /\ s.pieces \in Seq(Seq(S))
       /\ \A p \in s.from..(m - n + 1) : ~ Occurs(text, separator, p)
  BY <1>15
<1>18. PICK at : /\ Between(text, separator, s.pieces, at)
                 /\ Ends(text, separator, s.pieces, at)
                 /\ at[Len(s.pieces) + 1] = s.from
  BY <1>15
<1> DEFINE next == m + n + 1
<1>19. /\ next \in Nat /\ s.from + n <= next /\ next <= m + n + 1 /\ next - n - 1 = m
       /\ \A p \in s.from..(next - n - 1) : ~ Occurs(text, separator, p)
  <2>1. next \in Nat /\ s.from + n <= next /\ next <= m + n + 1 /\ next - n - 1 = m
    BY <1>1, <1>17
  <2>2. ASSUME NEW p \in s.from..m PROVE ~ Occurs(text, separator, p)
    <3>1. p \in s.from..(m - n + 1) \/ p + n - 1 > m
      BY <1>1, <1>17
    <3> QED
      BY <1>1, <1>17, <3>1 DEF Occurs, m, n
  <2> QED
    BY <2>1, <2>2
<1> HIDE DEF next
<1> DEFINE from == at[Len(s.pieces) + 1]
           more == Append(s.pieces, Piece(text, separator, from, next))
<1> HIDE DEF Good
<1>20. NextPiece(text, separator, from, next)
  BY <1>1, <1>18, <1>19 DEF NextPiece, n, m
<1>21. /\ more \in Seq(Seq(S)) /\ Len(more) = Len(s.pieces) + 1
       /\ \E to : /\ Between(text, separator, more, to)
                  /\ to[Len(more) + 1] = next
       /\ more = Split(text, separator)
  <2>1. more = Split(text, separator)
    BY <1>16, <1>18, <1>19 DEF Piece, n
  <2>2. /\ more \in Seq(Seq(S)) /\ Len(more) = Len(s.pieces) + 1
        /\ \E to : Between(text, separator, more, to) /\ to[Len(more) + 1] = next
    BY <1>5, <1>17, <1>18, <1>19, <1>20, Zenon
  <2> HIDE DEF more
  <2> QED
    BY <2>1, <2>2, Zenon
<1> HIDE DEF more
<1>22. Len(more) >= 1
  BY <1>17, <1>21, LenProperties
<1> QED
  BY <1>21, <1>22, Zenon DEF next, m, n

-----------------------------------------------------------------------------
(***************************************************************************)
(* The words of a page, and those that the loops have weighed.             *)
(***************************************************************************)
WordAt(i) == [word |-> SubSeq(page, i, End(i)), index |-> i - 1, weight |-> Worth(i)]

Word == [word : Seq(Char), index : Nat, weight : {0, 2, 8, 40}]

\* The words that begin before k are known, each where it begins.
Known(words, k) ==
  /\ words \in Seq(Word)
  /\ \A j \in 1..Len(words) :
       LET i == words[j].index + 1
       IN i \in Starts /\ i < k /\ words[j] = WordAt(i)
  /\ \A i, j \in 1..Len(words) : i < j => words[i].index < words[j].index
  /\ \A i \in Starts : i < k => \E j \in 1..Len(words) : words[j].index + 1 = i

\* The end of a word is where a separator or the end of the page follows.
LEMMA EndIs ==
  ASSUME page \in Seq(Char), NEW i \in 1..Len(page), NEW e \in i..Len(page),
         \A k \in i..e : ~Separator(k), e = Len(page) \/ Separator(e + 1)
  PROVE  End(i) = e
<1> DEFINE S == {j \in i..Len(page) : \A k \in i..j : ~Separator(k)}
<1>1. Len(page) \in Nat
  BY LenProperties
<1>2. e \in S
  OBVIOUS
<1>3. ASSUME NEW j \in S PROVE j <= e
  <2> SUFFICES ASSUME ~(j <= e) PROVE FALSE
    OBVIOUS
  <2>1. e + 1 \in i..j /\ e # Len(page)
    BY <1>1
  <2> QED
    BY <2>1
<1>4. S \in SUBSET (0..Len(page))
  BY <1>1
<1>5. Max(S) = e
  <2> HIDE DEF S
  <2> QED
    BY <1>1, <1>2, <1>3, <1>4, MaxIs
<1> QED
  BY <1>5 DEF End

\* Nothing more is known up to k if no word begins before it.
LEMMA KnownSame ==
  ASSUME page \in Seq(Char), NEW words, NEW i, Known(words, i), NEW k, i \in Int, k \in Int, i <= k,
         \A p \in i..(k - 1) : p \notin Starts
  PROVE  Known(words, k)
<1>1. Starts \subseteq Int /\ \A j \in 1..Len(words) : words[j].index + 1 \in Int
  <2>1. Starts \subseteq Int
    BY LenProperties DEF Starts
  <2> HIDE DEF Starts
  <2> QED
    BY <2>1 DEF Known
<1>2. ASSUME NEW p \in Starts, p < k PROVE p < i
  <2>1. p \in Int
    BY <1>1
  <2> HIDE DEF Starts
  <2> QED
    BY <1>2, <2>1
<1>3. ASSUME NEW j \in 1..Len(words) PROVE words[j].index + 1 < k
  BY <1>1 DEF Known
<1> QED
  BY <1>2, <1>3 DEF Known

\* The next word, pushed behind those before it.
LEMMA KnownMore ==
  ASSUME page \in Seq(Char), NEW words, NEW i \in Starts, Known(words, i),
         End(i) \in i..Len(page), NEW k \in Int, i < k,
         \A p \in (i + 1)..(k - 1) : p \notin Starts
  PROVE  Known(Append(words, WordAt(i)), k)
<1> DEFINE w == WordAt(i)
           m == Len(words)
           more == Append(words, w)
<1>1. Len(page) \in Nat /\ i \in 1..Len(page)
  BY LenProperties DEF Starts
<1>2. w \in Word /\ w.index + 1 = i
  <2>1. SubSeq(page, i, End(i)) \in Seq(Char)
    <3>1. \A j \in i..End(i) : page[j] \in Char
      BY <1>1
    <3> HIDE DEF Starts, Char
    <3>2. i \in Int /\ End(i) \in Int
      BY <1>1
    <3> QED
      BY ONLY <3>1, <3>2, SubSeqProperties
  <2>2. Worth(i) \in {2, 8, 40}
    BY DEF Worth, TERM_WEIGHT, FIRST_WORD_WEIGHT, NORMAL_WORD_WEIGHT
  <2>3. i - 1 \in Nat /\ (i - 1) + 1 = i
    BY <1>1
  <2> QED
    BY <2>1, <2>2, <2>3 DEF WordAt, Word
<1>3. words \in Seq(Word) /\ m \in Nat
  BY LenProperties DEF Known
<1> HIDE DEF w
<1>4. /\ more \in Seq(Word) /\ Len(more) = m + 1
      /\ \A j \in 1..m : more[j] = words[j]
      /\ more[m + 1] = w
  BY <1>2, <1>3, AppendProperties
<1> HIDE DEF more, m
<1>5. \A j \in 1..m : words[j].index \in Nat /\ words[j].index + 1 \in Int
  <2>1. \A j \in 1..m : words[j] \in Word
    BY <1>3, ElementOfSeq DEF m
  <2> QED
    BY <2>1 DEF Word
<1>6. \A j \in 1..m :
        /\ words[j].index + 1 \in Starts /\ words[j].index + 1 < i
        /\ words[j] = WordAt(words[j].index + 1)
  BY DEF Known, m
<1>7. ASSUME NEW j \in 1..(m + 1)
      PROVE  LET p == more[j].index + 1 IN p \in Starts /\ p < k /\ more[j] = WordAt(p)
  <2>1. CASE j = m + 1
    BY <1>2, <1>4, <2>1 DEF w
  <2>2. CASE j # m + 1
    <3>1. j \in 1..m
      BY <1>3, <2>2
    <3>2. more[j] = words[j] /\ words[j].index + 1 < i /\ words[j].index + 1 \in Int
      BY <1>4, <1>5, <1>6, <3>1
    <3>3. words[j].index + 1 < k
      BY <1>1, <3>2
    <3> QED
      BY <1>6, <3>1, <3>2, <3>3
  <2> QED
    BY <2>1, <2>2
<1>8. ASSUME NEW a \in 1..(m + 1), NEW b \in 1..(m + 1), a < b PROVE more[a].index < more[b].index
  <2>1. a \in 1..m /\ (b \in 1..m \/ b = m + 1)
    BY <1>3, <1>8
  <2>2. CASE b \in 1..m
    BY <1>4, <1>8, <2>1, <2>2 DEF Known, m
  <2>3. CASE b = m + 1
    <3>1. w.index = i - 1 /\ words[a].index + 1 < i /\ words[a].index \in Nat
      BY <1>5, <1>6, <2>1 DEF w, WordAt
    <3>2. words[a].index < w.index
      BY <1>1, <3>1
    <3> QED
      BY <1>4, <2>1, <2>3, <3>2
  <2> QED
    BY <2>1, <2>2, <2>3
<1>9. ASSUME NEW p \in Starts, p < k PROVE \E j \in 1..(m + 1) : more[j].index + 1 = p
  <2>1. p \in Int /\ (p < i \/ p = i)
    <3>1. p \in 1..Len(page)
      BY <1>1 DEF Starts
    <3> HIDE DEF Starts
    <3> QED
      BY <1>1, <1>9, <3>1
  <2>2. CASE p = i
    BY <1>2, <1>3, <1>4, <2>2
  <2>3. CASE p < i
    <3>1. PICK j \in 1..m : words[j].index + 1 = p
      BY <2>3 DEF Known, m
    <3>2. j \in 1..(m + 1) /\ more[j] = words[j]
      BY <1>3, <1>4
    <3> QED
      BY <3>1, <3>2
  <2> QED
    BY <2>1, <2>2, <2>3
<1>10. Known(more, k)
  BY <1>4, <1>7, <1>8, <1>9 DEF Known
<1> QED
  BY <1>10 DEF more, w

\* A passage from the beginning of a sentence to its end, without the full stop
\* and the blank after it.
Sentence(a, b) ==
  /\ a \in Nat \ {0} /\ b \in Nat /\ a <= b + 1 /\ b <= Len(page)
  /\ a = 1 \/ (a > 2 /\ page[a - 2] = "stop" /\ page[a - 1] = "blank")
  /\ b = Len(page) \/ (b + 2 <= Len(page) /\ page[b + 1] = "stop" /\ page[b + 2] = "blank")
  /\ \A p \in a..b : ~(p < Len(page) /\ page[p] = "stop" /\ page[p + 1] = "blank")

\* What separates words inside a sentence, and what stands around it.
LEMMA SentenceSeparators ==
  ASSUME page \in Seq(Char), NEW a, NEW b, Sentence(a, b)
  PROVE  /\ \A p \in a..b : Separator(p) <=> page[p] = "blank"
         /\ a = 1 \/ (a > 2 /\ Separator(a - 1) /\ Separator(a - 2) /\ page[a - 2] = "stop")
         /\ b = Len(page) \/ (b + 2 <= Len(page) /\ Separator(b + 1) /\ Separator(b + 2))
<1>1. Len(page) \in Nat /\ a \in Nat /\ b \in Nat
  BY LenProperties DEF Sentence
<1>2. \A p \in a..b : Separator(p) <=> page[p] = "blank"
  BY DEF Sentence, Separator
<1>3. ASSUME a > 2, page[a - 2] = "stop", page[a - 1] = "blank"
      PROVE  Separator(a - 1) /\ Separator(a - 2)
  <2>1. a - 2 < Len(page) /\ (a - 2) + 1 = a - 1
    BY <1>1 DEF Sentence
  <2> QED
    BY <1>3, <2>1 DEF Separator
<1>4. ASSUME b + 2 <= Len(page), page[b + 1] = "stop", page[b + 2] = "blank"
      PROVE  Separator(b + 1) /\ Separator(b + 2)
  <2>1. b + 1 < Len(page) /\ (b + 1) + 1 = b + 2
    BY <1>1, <1>4
  <2> QED
    BY <1>4, <2>1 DEF Separator
<1> QED
  BY <1>2, <1>3, <1>4 DEF Sentence

\* What is between blanks is a word, and no other one begins before the blank
\* after it.
LEMMA PieceIsWord ==
  ASSUME page \in Seq(Char), NEW a, NEW b, Sentence(a, b),
         NEW i \in a..b, NEW e \in i..b,
         \A p \in i..e : page[p] # "blank",
         i = a \/ page[i - 1] = "blank", e = b \/ page[e + 1] = "blank"
  PROVE  /\ i \in Starts /\ End(i) = e /\ e \in i..Len(page)
         /\ \A p \in (i + 1)..(e + 1) : p \notin Starts
<1>1. /\ Len(page) \in Nat /\ a \in Nat /\ a >= 1 /\ b \in Nat /\ b <= Len(page)
      /\ i \in 1..Len(page) /\ e \in i..Len(page) /\ DOMAIN page = 1..Len(page)
  BY LenProperties DEF Sentence
<1>2. \A p \in a..b : Separator(p) <=> page[p] = "blank"
  BY SentenceSeparators
<1>3. a = 1 \/ Separator(a - 1)
  BY SentenceSeparators
<1>4. b = Len(page) \/ Separator(b + 1)
  BY SentenceSeparators
<1>5. \A p \in i..e : ~Separator(p)
  <2>1. \A p \in i..e : p \in a..b
    BY <1>1
  <2> QED
    BY <1>2, <2>1
<1>6. i = 1 \/ Separator(i - 1)
  <2>1. CASE i = a
    BY <1>3, <2>1
  <2>2. CASE i # a
    <3>1. i - 1 \in a..b
      BY <1>1, <2>2
    <3> QED
      BY <1>2, <2>2, <3>1
  <2> QED
    BY <2>1, <2>2
<1>7. e = Len(page) \/ Separator(e + 1)
  <2>1. CASE e = b
    BY <1>4, <2>1
  <2>2. CASE e # b
    <3>1. e + 1 \in a..b
      BY <1>1, <2>2
    <3> QED
      BY <1>2, <2>2, <3>1
  <2> QED
    BY <2>1, <2>2
<1>8. i \in Starts
  <2>1. i \in i..e
    BY <1>1
  <2> QED
    BY <1>1, <1>5, <1>6, <2>1 DEF Starts
<1>9. End(i) = e
  BY <1>1, <1>5, <1>7, EndIs
<1>10. ASSUME NEW p \in (i + 1)..(e + 1) PROVE p \notin Starts
  <2>1. p - 1 \in i..e /\ p # 1 /\ (p = e + 1 \/ p \in i..e)
    BY <1>1
  <2>2. ~Separator(p - 1)
    BY <1>5, <2>1
  <2> QED
    BY <2>1, <2>2 DEF Starts
<1> QED
  BY <1>1, <1>8, <1>9, <1>10

\* A word is the first of its sentence if there are only blanks before it.
LEMMA OpensIs ==
  ASSUME page \in Seq(Char), NEW a, NEW b, Sentence(a, b), NEW i \in a..b
  PROVE  Opens(i) <=> \A p \in a..(i - 1) : page[p] = "blank"
<1>1. /\ Len(page) \in Nat /\ a \in Nat /\ a >= 1 /\ b \in Nat /\ b <= Len(page)
      /\ i \in 1..Len(page)
  BY LenProperties DEF Sentence
<1>2. \A p \in a..b : Separator(p) <=> page[p] = "blank"
  BY SentenceSeparators
<1>3. a = 1 \/ (a > 2 /\ Separator(a - 1) /\ Separator(a - 2) /\ page[a - 2] = "stop")
  BY SentenceSeparators
<1>4. ASSUME \A p \in a..(i - 1) : page[p] = "blank" PROVE Opens(i)
  <2>1. \A p \in a..(i - 1) : Separator(p)
    <3>1. \A p \in a..(i - 1) : p \in a..b
      BY <1>1
    <3> QED
      BY <1>2, <1>4, <3>1
  <2>2. CASE a = 1
    <3>1. \A k \in 1..(i - 1) : k \in Before(i)
      <4> SUFFICES ASSUME NEW k \in 1..(i - 1) PROVE k \in Before(i)
        OBVIOUS
      <4>1. \A j \in k..(i - 1) : j \in a..(i - 1)
        BY <1>1, <2>2
      <4> QED
        BY <2>1, <4>1 DEF Before
    <3>2. Before(i) = 1..(i - 1)
      BY <3>1 DEF Before
    <3> QED
      BY <3>2 DEF Opens
  <2>3. CASE a # 1
    <3>1. a > 2 /\ Separator(a - 1) /\ Separator(a - 2) /\ page[a - 2] = "stop"
      BY <1>3, <2>3
    <3>2. a - 2 \in 1..(i - 1)
      BY <1>1, <3>1
    <3>3. \A j \in (a - 2)..(i - 1) : Separator(j)
      <4>1. \A j \in (a - 2)..(i - 1) : j = a - 2 \/ j = a - 1 \/ j \in a..(i - 1)
        BY <1>1, <3>1
      <4> QED
        BY <2>1, <3>1, <4>1
    <3>4. PICK k \in 1..(i - 1) : k = a - 2
      BY <3>2
    <3>5. k \in Before(i) /\ page[k] = "stop"
      BY <3>1, <3>3, <3>4 DEF Before
    <3> QED
      BY <3>5 DEF Opens
  <2> QED
    BY <2>2, <2>3
<1>5. ASSUME NEW p \in a..(i - 1), page[p] # "blank" PROVE ~Opens(i)
  <2>1. p \in a..b /\ p \in 1..(i - 1)
    BY <1>1
  <2>2. ~Separator(p)
    BY <1>2, <1>5, <2>1
  <2>3. \A k \in Before(i) : k \in a..b /\ Separator(k) /\ k > p
    <3> SUFFICES ASSUME NEW k \in Before(i) PROVE k \in a..b /\ Separator(k) /\ k > p
      OBVIOUS
    <3>1. k \in 1..(i - 1) /\ \A j \in k..(i - 1) : Separator(j)
      BY DEF Before
    <3>2. p \notin k..(i - 1)
      BY <2>2, <3>1
    <3>3. k > p /\ k \in k..(i - 1)
      BY <1>1, <2>1, <3>1, <3>2
    <3> QED
      BY <1>1, <2>1, <3>1, <3>3
  <2>4. p \notin Before(i)
    BY <1>1, <2>1, <2>3
  <2>5. \A k \in Before(i) : page[k] # "stop"
    <3>1. \A k \in Before(i) : page[k] = "blank"
      BY <1>2, <2>3
    <3> QED
      BY <3>1
  <2> QED
    BY <2>1, <2>4, <2>5 DEF Opens
<1> QED
  BY <1>4, <1>5

\* What a separator of one or two characters is, character by character.
LEMMA OccursOne ==
  ASSUME NEW S, NEW text \in Seq(S), NEW c \in S, NEW p \in Nat \ {0}
  PROVE  Occurs(text, <<c>>, p) <=> p <= Len(text) /\ text[p] = c
<1>1. Len(text) \in Nat /\ Len(<<c>>) = 1 /\ p + 1 - 1 = p
  BY LenProperties
<1>2. Occurs(text, <<c>>, p) <=> p <= Len(text) /\ SubSeq(text, p, p) = <<c>>
  BY <1>1 DEF Occurs
<1>3. ASSUME p <= Len(text) PROVE SubSeq(text, p, p) = <<text[p]>>
  <2> DEFINE s == SubSeq(text, p, p)
             t == <<text[p]>>
  <2>1. \A i \in p..p : text[i] \in S
    BY <1>1, <1>3, ElementOfSeq
  <2>2. p \in Int
    OBVIOUS
  <2>3. s \in Seq(S) /\ Len(s) = p - p + 1 /\ \A i \in 1..(p - p + 1) : s[i] = text[p + i - 1]
    BY ONLY <2>1, <2>2, SubSeqProperties
  <2>4. Len(s) = 1 /\ s[1] = text[p]
    <3>1. p - p + 1 = 1 /\ p + 1 - 1 = p /\ 1 \in 1..(p - p + 1)
      OBVIOUS
    <3> HIDE DEF s
    <3> QED
      BY <2>3, <3>1
  <2>5. t \in Seq(S) /\ Len(t) = 1 /\ t[1] = text[p]
    BY <1>3
  <2> HIDE DEF s, t
  <2>6. \A i \in 1..Len(s) : s[i] = t[i]
    BY <2>4, <2>5
  <2>7. s = t
    BY <2>3, <2>4, <2>5, <2>6, SeqEqual
  <2> QED
    BY <2>7 DEF s, t
<1>4. <<text[p]>> = <<c>> <=> text[p] = c
  OBVIOUS
<1> QED
  BY <1>2, <1>3, <1>4

\* Where a separator of two characters occurs.
LEMMA OccursTwo ==
  ASSUME NEW S, NEW text \in Seq(S), NEW c \in S, NEW d \in S, NEW p \in Nat \ {0}
  PROVE  Occurs(text, <<c, d>>, p) <=> p < Len(text) /\ text[p] = c /\ text[p + 1] = d
<1>1. Len(text) \in Nat /\ Len(<<c, d>>) = 2 /\ p + 2 - 1 = p + 1
  BY LenProperties
<1>2. Occurs(text, <<c, d>>, p) <=> p < Len(text) /\ SubSeq(text, p, p + 1) = <<c, d>>
  BY <1>1 DEF Occurs
<1>3. ASSUME p < Len(text) PROVE SubSeq(text, p, p + 1) = <<text[p], text[p + 1]>>
  <2> DEFINE s == SubSeq(text, p, p + 1)
             t == <<text[p], text[p + 1]>>
  <2>1. \A i \in p..(p + 1) : text[i] \in S
    <3>1. \A i \in p..(p + 1) : i \in 1..Len(text)
      BY <1>1, <1>3
    <3> QED
      BY <3>1, ElementOfSeq
  <2>2. p \in Int /\ p + 1 \in Int /\ p <= p + 1 /\ (p + 1) - p + 1 = 2
    OBVIOUS
  <2>3. s \in Seq(S) /\ Len(s) = 2 /\ \A i \in 1..2 : s[i] = text[p + i - 1]
    BY ONLY <2>1, <2>2, SubSeqProperties
  <2>4. s[1] = text[p] /\ s[2] = text[p + 1]
    <3>1. p + 1 - 1 = p /\ p + 2 - 1 = p + 1
      OBVIOUS
    <3> HIDE DEF s
    <3> QED
      BY <2>3, <3>1
  <2>5. t \in Seq(S) /\ Len(t) = 2 /\ t[1] = text[p] /\ t[2] = text[p + 1]
    <3>1. text[p] \in S /\ text[p + 1] \in S
      BY <2>1
    <3> QED
      BY <3>1
  <2> HIDE DEF s, t
  <2>6. \A i \in 1..Len(s) : s[i] = t[i]
    BY <2>3, <2>4, <2>5
  <2>7. s = t
    BY <2>3, <2>5, <2>6, SeqEqual
  <2> QED
    BY <2>7 DEF s, t
<1>4. <<text[p], text[p + 1]>> = <<c, d>> <=> text[p] = c /\ text[p + 1] = d
  OBVIOUS
<1> QED
  BY <1>2, <1>3, <1>4

\* A part of a part of a sequence.
LEMMA PartOfPart ==
  ASSUME NEW S, NEW s \in Seq(S), NEW a \in Nat \ {0}, NEW b \in Nat, a <= b + 1, b <= Len(s),
         NEW c \in Nat \ {0}, NEW d \in Int, d <= b - a + 1
  PROVE  /\ SubSeq(s, a, b) \in Seq(S) /\ Len(SubSeq(s, a, b)) = b - a + 1
         /\ \A i \in 1..(b - a + 1) : SubSeq(s, a, b)[i] = s[a + i - 1]
         /\ SubSeq(SubSeq(s, a, b), c, d) = SubSeq(s, a + c - 1, a + d - 1)
<1> DEFINE t == SubSeq(s, a, b)
           u == SubSeq(t, c, d)
           v == SubSeq(s, a + c - 1, a + d - 1)
           n == IF c <= d THEN d - c + 1 ELSE 0
<1>1. Len(s) \in Nat /\ a \in Int /\ b \in Int
  BY LenProperties
<1>2. \A i \in a..b : s[i] \in S
  <2>1. \A i \in a..b : i \in 1..Len(s)
    BY <1>1
  <2> QED
    BY <2>1, ElementOfSeq
<1>3. /\ t \in Seq(S) /\ Len(t) = IF a <= b THEN b - a + 1 ELSE 0
      /\ \A i \in 1..(b - a + 1) : t[i] = s[a + i - 1]
  BY ONLY <1>1, <1>2, SubSeqProperties
<1>4. Len(t) = b - a + 1
  BY <1>3
<1> HIDE DEF t
<1>5. \A i \in c..d : i \in 1..(b - a + 1) /\ t[i] \in S
  <2>1. \A i \in c..d : i \in 1..(b - a + 1)
    BY <1>1
  <2> QED
    BY <1>3, <1>4, <2>1, ElementOfSeq
<1>6. c \in Int /\ d \in Int /\ a + c - 1 \in Int /\ a + d - 1 \in Int
  BY <1>1
<1>7. /\ u \in Seq(S) /\ Len(u) = n
      /\ \A i \in 1..(d - c + 1) : u[i] = t[c + i - 1]
  BY ONLY <1>5, <1>6, SubSeqProperties
<1> HIDE DEF u
<1>8. \A i \in (a + c - 1)..(a + d - 1) : s[i] \in S
  <2>1. \A i \in (a + c - 1)..(a + d - 1) : i \in 1..Len(s)
    BY <1>1
  <2> QED
    BY <2>1, ElementOfSeq
<1>9. /\ v \in Seq(S)
      /\ Len(v) = IF a + c - 1 <= a + d - 1 THEN (a + d - 1) - (a + c - 1) + 1 ELSE 0
      /\ \A i \in 1..((a + d - 1) - (a + c - 1) + 1) : v[i] = s[(a + c - 1) + i - 1]
  BY ONLY <1>6, <1>8, SubSeqProperties
<1> HIDE DEF v
<1>10. Len(v) = n /\ (a + d - 1) - (a + c - 1) + 1 = d - c + 1
  BY <1>1, <1>9
<1>11. \A i \in 1..n : u[i] = v[i]
  <2> SUFFICES ASSUME NEW i \in 1..n PROVE u[i] = v[i]
    OBVIOUS
  <2>1. /\ i \in 1..(d - c + 1) /\ c + i - 1 \in 1..(b - a + 1)
        /\ a + (c + i - 1) - 1 = (a + c - 1) + i - 1
    BY <1>1
  <2>2. u[i] = t[c + i - 1] /\ t[c + i - 1] = s[a + (c + i - 1) - 1]
    BY <1>3, <1>7, <2>1
  <2>3. v[i] = s[(a + c - 1) + i - 1]
    BY <1>9, <1>10, <2>1
  <2> QED
    BY <2>1, <2>2, <2>3
<1>12. u = v
  <2> HIDE DEF n
  <2> QED
    BY <1>7, <1>9, <1>10, <1>11, SeqEqual
<1> QED
  BY <1>3, <1>4, <1>12 DEF t, u, v

\* The pieces of a sentence lie between the positions k of the page.
CutAt(a, b, pieces, k) ==
  /\ k \in [1..(Len(pieces) + 1) -> Nat]
  /\ k[1] = a /\ k[Len(pieces) + 1] = b + 2
  /\ \A j \in 1..Len(pieces) :
       /\ a <= k[j] /\ k[j] < k[j + 1] /\ k[j + 1] - 2 <= b
       /\ pieces[j] = SubSeq(page, k[j], k[j + 1] - 2)
       /\ \A p \in k[j]..(k[j + 1] - 2) : page[p] # "blank"
       /\ j < Len(pieces) => k[j + 1] - 1 <= b /\ page[k[j + 1] - 1] = "blank"

\* The pieces of a sentence are what stands between its blanks.
LEMMA SentenceWords ==
  ASSUME page \in Seq(Char), NEW a, NEW b, Sentence(a, b)
  PROVE  LET pieces == Split(SubSeq(page, a, b), <<"blank">>)
         IN /\ pieces \in Seq(Seq(Char)) /\ Len(pieces) >= 1
            /\ \E k : CutAt(a, b, pieces, k)
<1> DEFINE pieces == Split(SubSeq(page, a, b), <<"blank">>)
           text == SubSeq(page, a, b)
           separator == <<"blank">>
           m == Len(pieces)
           n == Len(text)
<1>1. /\ a \in Nat \ {0} /\ a \in Nat /\ a >= 1 /\ b \in Nat
      /\ a <= b + 1 /\ b <= Len(page) /\ Len(page) \in Nat
  BY LenProperties DEF Sentence
<1>2. text \in Seq(Char) /\ n = b - a + 1 /\ n \in Nat /\ \A i \in 1..n : text[i] = page[a + i - 1]
  <2> HIDE DEF Char
  <2>1. 1 \in Nat \ {0} /\ 0 \in Int /\ 0 <= b - a + 1
    BY <1>1
  <2>2. text \in Seq(Char) /\ n = b - a + 1 /\ \A i \in 1..(b - a + 1) : text[i] = page[a + i - 1]
    BY <1>1, <2>1, PartOfPart
  <2>3. n \in Nat
    BY <1>1, <2>2
  <2> QED
    BY <2>2, <2>3
<1>3. /\ "blank" \in Char /\ separator \in Seq(Char) /\ Len(separator) = 1
  BY DEF Char
<1>4. pieces = Split(text, separator)
  OBVIOUS
<1> HIDE DEF text, separator, pieces
<1>5. pieces \in Seq(Seq(Char)) /\ m >= 1 /\ m \in Nat
  <2> HIDE DEF Char
  <2>1. pieces = Split(text, separator)
    BY <1>4
  <2>2. Len(separator) >= 1
    BY <1>3
  <2>3. pieces \in Seq(Seq(Char)) /\ m >= 1
    BY <1>2, <1>3, <2>1, <2>2, SplitPieces
  <2> QED
    BY <2>3, LenProperties
<1>6. PICK at : /\ Between(text, separator, pieces, at)
                /\ at[m + 1] = n + Len(separator) + 1
  <2> HIDE DEF Char
  <2>1. pieces = Split(text, separator)
    BY <1>4
  <2>2. Len(separator) >= 1
    BY <1>3
  <2> QED
    BY <1>2, <1>3, <2>1, <2>2, SplitPieces
<1>7. /\ at \in [1..(m + 1) -> Nat \ {0}] /\ at[1] = 1 /\ at[m + 1] = n + 2
      /\ \A j \in 1..m :
           /\ at[j] + 1 <= at[j + 1]
           /\ pieces[j] = SubSeq(text, at[j], at[j + 1] - 1 - 1)
           /\ \A p \in at[j]..(at[j + 1] - 1 - 1) : ~ Occurs(text, separator, p)
           /\ j < m => Occurs(text, separator, at[j + 1] - 1)
  <2>1. n + 1 + 1 = n + 2
    BY <1>1, <1>2
  <2>2. at[m + 1] = n + 2
    BY <1>3, <1>6, <2>1
  <2> QED
    BY <1>3, <1>6, <2>2 DEF Between
<1>8. \A p \in Nat \ {0} : Occurs(text, separator, p) <=> p <= n /\ text[p] = "blank"
  <2> HIDE DEF Char
  <2> QED
    BY <1>2, <1>3, OccursOne DEF separator
<1> HIDE DEF m, n, Char
<1> DEFINE k == [j \in 1..(m + 1) |-> a + at[j] - 1]
<1>9. /\ k \in [1..(m + 1) -> Nat] /\ \A j \in 1..(m + 1) : k[j] = a + at[j] - 1
  <2>1. \A j \in 1..(m + 1) : a + at[j] - 1 \in Nat
    BY <1>1, <1>7
  <2> QED
    BY <2>1
<1> HIDE DEF k
<1>10. k[1] = a /\ k[m + 1] = b + 2
  <2>1. 1 \in 1..(m + 1) /\ m + 1 \in 1..(m + 1)
    BY <1>5
  <2> QED
    BY <1>1, <1>2, <1>7, <1>9, <2>1
<1>11. ASSUME NEW j \in 1..m
       PROVE  /\ a <= k[j] /\ k[j] < k[j + 1] /\ k[j + 1] - 2 <= b
              /\ pieces[j] = SubSeq(page, k[j], k[j + 1] - 2)
              /\ \A p \in k[j]..(k[j + 1] - 2) : page[p] # "blank"
              /\ j < m => k[j + 1] - 1 <= b /\ page[k[j + 1] - 1] = "blank"
  <2>1. /\ j \in 1..(m + 1) /\ j + 1 \in 1..(m + 1) /\ j \in Nat
    BY <1>5
  <2>2. PICK x \in Nat : x = at[j]
    BY <1>7, <2>1
  <2>3. PICK y \in Nat : y = at[j + 1]
    BY <1>7, <2>1
  <2>4. x >= 1 /\ y >= 1 /\ x + 1 <= y
    BY <1>7, <2>2, <2>3, <2>1
  <2>5. k[j] = a + x - 1 /\ k[j + 1] = a + y - 1
    BY <1>9, <2>2, <2>3, <2>1
  <2>6. j < m => y - 1 <= n /\ text[y - 1] = "blank"
    <3>1. y - 1 \in Nat \ {0}
      BY <2>4, <2>5
    <3>2. j < m => Occurs(text, separator, y - 1)
      BY <1>7, <2>3
    <3> QED
      BY <1>8, <3>1, <3>2
  <2>7. y - 2 <= n
    <3>1. CASE j < m
      BY <1>1, <1>2, <2>4, <2>5, <2>6, <3>1
    <3>2. CASE ~(j < m)
      <4>1. j + 1 = m + 1
        BY <1>5, <3>2
      <4>2. y = n + 2
        BY <1>7, <2>3, <4>1
      <4> QED
        BY <1>1, <1>2, <4>2
    <3> QED
      BY <3>1, <3>2
  <2>8. a <= k[j] /\ k[j] < k[j + 1] /\ k[j + 1] - 2 <= b
    BY <1>1, <1>2, <2>4, <2>5, <2>7
  <2>9. pieces[j] = SubSeq(page, k[j], k[j + 1] - 2)
    <3>1. PICK c \in Nat \ {0} : c = x
      BY <2>4, <2>5
    <3>2. PICK d \in Int : d = y - 2
      BY <2>4, <2>5
    <3>3. d <= b - a + 1
      BY <1>2, <2>7, <3>2
    <3>4. SubSeq(text, c, d) = SubSeq(page, a + c - 1, a + d - 1)
      <4> HIDE DEF Char
      <4> QED
        BY <1>1, <3>1, <3>2, <3>3, PartOfPart DEF text
    <3>5. a + c - 1 = k[j] /\ a + d - 1 = k[j + 1] - 2 /\ d = y - 1 - 1
      BY <1>1, <2>4, <2>5, <3>1, <3>2
    <3> QED
      <4>1. pieces[j] = SubSeq(text, x, y - 1 - 1)
        BY <1>7, <2>2, <2>3
      <4> QED
        BY <3>1, <3>4, <3>5, <4>1
  <2>10. ASSUME NEW p \in k[j]..(k[j + 1] - 2) PROVE page[p] # "blank"
    <3>1. PICK q \in Nat \ {0} : q = p - a + 1
      BY <1>1, <2>4, <2>5
    <3>2. q \in x..(y - 1 - 1) /\ q <= n /\ q \in 1..n /\ a + q - 1 = p
      BY <1>1, <1>2, <2>4, <2>5, <2>7, <3>1
    <3>3. ~ Occurs(text, separator, q)
      BY <1>7, <2>2, <2>3, <3>2
    <3>4. text[q] # "blank"
      BY <1>8, <3>1, <3>2, <3>3
    <3> QED
      BY <1>2, <3>2, <3>4
  <2>11. j < m => k[j + 1] - 1 <= b /\ page[k[j + 1] - 1] = "blank"
    <3> SUFFICES ASSUME j < m PROVE k[j + 1] - 1 <= b /\ page[k[j + 1] - 1] = "blank"
      OBVIOUS
    <3>1. PICK q \in Nat \ {0} : q = y - 1
      BY <2>4, <2>5
    <3>2. q <= n /\ q \in 1..n /\ text[q] = "blank" /\ a + q - 1 = k[j + 1] - 1 /\ a + q - 1 <= b
      BY <1>1, <1>2, <2>4, <2>5, <2>6, <3>1
    <3> QED
      BY <1>2, <3>2
  <2> QED
    BY <2>8, <2>9, <2>10, <2>11
<1> QED
  BY <1>5, <1>9, <1>10, <1>11 DEF m, pieces, CutAt

Weighing == [index : Nat, value : {0, 2, 8}, words : Seq(Word)]

\* The words before i are weighed, of a sentence that begins at a, and `value`
\* is that of a first word as long as there was none.
ReadUpTo(a, i, s) ==
  /\ s \in Weighing /\ s.index = i - 1 /\ Known(s.words, i)
  /\ s.value \in {2, 8}
  /\ s.value = 8 <=> \A p \in a..(i - 2) : page[p] = "blank"

\* One piece: the index goes to what comes after the separator.
LEMMA WeighWordIs ==
  ASSUME page \in Seq(Char), NEW a, NEW b, Sentence(a, b),
         NEW i \in Nat, NEW q \in Nat, a <= i, i < q, q - 2 <= b,
         \A p \in i..(q - 2) : page[p] # "blank",
         q - 1 <= b => page[q - 1] = "blank",
         i = a \/ page[i - 1] = "blank",
         NEW s, ReadUpTo(a, i, s)
  PROVE  ReadUpTo(a, q, WeighWord(s, SubSeq(page, i, q - 2)))
<1> DEFINE word == SubSeq(page, i, q - 2)
           t == WeighWord(s, word)
<1>1. /\ Len(page) \in Nat /\ a \in Nat /\ a >= 1 /\ b \in Nat /\ b <= Len(page)
      /\ DOMAIN page = 1..Len(page)
  BY LenProperties DEF Sentence
<1>2. /\ s \in Weighing /\ s.index = i - 1 /\ Known(s.words, i) /\ s.value \in {2, 8}
      /\ s.value = 8 <=> \A p \in a..(i - 2) : page[p] = "blank"
  BY DEF ReadUpTo
<1>3. s.value = 8 <=> \A p \in a..(i - 1) : page[p] = "blank"
  <2>1. CASE i = a
    <3>1. a..(i - 1) = {} /\ a..(i - 2) = {}
      BY <1>1, <2>1
    <3> QED
      BY <1>2, <3>1
  <2>2. CASE i # a
    <3>1. \A p \in a..(i - 1) : p \in a..(i - 2) \/ p = i - 1
      BY <1>1
    <3>2. \A p \in a..(i - 2) : p \in a..(i - 1)
      BY <1>1
    <3> QED
      BY <1>2, <2>2, <3>1, <3>2
  <2> QED
    BY <2>1, <2>2
<1>4. CASE q = i + 1
  <2>1. word = <<>>
    <3>1. q - 2 < i /\ q - 2 \in Int /\ i \in Int
      BY <1>4
    <3> QED
      BY ONLY <3>1, SubSeqEmpty
  <2>2. t = [s EXCEPT !.index = @ + 1]
    BY <2>1 DEF WeighWord
  <2> HIDE DEF t
  <2>3. t \in Weighing /\ t.index = q - 1 /\ t.words = s.words /\ t.value = s.value
    <3>1. s.index + 1 = q - 1 /\ s.index + 1 \in Nat
      BY <1>2, <1>4
    <3> QED
      BY <1>2, <2>2, <3>1 DEF Weighing
  <2>4. i \notin Starts
    <3>1. CASE i <= b
      <4>1. page[i] = "blank"
        BY <1>1, <1>4, <3>1
      <4> QED
        BY <4>1 DEF Starts, Separator
    <3>2. CASE ~(i <= b)
      <4>1. i = b + 1
        BY <1>1, <1>4, <3>2
      <4>2. b = Len(page) \/ Separator(b + 1)
        BY SentenceSeparators
      <4>3. i > Len(page) \/ Separator(i)
        <5>1. b = Len(page) => i > Len(page)
          BY <1>1, <4>1
        <5>2. Separator(b + 1) => Separator(i)
          BY <4>1, Zenon
        <5> QED
          BY <4>2, <5>1, <5>2, Zenon
      <4>4. i \in Starts => i \in DOMAIN page /\ ~Separator(i)
        BY Zenon DEF Starts
      <4>5. i \in 1..Len(page) => ~(i > Len(page))
        OBVIOUS
      <4> QED
        BY <1>1, <4>3, <4>4, <4>5, Zenon
    <3> QED
      BY <3>1, <3>2
  <2>5. Known(t.words, q)
    <3>1. \A p \in i..(q - 1) : p \notin Starts
      BY <1>4, <2>4
    <3>2. i \in Int /\ q \in Int /\ i <= q
      OBVIOUS
    <3> QED
      BY <1>2, <2>3, <3>1, <3>2, KnownSame
  <2>6. t.value = 8 <=> \A p \in a..(q - 2) : page[p] = "blank"
    <3>1. q - 2 = i - 1
      BY <1>4
    <3> QED
      BY <1>3, <2>3, <3>1
  <2> QED
    BY <1>2, <2>3, <2>5, <2>6 DEF ReadUpTo, t
<1>5. CASE q # i + 1
  <2> DEFINE e == q - 2
  <2>1. i \in a..b /\ e \in i..b /\ e \in Int /\ i <= e /\ e + 1 = q - 1 /\ q - 2 = e
    BY <1>1, <1>5
  <2>2. \A p \in i..e : page[p] # "blank"
    OBVIOUS
  <2>3. e = b \/ page[e + 1] = "blank"
    BY <1>1, <2>1
  <2> HIDE DEF e
  <2>4. /\ i \in Starts /\ End(i) = e /\ e \in i..Len(page)
        /\ \A p \in (i + 1)..(e + 1) : p \notin Starts
    BY <2>1, <2>2, <2>3, PieceIsWord
  <2>5. /\ word \in Seq(Char) /\ Len(word) = e - i + 1 /\ word[1] = page[i]
    <3>1. \A p \in i..e : page[p] \in Char
      <4>1. \A p \in i..e : p \in 1..Len(page)
        BY <1>1, <2>1
      <4> HIDE DEF Char
      <4> QED
        BY <4>1, ElementOfSeq
    <3>2. word = SubSeq(page, i, e)
      BY <2>1
    <3> HIDE DEF word
    <3>3. /\ word \in Seq(Char) /\ Len(word) = IF i <= e THEN e - i + 1 ELSE 0
          /\ \A p \in 1..(e - i + 1) : word[p] = page[i + p - 1]
      BY ONLY <2>1, <3>1, <3>2, i \in Nat, SubSeqProperties
    <3>4. 1 \in 1..(e - i + 1) /\ i + 1 - 1 = i
      BY <2>1
    <3> QED
      BY <2>1, <3>3, <3>4
  <2>6. word # <<>>
    <3>1. Len(word) # 0 /\ Len(<<>>) = 0
      <4> HIDE DEF word
      <4> QED
        BY <2>1, <2>5
    <3> QED
      BY <3>1, Zenon
  <2> DEFINE w == [word |-> word, index |-> s.index,
                   weight |-> IF word[1] = "t" THEN TERM_WEIGHT ELSE s.value]
  <2>7. t = [index |-> s.index + Len(word) + 1, value |-> NORMAL_WORD_WEIGHT,
             words |-> Append(s.words, w)]
    BY <2>6, Zenon DEF WeighWord
  <2>8. w = WordAt(i)
    <3>1. Opens(i) <=> \A p \in a..(i - 1) : page[p] = "blank"
      BY <2>1, OpensIs
    <3>2. s.value = IF Opens(i) THEN 8 ELSE 2
      BY <1>2, <1>3, <3>1
    <3>3. w.weight = Worth(i)
      BY <2>5, <3>2 DEF Worth, TERM_WEIGHT, FIRST_WORD_WEIGHT, NORMAL_WORD_WEIGHT
    <3>4. word = SubSeq(page, i, End(i))
      BY <2>1, <2>4
    <3>5. s.index = i - 1
      BY <1>2
    <3> HIDE DEF word
    <3>6. w = [word |-> word, index |-> i - 1, weight |-> Worth(i)]
      BY <3>3, <3>5
    <3> QED
      BY <3>4, <3>6, Zenon DEF WordAt
  <2> HIDE DEF t, w, word
  <2>9. Known(Append(s.words, w), q)
    <3>1. \A p \in (i + 1)..(q - 1) : p \notin Starts
      BY <2>1, <2>4
    <3>2. q \in Int /\ i < q /\ End(i) \in i..Len(page)
      BY <2>4
    <3>3. Known(Append(s.words, WordAt(i)), q)
      BY ONLY <1>2, <2>4, <3>1, <3>2, KnownMore, page \in Seq(Char)
    <3> QED
      BY <2>8, <3>3, Zenon
  <2>10. t.index = q - 1 /\ t.index \in Nat
    <3>1. (i - 1) + (e - i + 1) + 1 = q - 1 /\ q - 1 \in Nat
      BY <1>1, <2>1
    <3> QED
      BY <1>2, <2>5, <2>7, <3>1
  <2>11. t.words = Append(s.words, w) /\ t.value = 2
    BY <2>7 DEF NORMAL_WORD_WEIGHT
  <2>12. t.words \in Seq(Word)
    BY <2>9, <2>11 DEF Known
  <2>13. t \in Weighing
    BY <2>7, <2>10, <2>11, <2>12 DEF Weighing
  <2>14. t.value = 8 <=> \A p \in a..(q - 2) : page[p] = "blank"
    <3>1. i \in a..(q - 2) /\ i \in i..e
      BY <1>1, <2>1
    <3> QED
      BY <2>2, <2>11, <3>1
  <2> QED
    BY <2>9, <2>10, <2>11, <2>13, <2>14 DEF ReadUpTo, t, word
<1> QED
  BY <1>4, <1>5

\* Weighing a word keeps the types.
LEMMA WeighWordType ==
  ASSUME NEW s \in Weighing, NEW word \in Seq(Char)
  PROVE  WeighWord(s, word) \in Weighing
<1>1. s.index \in Nat /\ s.value \in {0, 2, 8} /\ s.words \in Seq(Word)
  BY DEF Weighing
<1>2. CASE word = <<>>
  BY <1>1, <1>2 DEF Weighing, WeighWord
<1>3. CASE word # <<>>
  <2> DEFINE w == [word |-> word, index |-> s.index,
                   weight |-> IF word[1] = "t" THEN TERM_WEIGHT ELSE s.value]
  <2>1. w \in Word
    <3>1. w.weight \in {0, 2, 8, 40}
      BY <1>1 DEF TERM_WEIGHT
    <3> HIDE DEF Char
    <3> QED
      BY <1>1, <3>1 DEF Word
  <2> HIDE DEF w
  <2>2. Append(s.words, w) \in Seq(Word)
    BY <1>1, <2>1, AppendProperties
  <2>3. Len(word) \in Nat
    BY LenProperties
  <2>4. WeighWord(s, word) = [index |-> s.index + Len(word) + 1, value |-> NORMAL_WORD_WEIGHT,
                              words |-> Append(s.words, w)]
    BY <1>3, Zenon DEF WeighWord, w
  <2> QED
    BY <1>1, <2>2, <2>3, <2>4 DEF Weighing, NORMAL_WORD_WEIGHT
<1> QED
  BY <1>2, <1>3

\* A whole sentence: the index goes to the beginning of the next one.
LEMMA SentenceIsRead ==
  ASSUME page \in Seq(Char), NEW a, NEW b, Sentence(a, b),
         NEW acc \in Weighing, acc.index = a - 1, Known(acc.words, a)
  PROVE  LET t == WeighSentence(acc, SubSeq(page, a, b))
         IN t \in Weighing /\ t.index = b + 2 /\ Known(t.words, b + 3)
<1> DEFINE words == Split(SubSeq(page, a, b), <<"blank">>)
           m == Len(words)
           T == Weighing
           base == [acc EXCEPT !.value = FIRST_WORD_WEIGHT]
           Turn(k, s) == WeighWord(s, words[k])
           Rule(f, k) == IF k = 0 THEN base ELSE Turn(k, f[k - 1])
           After(f) == [k \in 0..m |-> Rule(f, k)]
           g == CHOOSE f : f = After(f)
           step == [k \in 1..m |-> [s \in T |-> Turn(k, s)]]
<1>1. /\ a \in Nat /\ a >= 1 /\ b \in Nat /\ a <= b + 1 /\ b <= Len(page) /\ Len(page) \in Nat
      /\ DOMAIN page = 1..Len(page)
  BY LenProperties DEF Sentence
<1>2. base \in T /\ base.index = a - 1 /\ base.words = acc.words /\ base.value = 8
  BY DEF Weighing, FIRST_WORD_WEIGHT
<1>3. WeighSentence(acc, SubSeq(page, a, b)) = [g[m] EXCEPT !.index = @ + 1]
  BY Zenon DEF WeighSentence, WeighWords
<1>4. words \in Seq(Seq(Char)) /\ m >= 1
  BY SentenceWords, Zenon
<1>5. PICK at : CutAt(a, b, words, at)
  BY SentenceWords, Zenon
<1> HIDE DEF words
<1>6. m \in Nat
  BY <1>4, LenProperties
<1>7. /\ at \in [1..(m + 1) -> Nat]
      /\ at[1] = a /\ at[m + 1] = b + 2
      /\ \A j \in 1..m :
           /\ a <= at[j] /\ at[j] < at[j + 1] /\ at[j + 1] - 2 <= b
           /\ words[j] = SubSeq(page, at[j], at[j + 1] - 2)
           /\ \A p \in at[j]..(at[j + 1] - 2) : page[p] # "blank"
           /\ j < m => at[j + 1] - 1 <= b /\ page[at[j + 1] - 1] = "blank"
  BY <1>5, Zenon DEF CutAt
<1> HIDE DEF m, base
<1>8. \A k \in 1..m, s \in T : Turn(k, s) \in T
  <2>1. \A k \in 1..m : words[k] \in Seq(Char)
    BY <1>4, ElementOfSeq DEF m
  <2> HIDE DEF Char
  <2> QED
    BY <2>1, WeighWordType
<1> HIDE DEF Turn
<1>9. step \in Steps(m, T)
  BY <1>8 DEF Steps
<1>10. PICK f : Iteration(f, m, T, base, step)
  <2> HIDE DEF step, T
  <2> QED
    BY <1>6, <1>2, <1>9, Iterates
<1>11. \A k \in 1..m : f[k] = Turn(k, f[k - 1])
  <2>1. ASSUME NEW k \in 1..m PROVE f[k] = Turn(k, f[k - 1])
    <3>1. k - 1 \in 0..m
      BY <1>6
    <3>2. f[k - 1] \in T /\ f[k] = step[k][f[k - 1]]
      BY <1>10, <3>1, Zenon DEF Iteration
    <3> HIDE DEF T
    <3> QED
      BY <3>2
  <2> QED
    BY <2>1
<1>12. f = After(f)
  <2>1. f = [k \in 0..m |-> f[k]] /\ f[0] = base
    BY <1>10 DEF Iteration
  <2>2. \A k \in 0..m : k = 0 \/ k \in 1..m
    BY <1>6
  <2>3. \A k \in 0..m : f[k] = Rule(f, k)
    BY <1>11, <2>1, <2>2
  <2> HIDE DEF Rule
  <2> QED
    BY <2>1, <2>3
<1>13. g = After(g)
  <2> HIDE DEF After
  <2> QED
    BY <1>12
<1> HIDE DEF g
<1>14. g[0] = base /\ \A k \in 1..m : g[k] = Turn(k, g[k - 1])
  BY <1>6, <1>13
<1> HIDE DEF step
<1> DEFINE A == [j \in 0..m |-> {s \in Weighing : ReadUpTo(a, at[j + 1], s)}]
<1>15. g[0] \in A[0]
  <2>1. ReadUpTo(a, a, base)
    <3>1. a..(a - 2) = {}
      BY <1>1
    <3> QED
      BY <1>2, <3>1 DEF ReadUpTo
  <2>2. 0 + 1 = 1 /\ 0 \in 0..m
    BY <1>6
  <2>3. A[0] = {s \in Weighing : ReadUpTo(a, a, s)}
    BY <1>7, <2>2
  <2> HIDE DEF A
  <2> QED
    BY <1>2, <1>14, <2>1, <2>3
<1>16. ASSUME NEW j \in 1..m, g[j - 1] \in A[j - 1] PROVE g[j] \in A[j]
  <2> DEFINE s == g[j - 1]
             t == g[j]
  <2>1. j - 1 \in 0..m /\ j \in 0..m /\ (j - 1) + 1 = j /\ j \in 1..(m + 1) /\ j + 1 \in 1..(m + 1)
    BY <1>6
  <2>2. s \in Weighing /\ ReadUpTo(a, at[j], s)
    BY <1>16, <2>1
  <2>3. t = Turn(j, s)
    BY <1>14
  <2> HIDE DEF s, t
  <2>4. PICK i \in Nat : i = at[j]
    BY <1>7, <2>1
  <2>5. PICK q \in Nat : q = at[j + 1]
    BY <1>7, <2>1
  <2>6. /\ a <= i /\ i < q /\ q - 2 <= b
        /\ words[j] = SubSeq(page, i, q - 2)
        /\ \A p \in i..(q - 2) : page[p] # "blank"
        /\ j < m => q - 1 <= b /\ page[q - 1] = "blank"
    BY <1>7, <2>4, <2>5
  <2>7. q - 1 <= b => page[q - 1] = "blank"
    <3>1. CASE j < m
      BY <2>6, <3>1
    <3>2. CASE ~(j < m)
      <4>1. j + 1 = m + 1
        BY <1>6, <3>2
      <4>2. q = b + 2
        BY <1>7, <2>5, <4>1
      <4> QED
        BY <1>1, <4>2
    <3> QED
      BY <3>1, <3>2
  <2>8. i = a \/ page[i - 1] = "blank"
    <3>1. CASE j = 1
      BY <1>7, <2>4, <3>1
    <3>2. CASE j # 1
      <4>1. j - 1 \in 1..m /\ j - 1 < m /\ (j - 1) + 1 = j
        BY <1>6, <3>2
      <4> QED
        BY <1>7, <2>4, <4>1
    <3> QED
      BY <3>1, <3>2
  <2>9. ReadUpTo(a, i, s)
    BY <2>2, <2>4, Zenon
  <2>10. ReadUpTo(a, q, WeighWord(s, SubSeq(page, i, q - 2)))
    BY <2>6, <2>7, <2>8, <2>9, WeighWordIs
  <2>11. ReadUpTo(a, at[j + 1], t)
    BY <2>3, <2>5, <2>6, <2>10, Zenon DEF Turn
  <2>12. t \in A[j]
    BY <2>1, <2>11 DEF ReadUpTo
  <2> QED
    BY <2>12 DEF t
<1>17. ReadUpTo(a, b + 2, g[m])
  <2>1. \A j \in 0..m : g[j] \in A[j]
    <3> HIDE DEF A
    <3> QED
      BY <1>6, <1>15, <1>16, Reaches
  <2>2. m \in 0..m
    BY <1>6
  <2>3. g[m] \in A[m]
    BY <2>1, <2>2
  <2>4. ReadUpTo(a, at[m + 1], g[m])
    BY <2>2, <2>3
  <2> QED
    BY <1>7, <2>4
<1> DEFINE s == g[m]
<1>18. /\ s \in Weighing /\ s.index = b + 1 /\ Known(s.words, b + 2)
  <2>1. s \in Weighing /\ s.index = (b + 2) - 1 /\ Known(s.words, b + 2)
    BY <1>17 DEF ReadUpTo
  <2> HIDE DEF s
  <2> QED
    BY <1>1, <2>1
<1> HIDE DEF s
<1> DEFINE t == [s EXCEPT !.index = @ + 1]
<1>19. t \in Weighing /\ t.index = b + 2 /\ t.words = s.words
  <2>1. s.index + 1 = b + 2 /\ b + 2 \in Nat
    BY <1>1, <1>18
  <2> QED
    BY <1>18, <2>1 DEF Weighing
<1> HIDE DEF t
<1>20. Known(s.words, b + 3)
  <2> DEFINE i == b + 2
             k == b + 3
  <2>1. b + 2 \notin Starts
    <3>1. b = Len(page) \/ Separator(b + 2)
      BY SentenceSeparators
    <3>2. b + 2 \in Starts => b + 2 \in DOMAIN page /\ ~Separator(b + 2)
      BY Zenon DEF Starts
    <3>3. b + 2 \in DOMAIN page => b # Len(page)
      <4>1. b \in Nat /\ Len(page) \in Nat
        BY <1>1
      <4>2. b + 2 \in 1..Len(page) => b # Len(page)
        BY <4>1
      <4> QED
        BY <1>1, <4>2, Zenon
    <3> QED
      BY <3>1, <3>2, <3>3, Zenon
  <2>2. \A p \in i..(k - 1) : p = b + 2
    BY <1>1
  <2>3. \A p \in i..(k - 1) : p \notin Starts
    BY <2>1, <2>2, Zenon
  <2>4. i \in Int /\ k \in Int /\ i <= k
    BY <1>1
  <2>5. Known(s.words, i)
    BY <1>18, Zenon
  <2> HIDE DEF i, k
  <2>6. Known(s.words, k)
    BY ONLY <2>3, <2>4, <2>5, KnownSame, page \in Seq(Char)
  <2> QED
    BY <2>6 DEF k
<1>21. WeighSentence(acc, SubSeq(page, a, b)) = t
  BY <1>3 DEF s, t
<1> QED
  BY <1>19, <1>20, <1>21

\* The sentences of a page lie between the positions k.
SentencesAt(pieces, k) ==
  /\ k \in [1..(Len(pieces) + 1) -> Nat]
  /\ k[1] = 1 /\ k[Len(pieces) + 1] = Len(page) + 3
  /\ \A j \in 1..Len(pieces) :
       /\ Sentence(k[j], k[j + 1] - 3)
       /\ pieces[j] = SubSeq(page, k[j], k[j + 1] - 3)

\* The pieces of a page are its sentences.
LEMMA PageSentences ==
  ASSUME page \in Seq(Char)
  PROVE  LET pieces == Split(page, <<"stop", "blank">>)
         IN /\ pieces \in Seq(Seq(Char)) /\ Len(pieces) >= 1
            /\ \E k : SentencesAt(pieces, k)
<1> DEFINE separator == <<"stop", "blank">>
           pieces == Split(page, separator)
           m == Len(pieces)
           n == Len(page)
<1>1. n \in Nat
  BY LenProperties
<1>2. /\ "blank" \in Char /\ "stop" \in Char /\ separator \in Seq(Char) /\ Len(separator) = 2
  BY DEF Char
<1> HIDE DEF separator, Char
<1>3. /\ pieces \in Seq(Seq(Char)) /\ m >= 1
      /\ \E at : Between(page, separator, pieces, at) /\ at[m + 1] = n + Len(separator) + 1
  <2>1. Len(separator) >= 1
    BY <1>2
  <2> QED
    BY <1>2, <2>1, SplitPieces
<1>4. m \in Nat
  BY <1>3, LenProperties
<1> HIDE DEF pieces
<1>5. PICK at : Between(page, separator, pieces, at) /\ at[m + 1] = n + Len(separator) + 1
  BY <1>3
<1>6. /\ at \in [1..(m + 1) -> Nat \ {0}] /\ at[1] = 1
      /\ \A j \in 1..m :
           /\ at[j] + 2 <= at[j + 1]
           /\ pieces[j] = SubSeq(page, at[j], at[j + 1] - 2 - 1)
           /\ \A p \in at[j]..(at[j + 1] - 2 - 1) : ~ Occurs(page, separator, p)
           /\ j < m => Occurs(page, separator, at[j + 1] - 2)
  BY <1>2, <1>5 DEF Between
<1>7. /\ \A j \in 1..(m + 1) : at[j] >= 1
      /\ \A j \in 1..m : at[j] + 2 <= at[j + 1]
  <2>1. \A j \in 1..m : at[j] + 2 <= at[j + 1]
    BY <1>6, Zenon
  <2>2. at \in [1..(m + 1) -> Nat \ {0}]
    BY <1>6
  <2>3. \A j \in 1..(m + 1) : at[j] >= 1
    BY <2>2
  <2> QED
    BY <2>1, <2>3, Zenon
<1>8. at[m + 1] = n + 3
  <2>1. n + 2 + 1 = n + 3
    BY <1>1
  <2> QED
    BY <1>2, <1>5, <2>1
<1>9. \A p \in Nat \ {0} :
        Occurs(page, separator, p) <=> p < n /\ page[p] = "stop" /\ page[p + 1] = "blank"
  BY <1>2, OccursTwo DEF separator
<1> HIDE DEF m, n
<1>10. ASSUME NEW j \in 1..m
      PROVE  /\ Sentence(at[j], at[j + 1] - 3)
             /\ pieces[j] = SubSeq(page, at[j], at[j + 1] - 3)
  <2>1. j \in 1..(m + 1) /\ j + 1 \in 1..(m + 1) /\ j \in Nat
    BY <1>4
  <2>2. PICK a \in Nat : a = at[j]
    BY <1>6, <2>1
  <2>3. PICK y \in Nat : y = at[j + 1]
    BY <1>6, <2>1
  <2>4. a >= 1 /\ y >= 1 /\ a + 2 <= y
    BY <1>7, <2>1, <2>2, <2>3
  <2>5. PICK b \in Nat : b = y - 3
    BY <2>4
  <2>6. /\ pieces[j] = SubSeq(page, a, y - 2 - 1)
        /\ \A p \in a..(y - 2 - 1) : ~ Occurs(page, separator, p)
        /\ j < m => Occurs(page, separator, y - 2)
    BY <1>6, <2>2, <2>3
  <2>7. j < m => b + 2 <= n /\ page[b + 1] = "stop" /\ page[b + 2] = "blank"
    <3>1. PICK p \in Nat \ {0} : p = b + 1
      OBVIOUS
    <3>2. p = y - 2 /\ p + 1 = b + 2 /\ (p < n => b + 2 <= n)
      BY <1>1, <2>5, <3>1
    <3>3. j < m => p < n /\ page[p] = "stop" /\ page[p + 1] = "blank"
      BY <1>9, <2>6, <3>2
    <3> QED
      BY <3>1, <3>2, <3>3
  <2>8. j = m => b = n
    <3>1. j = m => y = n + 3
      BY <1>8, <2>3
    <3> QED
      BY <1>1, <2>5, <3>1
  <2>9. a = 1 \/ (a > 2 /\ page[a - 2] = "stop" /\ page[a - 1] = "blank")
    <3>1. CASE j = 1
      BY <1>6, <2>2, <3>1
    <3>2. CASE j # 1
      <4>1. j - 1 \in 1..m /\ j - 1 \in 1..(m + 1) /\ j - 1 < m /\ (j - 1) + 1 = j
        BY <1>4, <3>2
      <4>2. PICK x \in Nat : x = at[j - 1]
        BY <1>6, <4>1
      <4>3. x >= 1 /\ x + 2 <= a
        BY <1>7, <2>2, <4>1, <4>2
      <4>7. Occurs(page, separator, a - 2)
        BY <1>6, <2>2, <4>1
      <4>4. PICK p \in Nat \ {0} : p = a - 2
        BY <4>3
      <4>5. page[p] = "stop" /\ page[p + 1] = "blank"
        BY <1>9, <4>7, <4>4
      <4>6. p + 1 = a - 1 /\ a > 2
        BY <4>3, <4>4
      <4> QED
        BY <4>4, <4>5, <4>6
    <3> QED
      BY <3>1, <3>2
  <2>10. j < m \/ j = m
    BY <1>4
  <2>11. a \in Nat \ {0} /\ a <= b + 1 /\ b <= n
    BY <1>1, <2>4, <2>5, <2>7, <2>8, <2>10
  <2>12. \A p \in a..b : ~(p < n /\ page[p] = "stop" /\ page[p + 1] = "blank")
    <3>1. \A p \in a..b : p \in a..(y - 2 - 1) /\ p \in Nat \ {0}
      BY <2>4, <2>5
    <3> QED
      BY <1>9, <2>6, <3>1
  <2>13. b = n \/ (b + 2 <= n /\ page[b + 1] = "stop" /\ page[b + 2] = "blank")
    BY <2>7, <2>8, <2>10
  <2>14. Sentence(a, b)
    BY <2>9, <2>11, <2>12, <2>13, Zenon DEF Sentence, n
  <2>15. pieces[j] = SubSeq(page, a, b) /\ b = y - 3
    <3>1. y - 2 - 1 = b
      BY <2>5
    <3> QED
      BY <2>5, <2>6, <3>1, Zenon
  <2> QED
    BY <2>2, <2>3, <2>14, <2>15, Zenon
<1>11. SentencesAt(pieces, at)
  <2>1. at \in [1..(m + 1) -> Nat]
    BY <1>6
  <2> QED
    BY <1>6, <1>8, <1>10, <2>1, Zenon DEF SentencesAt, m, n
<1> QED
  BY <1>3, <1>11, Zenon DEF pieces, separator, m

\* The words that are weighed are all the words of the page.
LEMMA WeightedIs ==
  ASSUME page \in Seq(Char)
  PROVE  Known(Weighted(page), Len(page) + 3)
<1> DEFINE sentences == Split(page, <<"stop", "blank">>)
           m == Len(sentences)
           T == Weighing
           base == [index |-> 0, value |-> 0, words |-> <<>>]
           Turn(k, s) == WeighSentence(s, sentences[k])
           Rule(f, k) == IF k = 0 THEN base ELSE Turn(k, f[k - 1])
           After(f) == [k \in 0..m |-> Rule(f, k)]
           g == CHOOSE f : f = After(f)
<1>1. Len(page) \in Nat
  BY LenProperties
<1>2. base \in T /\ base.index = 0 /\ base.words = <<>>
  BY DEF Weighing
<1>3. Weighted(page) = g[m].words
  BY Zenon DEF Weighted
<1>4. m >= 1 /\ \E at : SentencesAt(sentences, at)
  BY PageSentences, Zenon
<1>5. m \in Nat
  BY PageSentences, LenProperties, Zenon
<1> HIDE DEF sentences
<1>6. PICK at : SentencesAt(sentences, at)
  BY <1>4
<1>7. /\ at \in [1..(m + 1) -> Nat]
      /\ at[1] = 1 /\ at[m + 1] = Len(page) + 3
      /\ \A j \in 1..m :
           /\ Sentence(at[j], at[j + 1] - 3)
           /\ sentences[j] = SubSeq(page, at[j], at[j + 1] - 3)
  BY <1>6, Zenon DEF SentencesAt
<1> HIDE DEF m, base
<1> DEFINE Good(a, s) == s.index = a - 1 /\ Known(s.words, a)
           A == [j \in 0..m |-> {s \in Weighing : Good(at[j + 1], s)}]
<1>8. base \in A[0]
  <2>1. Known(<<>>, 1)
    <3>1. 1..0 = {} /\ Len(<<>>) = 0 /\ <<>> \in Seq(Word)
      OBVIOUS
    <3>2. \A i \in Starts : ~(i < 1)
      BY <1>1 DEF Starts
    <3> HIDE DEF Starts
    <3> QED
      BY <3>1, <3>2 DEF Known
  <2>2. Good(1, base)
    BY <1>2, <2>1
  <2>3. 0 + 1 = 1 /\ 0 \in 0..m
    BY <1>5
  <2>4. A[0] = {s \in Weighing : Good(1, s)}
    BY <1>7, <2>3
  <2> HIDE DEF A, Good
  <2> QED
    BY <1>2, <2>2, <2>4
<1>9. ASSUME NEW j \in 1..m, NEW s \in A[j - 1] PROVE Turn(j, s) \in A[j]
  <2> DEFINE t == Turn(j, s)
  <2>1. j - 1 \in 0..m /\ j \in 0..m /\ (j - 1) + 1 = j /\ j \in 1..(m + 1) /\ j + 1 \in 1..(m + 1)
    BY <1>5
  <2>2. s \in Weighing /\ Good(at[j], s)
    <3> HIDE DEF Good
    <3> QED
      BY <1>9, <2>1
  <2>3. PICK a \in Nat : a = at[j]
    BY <1>7, <2>1
  <2>4. PICK y \in Nat : y = at[j + 1]
    BY <1>7, <2>1
  <2>5. Sentence(a, y - 3) /\ sentences[j] = SubSeq(page, a, y - 3)
    BY <1>7, <2>3, <2>4, Zenon
  <2>6. Good(a, s)
    BY <2>2, <2>3, Zenon
  <2>7. PICK b \in Nat : b = y - 3
    BY <2>5 DEF Sentence
  <2>8. Sentence(a, b) /\ sentences[j] = SubSeq(page, a, b)
    BY <2>5, <2>7, Zenon
  <2>9. s.index = a - 1 /\ Known(s.words, a)
    BY <2>6, Zenon
  <2> DEFINE u == WeighSentence(s, SubSeq(page, a, b))
  <2>10. u \in Weighing /\ u.index = b + 2 /\ Known(u.words, b + 3)
    BY <2>2, <2>8, <2>9, SentenceIsRead
  <2>11. t = u
    BY <2>8, Zenon
  <2> HIDE DEF t, u
  <2>12. b + 2 = y - 1 /\ b + 3 = y
    BY <2>7
  <2>13. Good(y, t)
    BY <2>10, <2>11, <2>12, Zenon
  <2>14. Good(at[j + 1], t)
    BY <2>4, <2>13, Zenon
  <2> HIDE DEF Good
  <2>15. t \in A[j]
    BY <2>1, <2>10, <2>11, <2>14
  <2> QED
    BY <2>15 DEF t
<1>10. \A k \in 0..m : A[k] \subseteq T
  OBVIOUS
<1> HIDE DEF Turn, Good
<1> DEFINE step == [k \in 1..m |-> [s \in T |-> IF s \in A[k - 1] THEN Turn(k, s) ELSE base]]
<1> HIDE DEF A
<1>11. step \in Steps(m, T)
  <2>1. \A k \in 1..m, s \in T : (IF s \in A[k - 1] THEN Turn(k, s) ELSE base) \in T
    <3> SUFFICES ASSUME NEW k \in 1..m, NEW s \in T
                 PROVE  (IF s \in A[k - 1] THEN Turn(k, s) ELSE base) \in T
      OBVIOUS
    <3>1. k \in 0..m
      BY <1>5
    <3>2. s \in A[k - 1] => Turn(k, s) \in T
      BY <1>9, <1>10, <3>1
    <3> HIDE DEF T
    <3> QED
      BY <1>2, <3>2
  <2> HIDE DEF T
  <2> QED
    BY <2>1 DEF Steps
<1>12. PICK f : Iteration(f, m, T, base, step)
  <2> HIDE DEF step, T
  <2> QED
    BY <1>5, <1>2, <1>11, Iterates
<1>13. \A k \in 1..m : k - 1 \in 0..m /\ k \in 0..m
  BY <1>5
<1>14. \A k \in 1..m : f[k - 1] \in A[k - 1] => f[k] = Turn(k, f[k - 1])
  <2>1. ASSUME NEW k \in 1..m, f[k - 1] \in A[k - 1] PROVE f[k] = Turn(k, f[k - 1])
    <3>1. f[k - 1] \in T /\ f[k] = step[k][f[k - 1]]
      BY <1>12, <1>13, Zenon DEF Iteration
    <3> HIDE DEF T
    <3> QED
      BY <2>1, <3>1
  <2> QED
    BY <2>1
<1>15. \A k \in 0..m : f[k] \in A[k]
  <2>1. f[0] \in A[0]
    BY <1>8, <1>12, Zenon DEF Iteration
  <2>2. ASSUME NEW k \in 1..m, f[k - 1] \in A[k - 1] PROVE f[k] \in A[k]
    BY <1>9, <1>14, <2>2
  <2> QED
    BY <1>5, <2>1, <2>2, Reaches
<1>16. f = After(f)
  <2>1. f = [k \in 0..m |-> f[k]] /\ f[0] = base
    BY <1>12 DEF Iteration
  <2>2. \A k \in 0..m : k = 0 \/ k \in 1..m
    BY <1>5
  <2>3. \A k \in 1..m : f[k] = Turn(k, f[k - 1])
    BY <1>13, <1>14, <1>15
  <2>4. \A k \in 0..m : f[k] = Rule(f, k)
    BY <2>1, <2>2, <2>3
  <2> HIDE DEF Rule
  <2> QED
    BY <2>1, <2>4
<1>17. g = After(g)
  <2> HIDE DEF After
  <2> QED
    BY <1>16
<1> HIDE DEF g
<1>18. g[0] = base /\ \A k \in 1..m : g[k] = Turn(k, g[k - 1])
  BY <1>5, <1>17
<1>19. \A k \in 0..m : g[k] \in A[k]
  <2>1. g[0] \in A[0]
    BY <1>8, <1>18
  <2>2. ASSUME NEW k \in 1..m, g[k - 1] \in A[k - 1] PROVE g[k] \in A[k]
    BY <1>9, <1>18, <2>2
  <2> QED
    BY <1>5, <2>1, <2>2, Reaches
<1>20. Good(at[m + 1], g[m])
  <2>1. m \in 0..m
    BY <1>5
  <2> QED
    BY <1>19, <2>1 DEF A
<1> QED
  BY <1>3, <1>7, <1>20, Zenon DEF Good

-----------------------------------------------------------------------------
(***************************************************************************)
(* The windows of the words of a page, which begin at the positions `pos`. *)
(***************************************************************************)
Enumerates(pos, m) ==
  /\ m \in Nat /\ pos \in [1..m -> Starts]
  /\ \A i, j \in 1..m : i < j => pos[i] < pos[j]
  /\ \A p \in Starts : \E j \in 1..m : pos[j] = p

\* The positions of the words, in their order.
LEMMA PositionsOrdered ==
  ASSUME page \in Seq(Char), NEW pos, NEW m, Enumerates(pos, m)
  PROVE  /\ m \in Nat /\ Len(page) \in Nat
         /\ \A j \in 1..m : pos[j] \in Starts /\ pos[j] \in Nat /\ pos[j] \in 1..Len(page)
         /\ \A i, j \in 1..m : (pos[i] < pos[j] <=> i < j) /\ (pos[i] <= pos[j] <=> i <= j)
<1>1. m \in Nat /\ Len(page) \in Nat
  BY LenProperties DEF Enumerates
<1>2. \A p \in Starts : p \in Nat /\ p \in 1..Len(page)
  <2>1. DOMAIN page = 1..Len(page)
    BY LenProperties
  <2> QED
    BY <1>1, <2>1 DEF Starts
<1>3. \A j \in 1..m : pos[j] \in Starts
  BY DEF Enumerates
<1>4. \A j \in 1..m : pos[j] \in Nat /\ pos[j] \in 1..Len(page)
  BY <1>2, <1>3, Zenon
<1>5. ASSUME NEW i \in 1..m, NEW j \in 1..m
      PROVE  (pos[i] < pos[j] <=> i < j) /\ (pos[i] <= pos[j] <=> i <= j)
  <2>1. PICK x \in Nat : x = pos[i]
    BY <1>4
  <2>2. PICK y \in Nat : y = pos[j]
    BY <1>4
  <2>3. (i < j => x < y) /\ (j < i => y < x)
    BY <2>1, <2>2, Zenon DEF Enumerates
  <2>4. i = j => x = y
    BY <2>1, <2>2
  <2>5. (x < y <=> i < j) /\ (x <= y <=> i <= j)
    BY <1>1, <2>3, <2>4
  <2> QED
    BY <2>1, <2>2, <2>5, Zenon
<1> QED
  BY <1>1, <1>3, <1>4, <1>5

\* As many words as positions.
LEMMA WordsCounted ==
  ASSUME page \in Seq(Char), NEW pos, NEW m, Enumerates(pos, m),
         NEW S \in SUBSET Starts, NEW a \in 1..(m + 1), NEW b \in 0..m, a <= b + 1,
         \A j \in 1..m : pos[j] \in S <=> a <= j /\ j <= b
  PROVE  IsFiniteSet(S) /\ Cardinality(S) = b - a + 1
<1> DEFINE f == [j \in a..b |-> pos[j]]
<1>1. m \in Nat /\ a \in Int /\ b \in Int
  BY PositionsOrdered
<1>2. \A j \in a..b : j \in 1..m
  BY <1>1
<1>3. f \in [a..b -> S]
  BY <1>1, <1>2
<1>4. \A i, j \in a..b : f[i] = f[j] => i = j
  <2> SUFFICES ASSUME NEW i \in a..b, NEW j \in a..b, pos[i] = pos[j] PROVE i = j
    OBVIOUS
  <2>1. pos[i] \in Nat /\ i \in 1..m /\ j \in 1..m
    BY <1>2, PositionsOrdered
  <2>2. ~(pos[i] < pos[j]) /\ ~(pos[j] < pos[i])
    BY <2>1
  <2>3. ~(i < j) /\ ~(j < i)
    BY <2>1, <2>2, PositionsOrdered
  <2> QED
    BY <1>1, <2>1, <2>3
<1>5. \A p \in S : \E j \in a..b : f[j] = p
  <2> SUFFICES ASSUME NEW p \in S PROVE \E j \in a..b : pos[j] = p
    OBVIOUS
  <2>1. PICK j \in 1..m : pos[j] = p
    BY DEF Enumerates
  <2>2. j \in a..b
    BY <1>1, <2>1
  <2> QED
    BY <2>1, <2>2
<1>6. ExistsBijection(a..b, S)
  <2> HIDE DEF f
  <2>1. DOMAIN f = a..b
    BY <1>3
  <2>2. f \in Injection(a..b, S)
    BY <1>3, <1>4, <2>1, Zenon DEF Injection, IsInjective
  <2>3. f \in Surjection(a..b, S)
    BY <1>3, <1>5, Zenon DEF Surjection
  <2> QED
    BY <2>2, <2>3, Zenon DEF ExistsBijection, Bijection
<1>7. IsFiniteSet(a..b) /\ Cardinality(a..b) = IF a > b THEN 0 ELSE b - a + 1
  BY <1>1, FS_Interval
<1>8. IsFiniteSet(S) /\ Cardinality(S) = Cardinality(a..b)
  BY <1>6, <1>7, FS_Bijection
<1> QED
  BY <1>1, <1>7, <1>8

\* Where the words that were weighed begin.
Positions(words) == [j \in 1..Len(words) |-> words[j].index + 1]

\* The words that are weighed enumerate those of the page.
LEMMA WordsEnumerated ==
  ASSUME page \in Seq(Char), NEW words, words = Weighted(page)
  PROVE  /\ words \in Seq(Word) /\ Enumerates(Positions(words), Len(words))
         /\ \A j \in 1..Len(words) : words[j] = WordAt(Positions(words)[j])
<1> DEFINE k == Len(page) + 3
           m == Len(words)
           pos == Positions(words)
<1>1. Known(words, k)
  BY WeightedIs
<1>2. words \in Seq(Word) /\ m \in Nat /\ \A j \in 1..m : words[j] \in Word
  <2>1. words \in Seq(Word)
    BY <1>1 DEF Known
  <2> QED
    BY <2>1, LenProperties, ElementOfSeq
<1> HIDE DEF k, m
<1>3. \A j \in 1..m : pos[j] = words[j].index + 1
  BY DEF Positions, m
<1>4. \A j \in 1..m : words[j].index \in Nat
  BY <1>2 DEF Word
<1>5. pos = [j \in 1..m |-> pos[j]]
  BY DEF Positions, m
<1> HIDE DEF pos
<1>6. \A j \in 1..m : pos[j] \in Starts /\ words[j] = WordAt(pos[j])
  BY <1>1, <1>3, Zenon DEF Known, m
<1>7. \A i, j \in 1..m : i < j => words[i].index < words[j].index
  BY <1>1, Zenon DEF Known, m
<1>8. \A i, j \in 1..m : i < j => pos[i] < pos[j]
  BY <1>3, <1>4, <1>7
<1>9. \A p \in Starts : p < k
  <2>1. Len(page) \in Nat /\ DOMAIN page = 1..Len(page)
    BY LenProperties
  <2>2. \A p \in Starts : p \in 1..Len(page)
    BY <2>1 DEF Starts
  <2>3. ASSUME NEW p \in Starts PROVE p < Len(page) + 3
    <3>1. Len(page) \in Nat /\ p \in 1..Len(page)
      BY <2>1, <2>2, Zenon
    <3> QED
      BY ONLY <3>1
  <2> QED
    BY <2>3 DEF k
<1>10. \A p \in Starts : \E j \in 1..m : pos[j] = p
  <2>1. \A i \in Starts : i < k => \E j \in 1..m : words[j].index + 1 = i
    BY <1>1, Zenon DEF Known, m
  <2> HIDE DEF Starts
  <2>2. ASSUME NEW p \in Starts PROVE \E j \in 1..m : pos[j] = p
    <3>1. PICK j \in 1..m : words[j].index + 1 = p
      BY <1>9, <2>1, Zenon
    <3>2. pos[j] = p
      BY <1>3, <3>1, Zenon
    <3> QED
      BY <3>2
  <2> QED
    BY <2>2
<1>11. pos \in [1..m -> Starts]
  <2> HIDE DEF Starts
  <2> QED
    BY <1>5, <1>6
<1>12. Enumerates(pos, m)
  BY <1>2, <1>8, <1>10, <1>11, Zenon DEF Enumerates
<1> QED
  BY <1>2, <1>6, <1>12, Zenon DEF m, pos

\* A window is the next words, as many as an excerpt may have.
LEMMA WindowIs ==
  ASSUME page \in Seq(Char), NEW pos, NEW m, Enumerates(pos, m),
         NEW a \in 1..m, NEW j \in 1..m
  PROVE  pos[j] \in Window(pos[a]) <=> a <= j /\ j < a + TEASER_MAX_WORDS
<1> DEFINE S == {k \in Starts : pos[a] <= k /\ k < pos[j]}
<1>1. m \in Nat /\ TEASER_MAX_WORDS \in Nat
  BY PositionsOrdered, TeaserAssumption
<1>2. \A i \in 1..m : pos[i] \in S <=> a <= i /\ i < j
  BY PositionsOrdered, Zenon
<1>3. a <= j => Cardinality(S) = j - a
  <2> SUFFICES ASSUME a <= j PROVE Cardinality(S) = j - a
    OBVIOUS
  <2> DEFINE b == j - 1
  <2>1. b \in 0..m /\ a <= b + 1 /\ b - a + 1 = j - a /\ a \in 1..(m + 1)
    BY <1>1
  <2>2. \A i \in 1..m : pos[i] \in S <=> a <= i /\ i <= b
    <3> HIDE DEF S
    <3> QED
      BY <1>1, <1>2
  <2>3. S \in SUBSET Starts
    OBVIOUS
  <2> HIDE DEF S, b
  <2>4. Cardinality(S) = b - a + 1
    BY <2>1, <2>2, <2>3, WordsCounted
  <2> QED
    BY <2>1, <2>4
<1>4. pos[a] <= pos[j] <=> a <= j
  BY PositionsOrdered
<1>5. pos[j] \in Starts
  BY PositionsOrdered
<1>6. pos[j] \in Window(pos[a]) <=> a <= j /\ Cardinality(S) < TEASER_MAX_WORDS
  BY <1>4, <1>5, Zenon DEF Window
<1> HIDE DEF S
<1> QED
  BY <1>1, <1>3, <1>6

\* How many words an excerpt has.
Size(m) == Min({m, TEASER_MAX_WORDS})

\* The size of the window: all words, or as many as an excerpt may have.
LEMMA SizeIs ==
  ASSUME NEW m \in Nat
  PROVE  /\ Size(m) \in 0..m
         /\ Size(m) <= TEASER_MAX_WORDS
         /\ Size(m) = m \/ Size(m) = TEASER_MAX_WORDS
         /\ m >= 1 => Size(m) >= 1
<1>1. TEASER_MAX_WORDS \in Nat /\ TEASER_MAX_WORDS >= 1
  BY TeaserAssumption
<1>2. CASE m <= TEASER_MAX_WORDS
  <2>1. Size(m) = m
    BY <1>1, <1>2, MinIs DEF Size
  <2> QED
    BY <1>1, <1>2, <2>1
<1>3. CASE ~(m <= TEASER_MAX_WORDS)
  <2>1. Size(m) = TEASER_MAX_WORDS
    BY <1>1, <1>3, MinIs DEF Size
  <2> QED
    BY <1>1, <1>3, <2>1
<1> QED
  BY <1>2, <1>3

\* The windows begin with the words that have enough words after them.
LEMMA WindowsAre ==
  ASSUME page \in Seq(Char), NEW pos, NEW m, Enumerates(pos, m), NEW a \in 1..m
  PROVE  /\ pos[a] \in Windows <=> a + Size(m) <= m + 1
         /\ pos[a] \in Windows =>
              \A j \in 1..m : pos[j] \in Window(pos[a]) <=> a <= j /\ j < a + Size(m)
<1> DEFINE n == Size(m)
           W == Window(pos[a])
           T == TEASER_MAX_WORDS
<1>1. m \in Nat /\ T \in Nat /\ T >= 1
  BY PositionsOrdered, TeaserAssumption
<1>2. n \in 0..m /\ n <= T /\ (n = m \/ n = T) /\ n >= 1
  BY <1>1, SizeIs
<1>3. \A j \in 1..m : pos[j] \in W <=> a <= j /\ j < a + T
  BY WindowIs
<1>4. W \in SUBSET Starts
  BY DEF Window
<1>5. Cardinality(Starts) = m
  <2> DEFINE S == Starts
  <2>1. \A j \in 1..m : pos[j] \in S <=> 1 <= j /\ j <= m
    BY <1>1, PositionsOrdered
  <2>2. S \in SUBSET Starts
    OBVIOUS
  <2>3. 1 \in 1..(m + 1) /\ m \in 0..m /\ 1 <= m + 1 /\ m - 1 + 1 = m
    BY <1>1
  <2> HIDE DEF S
  <2>4. Cardinality(S) = m - 1 + 1
    BY <2>1, <2>2, <2>3, WordsCounted
  <2> QED
    BY <2>3, <2>4 DEF S
<1>6. pos[a] \in Windows <=> Cardinality(W) = n
  <2>1. pos[a] \in Starts
    BY PositionsOrdered
  <2> QED
    BY <1>5, <2>1, Zenon DEF Windows, Size
<1> HIDE DEF n, W, T
<1>7. CASE a + T <= m + 1
  <2> DEFINE b == a + T - 1
  <2>1. b \in 0..m /\ a <= b + 1 /\ b - a + 1 = T /\ a \in 1..(m + 1) /\ n = T /\ a + n <= m + 1
    BY <1>1, <1>2, <1>7
  <2>2. \A j \in 1..m : pos[j] \in W <=> a <= j /\ j <= b
    BY <1>1, <1>3
  <2> HIDE DEF b
  <2>3. Cardinality(W) = b - a + 1
    BY <1>4, <2>1, <2>2, WordsCounted
  <2> QED
    BY <1>3, <1>6, <2>1, <2>3 DEF n, W, T
<1>8. CASE ~(a + T <= m + 1)
  <2>1. m \in 0..m /\ a <= m + 1 /\ a \in 1..(m + 1)
    BY <1>1
  <2>2. \A j \in 1..m : pos[j] \in W <=> a <= j /\ j <= m
    BY <1>1, <1>3, <1>8
  <2>3. Cardinality(W) = m - a + 1
    BY <1>4, <2>1, <2>2, WordsCounted
  <2>4. m - a + 1 = n <=> a + n <= m + 1
    BY <1>1, <1>2, <1>8
  <2>5. a + n <= m + 1 => \A j \in 1..m : j <= m <=> j < a + n
    BY <1>1, <1>2, <1>8
  <2> QED
    BY <1>6, <2>2, <2>3, <2>4, <2>5 DEF n, W
<1> QED
  BY <1>7, <1>8

\* A word more in a window adds its weight to the sum.
LEMMA SumAdds ==
  ASSUME NEW W, IsFiniteSet(W), NEW p, p \notin W
  PROVE  Sum(W \cup {p}) = Sum(W) + Worth(p) /\ Sum(W) \in Nat
<1> DEFINE V == W \cup {p}
           N(S, x) == {i \in S : Worth(i) = x}
<1>1. \A x : IsFiniteSet(N(W, x)) /\ Cardinality(N(W, x)) \in Nat
  <2> SUFFICES ASSUME NEW x PROVE IsFiniteSet(N(W, x)) /\ Cardinality(N(W, x)) \in Nat
    OBVIOUS
  <2>1. N(W, x) \subseteq W
    OBVIOUS
  <2> HIDE DEF N
  <2> QED
    BY <2>1, FS_Subset, FS_CardinalityType
<1>2. ASSUME NEW x
      PROVE  Cardinality(N(V, x)) = Cardinality(N(W, x)) + IF Worth(p) = x THEN 1 ELSE 0
  <2>1. CASE Worth(p) = x
    <3>1. N(V, x) = N(W, x) \cup {p} /\ p \notin N(W, x)
      BY <2>1
    <3> HIDE DEF N
    <3>2. Cardinality(N(V, x)) = Cardinality(N(W, x)) + 1
      BY <1>1, <3>1, FS_AddElement
    <3> QED
      BY <2>1, <3>2
  <2>2. CASE Worth(p) # x
    <3>1. N(V, x) = N(W, x)
      BY <2>2
    <3> HIDE DEF N
    <3> QED
      BY <1>1, <2>2, <3>1
  <2> QED
    BY <2>1, <2>2
<1>3. \A S : Sum(S) = 40 * Cardinality(N(S, 40)) + 8 * Cardinality(N(S, 8)) + 2 * Cardinality(N(S, 2))
  BY Zenon DEF Sum, TERM_WEIGHT, FIRST_WORD_WEIGHT, NORMAL_WORD_WEIGHT
<1>4. Worth(p) \in {2, 8, 40}
  BY DEF Worth, TERM_WEIGHT, FIRST_WORD_WEIGHT, NORMAL_WORD_WEIGHT
<1> HIDE DEF N, V
<1>5. /\ Cardinality(N(W, 40)) \in Nat
      /\ Cardinality(N(W, 8)) \in Nat /\ Cardinality(N(W, 2)) \in Nat
      /\ Cardinality(N(V, 40)) = Cardinality(N(W, 40)) + IF Worth(p) = 40 THEN 1 ELSE 0
      /\ Cardinality(N(V, 8)) = Cardinality(N(W, 8)) + IF Worth(p) = 8 THEN 1 ELSE 0
      /\ Cardinality(N(V, 2)) = Cardinality(N(W, 2)) + IF Worth(p) = 2 THEN 1 ELSE 0
  BY <1>1, <1>2
<1>6. Sum(V) = Sum(W) + Worth(p) /\ Sum(W) \in Nat
  <2>1. PICK a \in Nat : a = Cardinality(N(W, 40))
    BY <1>5
  <2>2. PICK b \in Nat : b = Cardinality(N(W, 8))
    BY <1>5
  <2>3. PICK c \in Nat : c = Cardinality(N(W, 2))
    BY <1>5
  <2>4. Sum(W) = 40 * a + 8 * b + 2 * c
    BY <1>3, <2>1, <2>2, <2>3, Zenon
  <2>5. Sum(V) = 40 * (a + IF Worth(p) = 40 THEN 1 ELSE 0) + 8 * (b + IF Worth(p) = 8 THEN 1 ELSE 0)
                   + 2 * (c + IF Worth(p) = 2 THEN 1 ELSE 0)
    BY <1>3, <1>5, <2>1, <2>2, <2>3, Zenon
  <2> QED
    BY <1>4, <2>4, <2>5
<1> QED
  BY <1>6 DEF V

\* The sum of the weights of finitely many words.
LEMMA SumIsNatural ==
  ASSUME NEW W, IsFiniteSet(W)
  PROVE  Sum(W) \in Nat
<1>1. ASSUME NEW x PROVE Cardinality({i \in W : Worth(i) = x}) \in Nat
  <2> DEFINE N == {i \in W : Worth(i) = x}
  <2>1. N \subseteq W
    OBVIOUS
  <2> HIDE DEF N
  <2>2. Cardinality(N) \in Nat
    BY <2>1, FS_Subset, FS_CardinalityType
  <2> QED
    BY <2>2 DEF N
<1>2. PICK a \in Nat : a = Cardinality({i \in W : Worth(i) = 40})
  BY <1>1
<1>3. PICK b \in Nat : b = Cardinality({i \in W : Worth(i) = 8})
  BY <1>1
<1>4. PICK c \in Nat : c = Cardinality({i \in W : Worth(i) = 2})
  BY <1>1
<1>5. Sum(W) = 40 * a + 8 * b + 2 * c
  BY <1>2, <1>3, <1>4, Zenon DEF Sum, TERM_WEIGHT, FIRST_WORD_WEIGHT, NORMAL_WORD_WEIGHT
<1>6. 40 * a + 8 * b + 2 * c \in Nat
  OBVIOUS
<1> QED
  BY <1>5, <1>6, Zenon

\* No words weigh nothing.
LEMMA SumOfNone == Sum({}) = 0
<1>1. \A x : Cardinality({i \in {} : Worth(i) = x}) = 0
  <2> SUFFICES ASSUME NEW x PROVE Cardinality({i \in {} : Worth(i) = x}) = 0
    OBVIOUS
  <2>1. {i \in {} : Worth(i) = x} = {}
    OBVIOUS
  <2> QED
    BY <2>1, FS_EmptySet
<1>2. Sum({}) = 40 * Cardinality({i \in {} : Worth(i) = 40})
                + 8 * Cardinality({i \in {} : Worth(i) = 8}) + 2 * Cardinality({i \in {} : Worth(i) = 2})
  BY Zenon DEF Sum, TERM_WEIGHT, FIRST_WORD_WEIGHT, NORMAL_WORD_WEIGHT
<1> QED
  BY <1>1, <1>2

\* The words from the a-th to the b-th.
Chosen(pos, a, b) == {p \in Starts : \E j \in a..b : pos[j] = p}

\* The words from the a-th to the b-th are those with these numbers.
LEMMA ChosenAre ==
  ASSUME page \in Seq(Char), NEW pos, NEW m, Enumerates(pos, m),
         NEW a \in 1..(m + 1), NEW b \in 0..m, a <= b + 1
  PROVE  /\ \A j \in 1..m : pos[j] \in Chosen(pos, a, b) <=> a <= j /\ j <= b
         /\ IsFiniteSet(Chosen(pos, a, b))
<1> DEFINE S == Chosen(pos, a, b)
<1>1. m \in Nat
  BY PositionsOrdered
<1>2. ASSUME NEW j \in 1..m PROVE pos[j] \in S <=> a <= j /\ j <= b
  <2>1. ASSUME a <= j, j <= b PROVE pos[j] \in S
    <3>1. j \in a..b
      BY <1>1, <2>1
    <3>2. pos[j] \in Starts
      BY PositionsOrdered
    <3> QED
      BY <3>1, <3>2, Zenon DEF Chosen
  <2>2. ASSUME pos[j] \in S PROVE a <= j /\ j <= b
    <3>1. PICK i \in a..b : pos[i] = pos[j]
      BY <2>2, Zenon DEF Chosen
    <3>2. i \in 1..m
      BY <1>1
    <3>3. pos[i] \in Nat
      BY <3>2, PositionsOrdered
    <3>4. pos[i] <= pos[j] /\ pos[j] <= pos[i]
      BY <3>1, <3>3
    <3>5. i <= j /\ j <= i
      BY <3>2, <3>4, PositionsOrdered
    <3> QED
      BY <1>1, <3>2, <3>5
  <2> QED
    BY <2>1, <2>2
<1>3. S \in SUBSET Starts
  BY DEF Chosen
<1> HIDE DEF S
<1>4. IsFiniteSet(S)
  BY <1>2, <1>3, WordsCounted
<1> QED
  BY <1>2, <1>4 DEF S

\* Sets of words are equal if they have the same ones by number.
SameNumbers(pos, m, S, V) == \A j \in 1..m : pos[j] \in S <=> pos[j] \in V

\* Words with the same numbers are the same words.
LEMMA SameWords ==
  ASSUME NEW pos, NEW m, Enumerates(pos, m), NEW S \in SUBSET Starts, NEW V \in SUBSET Starts,
         SameNumbers(pos, m, S, V)
  PROVE  S = V
<1>1. \A p \in Starts : \E j \in 1..m : pos[j] = p
  BY DEF Enumerates
<1> HIDE DEF Starts
<1>2. ASSUME NEW p \in Starts PROVE p \in S <=> p \in V
  <2>1. PICK j \in 1..m : pos[j] = p
    BY <1>1
  <2>2. pos[j] \in S <=> pos[j] \in V
    BY Zenon DEF SameNumbers
  <2> QED
    BY <2>1, <2>2, Zenon
<1> QED
  BY <1>2

\* The sums of two windows that differ by a word.
LEMMA ChosenSums ==
  ASSUME page \in Seq(Char), NEW pos, NEW m, Enumerates(pos, m),
         NEW a \in 1..m, NEW b \in a..m
  PROVE  /\ Sum(Chosen(pos, a, b)) \in Nat
         /\ Sum(Chosen(pos, a, b)) = Sum(Chosen(pos, a, b - 1)) + Worth(pos[b])
         /\ Sum(Chosen(pos, a, b)) = Sum(Chosen(pos, a + 1, b)) + Worth(pos[a])
         /\ Worth(pos[a]) \in {2, 8, 40} /\ Worth(pos[b]) \in {2, 8, 40}
<1>1. m \in Nat /\ a \in Int /\ b \in Int /\ b - 1 \in 0..m /\ a + 1 \in 1..(m + 1) /\ b \in 1..m
      /\ a <= (b - 1) + 1 /\ a + 1 <= b + 1 /\ a \in 1..(m + 1) /\ b \in 0..m /\ a <= b + 1
  BY PositionsOrdered
<1>2. /\ \A j \in 1..m : pos[j] \in Chosen(pos, a, b) <=> a <= j /\ j <= b
      /\ IsFiniteSet(Chosen(pos, a, b))
  BY <1>1, ChosenAre
<1>3. /\ \A j \in 1..m : pos[j] \in Chosen(pos, a, b - 1) <=> a <= j /\ j <= b - 1
      /\ IsFiniteSet(Chosen(pos, a, b - 1))
  <2>1. PICK c \in 0..m : c = b - 1
    BY <1>1
  <2>2. a <= c + 1
    BY <1>1, <2>1
  <2>3. /\ \A j \in 1..m : pos[j] \in Chosen(pos, a, c) <=> a <= j /\ j <= c
        /\ IsFiniteSet(Chosen(pos, a, c))
    BY <1>1, <2>2, ChosenAre
  <2> QED
    BY <2>1, <2>3, Zenon
<1>4. /\ \A j \in 1..m : pos[j] \in Chosen(pos, a + 1, b) <=> a + 1 <= j /\ j <= b
      /\ IsFiniteSet(Chosen(pos, a + 1, b))
  <2>1. PICK c \in 1..(m + 1) : c = a + 1
    BY <1>1
  <2>2. c <= b + 1
    BY <1>1, <2>1
  <2>3. /\ \A j \in 1..m : pos[j] \in Chosen(pos, c, b) <=> c <= j /\ j <= b
        /\ IsFiniteSet(Chosen(pos, c, b))
    BY <1>1, <2>2, ChosenAre
  <2> QED
    BY <2>1, <2>3, Zenon
<1>6. \A x, y : Chosen(pos, x, y) \in SUBSET Starts
  BY DEF Chosen
<1>7. \A j \in 1..m : (pos[j] = pos[a] <=> j = a) /\ (pos[j] = pos[b] <=> j = b)
  <2>1. ASSUME NEW i \in 1..m, NEW j \in 1..m, pos[i] = pos[j] PROVE i = j
    <3>1. pos[i] \in Nat /\ (pos[i] <= pos[j] <=> i <= j) /\ (pos[j] <= pos[i] <=> j <= i)
      BY PositionsOrdered
    <3>2. pos[i] <= pos[j] /\ pos[j] <= pos[i]
      BY <2>1, <3>1
    <3>3. i <= j /\ j <= i /\ i \in Int /\ j \in Int
      BY <3>1, <3>2
    <3> QED
      BY ONLY <3>3
  <2> QED
    BY <1>1, <2>1, Zenon
<1>8. pos[a] \in Starts /\ pos[b] \in Starts
  BY <1>1, PositionsOrdered
<1>9. Chosen(pos, a, b) = Chosen(pos, a, b - 1) \cup {pos[b]} /\ pos[b] \notin Chosen(pos, a, b - 1)
  <2>1. \A j \in 1..m : pos[j] \in Chosen(pos, a, b) <=> pos[j] \in Chosen(pos, a, b - 1) \cup {pos[b]}
    <3> SUFFICES ASSUME NEW j \in 1..m
                 PROVE  pos[j] \in Chosen(pos, a, b) <=> pos[j] \in Chosen(pos, a, b - 1) \cup {pos[b]}
      OBVIOUS
    <3>1. (a <= j /\ j <= b) <=> (a <= j /\ j <= b - 1) \/ j = b
      BY <1>1
    <3>2. pos[j] \in Chosen(pos, a, b - 1) \cup {pos[b]} <=>
            pos[j] \in Chosen(pos, a, b - 1) \/ pos[j] = pos[b]
      OBVIOUS
    <3>3. pos[j] \in Chosen(pos, a, b) <=> a <= j /\ j <= b
      BY <1>2, Zenon
    <3>4. pos[j] \in Chosen(pos, a, b - 1) <=> a <= j /\ j <= b - 1
      BY <1>3, Zenon
    <3>5. pos[j] = pos[b] <=> j = b
      BY <1>7, Zenon
    <3> QED
      BY <3>1, <3>2, <3>3, <3>4, <3>5, Zenon
  <2>2. Chosen(pos, a, b - 1) \cup {pos[b]} \in SUBSET Starts
    BY <1>6, <1>8
  <2>3. pos[b] \notin Chosen(pos, a, b - 1)
    BY <1>1, <1>3
  <2> DEFINE S == Chosen(pos, a, b)
             V == Chosen(pos, a, b - 1) \cup {pos[b]}
  <2>4. S \in SUBSET Starts
    BY <1>6
  <2>5. SameNumbers(pos, m, S, V) /\ V \in SUBSET Starts
    BY <2>1, <2>2, Zenon DEF SameNumbers
  <2> HIDE DEF S, V
  <2>6. S = V
    BY <2>4, <2>5, SameWords, Zenon
  <2> QED
    BY <2>3, <2>6, Zenon DEF S, V
<1>10. Chosen(pos, a, b) = Chosen(pos, a + 1, b) \cup {pos[a]} /\ pos[a] \notin Chosen(pos, a + 1, b)
  <2>1. \A j \in 1..m : pos[j] \in Chosen(pos, a, b) <=> pos[j] \in Chosen(pos, a + 1, b) \cup {pos[a]}
    <3> SUFFICES ASSUME NEW j \in 1..m
                 PROVE  pos[j] \in Chosen(pos, a, b) <=> pos[j] \in Chosen(pos, a + 1, b) \cup {pos[a]}
      OBVIOUS
    <3>1. (a <= j /\ j <= b) <=> (a + 1 <= j /\ j <= b) \/ j = a
      BY <1>1
    <3>2. pos[j] \in Chosen(pos, a + 1, b) \cup {pos[a]} <=>
            pos[j] \in Chosen(pos, a + 1, b) \/ pos[j] = pos[a]
      OBVIOUS
    <3>3. pos[j] \in Chosen(pos, a, b) <=> a <= j /\ j <= b
      BY <1>2, Zenon
    <3>4. pos[j] \in Chosen(pos, a + 1, b) <=> a + 1 <= j /\ j <= b
      BY <1>4, Zenon
    <3>5. pos[j] = pos[a] <=> j = a
      BY <1>7, Zenon
    <3> QED
      BY <3>1, <3>2, <3>3, <3>4, <3>5, Zenon
  <2>2. Chosen(pos, a + 1, b) \cup {pos[a]} \in SUBSET Starts
    BY <1>6, <1>8
  <2>3. pos[a] \notin Chosen(pos, a + 1, b)
    BY <1>1, <1>4
  <2> DEFINE S == Chosen(pos, a, b)
             V == Chosen(pos, a + 1, b) \cup {pos[a]}
  <2>4. S \in SUBSET Starts
    BY <1>6
  <2>5. SameNumbers(pos, m, S, V) /\ V \in SUBSET Starts
    BY <2>1, <2>2, Zenon DEF SameNumbers
  <2> HIDE DEF S, V
  <2>6. S = V
    BY <2>4, <2>5, SameWords, Zenon
  <2> QED
    BY <2>3, <2>6, Zenon DEF S, V
<1>11. \A i : Worth(i) \in {2, 8, 40}
  BY DEF Worth, TERM_WEIGHT, FIRST_WORD_WEIGHT, NORMAL_WORD_WEIGHT
<1>12. /\ Sum(Chosen(pos, a, b)) = Sum(Chosen(pos, a, b - 1)) + Worth(pos[b])
       /\ Sum(Chosen(pos, a, b - 1)) \in Nat
  BY <1>3, <1>9, SumAdds
<1>13. Sum(Chosen(pos, a, b)) = Sum(Chosen(pos, a + 1, b)) + Worth(pos[a])
  BY <1>4, <1>10, SumAdds
<1> QED
  BY <1>11, <1>12, <1>13

\* The sum that slides over the words is the sum of each window.
LEMMA WeightsAre ==
  ASSUME page \in Seq(Char), NEW words, NEW pos, Enumerates(pos, Len(words)),
         NEW size \in 1..Len(words),
         \A j \in 1..Len(words) : words[j].weight = Worth(pos[j])
  PROVE  WindowWeights(words, size) =
           [k \in 0..(Len(words) - size) |-> Sum(Chosen(pos, k + 1, k + size))]
<1> DEFINE m == Len(words)
           FirstRule(f, n) == IF n = 0 THEN 0 ELSE f[n - 1] + words[n].weight
           FirstAfter(f) == [n \in 0..size |-> FirstRule(f, n)]
           first == CHOOSE f : f = FirstAfter(f)
           Rule(f, k) == IF k = 0 THEN first[size]
                         ELSE f[k - 1] - words[k].weight + words[k + size].weight
           After(f) == [k \in 0..(m - size) |-> Rule(f, k)]
           curSum == CHOOSE f : f = After(f)
           begins == [n \in 0..size |-> Sum(Chosen(pos, 1, n))]
           slides == [k \in 0..(m - size) |-> Sum(Chosen(pos, k + 1, k + size))]
<1>1. m \in Nat /\ size \in Nat /\ size >= 1 /\ size <= m
  BY PositionsOrdered
<1>2. WindowWeights(words, size) = curSum
  BY Zenon DEF WindowWeights
<1>3. \A j \in 1..m : words[j].weight = Worth(pos[j])
  OBVIOUS
<1>4. Enumerates(pos, m)
  OBVIOUS
<1> HIDE DEF m
<1>5. begins[0] = 0
  <2>1. Chosen(pos, 1, 0) = {}
    BY DEF Chosen
  <2>2. begins[0] = Sum(Chosen(pos, 1, 0))
    BY <1>1
  <2> QED
    BY <2>1, <2>2, SumOfNone, Zenon
<1>6. \A n \in 1..size : begins[n] \in Nat /\ begins[n] = begins[n - 1] + words[n].weight
  <2> SUFFICES ASSUME NEW n \in 1..size
               PROVE  begins[n] \in Nat /\ begins[n] = begins[n - 1] + words[n].weight
    OBVIOUS
  <2>1. n \in 0..size /\ n - 1 \in 0..size /\ 1 \in 1..m /\ n \in 1..m
    BY <1>1
  <2>2. /\ Sum(Chosen(pos, 1, n)) \in Nat
        /\ Sum(Chosen(pos, 1, n)) = Sum(Chosen(pos, 1, n - 1)) + Worth(pos[n])
    BY <1>4, <2>1, ChosenSums
  <2>3. words[n].weight = Worth(pos[n])
    BY <1>3, <2>1
  <2>4. begins[n] = Sum(Chosen(pos, 1, n)) /\ begins[n - 1] = Sum(Chosen(pos, 1, n - 1))
    BY <2>1
  <2> HIDE DEF begins
  <2> QED
    BY <2>2, <2>3, <2>4, Zenon
<1>7. first = begins
  <2>1. \A n \in 0..size : n = 0 \/ n \in 1..size
    BY <1>1
  <2>2. begins = [n \in 0..size |-> begins[n]]
    OBVIOUS
  <2> HIDE DEF begins
  <2>3. \A n \in 0..size : begins[n] = FirstRule(begins, n)
    BY <1>5, <1>6, <2>1
  <2>4. begins = FirstAfter(begins)
    <3> HIDE DEF FirstRule
    <3> QED
      BY <2>2, <2>3
  <2>5. first = FirstAfter(first)
    <3> HIDE DEF FirstAfter
    <3> QED
      BY <2>4
  <2> HIDE DEF first
  <2>6. first = [n \in 0..size |-> first[n]] /\ first[0] = 0
    BY <1>1, <2>5
  <2>7. \A n \in 1..size : first[n] = first[n - 1] + words[n].weight
    BY <1>1, <2>5
  <2> DEFINE A == [n \in 0..size |-> {begins[n]}]
  <2>8. \A n \in 0..size : first[n] \in A[n]
    <3>1. first[0] \in A[0]
      BY <1>1, <1>5, <2>6
    <3>2. ASSUME NEW n \in 1..size, first[n - 1] \in A[n - 1] PROVE first[n] \in A[n]
      <4>1. n - 1 \in 0..size /\ n \in 0..size
        BY <1>1
      <4>2. first[n - 1] = begins[n - 1]
        BY <3>2, <4>1
      <4>3. first[n] = begins[n]
        BY <1>6, <2>7, <4>2, Zenon
      <4> QED
        BY <4>1, <4>3
    <3> HIDE DEF A
    <3> QED
      BY <1>1, <3>1, <3>2, Reaches
  <2>9. \A n \in 0..size : first[n] = begins[n]
    BY <2>8
  <2> QED
    BY <2>2, <2>6, <2>9
<1>8. first[size] = slides[0]
  <2>1. begins[size] = Sum(Chosen(pos, 1, size))
    BY <1>1
  <2>2. slides[0] = Sum(Chosen(pos, 0 + 1, 0 + size)) /\ 0 + 1 = 1 /\ 0 + size = size
    BY <1>1
  <2> HIDE DEF begins, slides
  <2> QED
    BY <1>7, <2>1, <2>2, Zenon
<1> HIDE DEF first
<1>9. \A k \in 1..(m - size) : slides[k] = slides[k - 1] - words[k].weight + words[k + size].weight
  <2> SUFFICES ASSUME NEW k \in 1..(m - size)
               PROVE  slides[k] = slides[k - 1] - words[k].weight + words[k + size].weight
    OBVIOUS
  <2>1. /\ k \in 0..(m - size) /\ k - 1 \in 0..(m - size) /\ k \in 1..m
        /\ (k - 1) + 1 = k /\ (k - 1) + size = k + size - 1 /\ k + size \in k..m /\ k + size \in 1..m
    BY <1>1
  <2>2. PICK b \in k..m : b = k + size
    BY <2>1
  <2>3. /\ Sum(Chosen(pos, k, b)) \in Nat
        /\ Sum(Chosen(pos, k, b)) = Sum(Chosen(pos, k, b - 1)) + Worth(pos[b])
        /\ Sum(Chosen(pos, k, b)) = Sum(Chosen(pos, k + 1, b)) + Worth(pos[k])
        /\ Worth(pos[k]) \in {2, 8, 40} /\ Worth(pos[b]) \in {2, 8, 40}
    BY <1>4, <2>1, ChosenSums
  <2>4. words[k].weight = Worth(pos[k]) /\ words[b].weight = Worth(pos[b])
    BY <1>3, <2>1, <2>2
  <2>5. slides[k] = Sum(Chosen(pos, k + 1, b)) /\ slides[k - 1] = Sum(Chosen(pos, k, b - 1))
    <3>1. /\ slides[k] = Sum(Chosen(pos, k + 1, k + size))
          /\ slides[k - 1] = Sum(Chosen(pos, (k - 1) + 1, (k - 1) + size))
      BY <2>1
    <3> HIDE DEF slides
    <3>2. (k - 1) + 1 = k /\ (k - 1) + size = b - 1
      BY <1>1, <2>1, <2>2
    <3>3. slides[k - 1] = Sum(Chosen(pos, k, b - 1))
      BY <3>1, <3>2, Zenon
    <3> QED
      BY <2>2, <3>1, <3>3, Zenon
  <2> HIDE DEF slides
  <2>6. Sum(Chosen(pos, k + 1, b)) \in Int /\ Sum(Chosen(pos, k, b - 1)) \in Int
    <3>1. IsFiniteSet(Chosen(pos, k + 1, b)) /\ IsFiniteSet(Chosen(pos, k, b - 1))
      <4>1. PICK x \in 1..(m + 1) : x = k + 1
        BY <1>1, <2>1
      <4>2. PICK y \in 0..m : y = b - 1
        BY <1>1, <2>1, <2>2
      <4>3. x <= b + 1 /\ k <= y + 1 /\ k \in 1..(m + 1) /\ b \in 0..m
        BY <1>1, <2>1, <2>2, <4>1, <4>2
      <4>4. IsFiniteSet(Chosen(pos, x, b))
        BY <1>4, <4>3, ChosenAre
      <4>5. IsFiniteSet(Chosen(pos, k, y))
        BY <1>4, <4>3, ChosenAre
      <4> QED
        BY <4>1, <4>2, <4>4, <4>5, Zenon
    <3>2. \A W : IsFiniteSet(W) => Sum(W) \in Nat
      BY SumIsNatural
    <3>3. Sum(Chosen(pos, k + 1, b)) \in Nat /\ Sum(Chosen(pos, k, b - 1)) \in Nat
      BY <3>1, <3>2, Zenon
    <3> QED
      BY <3>3
  <2>7. PICK x \in Int : x = Sum(Chosen(pos, k + 1, b))
    BY <2>6
  <2>8. PICK y \in Int : y = Sum(Chosen(pos, k, b - 1))
    BY <2>6
  <2>9. PICK z \in Int : z = Sum(Chosen(pos, k, b))
    BY <2>3
  <2>10. PICK v \in Int : v = Worth(pos[k])
    BY <2>3
  <2>11. PICK w \in Int : w = Worth(pos[b])
    BY <2>3
  <2>12. z = y + w /\ z = x + v
    BY <2>3, <2>7, <2>8, <2>9, <2>10, <2>11, Zenon
  <2>13. x = y - v + w
    BY ONLY <2>12, x \in Int, y \in Int, z \in Int, v \in Int, w \in Int
  <2>14. slides[k] = slides[k - 1] - words[k].weight + words[b].weight
    BY <2>4, <2>5, <2>7, <2>8, <2>10, <2>11, <2>13, Zenon
  <2> QED
    BY <2>2, <2>14, Zenon
<1>10. slides = [k \in 0..(m - size) |-> slides[k]]
  OBVIOUS
<1>11. \A k \in 0..(m - size) : k = 0 \/ k \in 1..(m - size)
  BY <1>1
<1> HIDE DEF slides
<1>12. \A k \in 0..(m - size) : slides[k] = Rule(slides, k)
  BY <1>8, <1>9, <1>11
<1>13. slides = After(slides)
  <2> HIDE DEF Rule
  <2> QED
    BY <1>10, <1>12
<1>14. curSum = After(curSum)
  <2> HIDE DEF After
  <2> QED
    BY <1>13
<1> HIDE DEF curSum
<1>15. /\ curSum = [k \in 0..(m - size) |-> curSum[k]] /\ curSum[0] = first[size]
       /\ \A k \in 1..(m - size) : curSum[k] = curSum[k - 1] - words[k].weight + words[k + size].weight
  <2> DEFINE rest == m - size
  <2>1. rest \in Nat
    BY <1>1
  <2> HIDE DEF rest
  <2>2. curSum = [k \in 0..rest |-> Rule(curSum, k)]
    BY <1>14, Zenon DEF rest
  <2>3. curSum[0] = Rule(curSum, 0) /\ \A k \in 1..rest : curSum[k] = Rule(curSum, k)
    <3> HIDE DEF Rule
    <3>1. \A k \in 0..rest : curSum[k] = Rule(curSum, k)
      <4> DEFINE r == [k \in 0..rest |-> Rule(curSum, k)]
      <4>1. \A k \in 0..rest : r[k] = Rule(curSum, k)
        OBVIOUS
      <4> HIDE DEF r
      <4>2. curSum = r
        BY <2>2, Zenon DEF r
      <4> QED
        BY <4>1, <4>2, Zenon
    <3>2. 0 \in 0..rest /\ \A k \in 1..rest : k \in 0..rest
      BY <2>1
    <3> QED
      BY <3>1, <3>2, Zenon
  <2>4. curSum = [k \in 0..rest |-> curSum[k]]
    <3> HIDE DEF Rule
    <3> QED
      BY <2>2
  <2>5. \A k \in 1..rest : k # 0
    BY <2>1
  <2> QED
    BY <2>3, <2>4, <2>5, Zenon DEF rest
<1> DEFINE A == [k \in 0..(m - size) |-> {slides[k]}]
<1>16. m - size \in Nat
  BY <1>1
<1>17. \A k \in 0..(m - size) : curSum[k] \in A[k]
  <2>1. curSum[0] \in A[0]
    BY <1>8, <1>15, <1>16
  <2>2. ASSUME NEW k \in 1..(m - size), curSum[k - 1] \in A[k - 1] PROVE curSum[k] \in A[k]
    <3>1. k - 1 \in 0..(m - size) /\ k \in 0..(m - size)
      BY <1>16
    <3>2. curSum[k - 1] = slides[k - 1]
      BY <2>2, <3>1
    <3>3. curSum[k] = slides[k]
      BY <1>9, <1>15, <3>2, Zenon
    <3> QED
      BY <3>1, <3>3
  <2> HIDE DEF A
  <2> QED
    BY <1>16, <2>1, <2>2, Reaches
<1>18. \A k \in 0..(m - size) : curSum[k] = slides[k]
  BY <1>17
<1>19. curSum = slides
  BY <1>10, <1>15, <1>18
<1> QED
  BY <1>2, <1>19, Zenon DEF m, slides

\* Backwards, the window that is kept is the last of those with the largest sum.
LEMMA LastOfLargest ==
  ASSUME NEW words, NEW last \in Nat, NEW sums \in [0..last -> Nat],
         \A k \in 0..last : sums[k] > 0,
         \E i \in DOMAIN words : words[i].weight = TERM_WEIGHT
  PROVE  /\ MaxSumIndex(words, sums, last) \in 0..last
         /\ \A k \in 0..last :
              /\ sums[k] <= sums[MaxSumIndex(words, sums, last)]
              /\ k > MaxSumIndex(words, sums, last) => sums[k] < sums[MaxSumIndex(words, sums, last)]
<1> DEFINE n == last + 1
           T == [sum : Nat, at : 0..last]
           base == [sum |-> 0, at |-> 0]
           Later(k, s) == IF sums[k] > s.sum THEN [sum |-> sums[k], at |-> k] ELSE s
           Turn(i, s) == Later(last + 1 - i, s)
           Rule(f, i) == IF i = 0 THEN base ELSE Turn(i, f[i - 1])
           After(f) == [i \in 0..(last + 1) |-> Rule(f, i)]
           g == CHOOSE f : f = After(f)
           step == [i \in 1..n |-> [s \in T |-> Turn(i, s)]]
<1>1. n \in Nat /\ last \in Nat /\ n = last + 1
  OBVIOUS
<1>2. base \in T /\ base.sum = 0
  OBVIOUS
<1>3. MaxSumIndex(words, sums, last) = g[last + 1].at
  BY Zenon DEF MaxSumIndex
<1> HIDE DEF base
<1>5. \A k \in 0..last, s \in T : Later(k, s) \in T
  OBVIOUS
<1>6. \A i \in 1..n : \A s : Turn(i, s) = Later(n - i, s)
  <2>1. \A i \in 1..n : last + 1 - i = n - i
    BY <1>1
  <2> HIDE DEF Later, n
  <2> QED
    BY <2>1, Zenon
<1> HIDE DEF Turn
<1>7. \A i \in 1..n, s \in T : Turn(i, s) \in T
  <2>1. \A i \in 1..n : n - i \in 0..last
    BY <1>1
  <2> HIDE DEF T, Later, n
  <2> QED
    BY <1>5, <1>6, <2>1
<1>8. step \in Steps(n, T)
  <2> HIDE DEF T
  <2> QED
    BY <1>7 DEF Steps
<1>9. PICK f : Iteration(f, n, T, base, step)
  <2> HIDE DEF step, T, n
  <2> QED
    BY <1>1, <1>2, <1>8, Iterates
<1>10. \A i \in 1..n : f[i] = Turn(i, f[i - 1])
  <2>1. ASSUME NEW i \in 1..n PROVE f[i] = Turn(i, f[i - 1])
    <3>1. i - 1 \in 0..n
      BY <1>1
    <3>2. f[i - 1] \in T /\ f[i] = step[i][f[i - 1]]
      BY <1>9, <3>1, Zenon DEF Iteration
    <3> HIDE DEF T
    <3> QED
      BY <3>2
  <2> QED
    BY <2>1
<1>11. f = After(f)
  <2>1. f = [i \in 0..n |-> f[i]] /\ f[0] = base
    BY <1>9 DEF Iteration
  <2>2. \A i \in 0..n : i = 0 \/ i \in 1..n
    BY <1>1
  <2>3. \A i \in 0..n : f[i] = Rule(f, i)
    BY <1>10, <2>1, <2>2
  <2> HIDE DEF Rule
  <2> QED
    BY <2>1, <2>3
<1>12. g = After(g)
  <2> HIDE DEF After
  <2> QED
    BY <1>11
<1> HIDE DEF g
<1>13. g[0] = base /\ \A i \in 1..n : g[i] = Turn(i, g[i - 1])
  BY <1>1, <1>12
<1> DEFINE Good(k, s) ==
             /\ s.at >= k /\ s.sum = sums[s.at]
             /\ \A j \in 0..last : j >= k => /\ sums[j] <= s.sum
                                             /\ j > s.at => sums[j] < s.sum
           A == [i \in 0..n |-> {s \in T : IF i = 0 THEN s = base ELSE Good(n - i, s)}]
<1>14. \A k \in 0..last : sums[k] \in Nat /\ sums[k] > 0
  OBVIOUS
<1>15. ASSUME NEW k \in 0..last, NEW s \in T, Good(k + 1, s) PROVE Good(k, Later(k, s))
  <2>1. PICK x \in Nat : x = sums[k]
    BY <1>14
  <2>2. s.sum \in Nat /\ s.at \in 0..last /\ s.at >= k + 1
    BY <1>15
  <2>3. ASSUME NEW j \in 0..last, j >= k
        PROVE  /\ j = k \/ sums[j] <= s.sum
               /\ j = k \/ (j > s.at => sums[j] < s.sum)
               /\ sums[j] \in Nat
    <3>1. j = k \/ j >= k + 1
      BY <2>3
    <3> QED
      BY <1>14, <1>15, <3>1
  <2>4. CASE x > s.sum
    <3>1. Later(k, s) = [sum |-> x, at |-> k]
      BY <2>1, <2>4
    <3>2. \A j \in 0..last : j >= k => sums[j] <= x /\ (j > k => sums[j] < x)
      BY <2>1, <2>2, <2>3, <2>4
    <3> HIDE DEF Later
    <3> QED
      BY <2>1, <3>1, <3>2
  <2>5. CASE ~(x > s.sum)
    <3>1. Later(k, s) = s
      BY <2>1, <2>5
    <3>2. \A j \in 0..last : j >= k => sums[j] <= s.sum /\ (j > s.at => sums[j] < s.sum)
      BY <2>1, <2>2, <2>3, <2>5
    <3>3. s.at >= k /\ s.sum = sums[s.at]
      BY <1>15, <2>2
    <3> HIDE DEF Later
    <3> QED
      BY <3>1, <3>2, <3>3
  <2> QED
    BY <2>4, <2>5
<1>16. Good(last, Later(last, base))
  <2>1. PICK x \in Nat : x = sums[last] /\ x > 0
    BY <1>14
  <2>2. Later(last, base) = [sum |-> x, at |-> last]
    BY <1>2, <2>1
  <2>3. \A j \in 0..last : j >= last => j = last
    OBVIOUS
  <2> HIDE DEF Later
  <2> QED
    BY <2>1, <2>2, <2>3
<1> HIDE DEF Later, T
<1>17. \A i \in 0..n : g[i] \in A[i]
  <2>1. g[0] \in A[0]
    BY <1>1, <1>2, <1>13
  <2>2. ASSUME NEW i \in 1..n, g[i - 1] \in A[i - 1] PROVE g[i] \in A[i]
    <3> DEFINE s == g[i - 1]
               k == n - i
    <3>1. i - 1 \in 0..n /\ i \in 0..n /\ i # 0 /\ k \in 0..last /\ n - (i - 1) = k + 1
          /\ (i - 1 = 0 => k = last)
      BY <1>1
    <3>2. s \in T /\ IF i - 1 = 0 THEN s = base ELSE Good(n - (i - 1), s)
      <4> HIDE DEF Good
      <4> QED
        BY <2>2, <3>1
    <3>3. g[i] = Later(k, s)
      BY <1>6, <1>13, Zenon
    <3> HIDE DEF Good, s, k, n
    <3>4. Later(k, s) \in T
      BY <1>5, <3>1, <3>2
    <3>5. Good(k, Later(k, s))
      <4>1. CASE i - 1 = 0
        BY <1>16, <3>1, <3>2, <4>1
      <4>2. CASE i - 1 # 0
        <5>1. Good(k + 1, s)
          BY <3>1, <3>2, <4>2, Zenon
        <5> QED
          BY <1>15, <3>1, <3>2, <5>1
      <4> QED
        BY <4>1, <4>2
    <3>6. Good(n - i, g[i])
      BY <3>3, <3>5, Zenon DEF k
    <3> QED
      BY <3>1, <3>3, <3>4, <3>6
  <2> HIDE DEF A, n
  <2> QED
    BY <1>1, <2>1, <2>2, Reaches
<1>18. g[n] \in T /\ Good(0, g[n])
  <2>1. n \in 0..n /\ n # 0 /\ n - n = 0
    BY <1>1
  <2>2. g[n] \in A[n]
    BY <1>17, <2>1
  <2> HIDE DEF Good, n
  <2> QED
    BY <2>1, <2>2
<1> DEFINE e == g[n]
<1>19. e \in T /\ Good(0, e)
  BY <1>18
<1>20. MaxSumIndex(words, sums, last) = e.at
  BY <1>3
<1> HIDE DEF e
<1>21. e.at \in 0..last /\ e.sum = sums[e.at]
  BY <1>19 DEF T
<1>22. \A k \in 0..last : sums[k] <= e.sum /\ (k > e.at => sums[k] < e.sum)
  BY <1>19
<1> HIDE DEF Good
<1> QED
  BY <1>20, <1>21, <1>22

\* A window with enough words is the words from its first one on.
LEMMA WindowIsChosen ==
  ASSUME page \in Seq(Char), NEW pos, NEW m, Enumerates(pos, m), NEW a \in 1..m,
         a + Size(m) <= m + 1
  PROVE  /\ pos[a] \in Windows
         /\ Window(pos[a]) = Chosen(pos, a, a - 1 + Size(m))
         /\ Sum(Window(pos[a])) \in Nat /\ Sum(Window(pos[a])) > 0
<1> DEFINE b == a - 1 + Size(m)
           S == Window(pos[a])
           V == Chosen(pos, a, b)
<1>1. m \in Nat /\ m >= 1 /\ a \in Nat
  BY PositionsOrdered
<1>2. Size(m) \in 1..m
  BY <1>1, SizeIs
<1>3. b \in a..m /\ b \in 0..m /\ a \in 1..(m + 1) /\ a <= b + 1 /\ b + 1 = a + Size(m)
  BY <1>1, <1>2
<1>4. pos[a] \in Windows
  BY WindowsAre
<1>5. \A j \in 1..m : pos[j] \in S <=> a <= j /\ j < a + Size(m)
  BY <1>4, WindowsAre
<1> HIDE DEF b
<1>6. \A j \in 1..m : pos[j] \in V <=> a <= j /\ j <= b
  BY <1>3, ChosenAre
<1>7. \A j \in 1..m : j < a + Size(m) <=> j <= b
  BY <1>1, <1>2, <1>3
<1>8. S \in SUBSET Starts /\ V \in SUBSET Starts
  BY DEF Window, Chosen
<1> HIDE DEF S, V
<1>9. SameNumbers(pos, m, S, V)
  <2> SUFFICES ASSUME NEW j \in 1..m PROVE pos[j] \in S <=> pos[j] \in V
    BY DEF SameNumbers
  <2>1. (pos[j] \in S <=> a <= j /\ j < a + Size(m)) /\ (pos[j] \in V <=> a <= j /\ j <= b)
    BY <1>5, <1>6, Zenon
  <2>2. j < a + Size(m) <=> j <= b
    BY <1>7, Zenon
  <2> QED
    BY <2>1, <2>2, Zenon
<1>10. S = V
  BY <1>8, <1>9, SameWords, Zenon
<1>11. Sum(V) \in Nat /\ Sum(V) > 0
  <2>1. /\ Sum(Chosen(pos, a, b)) \in Nat
        /\ Sum(Chosen(pos, a, b)) = Sum(Chosen(pos, a, b - 1)) + Worth(pos[b])
        /\ Worth(pos[b]) \in {2, 8, 40}
    BY <1>3, ChosenSums
  <2>2. Sum(Chosen(pos, a, b - 1)) \in Nat
    <3>1. PICK c \in 0..m : c = b - 1
      BY <1>1, <1>3
    <3>2. a <= c + 1
      BY <1>3, <3>1
    <3>3. IsFiniteSet(Chosen(pos, a, c))
      BY <1>3, <3>2, ChosenAre
    <3>4. Sum(Chosen(pos, a, c)) \in Nat
      BY <3>3, SumIsNatural
    <3> QED
      BY <3>1, <3>4, Zenon
  <2>3. PICK x \in Nat : x = Sum(Chosen(pos, a, b - 1))
    BY <2>2
  <2>4. PICK w \in {2, 8, 40} : w = Worth(pos[b])
    BY <2>1
  <2>5. Sum(V) = x + w
    BY <2>1, <2>3, <2>4, Zenon DEF V
  <2>6. x + w \in Nat /\ x + w > 0
    OBVIOUS
  <2> QED
    BY <2>5, <2>6, Zenon
<1> QED
  BY <1>4, <1>10, <1>11, Zenon DEF S, V, b

\* The window that makeTeaser() takes is the best one.
LEMMA BestIs ==
  ASSUME page \in Seq(Char), NEW words, words = Weighted(page), Len(words) >= 1,
         NEW size, size = Size(Len(words)), NEW last, last = Len(words) - size
  PROVE  /\ MaxSumIndex(words, WindowWeights(words, size), last) \in 0..last
         /\ Best = Positions(words)[MaxSumIndex(words, WindowWeights(words, size), last) + 1]
<1> DEFINE m == Len(words)
           pos == Positions(words)
           sums == [k \in 0..(m - size) |-> Sum(Chosen(pos, k + 1, k + size))]
           first == MaxSumIndex(words, WindowWeights(words, size), last)
<1>1. /\ words \in Seq(Word) /\ Enumerates(pos, m)
      /\ \A j \in 1..m : words[j] = WordAt(pos[j])
  BY WordsEnumerated
<1>2. DOMAIN words = 1..m /\ m \in Nat
  BY <1>1, LenProperties
<1>3. size \in 1..m /\ last \in Nat /\ last = m - size
  <2>1. Size(m) \in 1..m
    BY <1>2, SizeIs
  <2> QED
    BY <1>2, <2>1
<1>4. \A j \in 1..m : words[j].weight = Worth(pos[j])
  <2>1. \A i : WordAt(i).weight = Worth(i)
    BY DEF WordAt
  <2> QED
    BY <1>1, <2>1, Zenon
<1>5. WindowWeights(words, size) = sums
  BY <1>1, <1>3, <1>4, WeightsAre
<1> HIDE DEF m, pos
<1>6. /\ \A j \in 1..m : pos[j] \in Starts /\ pos[j] \in Nat /\ pos[j] \in 1..Len(page)
      /\ \A i, j \in 1..m : (pos[i] < pos[j] <=> i < j) /\ (pos[i] <= pos[j] <=> i <= j)
      /\ Len(page) \in Nat
  BY <1>1, PositionsOrdered
<1>7. \A p \in Starts : \E j \in 1..m : pos[j] = p
  BY <1>1 DEF Enumerates
<1>8. \A i : Worth(i) = TERM_WEIGHT <=> page[i] = "t"
  BY DEF Worth, TERM_WEIGHT, FIRST_WORD_WEIGHT, NORMAL_WORD_WEIGHT
<1>9. CASE \A i \in Starts : page[i] # "t"
  <2>1. \A i \in DOMAIN words : words[i].weight # TERM_WEIGHT
    <3> SUFFICES ASSUME NEW i \in 1..m PROVE words[i].weight # TERM_WEIGHT
      BY <1>2
    <3>1. pos[i] \in Starts /\ words[i].weight = Worth(pos[i])
      BY <1>4, <1>6
    <3>2. page[pos[i]] # "t"
      BY <1>9, <3>1, Zenon
    <3> QED
      BY <1>8, <3>1, <3>2, Zenon
  <2>2. first = 0
    BY <2>1, Zenon DEF MaxSumIndex
  <2>3. Best = Min(Starts)
    BY <1>9, Zenon DEF Best
  <2>4. pos[1] \in Starts /\ \A p \in Starts : pos[1] <= p
    <3>1. 1 \in 1..m
      BY <1>2, <1>3
    <3> SUFFICES ASSUME NEW p \in Starts PROVE pos[1] <= p
      BY <1>6, <3>1
    <3>2. PICK j \in 1..m : pos[j] = p
      BY <1>7
    <3>3. 1 <= j
      BY <1>2
    <3>4. pos[1] <= pos[j]
      BY <1>6, <3>1, <3>3, Zenon
    <3> QED
      BY <3>2, <3>4, Zenon
  <2>5. Starts \in SUBSET Nat
    <3>1. \A p \in Starts : p \in Nat
      BY <1>6, <1>7
    <3> HIDE DEF Starts
    <3> QED
      BY <3>1
  <2>6. Min(Starts) = pos[1]
    <3> HIDE DEF Starts
    <3> QED
      BY <2>4, <2>5, MinIs
  <2>7. 0 \in 0..last /\ 0 + 1 = 1
    BY <1>3
  <2>8. Best = pos[0 + 1]
    BY <2>3, <2>6, <2>7
  <2> HIDE DEF first
  <2>9. first \in 0..last /\ Best = pos[first + 1]
    BY <2>2, <2>7, <2>8, Zenon
  <2> QED
    BY <2>9, Zenon DEF first, pos
<1>10. CASE ~(\A i \in Starts : page[i] # "t")
  <2> DEFINE S == {i \in Windows : \A j \in Windows : Sum(Window(j)) <= Sum(Window(i))}
  <2>1. \E i \in DOMAIN words : words[i].weight = TERM_WEIGHT
    <3>1. PICK p \in Starts : page[p] = "t"
      BY <1>10
    <3>2. PICK j \in 1..m : pos[j] = p
      BY <1>7
    <3>3. words[j].weight = TERM_WEIGHT
      BY <1>4, <1>8, <3>1, <3>2
    <3> QED
      BY <1>2, <3>2, <3>3
  <2>2. ASSUME NEW a \in 1..m, a + size <= m + 1
        PROVE  /\ a - 1 \in 0..last /\ pos[a] \in Windows
               /\ Sum(Window(pos[a])) = sums[a - 1]
               /\ sums[a - 1] \in Nat /\ sums[a - 1] > 0
    <3>1. Size(m) = size
      BY DEF m
    <3>2. /\ pos[a] \in Windows
          /\ Window(pos[a]) = Chosen(pos, a, a - 1 + size)
          /\ Sum(Window(pos[a])) \in Nat /\ Sum(Window(pos[a])) > 0
      BY <1>1, <2>2, <3>1, WindowIsChosen, Zenon
    <3>3. a - 1 \in 0..(m - size) /\ a - 1 \in 0..last /\ (a - 1) + 1 = a
      BY <1>2, <1>3, <2>2
    <3>4. sums[a - 1] = Sum(Chosen(pos, (a - 1) + 1, (a - 1) + size))
      BY <3>3
    <3> HIDE DEF sums
    <3>5. sums[a - 1] = Sum(Window(pos[a]))
      BY <3>2, <3>3, <3>4, Zenon
    <3> QED
      BY <3>2, <3>3, <3>5, Zenon
  <2>3. ASSUME NEW k \in 0..last
        PROVE  k + 1 \in 1..m /\ (k + 1) + size <= m + 1 /\ (k + 1) - 1 = k
    BY <1>2, <1>3
  <2>4. sums \in [0..last -> Nat] /\ \A k \in 0..last : sums[k] > 0
    <3>1. \A k \in 0..last : sums[k] \in Nat /\ sums[k] > 0
      <4> SUFFICES ASSUME NEW k \in 0..last PROVE sums[k] \in Nat /\ sums[k] > 0
        OBVIOUS
      <4> HIDE DEF sums
      <4>1. PICK a \in 1..m : a = k + 1
        BY <2>3
      <4>2. a + size <= m + 1 /\ a - 1 = k
        BY <2>3, <4>1
      <4>3. sums[a - 1] \in Nat /\ sums[a - 1] > 0
        BY <2>2, <4>2
      <4> QED
        BY <4>2, <4>3, Zenon
    <3>2. sums = [k \in 0..(m - size) |-> sums[k]]
      OBVIOUS
    <3> HIDE DEF sums
    <3>3. sums = [k \in 0..last |-> sums[k]]
      BY <1>3, <3>2, Zenon
    <3> QED
      BY <3>1, <3>3
  <2> HIDE DEF sums
  <2> DEFINE f == MaxSumIndex(words, sums, last)
  <2>5. /\ f \in 0..last
        /\ \A k \in 0..last : sums[k] <= sums[f] /\ (k > f => sums[k] < sums[f])
    BY <1>3, <2>1, <2>4, LastOfLargest
  <2>6. first = f
    BY <1>5
  <2> HIDE DEF first, f
  <2>7. PICK e \in 1..m : e = f + 1
    BY <2>3, <2>5
  <2>8. e + size <= m + 1 /\ e - 1 = f
    BY <2>3, <2>5, <2>7
  <2>9. pos[e] \in Windows /\ Sum(Window(pos[e])) = sums[f] /\ sums[f] \in Nat
    BY <2>2, <2>8
  <2>10. ASSUME NEW j \in Windows
         PROVE  Sum(Window(j)) <= sums[f] /\ (j \in S => j <= pos[e])
    <3>1. PICK a \in 1..m : pos[a] = j
      <4>1. j \in Starts
        BY DEF Windows
      <4> QED
        BY <1>7, <4>1
    <3>2. a + Size(m) <= m + 1
      BY <1>1, <3>1, WindowsAre
    <3>3. a + size <= m + 1
      BY <3>2 DEF m
    <3>4. Sum(Window(j)) = sums[a - 1] /\ a - 1 \in 0..last
      BY <2>2, <3>1, <3>3, Zenon
    <3>5. PICK k \in 0..last : k = a - 1
      BY <3>4
    <3>6. Sum(Window(j)) = sums[k] /\ sums[k] \in Nat
      BY <2>4, <3>4, <3>5
    <3>7. sums[k] <= sums[f] /\ (k > f => sums[k] < sums[f])
      BY <2>5
    <3>8. Sum(Window(j)) <= sums[f]
      BY <3>6, <3>7, Zenon
    <3>9. ASSUME j \in S PROVE j <= pos[e]
      <4>1. Sum(Window(pos[e])) <= Sum(Window(j))
        BY <2>9, <3>9, Zenon
      <4>2. sums[f] <= sums[k]
        BY <2>9, <3>6, <4>1, Zenon
      <4>3. ~(k > f)
        BY <2>9, <3>6, <3>7, <4>2
      <4>4. a <= e
        BY <2>5, <2>7, <3>5, <4>3
      <4>5. pos[a] <= pos[e]
        BY <1>6, <4>4
      <4> QED
        BY <3>1, <4>5, Zenon
    <3> QED
      BY <3>8, <3>9
  <2>11. Max(S) = pos[e]
    <3>1. pos[e] \in S
      BY <2>9, <2>10, Zenon
    <3>2. \A j \in S : j <= pos[e]
      BY <2>10
    <3>3. S \in SUBSET (0..Len(page))
      <4> SUFFICES ASSUME NEW j \in S PROVE j \in 0..Len(page)
        OBVIOUS
      <4>1. j \in Starts
        BY DEF Windows
      <4>2. PICK a \in 1..m : pos[a] = j
        BY <1>7, <4>1
      <4>3. j \in 1..Len(page)
        BY <1>6, <4>2
      <4> QED
        BY <1>6, <4>3
    <3> HIDE DEF S
    <3> QED
      BY <1>6, <3>1, <3>2, <3>3, MaxIs
  <2>12. Best = Max(S)
    BY <1>10, Zenon DEF Best
  <2>13. first \in 0..last /\ Best = pos[first + 1]
    BY <2>5, <2>6, <2>7, <2>11, <2>12, Zenon
  <2> QED
    BY <2>13, Zenon DEF first, pos
<1> QED
  BY <1>9, <1>10

\* A passage that ends in the text.
LEMMA SubstringIs ==
  ASSUME NEW s, NEW a, NEW b, b <= Len(s)
  PROVE  Substring(s, a, b) = SubSeq(s, a, b)
BY Zenon DEF Substring

\* Two passages of a text, one after the other, are one.
LEMMA PassagesJoin ==
  ASSUME NEW S, NEW s \in Seq(S), NEW a \in Nat \ {0}, NEW b \in Nat, NEW c \in Nat,
         a <= b + 1, b <= c, c <= Len(s)
  PROVE  SubSeq(s, a, b) \o SubSeq(s, b + 1, c) = SubSeq(s, a, c)
<1> DEFINE t == SubSeq(s, a, b)
           u == SubSeq(s, b + 1, c)
           v == SubSeq(s, a, c)
           w == t \o u
<1>1. Len(s) \in Nat /\ b <= Len(s) /\ a <= c + 1
  BY LenProperties
<1>2. /\ t \in Seq(S) /\ Len(t) = b - a + 1
      /\ \A i \in 1..(b - a + 1) : t[i] = s[a + i - 1]
  <2>1. 1 \in Nat \ {0} /\ 0 \in Int /\ 0 <= b - a + 1
    OBVIOUS
  <2> QED
    BY <1>1, <2>1, PartOfPart
<1>3. /\ u \in Seq(S) /\ Len(u) = c - b
      /\ \A i \in 1..(c - b) : u[i] = s[b + i]
  <2>1. PICK d \in Nat \ {0} : d = b + 1
    OBVIOUS
  <2>2. 1 \in Nat \ {0} /\ 0 \in Int /\ 0 <= c - d + 1 /\ d <= c + 1 /\ c - d + 1 = c - b
    BY <2>1
  <2>3. /\ SubSeq(s, d, c) \in Seq(S) /\ Len(SubSeq(s, d, c)) = c - d + 1
        /\ \A i \in 1..(c - d + 1) : SubSeq(s, d, c)[i] = s[d + i - 1]
    BY <1>1, <2>2, PartOfPart
  <2>4. \A i \in Int : d + i - 1 = b + i
    BY <2>1
  <2> QED
    BY <2>1, <2>2, <2>3, <2>4
<1>4. /\ v \in Seq(S) /\ Len(v) = c - a + 1
      /\ \A i \in 1..(c - a + 1) : v[i] = s[a + i - 1]
  <2>1. 1 \in Nat \ {0} /\ 0 \in Int /\ 0 <= c - a + 1
    BY <1>1
  <2> QED
    BY <1>1, <2>1, PartOfPart
<1> HIDE DEF t, u, v
<1>5. /\ w \in Seq(S) /\ Len(w) = Len(t) + Len(u)
      /\ \A i \in 1..(Len(t) + Len(u)) : w[i] = IF i <= Len(t) THEN t[i] ELSE u[i - Len(t)]
  BY <1>2, <1>3, ConcatProperties
<1> HIDE DEF w
<1>6. Len(w) = c - a + 1
  BY <1>2, <1>3, <1>5
<1>7. \A i \in 1..Len(w) : w[i] = v[i]
  <2> SUFFICES ASSUME NEW i \in 1..Len(w) PROVE w[i] = v[i]
    OBVIOUS
  <2>1. i \in 1..(c - a + 1) /\ i \in 1..(Len(t) + Len(u))
    BY <1>5, <1>6
  <2>2. v[i] = s[a + i - 1]
    BY <1>4, <2>1
  <2>3. CASE i <= b - a + 1
    <3>1. i \in 1..(b - a + 1)
      BY <2>1, <2>3
    <3>2. w[i] = t[i]
      BY <1>2, <1>5, <2>1, <2>3
    <3> QED
      BY <1>2, <2>2, <3>1, <3>2
  <2>4. CASE ~(i <= b - a + 1)
    <3>1. w[i] = u[i - Len(t)] /\ Len(t) = b - a + 1
      BY <1>2, <1>5, <2>1, <2>4
    <3>2. PICK k \in 1..(c - b) : k = i - (b - a + 1)
      BY <2>1, <2>4
    <3>3. u[k] = s[b + k] /\ b + k = a + i - 1
      BY <1>3, <2>1, <3>2
    <3>4. w[i] = u[k]
      BY <3>1, <3>2, Zenon
    <3> QED
      BY <2>2, <3>3, <3>4, Zenon
  <2> QED
    BY <2>3, <2>4
<1>8. w = v
  BY <1>4, <1>5, <1>6, <1>7, SeqEqual
<1> QED
  BY <1>8, Zenon DEF t, u, v, w

\* A word goes on to the next separator.
LEMMA EndOf ==
  ASSUME page \in Seq(Char), NEW i \in Starts
  PROVE  /\ Len(page) \in Nat /\ i \in 1..Len(page) /\ End(i) \in i..Len(page)
         /\ \A k \in i..End(i) : ~Separator(k)
<1> DEFINE S == {j \in i..Len(page) : \A k \in i..j : ~Separator(k)}
<1>1. Len(page) \in Nat /\ i \in 1..Len(page) /\ ~Separator(i)
  BY LenProperties DEF Starts
<1>2. i \in S
  <2>1. \A k \in i..i : k = i
    BY <1>1
  <2> QED
    BY <1>1, <2>1
<1>3. S \in SUBSET (0..Len(page))
  BY <1>1
<1>4. Max(S) \in S
  <2> HIDE DEF S
  <2> QED
    BY <1>1, <1>2, <1>3, MaxOf
<1>5. End(i) \in S
  BY <1>4, Zenon DEF End
<1> HIDE DEF Starts
<1> QED
  BY <1>1, <1>5

\* A word ends before the next one starts.
LEMMA WordsApart ==
  ASSUME page \in Seq(Char), NEW i \in Starts, NEW k \in Starts, i < k
  PROVE  End(i) < k
<1>1. /\ Len(page) \in Nat /\ i \in 1..Len(page) /\ End(i) \in i..Len(page)
      /\ \A p \in i..End(i) : ~Separator(p)
  BY EndOf
<1>2. k \in 1..Len(page) /\ (k = 1 \/ Separator(k - 1))
  BY LenProperties DEF Starts
<1> HIDE DEF Starts
<1> SUFFICES ASSUME ~(End(i) < k) PROVE FALSE
  OBVIOUS
<1>3. k - 1 \in i..End(i) /\ k # 1
  BY <1>1, <1>2
<1> QED
  BY <1>1, <1>2, <1>3

\* The words of a window and the text between them are the passage from the
\* first word to the last one.
LEMMA QuoteIs ==
  ASSUME page \in Seq(Char), NEW words, NEW m \in Nat \ {0}, Len(words) = m,
         NEW at \in [1..m -> Starts],
         \A k \in 1..m : words[k] = WordAt(at[k]) /\ ~IsCut(words[k]),
         \A j, k \in 1..m : j < k => at[j] < at[k]
  PROVE  Quote(page, words) = SubSeq(page, at[1], End(at[m]))
<1> DEFINE base == [text |-> <<>>, startIndex |-> words[1].index]
           Turn(n, acc) ==
             LET w    == words[n]
                 end  == w.index + Len(w.word)
                 word == Substring(page, w.index + 1, end)
             IN [text |-> acc.text \o Substring(page, acc.startIndex + 1, w.index)
                            \o (IF IsCut(w) THEN SubstringByByte(word, LongWord) ELSE word),
                 startIndex |-> end]
           Rule(f, n) == IF n = 0 THEN base ELSE Turn(n, f[n - 1])
           After(f) == [n \in 0..Len(words) |-> Rule(f, n)]
           g == CHOOSE f : f = After(f)
           till == [n \in 0..m |-> IF n = 0 THEN at[1] - 1 ELSE End(at[n])]
           h == [n \in 0..m |-> [text |-> SubSeq(page, at[1], till[n]), startIndex |-> till[n]]]
<1>1. m \in Nat /\ m >= 1 /\ Len(words) = m
  OBVIOUS
<1>2. Quote(page, words) = g[Len(words)].text
  BY Zenon DEF Quote
<1>3. \A k \in 1..m : at[k] \in Starts
  OBVIOUS
<1>4. \A k \in 1..m : words[k] = WordAt(at[k]) /\ ~IsCut(words[k])
  OBVIOUS
<1>5. \A j, k \in 1..m : j < k => at[j] < at[k]
  OBVIOUS
<1>6. Len(page) \in Nat /\ at[1] \in 1..Len(page)
  BY <1>1, <1>3, EndOf
<1>7. ASSUME NEW k \in 1..m
      PROVE  /\ at[k] \in 1..Len(page) /\ till[k] \in at[k]..Len(page)
             /\ till[k - 1] \in Nat /\ till[k - 1] < at[k] /\ at[1] <= till[k - 1] + 1
  <2>1. at[k] \in 1..Len(page) /\ End(at[k]) \in at[k]..Len(page)
    BY <1>3, EndOf
  <2>2. till[k] = End(at[k])
    BY <1>1
  <2>3. till[k - 1] \in Nat /\ till[k - 1] < at[k] /\ at[1] <= till[k - 1] + 1
    <3>1. CASE k = 1
      <4>1. till[0] = at[1] - 1
        BY <1>1
      <4>2. k - 1 = 0
        BY <3>1
      <4> HIDE DEF till
      <4> QED
        BY <1>6, <3>1, <4>1, <4>2
    <3>2. CASE k # 1
      <4>1. PICK j \in 1..m : j = k - 1 /\ j < k
        BY <1>1, <3>2
      <4>2. till[j] = End(at[j]) /\ j \in 0..m
        BY <1>1
      <4> HIDE DEF till
      <4>3. at[j] \in Starts /\ at[k] \in Starts /\ at[j] < at[k]
        BY <1>3, <1>5, <4>1
      <4>4. End(at[j]) < at[k] /\ End(at[j]) \in at[j]..Len(page) /\ at[j] \in 1..Len(page)
        BY <4>3, WordsApart, EndOf
      <4>5. at[1] <= at[j]
        <5>1. 1 \in 1..m /\ (j = 1 \/ 1 < j)
          BY <1>1
        <5>2. j = 1 => at[1] <= at[j]
          BY <4>4
        <5>3. 1 < j => at[1] < at[j]
          BY <1>5, <5>1, Zenon
        <5> QED
          BY <1>6, <4>4, <5>1, <5>2, <5>3
      <4>6. till[j] \in Nat /\ till[j] < at[k] /\ at[1] <= till[j] + 1
        BY <1>6, <4>2, <4>4, <4>5
      <4> QED
        BY <4>1, <4>6
    <3> QED
      BY <3>1, <3>2
  <2> QED
    BY <2>1, <2>2, <2>3
<1>8. ASSUME NEW k \in 1..m PROVE Turn(k, h[k - 1]) = h[k]
  <2>1. PICK i \in 1..Len(page) : i = at[k]
    <3>1. at[k] \in 1..Len(page)
      BY <1>7
    <3> QED
      BY <3>1
  <2>2. PICK e \in i..Len(page) : e = till[k]
    <3>1. till[k] \in at[k]..Len(page)
      BY <1>7
    <3> QED
      BY <2>1, <3>1
  <2>3. PICK b \in Nat : b = till[k - 1]
    BY <1>7
  <2>4. b < i /\ at[1] <= b + 1
    <3>1. till[k - 1] < at[k] /\ at[1] <= till[k - 1] + 1
      BY <1>7
    <3> QED
      BY <2>1, <2>3, <3>1, Zenon
  <2>5. PICK a \in 1..Len(page) : a = at[1]
    BY <1>6
  <2>6. a <= b + 1
    BY <2>4, <2>5, Zenon
  <2>7. e = End(i)
    <3>1. till[k] = End(at[k])
      BY <1>1
    <3> QED
      BY <2>1, <2>2, <3>1, Zenon
  <2>8. h[k - 1] = [text |-> SubSeq(page, a, b), startIndex |-> b]
    <3>1. k - 1 \in 0..m
      BY <1>1
    <3>2. h[k - 1] = [text |-> SubSeq(page, at[1], till[k - 1]), startIndex |-> till[k - 1]]
      BY <3>1
    <3> HIDE DEF h, till
    <3> QED
      BY <2>3, <2>5, <3>2, Zenon
  <2>9. h[k] = [text |-> SubSeq(page, a, e), startIndex |-> e]
    <3>1. k \in 0..m
      BY <1>1
    <3>2. h[k] = [text |-> SubSeq(page, at[1], till[k]), startIndex |-> till[k]]
      BY <3>1
    <3> HIDE DEF h, till
    <3> QED
      BY <2>2, <2>5, <3>2, Zenon
  <2> HIDE DEF h, till
  <2>10. words[k].index = i - 1 /\ words[k].word = SubSeq(page, i, e) /\ ~IsCut(words[k])
    <3>1. words[k] = WordAt(i)
      BY <1>4, <2>1, Zenon
    <3>2. WordAt(i).index = i - 1 /\ WordAt(i).word = SubSeq(page, i, End(i))
      BY DEF WordAt
    <3> QED
      BY <1>4, <2>7, <3>1, <3>2, Zenon
  <2>11. Len(SubSeq(page, i, e)) = e - i + 1
    <3>1. i \in Nat \ {0} /\ e \in Nat /\ i <= e + 1 /\ e <= Len(page) /\ 1 \in Nat \ {0}
          /\ 0 \in Int /\ 0 <= e - i + 1
      BY <1>6
    <3> QED
      BY <3>1, PartOfPart
  <2> DEFINE word == SubSeq(page, i, e)
  <2>12. (i - 1) + Len(word) = e /\ (i - 1) + 1 = i
    BY <2>11
  <2> HIDE DEF word
  <2>13. Turn(k, h[k - 1]) =
           [text |-> SubSeq(page, a, b) \o SubSeq(page, b + 1, i - 1) \o word, startIndex |-> e]
    <3>1. words[k].index + Len(words[k].word) = e /\ words[k].index + 1 = i
      BY <2>10, <2>12, Zenon DEF word
    <3>2. \A acc : Turn(k, acc) =
            [text |-> acc.text \o Substring(page, acc.startIndex + 1, i - 1) \o word,
             startIndex |-> e]
      <4>1. Substring(page, i, e) = word
        <5>1. e <= Len(page)
          BY <1>6
        <5> QED
          BY <5>1, SubstringIs, Zenon DEF word
      <4> QED
        BY <2>10, <3>1, <4>1, Zenon DEF word
    <3>3. h[k - 1].text = SubSeq(page, a, b) /\ h[k - 1].startIndex = b
      BY <2>8
    <3>4. Substring(page, b + 1, i - 1) = SubSeq(page, b + 1, i - 1)
      <4>1. i - 1 <= Len(page)
        BY <1>6
      <4> QED
        BY <4>1, SubstringIs, Zenon
    <3> HIDE DEF Turn
    <3> QED
      BY <3>2, <3>3, <3>4, Zenon
  <2>14. PICK c \in Nat : c = i - 1
    BY <2>1
  <2>15. /\ a \in Nat \ {0} /\ a <= b + 1 /\ b <= c /\ c <= Len(page)
         /\ a <= c + 1 /\ c <= e /\ e <= Len(page) /\ e \in Nat /\ c + 1 = i
    BY <1>6, <2>4, <2>6, <2>14
  <2>16. SubSeq(page, a, b) \o SubSeq(page, b + 1, c) = SubSeq(page, a, c)
    BY ONLY page \in Seq(Char), <2>15, b \in Nat, c \in Nat, PassagesJoin
  <2>17. SubSeq(page, a, c) \o SubSeq(page, c + 1, e) = SubSeq(page, a, e)
    BY ONLY page \in Seq(Char), <2>15, b \in Nat, c \in Nat, PassagesJoin
  <2>18. SubSeq(page, a, b) \o SubSeq(page, b + 1, i - 1) \o word = SubSeq(page, a, e)
    BY <2>14, <2>15, <2>16, <2>17, Zenon DEF word
  <2> HIDE DEF Turn
  <2> QED
    BY <2>9, <2>13, <2>18, Zenon
<1>9. h[0] = base
  <2>1. 0 \in 0..m /\ 1 \in 1..m
    BY <1>1
  <2>2. h[0] = [text |-> SubSeq(page, at[1], till[0]), startIndex |-> till[0]] /\ till[0] = at[1] - 1
    BY <2>1
  <2> HIDE DEF h, till
  <2>3. words[1].index = at[1] - 1
    <3>1. words[1] = WordAt(at[1])
      BY <1>4, <2>1, Zenon
    <3>2. WordAt(at[1]).index = at[1] - 1
      BY DEF WordAt
    <3> QED
      BY <3>1, <3>2, Zenon
  <2>4. SubSeq(page, at[1], at[1] - 1) = <<>>
    <3>1. PICK a \in 1..Len(page) : a = at[1]
      BY <1>6
    <3>2. PICK c \in Nat : c = a - 1
      BY <3>1
    <3>3. a \in Nat \ {0} /\ a <= c + 1 /\ c <= Len(page) /\ 1 \in Nat \ {0} /\ 0 \in Int
          /\ 0 <= c - a + 1 /\ c - a + 1 = 0
      BY <1>6, <3>2
    <3>4. SubSeq(page, a, c) \in Seq(Char) /\ Len(SubSeq(page, a, c)) = c - a + 1
      BY <3>3, PartOfPart
    <3>5. SubSeq(page, a, c) = <<>>
      <4> DEFINE s == SubSeq(page, a, c)
      <4>1. s \in Seq(Char) /\ Len(s) = 0
        BY <3>3, <3>4
      <4> HIDE DEF s
      <4>2. s = <<>>
        BY <4>1, EmptySeq, Zenon
      <4> QED
        BY <4>2 DEF s
    <3> QED
      BY <3>1, <3>2, <3>5, Zenon
  <2> QED
    BY <2>2, <2>3, <2>4, Zenon
<1> HIDE DEF base, Turn
<1>10. h = [k \in 0..m |-> h[k]]
  OBVIOUS
<1> HIDE DEF h
<1>11. h = After(h)
  <2>1. \A k \in 0..m : k = 0 \/ (k # 0 /\ k \in 1..m)
    BY <1>1
  <2>2. \A k \in 0..m : h[k] = Rule(h, k)
    BY <1>8, <1>9, <2>1
  <2> HIDE DEF Rule
  <2> QED
    BY <1>1, <1>10, <2>2
<1>12. g = After(g)
  <2> HIDE DEF After
  <2> QED
    BY <1>11
<1> HIDE DEF g
<1>13. g[0] = base /\ \A k \in 1..m : g[k] = Turn(k, g[k - 1])
  BY <1>1, <1>12
<1> DEFINE A == [k \in 0..m |-> {h[k]}]
<1>14. \A k \in 0..m : g[k] \in A[k]
  <2>1. g[0] \in A[0]
    BY <1>1, <1>9, <1>13
  <2>2. ASSUME NEW k \in 1..m, g[k - 1] \in A[k - 1] PROVE g[k] \in A[k]
    <3>1. k - 1 \in 0..m /\ k \in 0..m
      BY <1>1
    <3>2. g[k - 1] = h[k - 1]
      BY <2>2, <3>1
    <3>3. g[k] = h[k]
      BY <1>8, <1>13, <3>2, Zenon
    <3> QED
      BY <3>1, <3>3
  <2> HIDE DEF A
  <2> QED
    BY <1>1, <2>1, <2>2, Reaches
<1>15. m \in 0..m /\ m # 0 /\ m \in 1..m
  BY <1>1
<1>16. g[m] = h[m]
  BY <1>14, <1>15
<1>17. h[m].text = SubSeq(page, at[1], End(at[m]))
  <2>1. h[m] = [text |-> SubSeq(page, at[1], till[m]), startIndex |-> till[m]] /\ till[m] = End(at[m])
    BY <1>15 DEF h
  <2> HIDE DEF h, till
  <2>2. [text |-> SubSeq(page, at[1], till[m]), startIndex |-> till[m]].text
          = SubSeq(page, at[1], till[m])
    OBVIOUS
  <2> QED
    BY <2>1, <2>2, Zenon
<1> QED
  BY <1>1, <1>2, <1>16, <1>17, Zenon

\* A word is cut as its letters in the page say.
LEMMA IsCutIs ==
  ASSUME page \in Seq(Char), NEW i \in Starts
  PROVE  IsCut(WordAt(i)) <=> Cuts(i)
<1> DEFINE e == End(i)
           word == SubSeq(page, i, e)
<1>1. Len(page) \in Nat /\ i \in 1..Len(page) /\ e \in i..Len(page)
  BY EndOf
<1> HIDE DEF e
<1>2. /\ word \in Seq(Char) /\ Len(word) = e - i + 1
      /\ \A k \in 1..(e - i + 1) : word[k] = page[i + k - 1]
  <2>1. i \in Nat \ {0} /\ e \in Nat /\ i <= e + 1 /\ e <= Len(page) /\ 1 \in Nat \ {0}
        /\ 0 \in Int /\ 0 <= e - i + 1
    BY <1>1
  <2> QED
    BY <2>1, PartOfPart
<1> HIDE DEF word
<1>3. DOMAIN word = 1..(e - i + 1)
  BY <1>2, LenProperties
<1>4. "w" \in Range(word) <=> \E k \in i..e : page[k] = "w"
  <2>1. ASSUME NEW k \in i..e, page[k] = "w" PROVE "w" \in Range(word)
    <3>1. PICK j \in 1..(e - i + 1) : j = k - i + 1 /\ i + j - 1 = k
      BY <1>1
    <3>2. word[j] = "w"
      BY <1>2, <2>1, <3>1
    <3> QED
      BY <1>3, <3>2 DEF Range
  <2>2. ASSUME "w" \in Range(word) PROVE \E k \in i..e : page[k] = "w"
    <3>1. PICK j \in 1..(e - i + 1) : word[j] = "w"
      BY <1>3, <2>2 DEF Range
    <3>2. PICK k \in i..e : k = i + j - 1
      BY <1>1
    <3>3. page[k] = "w"
      BY <1>2, <3>1, <3>2
    <3> QED
      BY <3>3
  <2> QED
    BY <2>1, <2>2
<1>5. Worth(i) = TERM_WEIGHT <=> page[i] = "t"
  BY DEF Worth, TERM_WEIGHT, FIRST_WORD_WEIGHT, NORMAL_WORD_WEIGHT
<1>6. WordAt(i).weight = Worth(i) /\ WordAt(i).word = word
  BY DEF WordAt, word, e
<1> QED
  BY <1>2, <1>4, <1>5, <1>6, Zenon DEF IsCut, Cuts, e

\* A page none of whose letters becomes two is as long in lower case, and its
\* words are where they were.
LEMMA LowerCaseIs ==
  ASSUME page \in Seq(Char), "dotted" \notin Range(page)
  PROVE  LowerCase(page) = page
<1> DEFINE m == Len(page)
           Lower(i) == IF page[i] = "dotted" THEN <<"a", "w">> ELSE <<page[i]>>
           Rule(f, i) == IF i = 0 THEN <<>> ELSE f[i - 1] \o Lower(i)
           After(f) == [i \in 0..m |-> Rule(f, i)]
           g == CHOOSE f : f = After(f)
           h == [i \in 0..m |-> SubSeq(page, 1, i)]
<1>1. m \in Nat /\ DOMAIN page = 1..m
  BY LenProperties
<1>2. LowerCase(page) = g[m]
  BY Zenon DEF LowerCase
<1>3. ASSUME NEW i \in 1..m PROVE Lower(i) = <<page[i]>>
  <2>1. page[i] # "dotted"
    BY <1>1 DEF Range
  <2> QED
    BY <2>1, Zenon
<1>4. \A i \in 0..m : SubSeq(page, 1, i) \in Seq(Char) /\ Len(SubSeq(page, 1, i)) = i
  <2>1. ASSUME NEW i \in 0..m
        PROVE  SubSeq(page, 1, i) \in Seq(Char) /\ Len(SubSeq(page, 1, i)) = i
    <3>1. 1 \in Nat \ {0} /\ i \in Nat /\ 1 <= i + 1 /\ i <= Len(page) /\ 0 \in Int
          /\ 0 <= i - 1 + 1 /\ i - 1 + 1 = i
      BY <1>1
    <3> HIDE DEF m
    <3> QED
      BY <3>1, PartOfPart
  <2> QED
    BY <2>1
<1>5. ASSUME NEW i \in 1..m PROVE h[i] = h[i - 1] \o <<page[i]>>
  <2>1. PICK j \in 0..m : j = i - 1 /\ j + 1 = i
    BY <1>1
  <2>2. SubSeq(page, i, i) = <<page[i]>>
    <3> DEFINE t == SubSeq(page, i, i)
               u == <<page[i]>>
    <3>1. /\ i \in Nat \ {0} /\ i \in Nat /\ i <= i + 1 /\ i <= Len(page) /\ 1 \in Nat \ {0}
          /\ 0 \in Int /\ 0 <= i - i + 1 /\ i - i + 1 = 1
      BY <1>1
    <3>2. /\ t \in Seq(Char) /\ Len(t) = i - i + 1
          /\ \A k \in 1..(i - i + 1) : t[k] = page[i + k - 1]
      BY <3>1, PartOfPart
    <3>3. t \in Seq(Char) /\ Len(t) = 1 /\ t[1] = page[i]
      BY <3>1, <3>2
    <3> HIDE DEF t
    <3>4. page[i] \in Char /\ u \in Seq(Char) /\ Len(u) = 1 /\ u[1] = page[i]
      BY <1>1, ElementOfSeq
    <3> HIDE DEF u
    <3>5. \A k \in 1..Len(t) : t[k] = u[k]
      BY <3>3, <3>4
    <3>6. t = u
      BY <3>3, <3>4, <3>5, SeqEqual
    <3> QED
      BY <3>6, Zenon DEF t, u
  <2>3. /\ 1 \in Nat \ {0} /\ j \in Nat /\ i \in Nat /\ 1 <= j + 1 /\ j <= i
        /\ i <= Len(page)
    BY <1>1, <2>1
  <2>4. SubSeq(page, 1, j) \o SubSeq(page, j + 1, i) = SubSeq(page, 1, i)
    BY ONLY page \in Seq(Char), <2>3, PassagesJoin
  <2>5. h[i] = SubSeq(page, 1, i) /\ h[j] = SubSeq(page, 1, j)
    BY <1>1
  <2> HIDE DEF h
  <2> QED
    BY <2>1, <2>2, <2>4, <2>5, Zenon
<1>6. h[0] = <<>>
  <2>1. h[0] = SubSeq(page, 1, 0) /\ 0 \in 0..m
    BY <1>1
  <2>2. h[0] \in Seq(Char) /\ Len(h[0]) = 0
    BY <1>4, <2>1
  <2> HIDE DEF h
  <2> QED
    BY <2>2, EmptySeq, Zenon
<1>7. h = [i \in 0..m |-> h[i]]
  OBVIOUS
<1>8. h[m] = page
  <2>1. h[m] = SubSeq(page, 1, m) /\ m \in 0..m
    BY <1>1
  <2>2. SubSeq(page, 1, m) \in Seq(Char) /\ Len(SubSeq(page, 1, m)) = m
    BY <1>4, <2>1
  <2>3. \A i \in 1..m : SubSeq(page, 1, m)[i] = page[i]
    BY <1>1
  <2> DEFINE t == SubSeq(page, 1, m)
  <2>4. t \in Seq(Char) /\ Len(t) = Len(page) /\ \A i \in 1..Len(page) : t[i] = page[i]
    BY <2>2, <2>3
  <2> HIDE DEF t
  <2>5. t = page
    BY <2>4, SeqEqual
  <2> HIDE DEF h
  <2> QED
    BY <2>1, <2>5, Zenon DEF t
<1> HIDE DEF h, m
<1>9. h = After(h)
  <2>1. \A i \in 0..m : i = 0 \/ (i # 0 /\ i \in 1..m)
    BY <1>1
  <2>2. \A i \in 0..m : h[i] = Rule(h, i)
    BY <1>3, <1>5, <1>6, <2>1, Zenon
  <2> HIDE DEF Rule
  <2> QED
    BY <1>7, <2>2
<1>10. g = After(g)
  <2> HIDE DEF After
  <2> QED
    BY <1>9
<1> HIDE DEF g
<1>11. g[0] = <<>> /\ \A i \in 1..m : g[i] = g[i - 1] \o Lower(i)
  <2>1. g = [i \in 0..m |-> Rule(g, i)]
    BY <1>10, Zenon
  <2> HIDE DEF Rule
  <2>2. \A i \in 0..m : g[i] = Rule(g, i)
    BY <2>1
  <2>3. 0 \in 0..m /\ \A i \in 1..m : i \in 0..m /\ i # 0
    BY <1>1
  <2> QED
    BY <2>2, <2>3, Zenon DEF Rule
<1> DEFINE A == [i \in 0..m |-> {h[i]}]
<1>12. \A i \in 0..m : g[i] \in A[i]
  <2>1. g[0] \in A[0]
    BY <1>1, <1>6, <1>11
  <2>2. ASSUME NEW i \in 1..m, g[i - 1] \in A[i - 1] PROVE g[i] \in A[i]
    <3>1. i - 1 \in 0..m /\ i \in 0..m
      BY <1>1
    <3>2. g[i - 1] = h[i - 1]
      BY <2>2, <3>1
    <3>3. g[i] = h[i]
      BY <1>3, <1>5, <1>11, <3>2, Zenon
    <3> QED
      BY <3>1, <3>3
  <2> HIDE DEF A
  <2> QED
    BY <1>1, <2>1, <2>2, Reaches
<1>13. m \in 0..m
  BY <1>1
<1>14. g[m] = h[m]
  BY <1>12, <1>13
<1> QED
  BY <1>2, <1>8, <1>14, Zenon

\* The excerpt of a page whose letters keep their number in lower case is the
\* passage of the best window.
THEOREM TeaserIs ==
  ASSUME page \in Seq(Char), "dotted" \notin Range(page), Starts # {},
         \A i \in Window(Best) : ~Cuts(i)
  PROVE  MakeTeaser(page) = SubSeq(page, Best, End(Max(Window(Best))))
<1> DEFINE words == Weighted(page)
           m == Len(words)
           pos == Positions(words)
           size == Size(m)
           last == m - size
           first == MaxSumIndex(words, WindowWeights(words, size), last)
           chosen == SubSeq(words, first + 1, first + size)
           at == [k \in 1..size |-> pos[first + k]]
<1>1. /\ words \in Seq(Word) /\ Enumerates(pos, m)
      /\ \A j \in 1..m : words[j] = WordAt(pos[j])
  BY WordsEnumerated
<1>2. MakeTeaser(page) =
        IF chosen = <<>> THEN SubSeq(page, 1, Min({Len(page), TEASER_MAX_WORDS * 10}))
                         ELSE Quote(page, chosen)
  <2>1. TeaserWords(page) = chosen
    BY LowerCaseIs, Zenon DEF TeaserWords, Size
  <2> HIDE DEF chosen
  <2> QED
    BY <2>1, Zenon DEF MakeTeaser
<1> HIDE DEF words
<1>3. m \in Nat
  BY <1>1, LenProperties
<1>4. m >= 1
  <2>1. PICK p \in Starts : TRUE
    BY Zenon
  <2>2. \E j \in 1..m : pos[j] = p
    BY <1>1, Zenon DEF Enumerates
  <2> QED
    BY <1>3, <2>2
<1>6. size \in 1..m /\ last \in Nat /\ last + size = m
  <2>1. Size(m) \in 1..m
    BY <1>3, <1>4, SizeIs
  <2> HIDE DEF m
  <2> QED
    BY <1>3, <2>1
<1>7. first \in 0..last /\ Best = pos[first + 1]
  BY <1>4, BestIs DEF words
<1> HIDE DEF m, pos, size, last, first
<1>8. PICK a \in 1..m : a = first + 1
  BY <1>3, <1>6, <1>7
<1>9. PICK b \in 1..m : b = first + size
  BY <1>3, <1>6, <1>7
<1>10. a + size <= m + 1 /\ a \in 1..m /\ b \in a..m /\ a - 1 + size = b /\ b - a + 1 = size
       /\ a \in 1..(m + 1) /\ b \in 0..m /\ a <= b + 1 /\ first = a - 1
  BY <1>3, <1>6, <1>7, <1>8, <1>9
<1>11. /\ \A j \in 1..m : pos[j] \in Starts /\ pos[j] \in Nat /\ pos[j] \in 1..Len(page)
       /\ \A i, j \in 1..m : (pos[i] < pos[j] <=> i < j) /\ (pos[i] <= pos[j] <=> i <= j)
       /\ Len(page) \in Nat
  BY <1>1, PositionsOrdered
<1>12. Window(Best) = Chosen(pos, a, b)
  <2>1. Window(pos[a]) = Chosen(pos, a, a - 1 + size)
    <3>1. a + Size(m) <= m + 1
      BY <1>10 DEF size
    <3>2. Window(pos[a]) = Chosen(pos, a, a - 1 + Size(m))
      BY <1>1, <3>1, WindowIsChosen
    <3> QED
      BY <3>2 DEF size
  <2> QED
    BY <1>7, <1>8, <1>10, <2>1, Zenon
<1>13. \A j \in 1..m : pos[j] \in Chosen(pos, a, b) <=> a <= j /\ j <= b
  BY <1>1, <1>10, ChosenAre
<1>14. Max(Window(Best)) = pos[b]
  <2> DEFINE S == Window(Best)
  <2>1. pos[b] \in S
    BY <1>10, <1>12, <1>13
  <2>2. ASSUME NEW p \in S PROVE p <= pos[b] /\ p \in 0..Len(page)
    <3>1. p \in Starts
      BY DEF Window
    <3>2. PICK j \in 1..m : pos[j] = p
      BY <1>1, <3>1, Zenon DEF Enumerates
    <3>3. j <= b
      BY <1>12, <1>13, <3>2, Zenon
    <3>4. pos[j] <= pos[b]
      BY <1>11, <3>3, Zenon
    <3>5. pos[j] \in 1..Len(page)
      BY <1>11
    <3> QED
      BY <3>2, <3>4, <3>5
  <2> HIDE DEF S
  <2>3. S \in SUBSET (0..Len(page))
    BY <2>2
  <2> QED
    BY <1>11, <2>1, <2>2, <2>3, MaxIs DEF S
<1>15. Len(chosen) = size /\ \A k \in 1..size : chosen[k] = words[first + k]
  <2>1. chosen = SubSeq(words, a, b)
    BY <1>8, <1>9, Zenon
  <2>2. a \in Nat \ {0} /\ b \in Nat /\ a <= b + 1 /\ b <= Len(words) /\ 1 \in Nat \ {0}
        /\ 0 \in Int /\ 0 <= b - a + 1
    BY <1>3, <1>10 DEF m
  <2>3. /\ Len(SubSeq(words, a, b)) = b - a + 1
        /\ \A k \in 1..(b - a + 1) : SubSeq(words, a, b)[k] = words[a + k - 1]
    BY <1>1, <2>2, PartOfPart
  <2>4. \A k \in 1..size : a + k - 1 = first + k
    BY <1>3, <1>6, <1>10
  <2> HIDE DEF chosen
  <2> QED
    BY <1>10, <2>1, <2>3, <2>4
<1>16. \A k \in 1..size : first + k \in 1..m /\ a <= first + k /\ first + k <= b
  BY <1>3, <1>6, <1>7, <1>10
<1> HIDE DEF chosen
<1>17. at \in [1..size -> Starts]
  <2> HIDE DEF Starts
  <2> QED
    BY <1>11, <1>16
<1>18. \A k \in 1..size : at[k] = pos[first + k]
  OBVIOUS
<1> HIDE DEF at
<1>19. ASSUME NEW k \in 1..size PROVE chosen[k] = WordAt(at[k]) /\ ~IsCut(chosen[k])
  <2>1. PICK j \in 1..m : j = first + k /\ a <= j /\ j <= b
    BY <1>16
  <2>2. at[k] = pos[j] /\ chosen[k] = words[j] /\ words[j] = WordAt(pos[j])
    BY <1>1, <1>15, <1>18, <2>1
  <2>3. pos[j] \in Window(Best) /\ pos[j] \in Starts
    BY <1>11, <1>12, <1>13, <2>1, Zenon
  <2>4. ~Cuts(pos[j])
    BY <2>3, Zenon
  <2>5. ~IsCut(WordAt(pos[j]))
    BY <2>3, <2>4, IsCutIs
  <2> QED
    BY <2>2, <2>5, Zenon
<1>20. ASSUME NEW j \in 1..size, NEW k \in 1..size, j < k PROVE at[j] < at[k]
  <2>1. PICK x \in 1..m : x = first + j
    BY <1>16
  <2>2. PICK y \in 1..m : y = first + k
    BY <1>16
  <2>3. x < y
    BY <1>7, <1>20, <2>1, <2>2, <1>6
  <2>4. pos[x] < pos[y]
    BY <1>11, <2>3, Zenon
  <2> QED
    BY <1>18, <2>1, <2>2, <2>4, Zenon
<1>21. Quote(page, chosen) = SubSeq(page, at[1], End(at[size]))
  <2>1. size \in Nat \ {0}
    BY <1>6
  <2> QED
    BY <1>15, <1>17, <1>19, <1>20, <2>1, QuoteIs
<1>22. at[1] = Best /\ at[size] = Max(Window(Best))
  <2>1. 1 \in 1..size /\ size \in 1..size
    BY <1>6
  <2> QED
    BY <1>7, <1>9, <1>14, <1>18, <2>1, Zenon
<1>23. MakeTeaser(page) = Quote(page, chosen)
  <2>1. Len(<<>>) = 0 /\ size # 0
    BY <1>6
  <2>2. chosen # <<>>
    BY <1>15, <2>1
  <2> QED
    BY <1>2, <2>2, Zenon
<1> QED
  BY <1>21, <1>22, <1>23, Zenon
=============================================================================
