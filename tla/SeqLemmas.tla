----------------------------- MODULE SeqLemmas -----------------------------
(***************************************************************************)
(* Facts about the sequences that stand for the Vecs of the code: what     *)
(* pushing at the end and consuming at the front do to the set of elements *)
(* and to the absence of duplicates.                                       *)
(***************************************************************************)
EXTENDS Naturals, SequencesExt, SequenceTheorems, FiniteSetTheorems, TLAPS

\* The orders of a finite set are duplicate-free sequences of its elements.
LEMMA OrderOfSet ==
  ASSUME NEW S, IsFiniteSet(S), NEW q \in SetToSeqs(S)
  PROVE  /\ q \in Seq(S)
         /\ IsInjective(q)
         /\ ToSet(q) = S
<1> DEFINE n == Cardinality(S)
<1>1. n \in Nat
  BY FS_CardinalityType
<1>2. q \in [1..n -> S] /\ \A i, j \in 1..n : i # j => q[i] # q[j]
  BY DEF SetToSeqs
<1>3. q \in Seq(S) /\ IsInjective(q)
  BY <1>1, <1>2 DEF IsInjective
<1>4. ToSet(q) \subseteq S
  BY <1>2 DEF ToSet
<1>5. q \in Injection(1..n, ToSet(q)) /\ q \in Surjection(1..n, ToSet(q))
  BY <1>2, <1>3 DEF ToSet, Injection, Surjection, IsInjective
<1>6. Cardinality(ToSet(q)) = n
  <2>1. q \in Bijection(1..n, ToSet(q))
    BY <1>5 DEF Bijection
  <2>2. ExistsBijection(1..n, ToSet(q))
    BY <2>1 DEF ExistsBijection
  <2> QED
    BY <2>2, <1>1, FS_CountingElements
<1> QED
  BY <1>3, <1>4, <1>6, FS_Subset

\* Taking the first element off.
LEMMA TakeFirst ==
  ASSUME NEW S, NEW q \in Seq(S), q # <<>>
  PROVE  /\ Head(q) \in S
         /\ Tail(q) \in Seq(S)
         /\ ToSet(q) = {Head(q)} \cup ToSet(Tail(q))
         /\ IsInjective(q) => IsInjective(Tail(q)) /\ Head(q) \notin ToSet(Tail(q))
<1>1. Len(q) \in Nat \ {0} /\ DOMAIN q = 1..Len(q) /\ Head(q) = q[1]
  BY EmptySeq, LenProperties, HeadTailProperties
<1>2. Tail(q) \in Seq(S) /\ Len(Tail(q)) = Len(q) - 1 /\ Head(q) \in S
  BY HeadTailProperties
<1>3. \A i \in 1..(Len(q) - 1) : Tail(q)[i] = q[i + 1]
  BY HeadTailProperties
<1>4. DOMAIN Tail(q) = 1..(Len(q) - 1)
  BY <1>2, LenProperties
<1>5. ToSet(q) \subseteq {Head(q)} \cup ToSet(Tail(q))
  <2> SUFFICES ASSUME NEW i \in 1..Len(q), i # 1 PROVE q[i] \in ToSet(Tail(q))
    BY <1>1 DEF ToSet
  <2>1. i - 1 \in 1..(Len(q) - 1) /\ (i - 1) + 1 = i
    BY <1>1
  <2> QED
    BY <2>1, <1>3, <1>4 DEF ToSet
<1>6. {Head(q)} \cup ToSet(Tail(q)) \subseteq ToSet(q)
  BY <1>1, <1>3, <1>4 DEF ToSet
<1>7. ASSUME IsInjective(q)
      PROVE  IsInjective(Tail(q)) /\ Head(q) \notin ToSet(Tail(q))
  BY <1>1, <1>3, <1>4, <1>7 DEF IsInjective, ToSet
<1> QED
  BY <1>2, <1>5, <1>6, <1>7

\* Pushing an element at the end.
LEMMA Push ==
  ASSUME NEW S, NEW q \in Seq(S), NEW x \in S
  PROVE  /\ Append(q, x) \in Seq(S)
         /\ ToSet(Append(q, x)) = ToSet(q) \cup {x}
         /\ IsInjective(q) /\ x \notin ToSet(q) => IsInjective(Append(q, x))
<1>1. /\ Append(q, x) \in Seq(S)
      /\ Len(q) \in Nat
      /\ DOMAIN q = 1..Len(q)
      /\ DOMAIN Append(q, x) = 1..(Len(q) + 1)
      /\ \A i \in 1..Len(q) : Append(q, x)[i] = q[i]
      /\ Append(q, x)[Len(q) + 1] = x
  BY AppendProperties, LenProperties
<1>2. ToSet(Append(q, x)) = ToSet(q) \cup {x}
  BY <1>1 DEF ToSet
<1>3. ASSUME IsInjective(q), x \notin ToSet(q) PROVE IsInjective(Append(q, x))
  BY <1>1, <1>3 DEF IsInjective, ToSet
<1> QED
  BY <1>1, <1>2, <1>3

\* Popping the last element.
LEMMA TakeLast ==
  ASSUME NEW S, NEW q \in Seq(S), q # <<>>
  PROVE  /\ Last(q) \in S
         /\ Front(q) \in Seq(S)
         /\ ToSet(q) = ToSet(Front(q)) \cup {Last(q)}
<1>1. Len(q) \in Nat \ {0} /\ DOMAIN q = 1..Len(q) /\ \A i \in 1..Len(q) : q[i] \in S
  BY EmptySeq, LenProperties, ElementOfSeq
<1>2. Last(q) \in S
  BY <1>1 DEF Last
<1>3. /\ Front(q) \in Seq(S)
      /\ Len(Front(q)) = Len(q) - 1
      /\ \A i \in 1..(Len(q) - 1) : Front(q)[i] = q[i]
  <2>1. \A i \in 1..(Len(q) - 1) : q[i] \in S
    BY <1>1
  <2>2. /\ SubSeq(q, 1, Len(q) - 1) \in Seq(S)
        /\ Len(SubSeq(q, 1, Len(q) - 1)) = IF 1 <= Len(q) - 1 THEN (Len(q) - 1) - 1 + 1 ELSE 0
        /\ \A i \in 1..((Len(q) - 1) - 1 + 1) : SubSeq(q, 1, Len(q) - 1)[i] = q[1 + i - 1]
    BY <1>1, <2>1, SubSeqProperties
  <2> QED
    BY <1>1, <2>2 DEF Front
<1>4. DOMAIN Front(q) = 1..(Len(q) - 1)
  BY <1>3, LenProperties
<1>5. 1..Len(q) = (1..(Len(q) - 1)) \cup {Len(q)}
  BY <1>1
<1>6. ToSet(q) = ToSet(Front(q)) \cup {Last(q)}
  BY <1>1, <1>3, <1>4, <1>5 DEF ToSet, Last
<1> QED
  BY <1>2, <1>3, <1>6

\* What a sequence contains after a push.
LEMMA ContainsPushed ==
  ASSUME NEW S, NEW q \in Seq(S), NEW x \in S, NEW y
  PROVE  Contains(Append(q, x), y) <=> Contains(q, y) \/ y = x
<1>1. /\ Len(q) \in Nat
      /\ Len(Append(q, x)) = Len(q) + 1
      /\ \A i \in 1..Len(q) : Append(q, x)[i] = q[i]
      /\ Append(q, x)[Len(q) + 1] = x
  BY AppendProperties, LenProperties
<1>2. 1..(Len(q) + 1) = (1..Len(q)) \cup {Len(q) + 1}
  BY <1>1
<1> QED
  BY <1>1, <1>2 DEF Contains

-----------------------------------------------------------------------------
\* A prefix, element by element.
LEMMA PrefixPointwise ==
  ASSUME NEW S, NEW q \in Seq(S), NEW r \in Seq(S)
  PROVE  IsPrefix(q, r) <=> Len(q) <= Len(r) /\ \A i \in 1..Len(q) : q[i] = r[i]
<1> DEFINE n == Len(q)
<1>1. n \in Nat /\ Len(r) \in Nat /\ \A i \in 1..Len(r) : r[i] \in S
  BY LenProperties, ElementOfSeq
<1>2. SubSeq(q, 1, n) = q
  BY SubSeqFull
<1> SUFFICES ASSUME n <= Len(r)
             PROVE  SubSeq(r, 1, n) = q <=> \A i \in 1..n : q[i] = r[i]
  BY <1>2 DEF IsPrefix
<1>3. /\ SubSeq(r, 1, n) \in Seq(S)
      /\ Len(SubSeq(r, 1, n)) = n
      /\ \A i \in 1..n : SubSeq(r, 1, n)[i] = r[i]
  <2>1. \A i \in 1..n : r[i] \in S
    BY <1>1
  <2>2. /\ SubSeq(r, 1, n) \in Seq(S)
        /\ Len(SubSeq(r, 1, n)) = IF 1 <= n THEN n - 1 + 1 ELSE 0
        /\ \A i \in 1..(n - 1 + 1) : SubSeq(r, 1, n)[i] = r[1 + i - 1]
    BY <1>1, <2>1, SubSeqProperties
  <2> QED
    BY <1>1, <2>2
<1>4. ASSUME \A i \in 1..n : q[i] = r[i] PROVE SubSeq(r, 1, n) = q
  BY <1>3, <1>4, SeqEqual
<1> QED
  BY <1>3, <1>4

\* Every sequence is a prefix of itself.
LEMMA PrefixReflexive ==
  ASSUME NEW S, NEW q \in Seq(S)
  PROVE  IsPrefix(q, q)
BY PrefixPointwise, LenProperties

\* A prefix of a prefix is a prefix.
LEMMA PrefixTransitive ==
  ASSUME NEW S, NEW q \in Seq(S), NEW r \in Seq(S), NEW s \in Seq(S),
         IsPrefix(q, r), IsPrefix(r, s)
  PROVE  IsPrefix(q, s)
BY PrefixPointwise, LenProperties

\* Of two prefixes of the same sequence, one is a prefix of the other.
LEMMA PrefixesCompare ==
  ASSUME NEW S, NEW q \in Seq(S), NEW r \in Seq(S), NEW s \in Seq(S),
         IsPrefix(q, s), IsPrefix(r, s)
  PROVE  IsPrefix(q, r) \/ IsPrefix(r, q)
BY PrefixPointwise, LenProperties

\* A sequence is a prefix of itself with one more element.
LEMMA PrefixOfPushed ==
  ASSUME NEW S, NEW q \in Seq(S), NEW x \in S
  PROVE  IsPrefix(q, Append(q, x))
<1> DEFINE t == Append(q, x)
<1>1. /\ t \in Seq(S) /\ Len(q) \in Nat /\ Len(t) = Len(q) + 1
      /\ \A i \in 1..Len(q) : q[i] = t[i]
  BY AppendProperties, LenProperties
<1> HIDE DEF t
<1>2. IsPrefix(q, t)
  BY <1>1, PrefixPointwise
<1> QED
  BY <1>2 DEF t

\* A sequence is a prefix of itself with others behind it.
LEMMA PrefixOfConcat ==
  ASSUME NEW S, NEW q \in Seq(S), NEW r \in Seq(S)
  PROVE  IsPrefix(q, q \o r)
<1> DEFINE t == q \o r
<1>1. /\ Len(q) \in Nat /\ Len(r) \in Nat
      /\ t \in Seq(S) /\ Len(t) = Len(q) + Len(r)
      /\ \A i \in 1..Len(q) : q[i] = t[i]
  BY ConcatProperties, LenProperties
<1> HIDE DEF t
<1>2. IsPrefix(q, t)
  BY <1>1, PrefixPointwise
<1> QED
  BY <1>2 DEF t

\* Moving the first element of one sequence to the end of another.
LEMMA MoveHead ==
  ASSUME NEW S, NEW q \in Seq(S), NEW r \in Seq(S), r # <<>>
  PROVE  Append(q, Head(r)) \o Tail(r) = q \o r
<1>1. /\ Head(r) \in S /\ Tail(r) \in Seq(S) /\ Len(Tail(r)) = Len(r) - 1
      /\ Head(r) = r[1] /\ Len(r) \in Nat \ {0} /\ Len(q) \in Nat
      /\ \A i \in 1..(Len(r) - 1) : Tail(r)[i] = r[i + 1]
  BY HeadTailProperties, EmptySeq, LenProperties
<1>2. /\ Append(q, Head(r)) \in Seq(S)
      /\ Len(Append(q, Head(r))) = Len(q) + 1
      /\ \A i \in 1..Len(q) : Append(q, Head(r))[i] = q[i]
      /\ Append(q, Head(r))[Len(q) + 1] = r[1]
  BY <1>1, AppendProperties
<1> DEFINE a == Append(q, Head(r)) \o Tail(r)
           b == q \o r
<1>3. /\ a \in Seq(S) /\ Len(a) = Len(q) + Len(r)
      /\ \A i \in 1..(Len(q) + Len(r)) :
           a[i] = IF i <= Len(q) + 1 THEN Append(q, Head(r))[i] ELSE Tail(r)[i - (Len(q) + 1)]
  <2>1. /\ a \in Seq(S) /\ Len(a) = Len(Append(q, Head(r))) + Len(Tail(r))
        /\ \A i \in 1..(Len(Append(q, Head(r))) + Len(Tail(r))) :
             a[i] = IF i <= Len(Append(q, Head(r)))
                      THEN Append(q, Head(r))[i] ELSE Tail(r)[i - Len(Append(q, Head(r)))]
    BY <1>1, <1>2, ConcatProperties
  <2>2. Len(Append(q, Head(r))) + Len(Tail(r)) = Len(q) + Len(r)
    BY <1>1, <1>2
  <2> QED
    BY <2>1, <2>2, <1>2
<1>4. /\ b \in Seq(S) /\ Len(b) = Len(q) + Len(r)
      /\ \A i \in 1..(Len(q) + Len(r)) : b[i] = IF i <= Len(q) THEN q[i] ELSE r[i - Len(q)]
  BY ConcatProperties
<1>5. ASSUME NEW i \in 1..Len(a) PROVE a[i] = b[i]
  <2>1. CASE i <= Len(q)
    BY <2>1, <1>1, <1>2, <1>3, <1>4
  <2>2. CASE i = Len(q) + 1
    BY <2>2, <1>1, <1>2, <1>3, <1>4
  <2>3. CASE i > Len(q) + 1
    <3>1. i - (Len(q) + 1) \in 1..(Len(r) - 1) /\ (i - (Len(q) + 1)) + 1 = i - Len(q)
      BY <2>3, <1>1, <1>3
    <3>2. a[i] = r[i - Len(q)]
      BY <2>3, <3>1, <1>1, <1>3
    <3> QED
      BY <2>3, <3>2, <1>1, <1>3, <1>4
  <2> QED
    BY <2>1, <2>2, <2>3, <1>1, <1>3
<1> QED
  BY <1>3, <1>4, <1>5, SeqEqual

-----------------------------------------------------------------------------
\* Contains, of SequencesExt, is membership in the set of the elements.
LEMMA ContainsIsMember ==
  ASSUME NEW S, NEW q \in Seq(S), NEW x
  PROVE  Contains(q, x) <=> x \in ToSet(q)
BY LenProperties DEF Contains, ToSet

\* What the concatenation holds, and in which order: two elements were in
\* this order in the first sequence, or the later one is of the second.
LEMMA PushAll ==
  ASSUME NEW S, NEW q \in Seq(S), NEW r \in Seq(S)
  PROVE  /\ q \o r \in Seq(S)
         /\ ToSet(q \o r) = ToSet(q) \cup ToSet(r)
         /\ \A i, j \in DOMAIN (q \o r) : i < j =>
              \/ /\ i \in DOMAIN q /\ j \in DOMAIN q
                 /\ (q \o r)[i] = q[i] /\ (q \o r)[j] = q[j]
              \/ (q \o r)[i] \in ToSet(q) \cup ToSet(r) /\ (q \o r)[j] \in ToSet(r)
<1> DEFINE t == q \o r
<1>1. /\ Len(q) \in Nat /\ Len(r) \in Nat
      /\ DOMAIN q = 1..Len(q) /\ DOMAIN r = 1..Len(r)
      /\ t \in Seq(S) /\ DOMAIN t = 1..(Len(q) + Len(r))
      /\ \A i \in 1..Len(q) : t[i] = q[i]
      /\ \A i \in (Len(q) + 1)..(Len(q) + Len(r)) : t[i] = r[i - Len(q)]
  BY ConcatProperties, LenProperties
<1>2. \A i \in 1..Len(r) : t[Len(q) + i] = r[i] /\ Len(q) + i \in 1..(Len(q) + Len(r))
  BY <1>1
<1> HIDE DEF t
<1>3. \A i \in DOMAIN t :
        \/ i \in DOMAIN q /\ t[i] = q[i]
        \/ i - Len(q) \in DOMAIN r /\ t[i] = r[i - Len(q)]
  BY <1>1
<1>4. ToSet(t) = ToSet(q) \cup ToSet(r)
  <2>1. \A i \in DOMAIN t : t[i] \in ToSet(q) \cup ToSet(r)
    BY <1>3 DEF ToSet
  <2>2. \A i \in DOMAIN q : q[i] \in ToSet(t)
    BY <1>1 DEF ToSet
  <2>3. \A i \in DOMAIN r : r[i] \in ToSet(t)
    BY <1>1, <1>2 DEF ToSet
  <2> QED
    BY <2>1, <2>2, <2>3 DEF ToSet
<1>5. ASSUME NEW i \in DOMAIN t, NEW j \in DOMAIN t, i < j
      PROVE  \/ /\ i \in DOMAIN q /\ j \in DOMAIN q
                /\ t[i] = q[i] /\ t[j] = q[j]
             \/ t[i] \in ToSet(q) \cup ToSet(r) /\ t[j] \in ToSet(r)
  <2>1. t[i] \in ToSet(q) \cup ToSet(r)
    BY <1>3 DEF ToSet
  <2>2. CASE j \in DOMAIN q
    BY <1>1, <1>5, <2>2
  <2>3. CASE j \notin DOMAIN q
    BY <1>3, <2>1, <2>3 DEF ToSet
  <2> QED
    BY <2>2, <2>3
<1> QED
  BY <1>1, <1>4, <1>5 DEF t

\* The last element and what is before it, by position.
LEMMA FrontByPosition ==
  ASSUME NEW S, NEW q \in Seq(S), q # <<>>
  PROVE  /\ DOMAIN Front(q) \subseteq DOMAIN q
         /\ Len(q) \in DOMAIN q /\ Len(q) \notin DOMAIN Front(q)
         /\ \A i \in DOMAIN Front(q) : Front(q)[i] = q[i] /\ i < Len(q)
         /\ Last(q) = q[Len(q)]
<1>1. Len(q) \in Nat \ {0} /\ DOMAIN q = 1..Len(q) /\ \A i \in 1..Len(q) : q[i] \in S
  BY EmptySeq, LenProperties, ElementOfSeq
<1>2. /\ Len(Front(q)) = Len(q) - 1
      /\ DOMAIN Front(q) = 1..(Len(q) - 1)
      /\ \A i \in 1..(Len(q) - 1) : Front(q)[i] = q[i]
  <2>1. 1 \in 1..(Len(q) + 1) /\ Len(q) - 1 \in 0..Len(q)
    BY <1>1
  <2> QED
    BY <1>1, <2>1, SubSeqProperties, LenProperties DEF Front
<1> QED
  BY <1>1, <1>2 DEF Last
=============================================================================
