------------------------------ MODULE SeqLemmas ------------------------------
(* Induction, prefixes of a sequence, what inserting or removing an element *)
(* does to one, and filters.                                                *)
EXTENDS Naturals, Sequences, SequencesExt, SequenceTheorems, FiniteSetTheorems,
        WellFoundedInduction, TLAPS

\* Induction, with a set in the place of a predicate.
LEMMA NatInductionSet ==
  ASSUME NEW S, 0 \in S, \A n \in Nat : n \in S => n + 1 \in S
  PROVE  Nat \subseteq S
<1> DEFINE T == Nat \ S
<1> SUFFICES ASSUME T # {} PROVE FALSE
  OBVIOUS
<1>1. PICK x \in T : \A y \in T : ~(<<y, x>> \in OpToRel(<, Nat))
  BY NatLessThanWellFounded, WFMin, T \subseteq Nat, Zenon
<1>2. x # 0
  OBVIOUS
<1>3. x - 1 \in Nat /\ x - 1 < x /\ (x - 1) + 1 = x
  BY <1>2
<1>4. x - 1 \in S
  BY <1>1, <1>3 DEF OpToRel
<1> QED BY <1>3, <1>4

\* A set of indices has a greatest one.
LEMMA MaxExists ==
  ASSUME NEW n \in Nat, NEW t \in SUBSET (1..n), t # {}
  PROVE  Max(t) \in t /\ \A y \in t : Max(t) >= y
<1> DEFINE HasMax(u) == \E x \in u : \A y \in u : x >= y
           S == {k \in Nat : \A u \in SUBSET (1..k) : u # {} => HasMax(u)}
<1>1. 0 \in S
  <2>1. 1..0 = {}
    OBVIOUS
  <2> QED BY <2>1
<1>2. ASSUME NEW k \in Nat, k \in S PROVE k + 1 \in S
  <2> SUFFICES ASSUME NEW u \in SUBSET (1..(k + 1)), u # {} PROVE HasMax(u)
    OBVIOUS
  <2>1. CASE k + 1 \in u
    BY <2>1
  <2>2. CASE k + 1 \notin u
    <3>1. u \in SUBSET (1..k)
      BY <2>2
    <3> QED BY <1>2, <3>1
  <2> QED BY <2>1, <2>2
<1>3. n \in S
  <2> HIDE DEF S
  <2> QED BY <1>1, <1>2, NatInductionSet
<1>4. HasMax(t)
  BY <1>3
<1> QED BY <1>4 DEF Max

\* The first elements of a sequence, taken one by one.
LEMMA PrefixElements ==
  ASSUME NEW S, NEW s \in Seq(S)
  PROVE  /\ SubSeq(s, 1, 0) = <<>>
         /\ SubSeq(s, 1, Len(s)) = s
         /\ \A k \in 0..Len(s) : SubSeq(s, 1, k) \in Seq(S)
         /\ \A k \in Nat : k < Len(s) =>
              s[k + 1] \in S /\ SubSeq(s, 1, k + 1) = Append(SubSeq(s, 1, k), s[k + 1])
OBVIOUS

\* The first element of a sequence, and the others.
LEMMA TailElements ==
  ASSUME NEW S, NEW s \in Seq(S), s # <<>>
  PROVE  /\ Head(s) = s[1] /\ Head(s) \in S
         /\ Tail(s) \in Seq(S) /\ Len(Tail(s)) = Len(s) - 1
         /\ \A i \in 1..(Len(s) - 1) : Tail(s)[i] = s[i + 1]
OBVIOUS

\* The last elements of a sequence, taken one by one.
LEMMA SuffixElements ==
  ASSUME NEW S, NEW s \in Seq(S), NEW n \in 0..Len(s)
  PROVE  LET t == SubSeq(s, n + 1, Len(s))
         IN  /\ t \in Seq(S) /\ Len(t) = Len(s) - n
             /\ t = <<>> => n = Len(s)
             /\ t # <<>> => /\ n < Len(s) /\ Head(t) = s[n + 1]
                            /\ Tail(t) = SubSeq(s, (n + 1) + 1, Len(s))
<1> DEFINE t == SubSeq(s, n + 1, Len(s))
<1>1. t \in Seq(S) /\ Len(t) = Len(s) - n
  OBVIOUS
<1>2. ASSUME n < Len(s)
      PROVE  Head(t) = s[n + 1] /\ Tail(t) = SubSeq(s, (n + 1) + 1, Len(s))
  <2>1. n + 1 \in 1..Len(s) /\ Len(s) \in (n + 1)..Len(s)
    BY <1>2
  <2> QED BY <2>1, HeadTailOfSubSeq
<1> HIDE DEF t
<1>3. t = <<>> => n = Len(s)
  BY <1>1, EmptySeq
<1>4. t # <<>> => n < Len(s)
  BY <1>1, EmptySeq
<1> QED BY <1>1, <1>2, <1>3, <1>4 DEF t

\* A sequence is one of its elements.
LEMMA OwnElements ==
  ASSUME NEW S, NEW s \in Seq(S)
  PROVE  s \in Seq(ToSet(s))
BY DEF ToSet

\* Removing the element at an index shifts the rest down.
LEMMA RemoveAtElements ==
  ASSUME NEW S, NEW s \in Seq(S), NEW i \in 1..Len(s)
  PROVE  /\ RemoveAt(s, i) \in Seq(S)
         /\ Len(RemoveAt(s, i)) = Len(s) - 1
         /\ \A j \in 1..(Len(s) - 1) : RemoveAt(s, i)[j] = IF j < i THEN s[j] ELSE s[j + 1]
<1> DEFINE l == SubSeq(s, 1, i - 1)
           r == SubSeq(s, i + 1, Len(s))
           t == l \o r
<1>6. l \in Seq(S) /\ Len(l) = i - 1 /\ \A j \in 1..(i - 1) : l[j] = s[j]
  BY SubSeqProperties
<1>7. r \in Seq(S) /\ Len(r) = Len(s) - i /\ \A j \in 1..(Len(s) - i) : r[j] = s[i + j]
  BY SubSeqProperties
<1> HIDE DEF l, r
<1>8. /\ t \in Seq(S)
      /\ Len(t) = Len(l) + Len(r)
      /\ \A j \in 1..(Len(l) + Len(r)) : t[j] = IF j <= Len(l) THEN l[j] ELSE r[j - Len(l)]
  BY <1>6, <1>7, ConcatProperties, Zenon
<1> HIDE DEF t
<1>9. ASSUME NEW j \in 1..(Len(s) - 1)
      PROVE  t[j] = IF j < i THEN s[j] ELSE s[j + 1]
  <2>1. j \in 1..(Len(l) + Len(r))
    BY <1>6, <1>7
  <2>2. t[j] = IF j <= Len(l) THEN l[j] ELSE r[j - Len(l)]
    BY <1>8, <2>1, Zenon
  <2>3. CASE j < i
    <3>1. j <= Len(l) /\ j \in 1..(i - 1)
      BY <1>6, <2>3
    <3> QED
      BY <1>6, <2>2, <2>3, <3>1, Zenon
  <2>4. CASE ~(j < i)
    <3>1. /\ ~(j <= Len(l))
          /\ j - Len(l) \in 1..(Len(s) - i)
          /\ i + (j - Len(l)) = j + 1
      BY <1>6, <2>4
    <3> QED
      BY <1>7, <2>2, <2>4, <3>1, Zenon
  <2> QED
    BY <2>3, <2>4
<1>10. RemoveAt(s, i) = t
  BY DEF RemoveAt, l, r, t
<1> QED
  BY <1>6, <1>7, <1>8, <1>9, <1>10

\* t is s with e inserted at i: the rest is shifted up.
IsInsertion(t, s, i, e) ==
  /\ Len(t) = Len(s) + 1
  /\ \A j \in 1..(Len(s) + 1) : t[j] = IF j < i THEN s[j] ELSE IF j = i THEN e ELSE s[j - 1]

\* InsertAt inserts an element at an index.
LEMMA InsertAtElements ==
  ASSUME NEW S, NEW s \in Seq(S), NEW i \in 1..(Len(s) + 1), NEW e \in S
  PROVE  InsertAt(s, i, e) \in Seq(S) /\ IsInsertion(InsertAt(s, i, e), s, i, e)
<1> DEFINE l == SubSeq(s, 1, i - 1)
           r == SubSeq(s, i, Len(s))
           u == l \o <<e>>
           t == u \o r
<1>1. l \in Seq(S) /\ Len(l) = i - 1 /\ \A j \in 1..(i - 1) : l[j] = s[j]
  BY SubSeqProperties
<1>2. r \in Seq(S) /\ Len(r) = Len(s) - i + 1 /\ \A j \in 1..(Len(s) - i + 1) : r[j] = s[i + j - 1]
  BY SubSeqProperties
<1> HIDE DEF l, r
<1>3. u \in Seq(S) /\ Len(u) = i /\ u[i] = e /\ \A j \in 1..(i - 1) : u[j] = s[j]
  BY <1>1
<1> HIDE DEF u
<1>4. /\ t \in Seq(S)
      /\ Len(t) = Len(u) + Len(r)
      /\ \A j \in 1..(Len(u) + Len(r)) : t[j] = IF j <= Len(u) THEN u[j] ELSE r[j - Len(u)]
  BY <1>2, <1>3, ConcatProperties, Zenon
<1> HIDE DEF t
<1>5. ASSUME NEW j \in 1..(Len(s) + 1)
      PROVE  t[j] = IF j < i THEN s[j] ELSE IF j = i THEN e ELSE s[j - 1]
  <2>1. t[j] = IF j <= i THEN u[j] ELSE r[j - i]
    BY <1>2, <1>3, <1>4
  <2>2. CASE j <= i
    BY <1>3, <2>1, <2>2
  <2>3. CASE ~(j <= i)
    <3>1. j - i \in 1..(Len(s) - i + 1) /\ i + (j - i) - 1 = j - 1
      BY <2>3
    <3> QED BY <1>2, <2>1, <2>3, <3>1
  <2> QED BY <2>2, <2>3
<1>6. InsertAt(s, i, e) = t
  BY DEF InsertAt, l, r, u, t
<1> QED BY <1>2, <1>3, <1>4, <1>5, <1>6 DEF IsInsertion

\* Nothing is added by removing the element at an index.
LEMMA RemoveAtSubset ==
  ASSUME NEW S, NEW s \in Seq(S), NEW i \in 1..Len(s)
  PROVE  ToSet(RemoveAt(s, i)) \subseteq ToSet(s)
<1> DEFINE t == RemoveAt(s, i)
<1>1. /\ t \in Seq(S) /\ Len(t) = Len(s) - 1
      /\ \A j \in 1..(Len(s) - 1) : t[j] = IF j < i THEN s[j] ELSE s[j + 1]
  BY RemoveAtElements
<1> HIDE DEF t
<1> QED BY <1>1 DEF ToSet, t

\* Removing an element of a duplicate-free sequence shifts the rest down.
LEMMA RemoveFirstElements ==
  ASSUME NEW S, NEW s \in Seq(S), NEW e, IsInjective(s), e \in ToSet(s)
  PROVE  /\ RemoveFirst(s, e) \in Seq(S)
         /\ Len(RemoveFirst(s, e)) = Len(s) - 1
         /\ \E i \in 1..Len(s) :
               /\ s[i] = e
               /\ \A j \in 1..(Len(s) - 1) :
                     RemoveFirst(s, e)[j] = IF j < i THEN s[j] ELSE s[j + 1]
<1>1. PICK i \in 1..Len(s) : s[i] = e
  BY DEF ToSet
<1>2. {j \in 1..Len(s) : s[j] = e} = {i}
  BY <1>1 DEF IsInjective
<1>3. Min({i}) = i
  BY <1>1 DEF Min
<1>4. RemoveFirst(s, e) = RemoveAt(s, i)
  BY <1>1, <1>2, <1>3 DEF RemoveFirst, SelectInSeq
<1> QED
  BY <1>1, <1>4, RemoveAtElements

\* It removes the element from the set of elements and adds no duplicate.
LEMMA RemoveFirstDistinct ==
  ASSUME NEW S, NEW s \in Seq(S), NEW e, IsInjective(s), e \in ToSet(s)
  PROVE  /\ RemoveFirst(s, e) \in Seq(S)
         /\ Len(RemoveFirst(s, e)) = Len(s) - 1
         /\ IsInjective(RemoveFirst(s, e))
         /\ ToSet(RemoveFirst(s, e)) = ToSet(s) \ {e}
<1> DEFINE t == RemoveFirst(s, e)
<1>1. t \in Seq(S) /\ Len(t) = Len(s) - 1
  BY RemoveFirstElements
<1>2. PICK i \in 1..Len(s) :
         /\ s[i] = e
         /\ \A j \in 1..(Len(s) - 1) : t[j] = IF j < i THEN s[j] ELSE s[j + 1]
  BY RemoveFirstElements
<1> HIDE DEF t
<1>3. DOMAIN t = 1..(Len(s) - 1) /\ DOMAIN s = 1..Len(s)
  BY <1>1
<1>4. IsInjective(t)
  <2> DEFINE From(j) == IF j < i THEN j ELSE j + 1
  <2>1. \A j \in DOMAIN t : From(j) \in DOMAIN s /\ t[j] = s[From(j)]
    BY <1>2, <1>3
  <2>2. \A j, k \in DOMAIN t : From(j) = From(k) => j = k
    BY <1>3
  <2> HIDE DEF From
  <2>3. \A a, b \in DOMAIN s : s[a] = s[b] => a = b
    BY DEF IsInjective
  <2>4. \A j, k \in DOMAIN t : t[j] = t[k] => j = k
    BY <2>1, <2>2, <2>3
  <2> QED
    BY <2>4 DEF IsInjective
<1>5. ASSUME NEW x \in ToSet(t) PROVE x \in ToSet(s) \ {e}
  <2>1. PICK j \in 1..(Len(s) - 1) : x = t[j]
    BY <1>3, <1>5 DEF ToSet
  <2> QED
    BY <2>1, <1>2, <1>3 DEF ToSet, IsInjective
<1>6. ASSUME NEW x \in ToSet(s) \ {e} PROVE x \in ToSet(t)
  <2>1. PICK k \in 1..Len(s) : x = s[k]
    BY <1>3, <1>6 DEF ToSet
  <2>2. k # i
    BY <2>1, <1>2, <1>6
  <2>3. CASE k < i
    <3>1. k \in 1..(Len(s) - 1) /\ t[k] = x
      BY <2>1, <2>3, <1>2
    <3> QED
      BY <3>1, <1>3 DEF ToSet
  <2>4. CASE k > i
    <3>1. k - 1 \in 1..(Len(s) - 1) /\ t[k - 1] = x
      BY <2>1, <2>4, <1>2
    <3> QED
      BY <3>1, <1>3 DEF ToSet
  <2> QED
    BY <2>2, <2>3, <2>4
<1> QED
  BY <1>1, <1>4, <1>5, <1>6 DEF t

\* Appending a new element keeps the sequence free of duplicates.
LEMMA AppendDistinct ==
  ASSUME NEW S, NEW s \in Seq(S), NEW e \in S, IsInjective(s), e \notin ToSet(s)
  PROVE  /\ Append(s, e) \in Seq(S)
         /\ Len(Append(s, e)) = Len(s) + 1
         /\ IsInjective(Append(s, e))
         /\ ToSet(Append(s, e)) = ToSet(s) \cup {e}
BY DEF IsInjective, ToSet

\* A sequence without duplicates is as long as it has elements.
LEMMA DistinctCardinality ==
  ASSUME NEW S, NEW s \in Seq(S), IsInjective(s)
  PROVE  Cardinality(ToSet(s)) = Len(s)
<1>1. s \in Bijection(1..Len(s), ToSet(s))
  BY DEF Bijection, Injection, Surjection, ToSet, IsInjective
<1>2. IsFiniteSet(1..Len(s)) /\ Cardinality(1..Len(s)) = Len(s)
  <2>1. Len(s) \in Nat
    OBVIOUS
  <2> QED
    BY <2>1, FS_Interval
<1>3. ExistsBijection(1..Len(s), ToSet(s))
  BY <1>1 DEF ExistsBijection
<1> QED
  BY <1>2, <1>3, FS_Bijection

\* r is made of the first k elements of s that are in T, in their order.
Filtered(r, s, k, T) ==
  /\ \A i \in 1..Len(r) : r[i] \in T
  /\ \A i \in 1..k : s[i] \in T => \E j \in 1..Len(r) : r[j] = s[i]
  /\ \E f \in [1..Len(r) -> 1..k] :
       /\ \A i \in 1..Len(r) : r[i] = s[f[i]]
       /\ \A i, j \in 1..Len(r) : i < j => f[i] < f[j]

\* The same, for a sequence of length n.
LEMMA FilteredIntro ==
  ASSUME NEW r, NEW s, NEW k, NEW T, NEW n, Len(r) = n,
         \A i \in 1..n : r[i] \in T,
         \A i \in 1..k : s[i] \in T => \E j \in 1..n : r[j] = s[i],
         \E f \in [1..n -> 1..k] :
           /\ \A i \in 1..n : r[i] = s[f[i]]
           /\ \A i, j \in 1..n : i < j => f[i] < f[j]
  PROVE  Filtered(r, s, k, T)
BY DEF Filtered

\* Nothing is made of no elements.
LEMMA FilterStarts ==
  ASSUME NEW B, NEW s, NEW T
  PROVE  << >> \in Seq(B) /\ Filtered(<< >>, s, 0, T)
<1> DEFINE f == [i \in 1..0 |-> 1]
<1>1. Len(<< >>) = 0 /\ \A i \in 1..0 : FALSE
  OBVIOUS
<1>2. f \in [1..0 -> 1..0]
  BY <1>1
<1> HIDE DEF f
<1>3. Filtered(<< >>, s, 0, T)
  BY <1>1, <1>2 DEF Filtered
<1> QED BY <1>3

\* An element outside of T is left out,
LEMMA FilterSkips ==
  ASSUME NEW B, NEW r \in Seq(B), NEW s, NEW T, NEW k \in Nat, Filtered(r, s, k, T), s[k + 1] \notin T
  PROVE  Filtered(r, s, k + 1, T)
<1>1. PICK f \in [1..Len(r) -> 1..k] :
             /\ \A i \in 1..Len(r) : r[i] = s[f[i]]
             /\ \A i, j \in 1..Len(r) : i < j => f[i] < f[j]
  BY DEF Filtered
<1>2. f \in [1..Len(r) -> 1..(k + 1)]
  OBVIOUS
<1>3. \A i \in 1..(k + 1) : i \in 1..k \/ i = k + 1
  OBVIOUS
<1>4. \A i \in 1..(k + 1) : s[i] \in T => \E j \in 1..Len(r) : r[j] = s[i]
  BY <1>3 DEF Filtered
<1>5. \A i \in 1..Len(r) : r[i] \in T
  BY DEF Filtered
<1> QED BY <1>1, <1>2, <1>4, <1>5 DEF Filtered

\* and an element of T comes last.
LEMMA FilterTakes ==
  ASSUME NEW B, NEW r \in Seq(B), NEW s, NEW T, NEW k \in Nat, Filtered(r, s, k, T),
         s[k + 1] \in T, s[k + 1] \in B
  PROVE  Append(r, s[k + 1]) \in Seq(B) /\ Filtered(Append(r, s[k + 1]), s, k + 1, T)
<1> DEFINE n == Len(r)
           t == Append(r, s[k + 1])
<1>1. PICK f \in [1..n -> 1..k] :
             /\ \A i \in 1..n : r[i] = s[f[i]]
             /\ \A i, j \in 1..n : i < j => f[i] < f[j]
  BY DEF Filtered
<1> DEFINE g == [i \in 1..(n + 1) |-> IF i = n + 1 THEN k + 1 ELSE f[i]]
<1>2. /\ t \in Seq(B) /\ Len(t) = n + 1 /\ t[n + 1] = s[k + 1] /\ n \in Nat
      /\ \A i \in 1..n : t[i] = r[i]
  OBVIOUS
<1>3. (\A i \in 1..n : r[i] \in T) /\ (\A i \in 1..k : s[i] \in T => \E j \in 1..n : r[j] = s[i])
  BY DEF Filtered
<1> HIDE DEF n, t
<1>4. \A i \in 1..(n + 1) : i = n + 1 \/ i \in 1..n
  BY <1>2
<1>5. /\ g \in [1..(n + 1) -> 1..(k + 1)] /\ g[n + 1] = k + 1
      /\ \A i \in 1..n : g[i] = f[i] /\ g[i] \in 1..k
  BY <1>2
<1> HIDE DEF g
<1>6. \A i \in 1..(n + 1) : t[i] = s[g[i]] /\ t[i] \in T
  BY <1>1, <1>2, <1>3, <1>4, <1>5
<1>7. ASSUME NEW i \in 1..(n + 1), NEW j \in 1..(n + 1), i < j PROVE g[i] < g[j]
  <2>1. i \in 1..n
    BY <1>2, <1>7
  <2>2. CASE j = n + 1
    BY <1>5, <2>1, <2>2
  <2>3. CASE j \in 1..n
    BY <1>1, <1>5, <1>7, <2>1, <2>3
  <2> QED BY <1>4, <2>2, <2>3
<1>8. ASSUME NEW i \in 1..(k + 1), s[i] \in T PROVE \E j \in 1..(n + 1) : t[j] = s[i]
  <2>1. CASE i = k + 1
    <3>1. n + 1 \in 1..(n + 1)
      BY <1>2
    <3> QED BY <1>2, <2>1, <3>1
  <2>2. CASE i \in 1..k
    <3>1. PICK j \in 1..n : r[j] = s[i]
      BY <1>3, <1>8, <2>2
    <3>2. j \in 1..(n + 1)
      BY <1>2
    <3> QED BY <1>2, <3>1, <3>2
  <2> QED BY <2>1, <2>2
<1>9. Filtered(t, s, k + 1, T)
  <2>1. \E h \in [1..(n + 1) -> 1..(k + 1)] :
          /\ \A i \in 1..(n + 1) : t[i] = s[h[i]]
          /\ \A i, j \in 1..(n + 1) : i < j => h[i] < h[j]
    BY <1>5, <1>6, <1>7
  <2>2. \A i \in 1..(n + 1) : t[i] \in T
    BY <1>6
  <2>3. \A i \in 1..(k + 1) : s[i] \in T => \E j \in 1..(n + 1) : t[j] = s[i]
    BY <1>8
  <2>4. Len(t) = n + 1
    BY <1>2
  <2> QED BY <2>1, <2>2, <2>3, <2>4, FilteredIntro, Zenon
<1> QED BY <1>2, <1>9 DEF t
=============================================================================
