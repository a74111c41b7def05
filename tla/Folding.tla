------------------------------- MODULE Folding -------------------------------
(***************************************************************************)
(* FoldLeft of the community modules, for any operator: what it makes of   *)
(* the empty sequence and of a sequence with one more element.  A proof    *)
(* module instantiates Op with the operator that it folds.                 *)
(***************************************************************************)
EXTENDS Naturals, Sequences

CONSTANT Op(_, _)

\* The greatest element.
MaxOf(t) == CHOOSE x \in t : \A y \in t : x >= y

\* FoldLeft(Op, base, s), as the community modules define it.
Fold(base, s) ==
  LET fold[t \in SUBSET DOMAIN s] ==
        IF t = {} THEN base ELSE Op(fold[t \ {MaxOf(t)}], s[MaxOf(t)])
  IN  fold[DOMAIN s]

\* Induction, with a set in the place of a predicate.  This module only assumes
\* it, where it needs it: SeqLemmas proves it.
Induction == \A S : 0 \in S /\ (\A n \in Nat : n \in S => n + 1 \in S) => Nat \subseteq S

\* The recursion that a fold over the first n elements of s solves.
Solves(g, n, base, s) ==
  g = [t \in SUBSET (1..n) |-> IF t = {} THEN base ELSE Op(g[t \ {MaxOf(t)}], s[MaxOf(t)])]

\* Nothing is folded over the empty sequence.
THEOREM FoldEmpty ==
  ASSUME NEW base
  PROVE  Fold(base, << >>) = base
<1> DEFINE g == [t \in SUBSET (1..0) |-> base]
           h == CHOOSE h : Solves(h, 0, base, << >>)
<1>1. \A t \in SUBSET (1..0) : t = {}
  OBVIOUS
<1>2. Solves(g, 0, base, << >>)
  BY <1>1 DEF Solves
<1>3. Solves(h, 0, base, << >>)
  BY <1>2
<1>4. Fold(base, << >>) = h[1..0]
  BY DEF Fold, Solves
<1> HIDE DEF h
<1>5. 1..0 = {} /\ 1..0 \in SUBSET (1..0)
  OBVIOUS
<1> QED BY <1>3, <1>4, <1>5 DEF Solves

\* The last element is folded last: a set of numbers has a greatest one, so the
\* recursion has a solution, and two solutions agree where the elements do.
THEOREM FoldAppend ==
  ASSUME Induction, NEW B, NEW s \in Seq(B), NEW x, NEW base
  PROVE  Fold(base, Append(s, x)) = Op(Fold(base, s), x)
<1>1. ASSUME NEW n \in Nat, NEW t \in SUBSET (1..n), t # {}
      PROVE  MaxOf(t) \in t /\ \A y \in t : MaxOf(t) >= y
  <2> DEFINE HasMax(u) == \E v \in u : \A y \in u : v >= y
             S == {k \in Nat : \A u \in SUBSET (1..k) : u # {} => HasMax(u)}
  <2>1. 0 \in S
    <3>1. 1..0 = {}
      OBVIOUS
    <3> QED BY <3>1
  <2>2. ASSUME NEW k \in Nat, k \in S PROVE k + 1 \in S
    <3> SUFFICES ASSUME NEW u \in SUBSET (1..(k + 1)), u # {} PROVE HasMax(u)
      OBVIOUS
    <3>1. CASE k + 1 \in u
      BY <3>1
    <3>2. CASE k + 1 \notin u
      <4>1. u \in SUBSET (1..k)
        BY <3>2
      <4> QED BY <2>2, <4>1
    <3> QED BY <3>1, <3>2
  <2>3. n \in S
    <3> HIDE DEF S
    <3> QED BY <2>1, <2>2 DEF Induction
  <2>4. HasMax(t)
    BY <1>1, <2>3
  <2> QED BY <2>4 DEF MaxOf
<1>2. ASSUME NEW n \in Nat, NEW r
      PROVE  \E g : Solves(g, n, base, r)
  <2> DEFINE S == {k \in Nat : \E g : Solves(g, k, base, r)}
  <2>1. 0 \in S
    <3> DEFINE g == [t \in SUBSET (1..0) |-> base]
    <3>1. \A t \in SUBSET (1..0) : t = {}
      OBVIOUS
    <3>2. Solves(g, 0, base, r)
      BY <3>1 DEF Solves
    <3> QED BY <3>2
  <2>2. ASSUME NEW k \in Nat, k \in S PROVE k + 1 \in S
    <3>1. PICK h : Solves(h, k, base, r)
      BY <2>2
    <3> DEFINE g == [t \in SUBSET (1..(k + 1)) |->
                       IF k + 1 \in t THEN Op(h[t \ {k + 1}], r[k + 1]) ELSE h[t]]
               Rec(t) == IF t = {} THEN base ELSE Op(g[t \ {MaxOf(t)}], r[MaxOf(t)])
    <3>0. /\ g = [t \in SUBSET (1..(k + 1)) |-> g[t]]
          /\ \A t \in SUBSET (1..(k + 1)) :
               g[t] = IF k + 1 \in t THEN Op(h[t \ {k + 1}], r[k + 1]) ELSE h[t]
      OBVIOUS
    <3> HIDE DEF g
    <3>2. ASSUME NEW t \in SUBSET (1..(k + 1)) PROVE g[t] = Rec(t)
      <4>1. t # {} => MaxOf(t) \in t /\ \A y \in t : MaxOf(t) >= y
        <5>1. k + 1 \in Nat
          OBVIOUS
        <5> QED BY <5>1, <1>1
      <4>2. CASE k + 1 \in t
        <5>1. MaxOf(t) = k + 1
          <6>1. MaxOf(t) \in 1..(k + 1) /\ MaxOf(t) >= k + 1
            BY <4>1, <4>2
          <6> QED BY <6>1
        <5>2. t \ {k + 1} \in SUBSET (1..(k + 1)) /\ k + 1 \notin t \ {k + 1} /\ t # {}
          BY <4>2
        <5>3. g[t] = Op(h[t \ {k + 1}], r[k + 1]) /\ g[t \ {k + 1}] = h[t \ {k + 1}]
          BY <3>0, <4>2, <5>2
        <5> QED BY <5>1, <5>2, <5>3
      <4>3. CASE k + 1 \notin t
        <5>1. t \in SUBSET (1..k) /\ g[t] = h[t]
          <6>1. \A y \in t : y \in 1..k
            BY <4>3
          <6> QED BY <3>0, <4>3, <6>1
        <5>2. h[t] = IF t = {} THEN base ELSE Op(h[t \ {MaxOf(t)}], r[MaxOf(t)])
          BY <3>1, <5>1 DEF Solves
        <5>3. t \ {MaxOf(t)} \in SUBSET (1..(k + 1)) /\ k + 1 \notin t \ {MaxOf(t)}
          BY <4>3
        <5>4. g[t \ {MaxOf(t)}] = h[t \ {MaxOf(t)}]
          BY <3>0, <5>3
        <5> QED BY <5>1, <5>2, <5>4
      <4> QED BY <4>2, <4>3
    <3>3. Solves(g, k + 1, base, r)
      BY <3>0, <3>2 DEF Solves
    <3> QED BY <3>3
  <2>3. n \in S
    <3> HIDE DEF S
    <3> QED BY <2>1, <2>2 DEF Induction
  <2> QED BY <2>3
<1>3. ASSUME NEW n \in Nat, NEW m \in Nat, n <= m, NEW u, NEW r, NEW g, NEW h,
             Solves(g, m, base, u), Solves(h, n, base, r), \A i \in 1..n : u[i] = r[i]
      PROVE  \A t \in SUBSET (1..n) : g[t] = h[t]
  <2> DEFINE S == {k \in Nat : k <= n => \A t \in SUBSET (1..k) : g[t] = h[t]}
  <2>1. \A t \in SUBSET (1..n) :
          /\ g[t] = IF t = {} THEN base ELSE Op(g[t \ {MaxOf(t)}], u[MaxOf(t)])
          /\ h[t] = IF t = {} THEN base ELSE Op(h[t \ {MaxOf(t)}], r[MaxOf(t)])
    <3>1. SUBSET (1..n) \subseteq SUBSET (1..m)
      BY <1>3
    <3> QED BY <1>3, <3>1 DEF Solves
  <2>2. 0 \in S
    <3>1. \A t \in SUBSET (1..0) : t = {} /\ t \in SUBSET (1..n)
      OBVIOUS
    <3> QED BY <2>1, <3>1
  <2>3. ASSUME NEW k \in Nat, k \in S PROVE k + 1 \in S
    <3>1. ASSUME k + 1 <= n, NEW t \in SUBSET (1..(k + 1)) PROVE g[t] = h[t]
      <4>0. t \in SUBSET (1..n)
        <5>1. 1..(k + 1) \subseteq 1..n
          BY <3>1
        <5> QED BY <5>1
      <4>1. t # {} => MaxOf(t) \in t /\ \A y \in t : MaxOf(t) >= y
        BY <4>0, <1>1
      <4>2. CASE t = {}
        BY <2>1, <4>0, <4>2
      <4>3. CASE t # {}
        <5>1. t \ {MaxOf(t)} \in SUBSET (1..k)
          <6>1. ASSUME NEW y \in t \ {MaxOf(t)} PROVE y \in 1..k
            <7>1. y \in 1..(k + 1) /\ MaxOf(t) \in 1..(k + 1) /\ MaxOf(t) >= y /\ y # MaxOf(t)
              BY <4>1, <4>3
            <7> QED BY <7>1
          <6> QED BY <6>1
        <5>2. g[t \ {MaxOf(t)}] = h[t \ {MaxOf(t)}]
          BY <2>3, <3>1, <5>1
        <5>3. u[MaxOf(t)] = r[MaxOf(t)]
          BY <1>3, <4>0, <4>1, <4>3
        <5> QED BY <2>1, <4>0, <4>3, <5>2, <5>3
      <4> QED BY <4>2, <4>3
    <3>2. k + 1 <= n => \A t \in SUBSET (1..(k + 1)) : g[t] = h[t]
      BY <3>1
    <3> QED BY <3>2
  <2>4. n \in S
    <3> HIDE DEF S
    <3> QED BY <2>2, <2>3 DEF Induction
  <2> QED BY <2>4
<1>4. ASSUME NEW n \in Nat, NEW u, DOMAIN u = 1..n
      PROVE  \E g : Solves(g, n, base, u) /\ Fold(base, u) = g[1..n]
  <2> DEFINE g == CHOOSE g : Solves(g, n, base, u)
  <2>1. Solves(g, n, base, u)
    BY <1>2
  <2>2. Fold(base, u) = g[1..n]
    BY <1>4 DEF Fold, Solves
  <2> QED BY <2>1, <2>2
<1> DEFINE n == Len(s)
           a == Append(s, x)
<1>5. n \in Nat /\ DOMAIN s = 1..n
  OBVIOUS
<1>6. s \in Seq(B \cup {x})
  OBVIOUS
<1>7. DOMAIN a = 1..(n + 1) /\ a[n + 1] = x /\ \A i \in 1..n : a[i] = s[i]
  BY <1>6
<1> HIDE DEF a
<1>8. PICK g : Solves(g, n + 1, base, a) /\ Fold(base, a) = g[1..(n + 1)]
  BY <1>5, <1>7, <1>4
<1>9. PICK h : Solves(h, n, base, s) /\ Fold(base, s) = h[1..n]
  BY <1>5, <1>4
<1>10. MaxOf(1..(n + 1)) = n + 1 /\ (1..(n + 1)) \ {n + 1} = 1..n /\ 1..(n + 1) # {}
  <2>1. 1..(n + 1) # {} /\ (1..(n + 1)) \ {n + 1} = 1..n
    BY <1>5
  <2>2. MaxOf(1..(n + 1)) \in 1..(n + 1) /\ \A y \in 1..(n + 1) : MaxOf(1..(n + 1)) >= y
    <3> HIDE DEF n
    <3>1. n + 1 \in Nat /\ 1..(n + 1) \in SUBSET (1..(n + 1))
      BY <1>5
    <3> QED BY <2>1, <3>1, <1>1
  <2> QED BY <1>5, <2>1, <2>2
<1>11. g[1..(n + 1)] = Op(g[1..n], a[n + 1])
  BY <1>8, <1>10 DEF Solves
<1>12. g[1..n] = h[1..n]
  BY <1>5, <1>7, <1>8, <1>9, <1>3
<1> QED BY <1>7, <1>8, <1>9, <1>11, <1>12 DEF a

\* A turn hands on what R says of one prefix of the sequence to the next one.
HandsOn(R, s) ==
  \A k \in Nat : \A a : k < Len(s) /\ <<k, a>> \in R => <<k + 1, Op(a, s[k + 1])>> \in R

\* What holds of the base, and what every turn hands on from one prefix of the
\* sequence to the next, holds of the fold.
THEOREM FoldPrefixes ==
  ASSUME Induction, NEW B, NEW s \in Seq(B), NEW base, NEW R, <<0, base>> \in R, HandsOn(R, s)
  PROVE  <<Len(s), Fold(base, s)>> \in R
<1> DEFINE P(k) == SubSeq(s, 1, k)
           S == {k \in Nat : k <= Len(s) => <<k, Fold(base, P(k))>> \in R}
<1>1. 0 \in S
  <2>1. P(0) = << >>
    OBVIOUS
  <2> QED BY <2>1, FoldEmpty
<1>2. ASSUME NEW k \in Nat, k \in S PROVE k + 1 \in S
  <2>1. ASSUME k + 1 <= Len(s) PROVE <<k + 1, Fold(base, P(k + 1))>> \in R
    <3>1. P(k) \in Seq(B) /\ s[k + 1] \in B /\ P(k + 1) = Append(P(k), s[k + 1])
      BY <2>1
    <3>2. <<k, Fold(base, P(k))>> \in R /\ k < Len(s)
      BY <1>2, <2>1
    <3> HIDE DEF P
    <3>3. Fold(base, P(k + 1)) = Op(Fold(base, P(k)), s[k + 1])
      BY <3>1, FoldAppend
    <3> QED BY <3>2, <3>3 DEF HandsOn
  <2> QED BY <2>1
<1>3. Len(s) \in S
  <2> HIDE DEF S
  <2> QED BY <1>1, <1>2 DEF Induction
<1>4. Len(s) \in Nat /\ P(Len(s)) = s
  OBVIOUS
<1> HIDE DEF P
<1>5. <<Len(s), Fold(base, P(Len(s)))>> \in R
  BY <1>3, <1>4
<1> QED BY <1>4, <1>5

\* A fold over a prefix of the sequence, one element longer at a time.
THEOREM FoldSteps ==
  ASSUME Induction, NEW B, NEW s \in Seq(B), NEW base
  PROVE  /\ Fold(base, SubSeq(s, 1, 0)) = base
         /\ \A k \in Nat : k < Len(s) =>
              Fold(base, SubSeq(s, 1, k + 1)) = Op(Fold(base, SubSeq(s, 1, k)), s[k + 1])
         /\ SubSeq(s, 1, Len(s)) = s
<1> DEFINE P(k) == SubSeq(s, 1, k)
<1>1. P(0) = << >> /\ P(Len(s)) = s
  OBVIOUS
<1>2. ASSUME NEW k \in Nat, k < Len(s) PROVE Fold(base, P(k + 1)) = Op(Fold(base, P(k)), s[k + 1])
  <2>1. P(k) \in Seq(B) /\ s[k + 1] \in B /\ P(k + 1) = Append(P(k), s[k + 1])
    BY <1>2
  <2> HIDE DEF P
  <2> QED BY <2>1, FoldAppend
<1> QED BY <1>1, <1>2, FoldEmpty
=============================================================================
