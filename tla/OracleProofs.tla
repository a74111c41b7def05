----------------------------- MODULE OracleProofs -----------------------------
(***************************************************************************)
(* Theorems about x/oracle, for every set of messages, every genesis file  *)
(* and every number of oracles: a minority of the oracles cannot move the  *)
(* price, clients and contracts are told the same price, and the exported  *)
(* prices are ones that InitGenesis accepts.                               *)
(***************************************************************************)
EXTENDS Oracle, SeqLemmas

AskFold == INSTANCE Folding WITH Op <- InsertByAsk
BidFold == INSTANCE Folding WITH Op <- InsertByBid
AssetFold == INSTANCE Folding WITH Op <- UpdateAsset

Posted == [oracle : Addresses, ask : Nat, bid : Nat, at : Int]

Price == [ask : Nat, bid : Nat, at : Int]

-------------------------------------------------------------------------------
(* Sorting the prices of a block *)

\* What a posted price holds.
LEMMA PostedFields ==
  \A x \in Posted : x.oracle \in Addresses /\ x.ask \in Nat /\ x.bid \in Nat /\ x.at \in Int
BY DEF Posted

\* No two of the first k prices are of one oracle.
OneEach(s, k) == \A i, j \in 1..k : s[i].oracle = s[j].oracle => i = j

\* r has the first k prices of s in some order.
Rearranges(r, s, k) ==
  /\ r \in Seq(Posted) /\ Len(r) = k
  /\ \A i \in 1..k : \E j \in 1..k : r[i] = s[j]
  /\ OneEach(s, k) => OneEach(r, k)

\* What the prices are sorted by.
AskOf == [x \in Posted |-> x.ask]

BidOf == [x \in Posted |-> x.bid]

Ascending(s, key) == \A i, j \in 1..Len(s) : i <= j => key[s[i]] <= key[s[j]]

\* Inserting the next price, wherever it goes, leaves a rearrangement.
LEMMA InsertRearranges ==
  ASSUME NEW s \in Seq(Posted), NEW k \in Nat, k < Len(s), NEW r, Rearranges(r, s, k),
         NEW p \in 1..(k + 1)
  PROVE  Rearranges(InsertAt(r, p, s[k + 1]), s, k + 1)
<1> DEFINE t == InsertAt(r, p, s[k + 1])
<1>1. s[k + 1] \in Posted /\ r \in Seq(Posted) /\ Len(r) = k
  BY DEF Rearranges
<1>2. /\ t \in Seq(Posted) /\ Len(t) = k + 1
      /\ \A j \in 1..(k + 1) : t[j] = IF j < p THEN r[j] ELSE IF j = p THEN s[k + 1] ELSE r[j - 1]
  <2>1. p \in 1..(Len(r) + 1)
    BY <1>1
  <2>2. t \in Seq(Posted) /\ IsInsertion(t, r, p, s[k + 1])
    BY <1>1, <2>1, InsertAtElements
  <2> HIDE DEF t
  <2> QED BY <1>1, <2>2 DEF IsInsertion
<1> HIDE DEF t
<1>3. ASSUME NEW i \in 1..(k + 1) PROVE \E j \in 1..(k + 1) : t[i] = s[j]
  <2>1. ASSUME NEW m \in 1..k PROVE \E j \in 1..(k + 1) : r[m] = s[j]
    <3>1. PICK j \in 1..k : r[m] = s[j]
      BY DEF Rearranges
    <3> QED BY <3>1
  <2>2. CASE i = p
    BY <1>2, <2>2
  <2>3. CASE i < p
    <3>1. i \in 1..k /\ t[i] = r[i]
      BY <1>2, <2>3
    <3> QED BY <2>1, <3>1
  <2>4. CASE i > p
    <3>1. i - 1 \in 1..k /\ t[i] = r[i - 1]
      BY <1>2, <2>4
    <3> QED BY <2>1, <3>1
  <2> QED BY <2>2, <2>3, <2>4
<1>4. ASSUME OneEach(s, k + 1) PROVE OneEach(t, k + 1)
  <2>1. OneEach(r, k)
    <3>1. OneEach(s, k)
      BY <1>4 DEF OneEach
    <3> QED BY <3>1 DEF Rearranges
  <2>2. ASSUME NEW m \in 1..k PROVE r[m].oracle # s[k + 1].oracle
    <3>1. PICK j \in 1..k : r[m] = s[j]
      BY DEF Rearranges
    <3>2. j \in 1..(k + 1) /\ k + 1 \in 1..(k + 1) /\ j # k + 1
      OBVIOUS
    <3> QED BY <1>4, <3>1, <3>2 DEF OneEach
  <2> SUFFICES ASSUME NEW i \in 1..(k + 1), NEW j \in 1..(k + 1), t[i].oracle = t[j].oracle
               PROVE  i = j
    BY DEF OneEach
  <2> DEFINE Was(n) == IF n < p THEN n ELSE n - 1
  <2>3. \A n \in 1..(k + 1) : n # p => Was(n) \in 1..k /\ t[n] = r[Was(n)]
    BY <1>2
  <2>4. t[p] = s[k + 1]
    BY <1>2
  <2>5. \A n \in 1..(k + 1) : n # p => t[n].oracle # t[p].oracle
    BY <2>2, <2>3, <2>4
  <2>6. CASE i # p /\ j # p
    <3>1. Was(i) = Was(j)
      BY <2>1, <2>3, <2>6 DEF OneEach
    <3> QED BY <2>6, <3>1
  <2> QED BY <2>5, <2>6
<1> QED BY <1>2, <1>3, <1>4 DEF Rearranges, t

\* After the first p prices is where x goes.
Belongs(s, key, p, x) ==
  /\ p > 0 => key[s[p]] <= key[x]
  /\ \A j \in 1..Len(s) : j > p => key[x] < key[s[j]]

\* Where an insertion by ask price stops: no later price is as low.
LEMMA AskPosition ==
  ASSUME NEW s \in Seq(Posted), NEW x \in Posted
  PROVE  \E p \in 0..Len(s) : InsertByAsk(s, x) = InsertAt(s, p + 1, x) /\ Belongs(s, AskOf, p, x)
<1> DEFINE I == {i \in 1..Len(s) : s[i].ask <= x.ask}
           p == IF I # {} THEN Max(I) ELSE 0
<1>1. InsertByAsk(s, x) = InsertAt(s, p + 1, x)
  BY DEF InsertByAsk, SelectLastInSeq
<1>2. I # {} => Max(I) \in I /\ \A j \in I : Max(I) >= j
  <2> SUFFICES ASSUME I # {} PROVE Max(I) \in I /\ \A j \in I : Max(I) >= j
    OBVIOUS
  <2>1. Len(s) \in Nat /\ I \in SUBSET (1..Len(s))
    OBVIOUS
  <2> HIDE DEF I
  <2> QED BY <2>1, MaxExists
<1>3. p \in 0..Len(s) /\ (p > 0 => s[p].ask <= x.ask)
  BY <1>2
<1>4. ASSUME NEW j \in 1..Len(s), j > p PROVE x.ask < s[j].ask
  <2>1. x.ask \in Nat /\ s[j].ask \in Nat
    BY PostedFields
  <2>2. j \notin I
    BY <1>2, <1>3, <1>4
  <2> QED BY <2>1, <2>2
<1> HIDE DEF p
<1>5. AskOf[x] = x.ask /\ \A j \in 1..Len(s) : AskOf[s[j]] = s[j].ask
  BY DEF AskOf
<1>6. Belongs(s, AskOf, p, x)
  BY <1>3, <1>4, <1>5 DEF Belongs
<1> QED BY <1>1, <1>3, <1>6

\* Where an insertion by bid price stops: no later price is as low.
LEMMA BidPosition ==
  ASSUME NEW s \in Seq(Posted), NEW x \in Posted
  PROVE  \E p \in 0..Len(s) : InsertByBid(s, x) = InsertAt(s, p + 1, x) /\ Belongs(s, BidOf, p, x)
<1> DEFINE I == {i \in 1..Len(s) : s[i].bid <= x.bid}
           p == IF I # {} THEN Max(I) ELSE 0
<1>1. InsertByBid(s, x) = InsertAt(s, p + 1, x)
  BY DEF InsertByBid, SelectLastInSeq
<1>2. I # {} => Max(I) \in I /\ \A j \in I : Max(I) >= j
  <2> SUFFICES ASSUME I # {} PROVE Max(I) \in I /\ \A j \in I : Max(I) >= j
    OBVIOUS
  <2>1. Len(s) \in Nat /\ I \in SUBSET (1..Len(s))
    OBVIOUS
  <2> HIDE DEF I
  <2> QED BY <2>1, MaxExists
<1>3. p \in 0..Len(s) /\ (p > 0 => s[p].bid <= x.bid)
  BY <1>2
<1>4. ASSUME NEW j \in 1..Len(s), j > p PROVE x.bid < s[j].bid
  <2>1. x.bid \in Nat /\ s[j].bid \in Nat
    BY PostedFields
  <2>2. j \notin I
    BY <1>2, <1>3, <1>4
  <2> QED BY <2>1, <2>2
<1> HIDE DEF p
<1>5. BidOf[x] = x.bid /\ \A j \in 1..Len(s) : BidOf[s[j]] = s[j].bid
  BY DEF BidOf
<1>6. Belongs(s, BidOf, p, x)
  BY <1>3, <1>4, <1>5 DEF Belongs
<1> QED BY <1>1, <1>3, <1>6

\* An insertion in the right place keeps the prices in order.
LEMMA InsertKeepsOrder ==
  ASSUME NEW key \in [Posted -> Nat], NEW s \in Seq(Posted), NEW x \in Posted, Ascending(s, key),
         NEW p \in 0..Len(s), Belongs(s, key, p, x)
  PROVE  Ascending(InsertAt(s, p + 1, x), key)
<1> DEFINE t == InsertAt(s, p + 1, x)
<1>2. /\ Len(t) = Len(s) + 1
      /\ \A j \in 1..(Len(s) + 1) : t[j] = IF j < p + 1 THEN s[j] ELSE IF j = p + 1 THEN x ELSE s[j - 1]
  <2>1. p + 1 \in 1..(Len(s) + 1)
    OBVIOUS
  <2>2. IsInsertion(t, s, p + 1, x)
    BY <2>1, InsertAtElements
  <2> HIDE DEF t
  <2> QED BY <2>2 DEF IsInsertion
<1> HIDE DEF t
<1>6. key[x] \in Nat /\ \A j \in 1..Len(s) : key[s[j]] \in Nat
  OBVIOUS
<1>7. \A i, j \in 1..Len(s) : i <= j => key[s[i]] <= key[s[j]]
  BY DEF Ascending
<1>3. ASSUME NEW j \in 1..p PROVE key[s[j]] <= key[x]
  <2>1. p \in 1..Len(s) /\ j \in 1..Len(s) /\ j <= p /\ p > 0
    OBVIOUS
  <2>2. key[s[j]] <= key[s[p]] /\ key[s[p]] <= key[x]
    BY <1>7, <2>1 DEF Belongs
  <2> QED BY <1>6, <2>1, <2>2
<1>4. ASSUME NEW j \in (p + 1)..Len(s) PROVE key[x] <= key[s[j]]
  <2>1. j \in 1..Len(s) /\ j > p
    OBVIOUS
  <2> QED BY <1>6, <2>1 DEF Belongs
<1>5. ASSUME NEW i \in 1..Len(t), NEW j \in 1..Len(t), i <= j PROVE key[t[i]] <= key[t[j]]
  <2>1. CASE j < p + 1
    <3>1. i \in 1..Len(s) /\ j \in 1..Len(s) /\ t[i] = s[i] /\ t[j] = s[j]
      BY <1>2, <1>5, <2>1
    <3> QED BY <1>5, <1>7, <3>1
  <2>2. CASE j = p + 1
    <3>1. t[j] = x
      BY <1>2, <2>2
    <3>2. CASE i = j
      BY <1>6, <3>1, <3>2
    <3>3. CASE i < j
      <4>1. i \in 1..p /\ t[i] = s[i]
        BY <1>2, <2>2, <3>3
      <4> QED BY <1>3, <3>1, <4>1
    <3> QED BY <1>5, <3>2, <3>3
  <2>3. CASE j > p + 1
    <3>1. t[j] = s[j - 1] /\ j - 1 \in (p + 1)..Len(s)
      BY <1>2, <2>3
    <3>2. CASE i < p + 1
      <4>1. t[i] = s[i] /\ i \in 1..Len(s) /\ j - 1 \in 1..Len(s) /\ i <= j - 1
        BY <1>2, <2>3, <3>1, <3>2
      <4> QED BY <1>7, <3>1, <4>1
    <3>3. CASE i = p + 1
      <4>1. t[i] = x
        BY <1>2, <3>3
      <4> QED BY <1>4, <3>1, <4>1
    <3>4. CASE i > p + 1
      <4>1. t[i] = s[i - 1] /\ i - 1 \in 1..Len(s) /\ j - 1 \in 1..Len(s) /\ i - 1 <= j - 1
        BY <1>2, <1>5, <3>1, <3>4
      <4> QED BY <1>7, <3>1, <4>1
    <3> QED BY <3>2, <3>3, <3>4
  <2> QED BY <2>1, <2>2, <2>3
<1> QED BY <1>5 DEF Ascending, t

\* Both prices are numbers.
LEMMA KeysAreNat == AskOf \in [Posted -> Nat] /\ BidOf \in [Posted -> Nat]
BY PostedFields DEF AskOf, BidOf

\* sort.Slice by ask price leaves the prices of the block, in ascending order.
LEMMA ByAskSorts ==
  ASSUME NEW s \in Seq(Posted)
  PROVE  Rearranges(ByAsk(s), s, Len(s)) /\ Ascending(ByAsk(s), AskOf)
<1> DEFINE R == {p \in Nat \X Seq(Posted) : Rearranges(p[2], s, p[1]) /\ Ascending(p[2], AskOf)}
<1>1. \A k \in Nat : \A b \in Seq(Posted) : Rearranges(b, s, k) /\ Ascending(b, AskOf) => <<k, b>> \in R
  OBVIOUS
<1>2. <<0, <<>>>> \in R
  <2>1. <<>> \in Seq(Posted) /\ Len(<<>>) = 0 /\ 1..0 = {}
    BY EmptySeq
  <2>2. Rearranges(<<>>, s, 0) /\ Ascending(<<>>, AskOf)
    BY <2>1 DEF Rearranges, OneEach, Ascending
  <2> HIDE DEF R
  <2> QED BY <1>1, <2>1, <2>2
<1>3. ASSUME NEW k \in Nat, NEW a, k < Len(s), <<k, a>> \in R
      PROVE  <<k + 1, InsertByAsk(a, s[k + 1])>> \in R
  <2>1. a \in Seq(Posted) /\ Rearranges(a, s, k) /\ Ascending(a, AskOf) /\ s[k + 1] \in Posted
    BY <1>3
  <2>2. Len(a) = k
    BY <2>1 DEF Rearranges
  <2>3. PICK p \in 0..Len(a) : /\ InsertByAsk(a, s[k + 1]) = InsertAt(a, p + 1, s[k + 1])
                               /\ Belongs(a, AskOf, p, s[k + 1])
    BY <2>1, AskPosition
  <2>4. p + 1 \in 1..(k + 1)
    BY <2>2
  <2>5. Rearranges(InsertByAsk(a, s[k + 1]), s, k + 1)
    BY <1>3, <2>1, <2>3, <2>4, InsertRearranges
  <2>6. InsertByAsk(a, s[k + 1]) \in Seq(Posted)
    BY <2>5 DEF Rearranges
  <2>7. Ascending(InsertByAsk(a, s[k + 1]), AskOf)
    BY <2>1, <2>3, KeysAreNat, InsertKeepsOrder
  <2> HIDE DEF R
  <2> QED BY <1>1, <2>5, <2>6, <2>7
<1> HIDE DEF R, InsertByAsk
<1>4. AskFold!HandsOn(R, s)
  BY <1>3 DEF AskFold!HandsOn
<1>5. <<Len(s), AskFold!Fold(<<>>, s)>> \in R
  BY <1>2, <1>4, NatInductionSet, AskFold!FoldPrefixes DEF AskFold!Induction
<1>6. FoldLeft(InsertByAsk, <<>>, s) = AskFold!Fold(<<>>, s)
  BY DEF FoldLeft, MapThenFoldSet, Max, AskFold!Fold, AskFold!MaxOf
<1> QED BY <1>5, <1>6 DEF R, ByAsk

\* sort.Slice by bid price leaves the prices of the block, in ascending order.
LEMMA ByBidSorts ==
  ASSUME NEW s \in Seq(Posted)
  PROVE  Rearranges(ByBid(s), s, Len(s)) /\ Ascending(ByBid(s), BidOf)
<1> DEFINE R == {p \in Nat \X Seq(Posted) : Rearranges(p[2], s, p[1]) /\ Ascending(p[2], BidOf)}
<1>1. \A k \in Nat : \A b \in Seq(Posted) : Rearranges(b, s, k) /\ Ascending(b, BidOf) => <<k, b>> \in R
  OBVIOUS
<1>2. <<0, <<>>>> \in R
  <2>1. <<>> \in Seq(Posted) /\ Len(<<>>) = 0 /\ 1..0 = {}
    BY EmptySeq
  <2>2. Rearranges(<<>>, s, 0) /\ Ascending(<<>>, BidOf)
    BY <2>1 DEF Rearranges, OneEach, Ascending
  <2> HIDE DEF R
  <2> QED BY <1>1, <2>1, <2>2
<1>3. ASSUME NEW k \in Nat, NEW a, k < Len(s), <<k, a>> \in R
      PROVE  <<k + 1, InsertByBid(a, s[k + 1])>> \in R
  <2>1. a \in Seq(Posted) /\ Rearranges(a, s, k) /\ Ascending(a, BidOf) /\ s[k + 1] \in Posted
    BY <1>3
  <2>2. Len(a) = k
    BY <2>1 DEF Rearranges
  <2>3. PICK p \in 0..Len(a) : /\ InsertByBid(a, s[k + 1]) = InsertAt(a, p + 1, s[k + 1])
                               /\ Belongs(a, BidOf, p, s[k + 1])
    BY <2>1, BidPosition
  <2>4. p + 1 \in 1..(k + 1)
    BY <2>2
  <2>5. Rearranges(InsertByBid(a, s[k + 1]), s, k + 1)
    BY <1>3, <2>1, <2>3, <2>4, InsertRearranges
  <2>6. InsertByBid(a, s[k + 1]) \in Seq(Posted)
    BY <2>5 DEF Rearranges
  <2>7. Ascending(InsertByBid(a, s[k + 1]), BidOf)
    BY <2>1, <2>3, KeysAreNat, InsertKeepsOrder
  <2> HIDE DEF R
  <2> QED BY <1>1, <2>5, <2>6, <2>7
<1> HIDE DEF R, InsertByBid
<1>4. BidFold!HandsOn(R, s)
  BY <1>3 DEF BidFold!HandsOn
<1>5. <<Len(s), BidFold!Fold(<<>>, s)>> \in R
  BY <1>2, <1>4, NatInductionSet, BidFold!FoldPrefixes DEF BidFold!Induction
<1>6. FoldLeft(InsertByBid, <<>>, s) = BidFold!Fold(<<>>, s)
  BY DEF FoldLeft, MapThenFoldSet, Max, BidFold!Fold, BidFold!MaxOf
<1> QED BY <1>5, <1>6 DEF R, ByBid

-------------------------------------------------------------------------------
(* The median *)

\* Where the middle of a list is.
LEMMA Middle ==
  ASSUME NEW l \in Nat \ {0}
  PROVE  /\ l \div 2 \in Nat /\ l \div 2 + 1 \in 1..l
         /\ l % 2 = 0 => l = 2 * (l \div 2)
         /\ l % 2 # 0 => l = 2 * (l \div 2) + 1
OBVIOUS

\* Half of a list, rounded up.
LEMMA HalfUp ==
  ASSUME NEW l \in Nat \ {0}
  PROVE  /\ (l + 1) \div 2 \in 1..l
         /\ l % 2 = 0 => (l + 1) \div 2 = l \div 2 /\ l + 1 - (l + 1) \div 2 = l \div 2 + 1
         /\ l % 2 # 0 => (l + 1) \div 2 = l \div 2 + 1 /\ l + 1 - (l + 1) \div 2 = l \div 2 + 1
OBVIOUS

\* A median is a price, and its time is that of a posted price or of the block.
LEMMA MedianIsPrice ==
  ASSUME NEW s \in Seq(Posted), Len(s) # 0, now \in Int
  PROVE  /\ MedianPrice(s) \in Price
         /\ MedianPrice(s).at = now \/ \E i \in 1..Len(s) : MedianPrice(s).at = s[i].at
<1> DEFINE l == Len(s)
           m == l \div 2 + 1
           asks == ByAsk(s)
           bids == ByBid(s)
<1>1. l \in Nat \ {0} /\ m \in 1..l /\ (l % 2 = 0 => m - 1 \in 1..l)
  <2>1. l \in Nat \ {0}
    OBVIOUS
  <2> HIDE DEF l
  <2> QED BY <2>1, Middle
<1>2. Rearranges(asks, s, l) /\ Rearranges(bids, s, l)
  BY ByAskSorts, ByBidSorts
<1> HIDE DEF l, m, asks, bids
<1>3. \A i \in 1..l : asks[i] \in Posted /\ bids[i] \in Posted /\ \E j \in 1..l : asks[i] = s[j]
  <2>1. /\ asks \in Seq(Posted) /\ Len(asks) = l /\ bids \in Seq(Posted) /\ Len(bids) = l
        /\ \A i \in 1..l : \E j \in 1..l : asks[i] = s[j]
    BY <1>2, Zenon DEF Rearranges
  <2> QED BY <2>1
<1>4. \A i \in 1..l : /\ asks[i].ask \in Nat /\ bids[i].bid \in Nat /\ asks[i].at \in Int
                      /\ \E j \in 1..l : asks[i].at = s[j].at
  BY <1>3, PostedFields
<1>5. CASE l % 2 = 0
  <2> DEFINE a == (asks[m - 1].ask + asks[m].ask) \div 2
             b == (bids[m - 1].bid + bids[m].bid) \div 2
  <2>1. MedianPrice(s) = [ask |-> a, bid |-> b, at |-> now]
    BY <1>1, <1>5 DEF MedianPrice, l, m, asks, bids
  <2>2. \A x, y \in Nat : (x + y) \div 2 \in Nat
    OBVIOUS
  <2>3. a \in Nat /\ b \in Nat
    BY <1>1, <1>4, <1>5, <2>2
  <2> HIDE DEF a, b
  <2> QED BY <2>1, <2>3 DEF Price
<1>6. CASE l % 2 # 0
  <2>1. MedianPrice(s) = [ask |-> asks[m].ask, bid |-> bids[m].bid, at |-> asks[m].at]
    BY <1>1, <1>6 DEF MedianPrice, l, m, asks, bids
  <2>2. asks[m].ask \in Nat /\ bids[m].bid \in Nat /\ asks[m].at \in Int
    BY <1>1, <1>4
  <2>3. \E j \in 1..l : asks[m].at = s[j].at
    BY <1>1, <1>4
  <2> QED BY <2>1, <2>2, <2>3 DEF Price, l
<1> QED BY <1>5, <1>6

\* The middle one, or the mean of the middle two.
MiddleOf(r, key) ==
  LET l == Len(r)
      m == l \div 2 + 1
  IN  IF l % 2 = 0 THEN (key[r[m - 1]] + key[r[m]]) \div 2 ELSE key[r[m]]

\* Half of a sorted list, rounded up, is on either side of its middle.
LEMMA MiddleSplits ==
  ASSUME NEW key \in [Posted -> Nat], NEW r \in Seq(Posted), Len(r) # 0, Ascending(r, key),
         NEW h, h = (Len(r) + 1) \div 2
  PROVE  /\ \A i \in 1..h : key[r[i]] <= MiddleOf(r, key)
         /\ \A i \in (Len(r) + 1 - h)..Len(r) : key[r[i]] >= MiddleOf(r, key)
<1> DEFINE l == Len(r)
           m == l \div 2 + 1
           v == MiddleOf(r, key)
<1>1. l \in Nat \ {0} /\ m \in 1..l
  <2>1. l \in Nat \ {0}
    OBVIOUS
  <2> HIDE DEF l
  <2> QED BY <2>1, Middle
<1>3. /\ h \in 1..l
      /\ l % 2 = 0 => h = m - 1 /\ l + 1 - h = m
      /\ l % 2 # 0 => h = m /\ l + 1 - h = m
  <2>1. l \in Nat \ {0} /\ h = (l + 1) \div 2
    BY <1>1
  <2> HIDE DEF l
  <2>2. l % 2 = 0 => h = l \div 2 /\ l + 1 - h = l \div 2 + 1
    BY <2>1, HalfUp, Zenon
  <2>3. l % 2 # 0 => h = l \div 2 + 1 /\ l + 1 - h = l \div 2 + 1
    BY <2>1, HalfUp, Zenon
  <2>4. h \in 1..l
    BY <2>1, HalfUp, Zenon
  <2>5. l \div 2 = m - 1
    BY <2>1, Middle
  <2> QED BY <2>2, <2>3, <2>4, <2>5
<1>4. \A i \in 1..l : key[r[i]] \in Nat
  OBVIOUS
<1>5. \A i, j \in 1..l : i <= j => key[r[i]] <= key[r[j]]
  BY DEF Ascending
<1>6. v = IF l % 2 = 0 THEN (key[r[m - 1]] + key[r[m]]) \div 2 ELSE key[r[m]]
  BY DEF MiddleOf
<1>9. /\ \A i \in 1..h : key[r[i]] <= v
      /\ \A i \in (l + 1 - h)..l : key[r[i]] >= v
  <2> HIDE DEF l, m, v
  <2>1. CASE l % 2 = 0
    <3>1. v = (key[r[m - 1]] + key[r[m]]) \div 2
      BY <1>6, <2>1
    <3>2. \A x, y \in Nat : x <= y => /\ (x + y) \div 2 \in Nat
                                       /\ x <= (x + y) \div 2 /\ (x + y) \div 2 <= y
      OBVIOUS
    <3>3. m \in 1..l /\ m - 1 \in 1..l /\ h = m - 1 /\ l + 1 - h = m /\ m - 1 <= m
      BY <1>1, <1>3, <2>1
    <3>4. key[r[m - 1]] \in Nat /\ key[r[m]] \in Nat /\ key[r[m - 1]] <= key[r[m]]
      BY <1>4, <1>5, <3>3
    <3>5. v \in Nat /\ key[r[m - 1]] <= v /\ v <= key[r[m]]
      BY <3>1, <3>2, <3>4
    <3>6. ASSUME NEW i \in 1..h PROVE key[r[i]] <= v
      <4>1. i \in 1..l /\ i <= m - 1
        BY <1>1, <3>3
      <4>2. key[r[i]] <= key[r[m - 1]] /\ key[r[i]] \in Nat
        BY <1>4, <1>5, <3>3, <4>1
      <4> QED BY <3>4, <3>5, <4>2
    <3>7. ASSUME NEW i \in (l + 1 - h)..l PROVE key[r[i]] >= v
      <4>1. i \in 1..l /\ m <= i
        BY <1>1, <3>3
      <4>2. key[r[m]] <= key[r[i]] /\ key[r[i]] \in Nat
        BY <1>4, <1>5, <3>3, <4>1
      <4> QED BY <3>4, <3>5, <4>2
    <3> QED BY <3>6, <3>7
  <2>2. CASE l % 2 # 0
    <3>1. v = key[r[m]]
      BY <1>6, <2>2
    <3>2. \A i \in 1..h : i \in 1..l /\ i <= m
      BY <1>1, <1>3, <2>2
    <3>3. \A i \in (l + 1 - h)..l : i \in 1..l /\ m <= i
      BY <1>1, <1>3, <2>2
    <3>4. \A i \in 1..h : key[r[i]] <= v
      BY <1>1, <1>5, <3>1, <3>2
    <3>5. \A i \in (l + 1 - h)..l : key[r[i]] >= v
      BY <1>1, <1>4, <1>5, <3>1, <3>3
    <3> QED BY <3>4, <3>5
  <2> QED BY <2>1, <2>2
<1> QED BY <1>9 DEF l, v

\* A median price is the middle of the asks, and the middle of the bids.
LEMMA MedianIsMiddle ==
  ASSUME NEW s \in Seq(Posted), Len(s) # 0
  PROVE  MedianPrice(s).ask = MiddleOf(ByAsk(s), AskOf) /\ MedianPrice(s).bid = MiddleOf(ByBid(s), BidOf)
<1> DEFINE l == Len(s)
           m == l \div 2 + 1
           asks == ByAsk(s)
           bids == ByBid(s)
<1>1. l \in Nat \ {0} /\ m \in 1..l /\ (l % 2 = 0 => m - 1 \in 1..l)
  <2>1. l \in Nat \ {0}
    OBVIOUS
  <2> HIDE DEF l
  <2> QED BY <2>1, Middle
<1>2. Rearranges(asks, s, l) /\ Rearranges(bids, s, l)
  BY ByAskSorts, ByBidSorts
<1> HIDE DEF l, m, asks, bids
<1>3. /\ Len(asks) = l /\ Len(bids) = l
      /\ \A i \in 1..l : AskOf[asks[i]] = asks[i].ask /\ BidOf[bids[i]] = bids[i].bid
  <2>1. asks \in Seq(Posted) /\ Len(asks) = l /\ bids \in Seq(Posted) /\ Len(bids) = l
    BY <1>2, Zenon DEF Rearranges
  <2>2. \A i \in 1..l : asks[i] \in Posted /\ bids[i] \in Posted
    BY <2>1
  <2> QED BY <2>1, <2>2 DEF AskOf, BidOf
<1>4. MiddleOf(asks, AskOf) = IF l % 2 = 0 THEN (asks[m - 1].ask + asks[m].ask) \div 2 ELSE asks[m].ask
  BY <1>1, <1>3 DEF MiddleOf, m
<1>5. MiddleOf(bids, BidOf) = IF l % 2 = 0 THEN (bids[m - 1].bid + bids[m].bid) \div 2 ELSE bids[m].bid
  BY <1>1, <1>3 DEF MiddleOf, m
<1>6. MedianPrice(s).ask = IF l % 2 = 0 THEN (asks[m - 1].ask + asks[m].ask) \div 2 ELSE asks[m].ask
  BY <1>1 DEF MedianPrice, l, m, asks, bids
<1>7. MedianPrice(s).bid = IF l % 2 = 0 THEN (bids[m - 1].bid + bids[m].bid) \div 2 ELSE bids[m].bid
  BY <1>1 DEF MedianPrice, l, m, asks, bids
<1> QED BY <1>4, <1>5, <1>6, <1>7 DEF asks, bids

-------------------------------------------------------------------------------
(* Oracles are counted once *)

Oracles(r, a, b) == {r[i].oracle : i \in a..b}

\* A part of a list without repetitions has as many oracles as prices.
LEMMA OraclesCounted ==
  ASSUME NEW r \in Seq(Posted), OneEach(r, Len(r)), NEW a \in Nat, NEW b \in Nat, 1 <= a, a <= b, b <= Len(r)
  PROVE  IsFiniteSet(Oracles(r, a, b)) /\ Cardinality(Oracles(r, a, b)) = b - a + 1
<1> DEFINE f == [i \in a..b |-> r[i].oracle]
<1>1. \A i, j \in a..b : r[i].oracle = r[j].oracle => i = j
  BY DEF OneEach
<1>2. f \in Bijection(a..b, Oracles(r, a, b))
  BY <1>1 DEF Bijection, Injection, Surjection, IsInjective, Oracles
<1>3. ExistsBijection(a..b, Oracles(r, a, b))
  BY <1>2 DEF ExistsBijection
<1>4. IsFiniteSet(a..b) /\ Cardinality(a..b) = b - a + 1
  BY FS_Interval
<1> QED BY <1>3, <1>4, FS_Bijection

\* The oracles of a part of the sorted list are among those of any set that has
\* their members, which is therefore as large.
LEMMA HalfIsEnough ==
  ASSUME NEW r \in Seq(Posted), OneEach(r, Len(r)), NEW a \in Nat, NEW b \in Nat, 1 <= a, a <= b, b <= Len(r),
         2 * (b - a + 1) >= Len(r),
         NEW S, IsFiniteSet(S), \A i \in a..b : r[i].oracle \in S
  PROVE  2 * Cardinality(S) >= Len(r)
<1>1. Oracles(r, a, b) \in SUBSET S
  BY DEF Oracles
<1>2. Cardinality(Oracles(r, a, b)) = b - a + 1
  BY OraclesCounted
<1>3. Cardinality(Oracles(r, a, b)) <= Cardinality(S) /\ Cardinality(S) \in Nat
  BY <1>1, FS_Subset, FS_CardinalityType
<1> QED BY <1>2, <1>3

\* Half of the oracles are on each side of the middle of their sorted prices.
LEMMA MiddleIsHalfWay ==
  ASSUME NEW key \in [Posted -> Nat], NEW s \in Seq(Posted), Len(s) # 0, OneEach(s, Len(s)),
         NEW r, Rearranges(r, s, Len(s)), Ascending(r, key)
  PROVE  /\ 2 * Cardinality({p.oracle : p \in {q \in ToSet(s) : key[q] <= MiddleOf(r, key)}}) >= Len(s)
         /\ 2 * Cardinality({p.oracle : p \in {q \in ToSet(s) : key[q] >= MiddleOf(r, key)}}) >= Len(s)
<1> DEFINE l == Len(s)
           h == (l + 1) \div 2
           v == MiddleOf(r, key)
           low == {q \in ToSet(s) : key[q] <= v}
           high == {q \in ToSet(s) : key[q] >= v}
           lows == {p.oracle : p \in low}
           highs == {p.oracle : p \in high}
<1>1. l \in Nat \ {0}
  OBVIOUS
<1>2. h \in 1..l /\ 2 * h >= l /\ l + 1 - h \in 1..l /\ h \in Nat /\ l + 1 - h \in Nat
  <2> HIDE DEF l
  <2> QED BY <1>1
<1>3. r \in Seq(Posted) /\ Len(r) = l /\ OneEach(r, l)
  BY DEF Rearranges
<1>4. /\ \A i \in 1..h : key[r[i]] <= v
      /\ \A i \in (l + 1 - h)..l : key[r[i]] >= v
  BY <1>1, <1>3, MiddleSplits
<1> HIDE DEF h, v
<1>5. ASSUME NEW i \in 1..l PROVE r[i] \in ToSet(s)
  <2>1. PICK j \in 1..l : r[i] = s[j]
    BY DEF Rearranges
  <2> QED BY <2>1 DEF ToSet
<1>6. IsFiniteSet(lows) /\ IsFiniteSet(highs)
  <2>1. IsFiniteSet(Oracles(s, 1, l))
    BY <1>1, OraclesCounted
  <2>2. lows \in SUBSET Oracles(s, 1, l) /\ highs \in SUBSET Oracles(s, 1, l)
    BY DEF ToSet, Oracles
  <2> QED BY <2>1, <2>2, FS_Subset
<1>7. \A i \in 1..h : r[i].oracle \in lows
  <2>1. \A i \in 1..h : i \in 1..l
    BY <1>1, <1>2
  <2> QED BY <1>4, <1>5, <2>1
<1>8. \A i \in (l + 1 - h)..l : r[i].oracle \in highs
  <2>1. \A i \in (l + 1 - h)..l : i \in 1..l
    BY <1>1, <1>2
  <2> QED BY <1>4, <1>5, <2>1
<1>12. 2 * Cardinality(lows) >= l
  <2> HIDE DEF lows, l
  <2>2. 1 <= 1 /\ 1 <= h /\ h <= l /\ 2 * (h - 1 + 1) >= l
    BY <1>1, <1>2
  <2>3. OneEach(r, Len(r)) /\ h <= Len(r) /\ 2 * (h - 1 + 1) >= Len(r)
    BY <1>3, <2>2
  <2>4. 2 * Cardinality(lows) >= Len(r)
    BY <1>2, <1>3, <1>6, <1>7, <2>2, <2>3, HalfIsEnough, Zenon
  <2> QED BY <1>3, <2>4
<1>13. 2 * Cardinality(highs) >= l
  <2> HIDE DEF highs, l
  <2>2. l \in Nat /\ 1 <= l + 1 - h /\ l + 1 - h <= l /\ l <= l /\ 2 * (l - (l + 1 - h) + 1) >= l
    BY <1>1, <1>2
  <2> QED BY <1>2, <1>3, <1>6, <1>8, <2>2, HalfIsEnough, Zenon
<1> QED BY <1>12, <1>13 DEF v

\* The median has half of the oracles on each side.
LEMMA MedianIsHalfWay ==
  ASSUME NEW s \in Seq(Posted), Len(s) # 0, OneEach(s, Len(s))
  PROVE  HalfOnEachSide(s, MedianPrice(s))
<1> DEFINE l == Len(s)
           price == MedianPrice(s)
           voters == {p.oracle : p \in ToSet(s)}
           Half(S) == 2 * Cardinality({p.oracle : p \in S}) >= l
<1>1. Cardinality(voters) = l
  <2>1. voters = Oracles(s, 1, l)
    BY DEF ToSet, Oracles
  <2>2. l \in Nat \ {0}
    OBVIOUS
  <2>3. Cardinality(Oracles(s, 1, l)) = l - 1 + 1
    BY <2>2, OraclesCounted
  <2> HIDE DEF l, voters
  <2>4. l - 1 + 1 = l
    BY <2>2
  <2> QED BY <2>1, <2>3, <2>4
<1>2. \A q \in ToSet(s) : AskOf[q] = q.ask /\ BidOf[q] = q.bid
  BY DEF ToSet, AskOf, BidOf
<1>3. price.ask = MiddleOf(ByAsk(s), AskOf) /\ price.bid = MiddleOf(ByBid(s), BidOf)
  BY MedianIsMiddle
<1>4. /\ Half({q \in ToSet(s) : AskOf[q] <= MiddleOf(ByAsk(s), AskOf)})
      /\ Half({q \in ToSet(s) : AskOf[q] >= MiddleOf(ByAsk(s), AskOf)})
  BY ByAskSorts, KeysAreNat, MiddleIsHalfWay
<1>5. /\ Half({q \in ToSet(s) : BidOf[q] <= MiddleOf(ByBid(s), BidOf)})
      /\ Half({q \in ToSet(s) : BidOf[q] >= MiddleOf(ByBid(s), BidOf)})
  BY ByBidSorts, KeysAreNat, MiddleIsHalfWay
<1> HIDE DEF price
<1>6. /\ {q \in ToSet(s) : AskOf[q] <= price.ask} = {q \in ToSet(s) : q.ask <= price.ask}
      /\ {q \in ToSet(s) : AskOf[q] >= price.ask} = {q \in ToSet(s) : q.ask >= price.ask}
      /\ {q \in ToSet(s) : BidOf[q] <= price.bid} = {q \in ToSet(s) : q.bid <= price.bid}
      /\ {q \in ToSet(s) : BidOf[q] >= price.bid} = {q \in ToSet(s) : q.bid >= price.bid}
  BY <1>2
<1>7. /\ Half({p \in ToSet(s) : p.ask <= price.ask}) /\ Half({p \in ToSet(s) : p.ask >= price.ask})
      /\ Half({p \in ToSet(s) : p.bid <= price.bid}) /\ Half({p \in ToSet(s) : p.bid >= price.bid})
  BY <1>3, <1>4, <1>5, <1>6, Zenon
<1>8. HalfOnEachSide(s, price)
  BY <1>1, <1>7, Zenon DEF HalfOnEachSide
<1> QED BY <1>8 DEF price

-------------------------------------------------------------------------------
(* Posting a price *)

\* A second price of an oracle takes the place of its first, so a list keeps to
\* one price of each oracle.
LEMMA SetPriceReplaces ==
  ASSUME NEW s \in Seq(Posted), OneEach(s, Len(s)), NEW x \in Posted
  PROVE  /\ SetPrice(s, x) \in Seq(Posted) /\ OneEach(SetPrice(s, x), Len(SetPrice(s, x)))
         /\ \A i \in 1..Len(SetPrice(s, x)) :
              SetPrice(s, x)[i] = x \/ \E j \in 1..Len(s) : SetPrice(s, x)[i] = s[j]
<1> DEFINE I == {i \in 1..Len(s) : s[i].oracle = x.oracle}
           t == SetPrice(s, x)
<1>1. CASE I # {}
  <2>1. PICK m \in I : TRUE
    BY <1>1
  <2>2. \A i \in 1..Len(s) : s[i].oracle = x.oracle => i = m
    BY <2>1 DEF OneEach
  <2>3. Min(I) = m
    BY <2>1, <2>2 DEF Min
  <2>4. t = [s EXCEPT ![m] = x]
    <3>1. \E i \in DOMAIN s : s[i].oracle = x.oracle
      BY <2>1
    <3>2. SelectInSeq(s, LAMBDA y : y.oracle = x.oracle) = Min(I)
      BY <1>1 DEF SelectInSeq
    <3> QED BY <2>3, <3>1, <3>2 DEF SetPrice
  <2> HIDE DEF t
  <2>5. t \in Seq(Posted) /\ Len(t) = Len(s) /\ t[m] = x /\ \A i \in 1..Len(s) : i # m => t[i] = s[i]
    BY <2>1, <2>4
  <2>6. OneEach(t, Len(t))
    BY <2>2, <2>5 DEF OneEach
  <2> QED BY <2>5, <2>6 DEF t
<1>2. CASE I = {}
  <2>1. t = Append(s, x)
    <3>1. ~\E i \in DOMAIN s : s[i].oracle = x.oracle
      BY <1>2
    <3> QED BY <3>1, Zenon DEF SetPrice
  <2>2. \A i \in 1..Len(s) : s[i].oracle # x.oracle
    BY <1>2
  <2> HIDE DEF t
  <2>3. t \in Seq(Posted) /\ Len(t) = Len(s) + 1 /\ t[Len(s) + 1] = x /\ \A i \in 1..Len(s) : t[i] = s[i]
    BY <2>1
  <2>4. OneEach(t, Len(t))
    BY <2>2, <2>3 DEF OneEach
  <2>5. \A i \in 1..Len(t) : i = Len(s) + 1 \/ i \in 1..Len(s)
    BY <2>3
  <2> QED BY <2>3, <2>4, <2>5 DEF t
<1> QED BY <1>1, <1>2

-------------------------------------------------------------------------------
(* The inductive invariant *)

Shape ==
  /\ assets \in Seq(Asset) /\ diff \in Diffs
  /\ now \in Int /\ now >= GenesisTime /\ exportedAt \in Int /\ panicked \in BOOLEAN
  /\ raw \in [Codes -> Seq(Posted)] /\ current \in [Codes -> Price] /\ vmres \in [Codes -> Int]

\* An oracle has one price in a list, and none is far from the block time.
OncePerBlock == \A c \in Codes : OneEach(raw[c], Len(raw[c]))

Near(at) == diff > 0 => now - at <= diff /\ at - now <= diff

Timely == \A c \in Codes : \A i \in 1..Len(raw[c]) : Near(raw[c][i].at)

\* A price that is set is one InitGenesis takes, but for being from the future of
\* time t by less than received_at_diff_in_s.
Acceptable(price, t) ==
  price.ask > 0 /\ price.bid > 0 /\ (diff > 0 => price.at # ZeroTime /\ price.at <= t + diff)

Known(prices, t) ==
  \A c \in Codes : prices[c] # NoPrice => c \in Registered /\ Acceptable(prices[c], t)

\* The resources of an asset whose reverse is not registered are its current
\* price and the reversed one; a code of which neither is registered has none.
ReversedAsk(price) == IF price = NoPrice THEN 0 ELSE Reversed(price).ask

Agree(prices, resources) ==
  \A c \in Codes :
    ReverseCode(c) \notin Registered =>
      IF c \in Registered
      THEN resources[c] = prices[c].ask /\ resources[ReverseCode(c)] = ReversedAsk(prices[c])
      ELSE resources[c] = 0

\* The block time of the prices: a chain that did not start has that of the export.
PricesAt == IF panicked THEN exportedAt ELSE now

IInv ==
  /\ Shape /\ OncePerBlock /\ Timely
  /\ Known(current, PricesAt) /\ Agree(current, vmres)
  /\ PanicOnlyOnFreshPrice

\* The reverse of an asset code is one, and its reverse is the code.
LEMMA ReverseTwice ==
  \A c \in Codes : ReverseCode(c) \in Codes /\ ReverseCode(ReverseCode(c)) = c
BY DEF Codes, ReverseCode

\* The empty price is one.
LEMMA NoPriceIsPrice == NoPrice \in Price /\ NoPrice.ask = 0 /\ NoPrice.bid = 0
BY TimeAssumption DEF NoPrice, Price

\* The initial state.
LEMMA InitIsSound == Init => IInv
<1> SUFFICES ASSUME Init PROVE IInv
  OBVIOUS
<1>1. <<>> \in Seq(Posted) /\ Len(<<>>) = 0 /\ 1..0 = {}
  BY EmptySeq
<1>2. Shape
  <2>1. assets \in Seq(Asset) /\ diff \in Diffs /\ panicked \in BOOLEAN
    BY GenesisAssumption DEF Init
  <2>2. now \in Int /\ now >= GenesisTime /\ exportedAt \in Int
    BY TimeAssumption DEF Init
  <2>3. raw \in [Codes -> Seq(Posted)] /\ current \in [Codes -> Price] /\ vmres \in [Codes -> Int]
    BY <1>1, NoPriceIsPrice DEF Init
  <2> QED BY <2>1, <2>2, <2>3 DEF Shape
<1>3. OncePerBlock /\ Timely
  BY <1>1 DEF Init, OncePerBlock, Timely, OneEach
<1>4. \A c \in Codes : current[c] = NoPrice /\ vmres[c] = 0
  BY DEF Init
<1>5. Known(current, PricesAt)
  BY <1>4 DEF Known
<1>6. Agree(current, vmres)
  BY <1>4, NoPriceIsPrice, ReverseTwice DEF Agree, ReversedAsk
<1>7. PanicOnlyOnFreshPrice
  BY DEF Init, PanicOnlyOnFreshPrice
<1> QED BY <1>2, <1>3, <1>5, <1>6, <1>7 DEF IInv

-------------------------------------------------------------------------------
(* Messages *)

\* Assets are added and changed, and prices and resources are left alone: the
\* resources of a code that becomes an asset are not written yet.
LEMMA AssetsGrow ==
  ASSUME IInv, assets' \in Seq(Asset), Registered \subseteq Registered',
         UNCHANGED <<raw, diff, current, vmres, now, exportedAt, panicked>>
  PROVE  IInv'
<1>1. Shape' /\ OncePerBlock' /\ Timely' /\ PanicOnlyOnFreshPrice'
  BY DEF IInv, Shape, OncePerBlock, Timely, Near, PanicOnlyOnFreshPrice
<1>2. PricesAt' = PricesAt /\ Known(current, PricesAt) /\ Agree(current, vmres) /\ diff' = diff
  BY DEF IInv, PricesAt
<1>3. Known(current, PricesAt)'
  <2> HIDE DEF Registered
  <2> QED BY <1>2 DEF Known, Acceptable
<1>4. Agree(current, vmres)'
  <2> SUFFICES ASSUME NEW c \in Codes, ReverseCode(c) \notin Registered'
               PROVE  IF c \in Registered'
                      THEN vmres[c] = current[c].ask /\ vmres[ReverseCode(c)] = ReversedAsk(current[c])
                      ELSE vmres[c] = 0
    BY DEF Agree
  <2> HIDE DEF Registered
  <2>1. ReverseCode(c) \in Codes /\ ReverseCode(ReverseCode(c)) = c /\ ReverseCode(c) \notin Registered
    BY ReverseTwice
  <2>2. CASE c \in Registered
    BY <1>2, <2>1, <2>2 DEF Agree
  <2>3. CASE c \notin Registered
    <3>1. vmres[c] = 0 /\ vmres[ReverseCode(c)] = 0
      BY <1>2, <2>1, <2>3 DEF Agree
    <3>2. current[c] = NoPrice
      BY <1>2, <2>3 DEF Known
    <3> QED BY <3>1, <3>2, NoPriceIsPrice DEF ReversedAsk
  <2> QED BY <2>2, <2>3
<1> QED BY <1>1, <1>3, <1>4 DEF IInv

\* The same when the entries are changed in place and keep their codes.
LEMMA AssetsChange ==
  ASSUME IInv, DOMAIN assets' = DOMAIN assets,
         assets' = [i \in DOMAIN assets |-> assets'[i]],
         \A i \in DOMAIN assets : assets'[i] \in Asset /\ assets'[i].code = assets[i].code,
         UNCHANGED <<raw, diff, current, vmres, now, exportedAt, panicked>>
  PROVE  IInv'
<1>1. assets \in Seq(Asset)
  BY DEF IInv, Shape
<1>2. assets' \in Seq(Asset)
  <2>1. DOMAIN assets = 1..Len(assets) /\ Len(assets) \in Nat
    BY <1>1
  <2>2. assets' \in [1..Len(assets) -> Asset]
    BY <2>1
  <2> QED BY <2>1, <2>2, SeqDef
<1>3. Registered \subseteq Registered'
  BY DEF Registered
<1> QED BY <1>2, <1>3, AssetsGrow

\* Adding an oracle to an asset keeps the invariant.
LEMMA AddOracleIsSound ==
  ASSUME IInv, NEW msg \in Msgs, AddOracle(msg)
  PROVE  IInv'
<1>1. assets \in Seq(Asset)
  BY DEF IInv, Shape
<1>2. msg.oracle \in Addresses
  BY MsgAssumption DEF AddOracle, MsgAddOracleValid
<1>3. assets' = [i \in DOMAIN assets |->
                   IF assets[i].code = msg.code
                   THEN [assets[i] EXCEPT !.oracles = Append(assets[i].oracles, msg.oracle)]
                   ELSE assets[i]]
  BY DEF AddOracle, Updated
<1>4. ASSUME NEW a \in Asset
      PROVE  LET b == [a EXCEPT !.oracles = Append(a.oracles, msg.oracle)]
             IN  b \in Asset /\ b.code = a.code
  BY <1>2 DEF Asset
<1>5. \A i \in DOMAIN assets : assets'[i] \in Asset /\ assets'[i].code = assets[i].code
  <2> SUFFICES ASSUME NEW i \in DOMAIN assets
               PROVE  assets'[i] \in Asset /\ assets'[i].code = assets[i].code
    OBVIOUS
  <2> DEFINE b == [assets[i] EXCEPT !.oracles = Append(assets[i].oracles, msg.oracle)]
  <2>1. assets[i] \in Asset
    BY <1>1
  <2>2. b \in Asset /\ b.code = assets[i].code
    BY <1>4, <2>1
  <2>3. assets'[i] = IF assets[i].code = msg.code THEN b ELSE assets[i]
    BY <1>3
  <2> HIDE DEF b
  <2> QED BY <2>1, <2>2, <2>3
<1> QED BY <1>3, <1>5, AssetsChange, Zenon DEF AddOracle, Deliver

\* Replacing the oracles of an asset keeps the invariant.
LEMMA SetOraclesIsSound ==
  ASSUME IInv, NEW msg \in Msgs, SetOracles(msg)
  PROVE  IInv'
<1>1. assets \in Seq(Asset)
  BY DEF IInv, Shape
<1>2. msg.oracles \in Seq(Addresses)
  BY MsgAssumption DEF SetOracles
<1>3. assets' = [i \in DOMAIN assets |->
                   IF assets[i].code = msg.code THEN [assets[i] EXCEPT !.oracles = msg.oracles] ELSE assets[i]]
  BY DEF SetOracles, Updated
<1>4. ASSUME NEW a \in Asset
      PROVE  LET b == [a EXCEPT !.oracles = msg.oracles] IN b \in Asset /\ b.code = a.code
  BY <1>2 DEF Asset
<1>5. \A i \in DOMAIN assets : assets'[i] \in Asset /\ assets'[i].code = assets[i].code
  BY <1>1, <1>3, <1>4
<1> QED BY <1>3, <1>5, AssetsChange DEF SetOracles, Deliver

\* What an asset message that passes ValidateBasic holds.
LEMMA MsgAssetIsAsset ==
  ASSUME NEW msg \in Msgs, msg.type \in {"set_asset", "add_asset"}, MsgAssetValid(msg)
  PROVE  msg.asset \in Asset
<1> DEFINE code == msg.asset.code
           oracles == msg.asset.oracles
<1>1. msg.asset = [code |-> code, oracles |-> oracles] /\ oracles \in Seq(Addresses)
  BY MsgAssumption
<1>2. code \in Codes
  BY DEF MsgAssetValid, AssetValid, ValidCode
<1> HIDE DEF code, oracles
<1> QED BY <1>1, <1>2 DEF Asset

\* Replacing an asset keeps the invariant.
LEMMA SetAssetIsSound ==
  ASSUME IInv, NEW msg \in Msgs, SetAsset(msg)
  PROVE  IInv'
<1>1. assets \in Seq(Asset)
  BY DEF IInv, Shape
<1>2. msg.asset \in Asset
  BY MsgAssetIsAsset DEF SetAsset
<1>3. assets' = [i \in DOMAIN assets |->
                   IF assets[i].code = msg.asset.code THEN msg.asset ELSE assets[i]]
  BY DEF SetAsset, Updated
<1>4. \A i \in DOMAIN assets : assets'[i] \in Asset /\ assets'[i].code = assets[i].code
  BY <1>1, <1>2, <1>3
<1> QED BY <1>3, <1>4, AssetsChange, Zenon DEF SetAsset, Deliver

\* Adding an asset keeps the invariant.
LEMMA AddAssetIsSound ==
  ASSUME IInv, NEW msg \in Msgs, AddAsset(msg)
  PROVE  IInv'
<1>1. assets \in Seq(Asset)
  BY DEF IInv, Shape
<1>2. msg.asset \in Asset
  BY MsgAssetIsAsset DEF AddAsset
<1>3. assets' = Append(assets, msg.asset)
  BY DEF AddAsset
<1>4. assets' \in Seq(Asset) /\ \A i \in DOMAIN assets : i \in DOMAIN assets' /\ assets'[i] = assets[i]
  BY <1>1, <1>2, <1>3
<1>5. Registered \subseteq Registered'
  BY <1>4 DEF Registered
<1> QED BY <1>4, <1>5, AssetsGrow DEF AddAsset, Deliver

\* Posting a price keeps the invariant.
LEMMA PostPriceIsSound ==
  ASSUME IInv, NEW msg \in Msgs, PostPrice(msg)
  PROVE  IInv'
<1> DEFINE x == [oracle |-> msg.from, ask |-> msg.ask, bid |-> msg.bid, at |-> msg.at]
           s == raw[msg.code]
<1>1. msg.type = "post_price" /\ MsgPostPriceValid(msg) /\ msg.code \in Codes /\ Near(msg.at)
  BY DEF PostPrice, MsgPostPriceValid, ValidCode, CheckPriceReceivedAt, Near
<1>2. x \in Posted /\ x.at = msg.at
  <2>1. msg.from \in Addresses /\ msg.at \in Int
    BY <1>1, MsgAssumption DEF MsgPostPriceValid
  <2>2. msg.ask \in Nat /\ msg.bid \in Nat
    <3>1. msg.ask \in Int /\ msg.bid \in Int
      BY <1>1, MsgAssumption, Zenon
    <3>2. msg.ask >= 0 /\ msg.bid >= 0
      BY <1>1 DEF MsgPostPriceValid, ValidPrice
    <3> QED BY <3>1, <3>2
  <2> QED BY <2>1, <2>2 DEF Posted
<1>3. Shape /\ s \in Seq(Posted) /\ OneEach(s, Len(s)) /\ \A i \in 1..Len(s) : Near(s[i].at)
  BY <1>1 DEF IInv, Shape, OncePerBlock, Timely
<1> DEFINE t == SetPrice(s, x)
<1>4. raw' = [raw EXCEPT ![msg.code] = t]
  BY DEF PostPrice
<1>5. UNCHANGED <<assets, diff, current, vmres, now, exportedAt, panicked>>
  BY DEF PostPrice, Deliver
<1> HIDE DEF x, s
<1>6. /\ t \in Seq(Posted) /\ OneEach(t, Len(t))
      /\ \A i \in 1..Len(t) : t[i] = x \/ \E j \in 1..Len(s) : t[i] = s[j]
  BY <1>2, <1>3, SetPriceReplaces, Zenon
<1> HIDE DEF t
<1>7. \A i \in 1..Len(t) : Near(t[i].at)
  BY <1>1, <1>2, <1>3, <1>6
<1>8. raw' \in [Codes -> Seq(Posted)] /\ \A c \in Codes : raw'[c] = IF c = msg.code THEN t ELSE raw[c]
  BY <1>1, <1>3, <1>4, <1>6 DEF Shape
<1>9. Shape'
  BY <1>3, <1>5, <1>8 DEF Shape
<1>10. OncePerBlock'
  BY <1>6, <1>8, Zenon DEF IInv, OncePerBlock
<1>11. Timely'
  <2>1. \A at : Near(at)' = Near(at)
    BY <1>5 DEF Near
  <2> SUFFICES ASSUME NEW c \in Codes, NEW i \in 1..Len(raw'[c]) PROVE Near(raw'[c][i].at)
    BY <1>5 DEF Timely, Near
  <2> QED BY <1>7, <1>8 DEF IInv, Timely
<1>12. Known(current, PricesAt)'
  BY <1>5 DEF IInv, Known, Acceptable, PricesAt, Registered
<1>13. Agree(current, vmres)'
  BY <1>5 DEF IInv, Agree, Registered
<1>14. PanicOnlyOnFreshPrice'
  BY <1>5 DEF IInv, PanicOnlyOnFreshPrice
<1> QED BY <1>9, <1>10, <1>11, <1>12, <1>13, <1>14 DEF IInv

-------------------------------------------------------------------------------
(* EndBlocker *)

\* A median is acceptable at the time of the block it is of.
LEMMA MedianIsAcceptable ==
  ASSUME Shape, NEW s \in Seq(Posted), Len(s) # 0, \A i \in 1..Len(s) : Near(s[i].at),
         MedianPrice(s).ask # 0, MedianPrice(s).bid # 0
  PROVE  Acceptable(MedianPrice(s), now)
<1> DEFINE at == MedianPrice(s).at
<1>1. now \in Int /\ now >= GenesisTime /\ diff \in Nat /\ ZeroTime + diff < GenesisTime
  BY TimeAssumption DEF Shape
<1>2. MedianPrice(s) \in Price /\ (at = now \/ \E i \in 1..Len(s) : at = s[i].at)
  BY <1>1, MedianIsPrice
<1> HIDE DEF MedianPrice
<1>3. at \in Int /\ MedianPrice(s).ask \in Nat /\ MedianPrice(s).bid \in Nat
  BY <1>2 DEF Price
<1> HIDE DEF at
<1>4. Near(at)
  BY <1>1, <1>2 DEF Near
<1>5. diff > 0 => at # ZeroTime /\ at <= now + diff
  BY <1>1, <1>3, <1>4, TimeAssumption DEF Near
<1> QED BY <1>3, <1>5 DEF Acceptable, at

\* What the loop has done to the prices and resources so far: a price that is
\* not the one the block began with is the median of its oracles.
Running == [current : [Codes -> Price], vmres : [Codes -> Int]]

Settled(acc) ==
  /\ Known(acc.current, now) /\ Agree(acc.current, acc.vmres)
  /\ \A c \in Codes : acc.current[c] # current[c] => HalfOnEachSide(raw[c], acc.current[c])

\* Writing the price of a registered asset and the reversed price keeps the
\* prices and the resources in agreement.
LEMMA WritesAgree ==
  ASSUME NEW prices \in [Codes -> Price], NEW resources \in [Codes -> Int], Agree(prices, resources),
         NEW code \in Codes \cap Registered, NEW new \in Price, new # NoPrice,
         NEW ps, ps = [prices EXCEPT ![code] = new],
         NEW rs, rs = [resources EXCEPT ![code] = new.ask, ![ReverseCode(code)] = Reversed(new).ask]
  PROVE  Agree(ps, rs)
<1> SUFFICES ASSUME NEW c \in Codes, ReverseCode(c) \notin Registered
             PROVE  IF c \in Registered
                    THEN rs[c] = ps[c].ask /\ rs[ReverseCode(c)] = ReversedAsk(ps[c])
                    ELSE rs[c] = 0
  BY DEF Agree
<1> HIDE DEF Registered
<1>1. /\ ReverseCode(c) \in Codes /\ ReverseCode(ReverseCode(c)) = c
      /\ ReverseCode(code) \in Codes /\ ReverseCode(ReverseCode(code)) = code
  BY ReverseTwice
<1>2. \A e \in Codes : /\ ps[e] = IF e = code THEN new ELSE prices[e]
                       /\ rs[e] = IF e = ReverseCode(code) THEN Reversed(new).ask
                                  ELSE IF e = code THEN new.ask ELSE resources[e]
  BY <1>1
<1>3. c # ReverseCode(code) /\ ReverseCode(c) # code
  BY <1>1
<1>4. CASE c = code
  <2>1. c \in Registered /\ rs[c] = new.ask /\ ps[c] = new /\ rs[ReverseCode(c)] = Reversed(new).ask
    BY <1>1, <1>2, <1>3, <1>4
  <2> QED BY <2>1 DEF ReversedAsk
<1>5. CASE c # code
  <2>1. rs[c] = resources[c] /\ ps[c] = prices[c] /\ rs[ReverseCode(c)] = resources[ReverseCode(c)]
    BY <1>1, <1>2, <1>3, <1>5
  <2> QED BY <2>1 DEF Agree
<1> QED BY <1>4, <1>5

\* The reversed price is an integer.
LEMMA ReversedIsInt ==
  ASSUME NEW price \in Price, price.bid > 0
  PROVE  Reversed(price).ask \in Int
<1> DEFINE p == price.bid
           n == 2 * Unit * Unit * Unit + p
<1>1. p \in Nat /\ p > 0 /\ Unit \in Nat /\ Unit > 0
  BY UnitAssumption DEF Price
<1>2. n \in Int /\ 2 * p \in Int /\ 2 * p > 0
  BY <1>1
<1>3. Reversed(price).ask = (n \div (2 * p)) \div Unit
  BY DEF Reversed, ReverseInt
<1>4. \A x, y \in Int : y > 0 => x \div y \in Int
  OBVIOUS
<1> HIDE DEF n, p
<1> QED BY <1>1, <1>2, <1>3, <1>4

\* One turn of the loop.
LEMMA TurnIsSound ==
  ASSUME IInv, NEW acc \in Running, Settled(acc), NEW asset \in Asset, asset.code \in Registered
  PROVE  UpdateAsset(acc, asset) \in Running /\ Settled(UpdateAsset(acc, asset))
<1> DEFINE code == asset.code
           s == raw[code]
           new == MedianPrice(s)
           old == acc.current[code]
           ps == [acc.current EXCEPT ![code] = new]
           rs == [acc.vmres EXCEPT ![code] = new.ask, ![ReverseCode(code)] = Reversed(new).ask]
<1>1. code \in Codes \cap Registered
  BY DEF Asset
<1>2. /\ Shape /\ s \in Seq(Posted) /\ OneEach(s, Len(s)) /\ \A i \in 1..Len(s) : Near(s[i].at)
      /\ now \in Int
  BY <1>1 DEF IInv, Shape, OncePerBlock, Timely
<1>3. acc.current \in [Codes -> Price] /\ acc.vmres \in [Codes -> Int]
  BY DEF Running
<1>4. \/ UpdateAsset(acc, asset) = acc
      \/ new.ask # 0 /\ new.bid # 0 /\ UpdateAsset(acc, asset) = [current |-> ps, vmres |-> rs]
  BY DEF UpdateAsset, UpdatePrice
<1>5. CASE new.ask # 0 /\ new.bid # 0 /\ UpdateAsset(acc, asset) = [current |-> ps, vmres |-> rs]
  <2>1. Len(s) # 0
    BY <1>5, NoPriceIsPrice, Zenon DEF MedianPrice
  <2>2. new \in Price
    BY <1>2, <2>1, MedianIsPrice, Zenon
  <2>3. Acceptable(new, now)
    BY <1>2, <1>5, <2>1, MedianIsAcceptable
  <2>4. HalfOnEachSide(s, new)
    BY <1>2, <2>1, MedianIsHalfWay
  <2> HIDE DEF new, s
  <2>5. new # NoPrice
    BY <1>5, NoPriceIsPrice
  <2>6. Reversed(new).ask \in Int /\ new.ask \in Int
    BY <2>2, <2>3, ReversedIsInt DEF Acceptable, Price
  <2>7. ps \in [Codes -> Price] /\ \A c \in Codes : ps[c] = IF c = code THEN new ELSE acc.current[c]
    BY <1>1, <1>3, <2>2
  <2>8. rs \in [Codes -> Int]
    BY <1>1, <1>3, <2>6, Zenon
  <2>9. Agree(ps, rs)
    <3>1. Agree(acc.current, acc.vmres)
      BY DEF Settled
    <3> QED BY <1>1, <1>3, <2>2, <2>5, <3>1, WritesAgree
  <2> HIDE DEF ps, rs, code
  <2>10. Known(ps, now)
    BY <1>1, <2>3, <2>7 DEF Known, Settled
  <2>11. \A c \in Codes : ps[c] # current[c] => HalfOnEachSide(raw[c], ps[c])
    BY <2>4, <2>7 DEF Settled, s
  <2>12. [current |-> ps, vmres |-> rs] \in Running
    BY <2>7, <2>8 DEF Running
  <2>13. Settled([current |-> ps, vmres |-> rs])
    BY <2>9, <2>10, <2>11, Zenon DEF Settled
  <2> QED BY <1>5, <2>12, <2>13
<1> QED BY <1>4, <1>5

\* The loop over the assets.
LEMMA LoopIsSound ==
  ASSUME IInv, ~panicked
  PROVE  SetCurrentPrices \in Running /\ Settled(SetCurrentPrices)
<1> DEFINE start == [current |-> current, vmres |-> vmres]
           Accs == {a \in Running : Settled(a)}
           R == Nat \X Accs
<1>1. assets \in Seq(Asset) /\ \A i \in 1..Len(assets) : assets[i] \in Asset /\ assets[i].code \in Registered
  BY DEF IInv, Shape, Registered
<1>2. start \in Accs
  <2>1. start \in Running
    BY DEF IInv, Shape, Running
  <2>2. Settled(start)
    BY DEF IInv, Settled, PricesAt
  <2> QED BY <2>1, <2>2
<1>3. ASSUME NEW a \in Accs, NEW i \in 1..Len(assets) PROVE UpdateAsset(a, assets[i]) \in Accs
  BY <1>1, TurnIsSound
<1> HIDE DEF start, Accs, UpdateAsset
<1>4. AssetFold!HandsOn(R, assets)
  <2> SUFFICES ASSUME NEW k \in Nat, NEW a, k < Len(assets), <<k, a>> \in R
               PROVE  <<k + 1, UpdateAsset(a, assets[k + 1])>> \in R
    BY DEF AssetFold!HandsOn
  <2>1. a \in Accs /\ k + 1 \in 1..Len(assets)
    BY <1>1
  <2> QED BY <1>3, <2>1
<1>5. <<Len(assets), AssetFold!Fold(start, assets)>> \in R
  <2>1. <<0, start>> \in R
    BY <1>2
  <2> HIDE DEF R
  <2> QED BY <1>1, <1>4, <2>1, NatInductionSet, AssetFold!FoldPrefixes, Zenon DEF AssetFold!Induction
<1>6. FoldLeft(UpdateAsset, start, assets) = AssetFold!Fold(start, assets)
  BY DEF FoldLeft, MapThenFoldSet, Max, AssetFold!Fold, AssetFold!MaxOf
<1>7. SetCurrentPrices \in Accs
  BY <1>5, <1>6 DEF SetCurrentPrices, start
<1> QED BY <1>7 DEF Accs

\* The end of a block keeps the invariant.
LEMMA EndBlockIsSound ==
  ASSUME IInv, EndBlock
  PROVE  IInv'
<1> DEFINE s == SetCurrentPrices
<1>1. s \in Running /\ Settled(s)
  BY LoopIsSound DEF EndBlock
<1>2. current' = s.current /\ vmres' = s.vmres /\ raw' = [code \in Codes |-> <<>>]
  BY DEF EndBlock
<1>3. UNCHANGED <<assets, diff, exportedAt, panicked>> /\ panicked = FALSE
  BY DEF EndBlock, IInv, Shape
<1>4. Shape /\ now' \in Int /\ now' >= now /\ now \in Int /\ diff \in Int /\ GenesisTime \in Int
  BY TimeAssumption DEF EndBlock, IInv, Shape
<1> HIDE DEF s
<1>5. Registered' = Registered
  BY <1>3 DEF Registered
<1>6. <<>> \in Seq(Posted) /\ Len(<<>>) = 0 /\ 1..0 = {}
  BY EmptySeq
<1>7. Shape'
  <2>1. current' \in [Codes -> Price] /\ vmres' \in [Codes -> Int]
    BY <1>1, <1>2 DEF Running
  <2>2. raw' \in [Codes -> Seq(Posted)]
    BY <1>2, <1>6
  <2>3. now' \in Int /\ now' >= GenesisTime
    BY <1>4 DEF Shape
  <2> QED BY <1>3, <1>4, <2>1, <2>2, <2>3 DEF Shape
<1>8. OncePerBlock' /\ Timely'
  BY <1>2, <1>6 DEF OncePerBlock, OneEach, Timely
<1>9. Known(current, PricesAt)'
  <2> SUFFICES ASSUME NEW c \in Codes, current'[c] # NoPrice
               PROVE  c \in Registered /\ Acceptable(current'[c], now')
    <3>1. PricesAt' = now'
      BY <1>3 DEF PricesAt
    <3> QED BY <1>3, <1>5, <3>1 DEF Known, Acceptable
  <2>1. c \in Registered /\ Acceptable(current'[c], now)
    BY <1>1, <1>2 DEF Settled, Known
  <2>2. current'[c].at \in Int
    BY <1>1, <1>2 DEF Running, Price
  <2>3. Acceptable(current'[c], now')
    BY <1>4, <2>1, <2>2 DEF Acceptable
  <2> QED BY <2>1, <2>3
<1>10. Agree(current, vmres)'
  BY <1>1, <1>2, <1>5 DEF Settled, Agree
<1>11. PanicOnlyOnFreshPrice'
  BY <1>3 DEF PanicOnlyOnFreshPrice
<1> QED BY <1>7, <1>8, <1>9, <1>10, <1>11 DEF IInv

-------------------------------------------------------------------------------
(* Restarting from an export *)

\* InitGenesis refuses only a price from the future of the new chain.
LEMMA RestartIsSound ==
  ASSUME IInv, Restart
  PROVE  IInv'
<1> DEFINE t == IF panicked THEN exportedAt ELSE now
<1>1. /\ exportedAt' = t /\ raw' = [code \in Codes |-> <<>>]
      /\ UNCHANGED <<assets, diff, current, vmres>>
      /\ panicked' = ~(GenesisValid(Exported, now') /\ DOMAIN Exported \subseteq Registered)
  BY DEF Restart
<1>2. /\ Shape /\ now' \in Int /\ now' >= now /\ now \in Int /\ diff \in Int /\ GenesisTime \in Int
      /\ t \in Int /\ Known(current, t)
  BY TimeAssumption DEF Restart, IInv, Shape, PricesAt
<1>3. Registered' = Registered
  BY <1>1 DEF Registered
<1>4. <<>> \in Seq(Posted) /\ Len(<<>>) = 0 /\ 1..0 = {}
  BY EmptySeq
<1>5. panicked' \in BOOLEAN
  BY <1>1, Zenon
<1> HIDE DEF t
<1>6. Shape'
  <2>1. raw' \in [Codes -> Seq(Posted)]
    BY <1>1, <1>4
  <2>2. now' \in Int /\ now' >= GenesisTime
    BY <1>2 DEF Shape
  <2> QED BY <1>1, <1>2, <1>5, <2>1, <2>2 DEF Shape
<1>7. OncePerBlock' /\ Timely'
  BY <1>1, <1>4 DEF OncePerBlock, OneEach, Timely
<1> DEFINE E == {c \in Codes : current[c] # NoPrice}
<1>8. DOMAIN Exported = E /\ \A c \in E : Exported[c] = current[c] /\ current[c].at \in Int
  BY <1>2 DEF Exported, Shape, Price
<1>9. E \subseteq Registered
  BY <1>2 DEF Known
<1>10. ~panicked' => \A c \in E : current[c].at <= now'
  BY <1>1, <1>8 DEF GenesisValid
<1>11. panicked' /\ diff > 0 => \E c \in E : current[c].at > now'
  <2> SUFFICES ASSUME panicked', diff > 0, \A c \in E : ~(current[c].at > now') PROVE FALSE
    OBVIOUS
  <2>1. ASSUME NEW c \in E
        PROVE  CurrentPriceValid(Exported[c]) /\ Exported[c].at <= now'
    <3>1. Acceptable(current[c], t) /\ current[c].at <= now'
      BY <1>2, <1>8 DEF Known
    <3> QED BY <1>8, <3>1 DEF Acceptable, CurrentPriceValid
  <2>2. GenesisValid(Exported, now')
    BY <1>8, <2>1 DEF GenesisValid
  <2> QED BY <1>1, <1>8, <1>9, <2>2, Zenon
<1> HIDE DEF E
<1>12. Known(current, PricesAt)'
  <2> SUFFICES ASSUME NEW c \in Codes, current[c] # NoPrice
               PROVE  c \in Registered /\ Acceptable(current[c], PricesAt')
    BY <1>1, <1>3 DEF Known, Acceptable
  <2>1. c \in Registered /\ Acceptable(current[c], t)
    BY <1>2 DEF Known
  <2>2. CASE panicked'
    BY <1>1, <2>1, <2>2 DEF PricesAt
  <2>3. CASE ~panicked'
    <3>1. current[c].at <= now' /\ current[c].at \in Int /\ PricesAt' = now'
      BY <1>8, <1>10, <2>3 DEF E, PricesAt
    <3> QED BY <1>2, <2>1, <3>1 DEF Acceptable
  <2> QED BY <2>2, <2>3
<1>13. Agree(current, vmres)'
  BY <1>1, <1>3 DEF IInv, Agree
<1>14. PanicOnlyOnFreshPrice'
  <2> SUFFICES ASSUME panicked', diff > 0 PROVE now' < t + diff
    BY <1>1 DEF PanicOnlyOnFreshPrice
  <2>1. PICK c \in E : current[c].at > now'
    BY <1>11
  <2>2. current[c].at <= t + diff /\ current[c].at \in Int
    BY <1>2, <1>8 DEF E, Known, Acceptable
  <2> QED BY <1>2, <2>1, <2>2
<1> QED BY <1>6, <1>7, <1>12, <1>13, <1>14 DEF IInv

-------------------------------------------------------------------------------
(* Theorems *)

\* Every step keeps the invariant.
LEMMA NextIsSound == IInv /\ [Next]_vars => IInv'
<1> SUFFICES ASSUME IInv, [Next]_vars PROVE IInv'
  OBVIOUS
<1>1. CASE UNCHANGED vars
  <2>1. UNCHANGED <<raw, diff, current, vmres, now, exportedAt, panicked, assets>>
    BY <1>1 DEF vars
  <2>2. assets' \in Seq(Asset) /\ Registered \subseteq Registered'
    BY <2>1 DEF IInv, Shape, Registered
  <2> QED BY <2>1, <2>2, AssetsGrow
<1>2. ASSUME NEW msg \in Msgs,
             PostPrice(msg) \/ AddOracle(msg) \/ SetOracles(msg) \/ SetAsset(msg) \/ AddAsset(msg)
      PROVE  IInv'
  BY <1>2, PostPriceIsSound, AddOracleIsSound, SetOraclesIsSound, SetAssetIsSound, AddAssetIsSound
<1>3. CASE EndBlock
  BY <1>3, EndBlockIsSound
<1>4. CASE Restart
  BY <1>4, RestartIsSound
<1> QED BY <1>1, <1>2, <1>3, <1>4 DEF Next

\* The inductive invariant holds in every reachable state.
THEOREM Invariance == Spec => []IInv
BY InitIsSound, NextIsSound, PTL DEF Spec

\* queryCurrentPrice tells a client the price that the virtual machine's
\* resource holds, also for a reversed asset.
THEOREM ClientsAndContractsAgree == Spec => []QueryAgreesWithVM
<1>1. IInv => QueryAgreesWithVM
  <2> SUFFICES ASSUME IInv, NEW code \in Codes, ~({code, ReverseCode(code)} \subseteq Registered)
               PROVE  QueryCurrentPrice(code).ask = vmres[code]
    BY DEF QueryAgreesWithVM
  <2> DEFINE reverse == ReverseCode(code)
  <2> HIDE DEF Registered
  <2>1. reverse \in Codes /\ ReverseCode(reverse) = code
    BY ReverseTwice
  <2>2. Agree(current, vmres)
    BY DEF IInv
  <2>3. CASE code \in Registered
    <3>1. reverse \notin Registered
      BY <2>3
    <3> QED BY <2>2, <2>3, <3>1 DEF Agree, QueryCurrentPrice
  <2>4. CASE code \notin Registered /\ reverse \in Registered
    <3>1. vmres[code] = ReversedAsk(current[reverse])
      BY <2>1, <2>2, <2>4 DEF Agree
    <3> QED BY <2>4, <3>1, NoPriceIsPrice DEF QueryCurrentPrice, ReversedAsk
  <2>5. CASE code \notin Registered /\ reverse \notin Registered
    <3>1. vmres[code] = 0
      BY <2>2, <2>5 DEF Agree
    <3> QED BY <2>5, <3>1, NoPriceIsPrice DEF QueryCurrentPrice
  <2> QED BY <2>3, <2>4, <2>5
<1> QED BY <1>1, Invariance, PTL

\* InitGenesis takes the exported prices, unless the new chain starts before
\* the time that an oracle gave for one.
THEOREM ExportIsImportable == Spec => []PanicOnlyOnFreshPrice
<1>1. IInv => PanicOnlyOnFreshPrice
  BY DEF IInv
<1> QED BY <1>1, Invariance, PTL

\* EndBlocker changes a price only to one with half of the block's oracles on
\* either side, whatever the others post and however often.
THEOREM MinorityCannotMoveThePrice == Spec => MedianIsBounded
<1> DEFINE A == \A code \in Codes :
                  current'[code] # current[code] => HalfOnEachSide(raw[code], current'[code])
<1>1. IInv /\ [Next]_vars => [A]_vars
  <2> SUFFICES ASSUME IInv, Next, NEW code \in Codes, current'[code] # current[code]
               PROVE  HalfOnEachSide(raw[code], current'[code])
    OBVIOUS
  <2>1. EndBlock
    BY DEF Next, PostPrice, AddOracle, SetOracles, SetAsset, AddAsset, Deliver, Restart
  <2>2. Settled(SetCurrentPrices) /\ current' = SetCurrentPrices.current
    BY <2>1, LoopIsSound DEF EndBlock
  <2> QED BY <2>2 DEF Settled
<1> QED BY <1>1, Invariance, PTL DEF Spec, MedianIsBounded
===============================================================================
