------------------------------ MODULE PoaProofs ------------------------------
(***************************************************************************)
(* Proofs about x/poa, for any set of addresses, any genesis and any       *)
(* limits a uint16 can hold, the largest included: the counter may wrap.   *)
(***************************************************************************)
EXTENDS Poa, SeqLemmas

\* The value of a uint16 that was incremented n times, as the remainder of n.
LEMMA Uint16Split ==
  ASSUME NEW n \in Nat
  PROVE  /\ Uint16(n) \in 0..MaxUint16
         /\ \E k \in Nat : n = (k * (MaxUint16 + 1)) + Uint16(n)
<1> DEFINE d == MaxUint16 + 1
<1>1. d \in Nat /\ d > 0
  BY Uint16Assumption
<1> HIDE DEF d
<1>2. n % d \in 0..(d - 1) /\ n = (d * (n \div d)) + (n % d) /\ n \div d \in Int
  BY <1>1, Z3
<1>3. n \div d \in Nat
  BY <1>1, <1>2, Z3
<1>4. n = ((n \div d) * d) + (n % d)
  BY <1>1, <1>2, Z3
<1>5. Uint16(n) = n % d /\ d - 1 = MaxUint16 /\ d = MaxUint16 + 1
  BY Uint16Assumption DEF d, Uint16
<1>6. Uint16(n) \in 0..MaxUint16 /\ n = ((n \div d) * (MaxUint16 + 1)) + Uint16(n)
  BY <1>2, <1>4, <1>5, Zenon
<1> QED
  BY <1>3, <1>6, Zenon

\* A remainder is unique.
LEMMA Uint16Is ==
  ASSUME NEW n \in Nat, NEW k \in Nat, NEW r \in 0..MaxUint16,
         n = (k * (MaxUint16 + 1)) + r
  PROVE  Uint16(n) = r
<1> DEFINE d == MaxUint16 + 1
<1>1. d \in Nat /\ d > 0 /\ r \in 0..(d - 1) /\ n = (k * d) + r
  BY Uint16Assumption
<1> HIDE DEF d
<1>2. n % d = r
  BY <1>1, Z3
<1> QED
  BY <1>2 DEF Uint16, d

\* Until it wraps a uint16 is the number it stands for; it is never more.
LEMMA Uint16Bounds ==
  ASSUME NEW n \in Nat
  PROVE  Uint16(n) <= n /\ (n <= MaxUint16 => Uint16(n) = n)
<1>1. PICK k \in Nat : n = (k * (MaxUint16 + 1)) + Uint16(n)
  BY Uint16Split
<1>2. Uint16(n) \in 0..MaxUint16 /\ k * (MaxUint16 + 1) \in Nat
  BY Uint16Split, Uint16Assumption
<1>3. n <= MaxUint16 => n = (0 * (MaxUint16 + 1)) + n /\ n \in 0..MaxUint16
  BY Uint16Assumption
<1> QED
  BY <1>1, <1>2, <1>3, Uint16Is

\* Inc and Dec count up and down modulo 2^16.
LEMMA IncCounts ==
  ASSUME NEW n \in Nat
  PROVE  Inc(Uint16(n)) = Uint16(n + 1)
<1> DEFINE u == Uint16(n)
<1>1. PICK k \in Nat : n = (k * (MaxUint16 + 1)) + u
  BY Uint16Split
<1>2. u \in 0..MaxUint16
  BY Uint16Split
<1> HIDE DEF u
<1>3. CASE u = MaxUint16
  <2>1. n + 1 = ((k + 1) * (MaxUint16 + 1)) + 0 /\ k + 1 \in Nat /\ 0 \in 0..MaxUint16 /\ n + 1 \in Nat
    BY <1>1, <1>3, Uint16Assumption
  <2>2. Uint16(n + 1) = 0
    BY <2>1, Uint16Is
  <2> QED
    BY <1>3, <2>2 DEF Inc, u
<1>4. CASE u # MaxUint16
  <2>1. n + 1 = (k * (MaxUint16 + 1)) + (u + 1) /\ u + 1 \in 0..MaxUint16 /\ n + 1 \in Nat
    BY <1>1, <1>2, <1>4, Uint16Assumption
  <2>2. Uint16(n + 1) = u + 1
    BY <2>1, Uint16Is
  <2> QED
    BY <1>4, <2>2 DEF Inc, u
<1> QED
  BY <1>3, <1>4

\* The counterpart for Dec.
LEMMA DecCounts ==
  ASSUME NEW n \in Nat, n # 0
  PROVE  Dec(Uint16(n)) = Uint16(n - 1)
<1> DEFINE u == Uint16(n - 1)
<1>1. n - 1 \in Nat /\ (n - 1) + 1 = n
  OBVIOUS
<1>2. u \in 0..MaxUint16 /\ Uint16(n) = Inc(u)
  BY <1>1, Uint16Split, IncCounts
<1> HIDE DEF u
<1> QED
  BY <1>2, Uint16Assumption DEF Inc, Dec, u

-----------------------------------------------------------------------------

\* A store whose copies agree.
Good(p) == p \in PoaState /\ Agree(p)

\* Writing the three copies.
LEMMA WriteCopies ==
  ASSUME NEW p \in PoaState, NEW s \in SUBSET Address, NEW l \in Seq(Address),
         NEW n \in 0..MaxUint16
  PROVE  [p EXCEPT !.store = s, !.list = l, !.amount = n] \in PoaState
BY DEF PoaState

\* A successful addValidator keeps the copies in agreement and, when it
\* checks the limit, respects it, unless the counter is full.
LEMMA AddKeepsGood ==
  ASSUME NEW p, Good(p), NEW a \in Address, NEW lim \in BOOLEAN,
         addValidator(p, a, lim).ok
  PROVE  LET q == addValidator(p, a, lim).st
         IN  /\ Good(q)
             /\ q.list = Append(p.list, a)
             /\ lim => Len(q.list) <= p.max \/ Len(p.list) >= MaxUint16
             /\ q.max = p.max /\ q.min = p.min
<1> DEFINE q == [p EXCEPT !.store  = p.store \cup {a},
                          !.list   = Append(p.list, a),
                          !.amount = Inc(p.amount)]
           n == Len(p.list)
<1>1. /\ addValidator(p, a, lim).st = q
      /\ a \notin p.store
      /\ lim => ~(Inc(p.amount) > p.max)
  BY DEF addValidator, HasValidator, GetValidatorAmount, addValidatorToList,
         increaseValidatorsAmount
<1>2. p \in PoaState /\ Agree(p)
  BY DEF Good
<1>3. p.list \in Seq(Address) /\ n \in Nat /\ p.max \in 0..MaxUint16 /\ p.amount = Uint16(n)
  <2>1. p.list \in Seq(Address) /\ p.max \in Limits
    BY <1>2 DEF PoaState
  <2>2. p.amount = Uint16(n)
    BY <1>2 DEF Agree
  <2>3. n \in Nat
    BY <2>1
  <2>4. p.max \in 0..MaxUint16
    BY <2>1, LimitsAssumption, Zenon
  <2> QED
    BY <2>1, <2>2, <2>3, <2>4, Zenon
<1>4. Inc(p.amount) = Uint16(n + 1) /\ Inc(p.amount) \in 0..MaxUint16
  BY <1>3, IncCounts, Uint16Split
<1>5. /\ Append(p.list, a) \in Seq(Address)
      /\ Len(Append(p.list, a)) = n + 1
      /\ IsInjective(Append(p.list, a))
      /\ ToSet(Append(p.list, a)) = p.store \cup {a}
  BY <1>1, <1>2, <1>3, AppendDistinct DEF Agree
<1>6. /\ q.store = p.store \cup {a} /\ q.list = Append(p.list, a)
      /\ q.amount = Uint16(n + 1) /\ q.max = p.max /\ q.min = p.min
      /\ q \in PoaState
  <2>1. p.store \cup {a} \in SUBSET Address
    BY <1>2 DEF PoaState
  <2>2. q \in PoaState
    BY <2>1, <1>2, <1>4, <1>5, WriteCopies
  <2>3. q.store = p.store \cup {a} /\ q.list = Append(p.list, a) /\ q.amount = Inc(p.amount)
    BY <1>2 DEF PoaState
  <2>4. q.max = p.max /\ q.min = p.min
    BY <1>2 DEF PoaState
  <2> QED
    BY <1>4, <2>2, <2>3, <2>4, Zenon
<1> HIDE DEF q
<1>7. Good(q)
  BY <1>5, <1>6 DEF Good, Agree
<1>8. lim => Len(q.list) <= p.max \/ n >= MaxUint16
  <2> SUFFICES ASSUME lim, n < MaxUint16 PROVE Len(q.list) <= p.max
    BY <1>3, Uint16Assumption
  <2>1. n + 1 \in Nat /\ n + 1 <= MaxUint16
    BY <1>3, Uint16Assumption
  <2>2. Inc(p.amount) = n + 1
    BY <1>4, <2>1, Uint16Bounds
  <2> QED
    BY <1>1, <1>3, <1>5, <1>6, <2>2
<1> QED
  BY <1>1, <1>6, <1>7, <1>8

\* A successful removeValidator keeps the copies in agreement and, when it
\* checks the limit, respects it: the counter never overstates the list.
LEMMA RemoveKeepsGood ==
  ASSUME NEW p, Good(p), NEW a \in Address, NEW lim \in BOOLEAN,
         removeValidator(p, a, lim).ok
  PROVE  LET q == removeValidator(p, a, lim).st
         IN  /\ Good(q)
             /\ Len(q.list) = Len(p.list) - 1
             /\ lim => Len(q.list) >= p.min
             /\ q.max = p.max /\ q.min = p.min
<1> DEFINE q == [p EXCEPT !.store  = p.store \ {a},
                          !.list   = RemoveFirst(p.list, a),
                          !.amount = Dec(p.amount)]
           n == Len(p.list)
<1>1. /\ removeValidator(p, a, lim).st = q
      /\ a \in p.store
      /\ lim => ~(Dec(p.amount) < p.min)
  BY DEF removeValidator, HasValidator, GetValidatorAmount,
         removeValidatorFromList, decreaseValidatorsAmount
<1>2. p \in PoaState /\ Agree(p)
  BY DEF Good
<1>3. p.list \in Seq(Address) /\ n \in Nat /\ p.min \in 0..MaxUint16 /\ p.amount = Uint16(n)
  <2>1. p.list \in Seq(Address) /\ p.min \in Limits
    BY <1>2 DEF PoaState
  <2>2. p.amount = Uint16(n)
    BY <1>2 DEF Agree
  <2>3. n \in Nat
    BY <2>1
  <2>4. p.min \in 0..MaxUint16
    BY <2>1, LimitsAssumption, Zenon
  <2> QED
    BY <2>1, <2>2, <2>3, <2>4, Zenon
<1>4. n # 0 /\ n - 1 \in Nat
  BY <1>1, <1>2, <1>3 DEF Agree, ToSet
<1>5. Dec(p.amount) = Uint16(n - 1) /\ Dec(p.amount) \in 0..MaxUint16 /\ Dec(p.amount) <= n - 1
  BY <1>3, <1>4, DecCounts, Uint16Split, Uint16Bounds
<1>6. /\ RemoveFirst(p.list, a) \in Seq(Address)
      /\ Len(RemoveFirst(p.list, a)) = n - 1
      /\ IsInjective(RemoveFirst(p.list, a))
      /\ ToSet(RemoveFirst(p.list, a)) = p.store \ {a}
  BY <1>1, <1>2, <1>3, RemoveFirstDistinct DEF Agree
<1>7. /\ q.store = p.store \ {a} /\ q.list = RemoveFirst(p.list, a)
      /\ q.amount = Uint16(n - 1) /\ q.max = p.max /\ q.min = p.min
      /\ q \in PoaState
  <2>1. p.store \ {a} \in SUBSET Address
    BY <1>2 DEF PoaState
  <2>2. q \in PoaState
    BY <2>1, <1>2, <1>5, <1>6, WriteCopies
  <2>3. q.store = p.store \ {a} /\ q.list = RemoveFirst(p.list, a) /\ q.amount = Dec(p.amount)
    BY <1>2 DEF PoaState
  <2>4. q.max = p.max /\ q.min = p.min
    BY <1>2 DEF PoaState
  <2> QED
    BY <1>5, <2>2, <2>3, <2>4, Zenon
<1> HIDE DEF q
<1>8. Good(q)
  BY <1>6, <1>7 DEF Good, Agree
<1>9. lim => Len(q.list) >= p.min
  BY <1>1, <1>3, <1>5, <1>6, <1>7
<1> QED
  BY <1>1, <1>6, <1>7, <1>8, <1>9

\* What a successful multisig message does to the store.
LEMMA MsMsgKeepsGood ==
  ASSUME NEW p, Good(p), NEW m \in PoaMsg(Address), PoaMsHandler(p, m).ok
  PROVE  LET q == PoaMsHandler(p, m).st
         IN  /\ Good(q)
             /\ Len(q.list) > Len(p.list) => Len(q.list) <= p.max \/ Len(p.list) >= MaxUint16
             /\ Len(q.list) < Len(p.list) => Len(q.list) >= p.min
<1>0. p.list \in Seq(Address)
  BY DEF Good, PoaState
<1>1. CASE m.type = "add_validator"
  <2>1. m.address \in Address /\ PoaMsHandler(p, m) = addValidator(p, m.address, TRUE)
    BY <1>1 DEF PoaMsg, PoaMsHandler, AddValidator
  <2>2. addValidator(p, m.address, TRUE).ok
    BY <2>1
  <2> DEFINE q == addValidator(p, m.address, TRUE).st
  <2>3. /\ Good(q) /\ q.list = Append(p.list, m.address)
        /\ Len(q.list) <= p.max \/ Len(p.list) >= MaxUint16
    BY <2>1, <2>2, AddKeepsGood
  <2>4. PoaMsHandler(p, m).st = q
    BY <2>1
  <2> HIDE DEF q
  <2>5. q.list \in Seq(Address) /\ Len(q.list) \in Nat /\ Len(p.list) \in Nat
    BY <1>0, <2>3 DEF Good, PoaState
  <2>6. Len(q.list) = Len(p.list) + 1
    BY <1>0, <2>1, <2>3
  <2> QED
    BY <2>3, <2>4, <2>5, <2>6
<1>2. CASE m.type = "remove_validator"
  <2>1. m.address \in Address /\ PoaMsHandler(p, m) = removeValidator(p, m.address, TRUE)
    BY <1>2 DEF PoaMsg, PoaMsHandler, RemoveValidator
  <2>2. removeValidator(p, m.address, TRUE).ok
    BY <2>1
  <2> DEFINE q == removeValidator(p, m.address, TRUE).st
  <2>3. Good(q) /\ Len(q.list) = Len(p.list) - 1 /\ Len(q.list) >= p.min
    BY <2>1, <2>2, RemoveKeepsGood
  <2>4. PoaMsHandler(p, m).st = q
    BY <2>1
  <2> HIDE DEF q
  <2>5. q.list \in Seq(Address) /\ Len(q.list) \in Nat /\ Len(p.list) \in Nat
    BY <1>0, <2>3 DEF Good, PoaState
  <2>6. Len(q.list) = Len(p.list) - 1
    BY <1>0, <2>1, <2>3
  <2> QED
    BY <2>3, <2>4, <2>5, <2>6
<1>3. CASE m.type = "replace_validator"
  <2> DEFINE r == removeValidator(p, m.old, FALSE)
             s == addValidator(r.st, m.new, FALSE)
  <2>1. m.old \in Address /\ m.new \in Address
    BY <1>3 DEF PoaMsg
  <2>2. PoaMsHandler(p, m) = IF r.ok THEN s ELSE r
    BY <1>3 DEF PoaMsHandler, ReplaceValidator
  <2> HIDE DEF s
  <2>3. r.ok /\ PoaMsHandler(p, m) = s /\ s.ok
    BY <2>2
  <2>4. Good(r.st) /\ Len(r.st.list) = Len(p.list) - 1
    BY <2>1, <2>3, RemoveKeepsGood
  <2> HIDE DEF r
  <2>5. Good(s.st) /\ s.st.list = Append(r.st.list, m.new)
    BY <2>1, <2>3, <2>4, AddKeepsGood DEF s
  <2>6. r.st.list \in Seq(Address)
    BY <2>4 DEF Good, PoaState
  <2>7. Len(s.st.list) = Len(p.list)
    BY <1>0, <2>1, <2>4, <2>5, <2>6
  <2> QED
    BY <1>0, <2>3, <2>5, <2>7
<1> QED
  BY <1>1, <1>2, <1>3 DEF PoaMsg

-----------------------------------------------------------------------------

\* The inductive invariant: the copies agree, a list longer than the counter
\* needs the largest limit, and a running import has added a prefix of the
\* genesis list.
PoaInv ==
  /\ TypeOK
  /\ CopiesAgree
  /\ WrapNeedsLargestLimit
  /\ ImportRestoresList
  /\ PanicOnlyOnBadGenesis

\* An empty store, all of the genesis list pending.
LEMMA EmptyStoreGood ==
  ASSUME NEW max \in Limits, NEW min \in Limits
  PROVE  Good(EmptyPoa(max, min)) /\ EmptyPoa(max, min).list = <<>>
<1>1. Uint16(0) = 0
  BY Uint16Bounds, Uint16Assumption
<1> QED
  BY <1>1, Uint16Assumption DEF Good, EmptyPoa, PoaState, Agree, ToSet, IsInjective

\* The turn of InitGenesis' loop that fails has met a validator listed
\* before or the limit of the genesis.
LEMMA FailedTurnBadGenesis ==
  ASSUME PoaInv, mode = "importing", pending # <<>>,
         ~AddValidator(poa, Head(pending)).ok
  PROVE  ~IsInjective(exported) \/ Len(exported) > poa.max
<1> DEFINE a == Head(pending)
           n == Len(poa.list)
<1>1. /\ poa.list \in Seq(Address) /\ pending \in Seq(Address) /\ n \in Nat
      /\ exported = poa.list \o pending
      /\ poa.amount = Uint16(n) /\ poa.max \in Nat
  <2>1. poa \in PoaState /\ pending \in Seq(Address)
    BY DEF PoaInv, TypeOK
  <2>2. poa.list \in Seq(Address) /\ poa.max \in 0..MaxUint16
    BY <2>1, LimitsAssumption DEF PoaState
  <2>3. poa.amount = Uint16(n) /\ poa.list \o pending = exported
    BY DEF PoaInv, CopiesAgree, Agree, ImportRestoresList
  <2> QED
    BY <2>1, <2>2, <2>3
<1>2. Len(pending) > 0 /\ a = pending[1]
  BY <1>1
<1>3. /\ Len(exported) = n + Len(pending)
      /\ \A i \in 1..n : exported[i] = poa.list[i]
      /\ exported[n + 1] = a
      /\ DOMAIN exported = 1..(n + Len(pending))
  BY <1>1, <1>2
<1>4. a \in poa.store \/ Inc(poa.amount) > poa.max
  BY DEF AddValidator, addValidator, HasValidator, GetValidatorAmount
<1>5. CASE a \in poa.store
  <2>1. PICK i \in 1..n : poa.list[i] = a
    BY <1>1, <1>5 DEF PoaInv, CopiesAgree, Agree, ToSet
  <2>2. exported[i] = exported[n + 1] /\ i # n + 1 /\ i \in DOMAIN exported /\ n + 1 \in DOMAIN exported
    BY <1>1, <1>2, <1>3, <2>1
  <2> QED
    BY <2>2 DEF IsInjective
<1>6. CASE Inc(poa.amount) > poa.max
  <2>1. n \in Nat /\ n + 1 \in Nat /\ poa.amount = Uint16(n)
    BY <1>1
  <2>2. Inc(poa.amount) = Uint16(n + 1)
    BY <2>1, IncCounts
  <2> HIDE DEF n
  <2>3. Inc(poa.amount) <= n + 1 /\ Inc(poa.amount) \in 0..MaxUint16
    BY <2>1, <2>2, Uint16Bounds, Uint16Split
  <2> QED
    BY <1>1, <1>2, <1>3, <1>6, <2>1, <2>3, Uint16Assumption
<1> QED
  BY <1>4, <1>5, <1>6

\* Adding the next pending validator at the end of the list keeps list and
\* pending a split of the genesis list.
LEMMA ImportTurn ==
  ASSUME NEW l \in Seq(Address), NEW s \in Seq(Address), s # <<>>
  PROVE  /\ Head(s) \in Address /\ Tail(s) \in Seq(Address)
         /\ Append(l, Head(s)) \o Tail(s) = l \o s
<1>1. Head(s) \in Address /\ Tail(s) \in Seq(Address)
  BY HeadTailProperties
<1>2. Append(l, Head(s)) = l \o <<Head(s)>>
  BY <1>1, AppendIsConcat
<1>3. <<Head(s)>> \in Seq(Address) /\ s = <<Head(s)>> \o Tail(s)
  <2>1. <<Head(s)>> \in Seq(Address)
    BY <1>1
  <2>2. Len(<<Head(s)>> \o Tail(s)) = Len(s) /\ <<Head(s)>> \o Tail(s) \in Seq(Address)
    BY <1>1, <2>1
  <2>3. \A i \in 1..Len(s) : (<<Head(s)>> \o Tail(s))[i] = s[i]
    BY <1>1, <2>1
  <2> QED
    BY <2>1, <2>2, <2>3, SeqEqual
<1> QED
  BY <1>1, <1>2, <1>3, ConcatAssociative

\* A list that grows only up to a limit below the largest uint16 stays
\* shorter than it.
LEMMA LimitStopsBeforeWrap ==
  ASSUME NEW p \in PoaState, NEW q \in PoaState,
         MaxUint16 \in Limits \/ Len(p.list) < MaxUint16,
         Len(q.list) > Len(p.list) => Len(q.list) <= p.max \/ Len(p.list) >= MaxUint16
  PROVE  MaxUint16 \in Limits \/ Len(q.list) < MaxUint16
<1> DEFINE m == Len(p.list)
           n == Len(q.list)
<1>1. p.max \in Limits /\ p.list \in Seq(Address) /\ q.list \in Seq(Address)
  BY DEF PoaState
<1>2. m \in Nat /\ n \in Nat
  BY <1>1
<1>3. p.max \in 0..MaxUint16
  BY <1>1, LimitsAssumption, Zenon
<1> HIDE DEF m, n
<1> SUFFICES ASSUME MaxUint16 \notin Limits PROVE n < MaxUint16
  BY DEF n
<1>4. m < MaxUint16 /\ p.max # MaxUint16 /\ (n > m => n <= p.max \/ m >= MaxUint16)
  BY <1>1 DEF m, n
<1> QED
  BY <1>2, <1>3, <1>4, Uint16Assumption

\* Every step keeps the invariant.
LEMMA PoaInvStep == PoaInv /\ [Next]_vars => PoaInv'
<1> SUFFICES ASSUME PoaInv, [Next]_vars PROVE PoaInv'
  OBVIOUS
<1> USE DEF CopiesAgree
<1>0. /\ poa \in PoaState /\ mode \in {"importing", "running", "panicked"}
      /\ exported \in Seq(Address) /\ pending \in Seq(Address)
      /\ Good(poa) /\ (MaxUint16 \in Limits \/ Len(poa.list) < MaxUint16)
  BY DEF PoaInv, TypeOK, Good, WrapNeedsLargestLimit
<1>1. CASE InitGenesisAdd
  <2> DEFINE added == AddValidator(poa, Head(pending))
  <2>1. mode = "importing" /\ pending # <<>> /\ exported' = exported
    BY <1>1 DEF InitGenesisAdd
  <2>2. CASE added.ok
    <3>1. poa' = added.st /\ pending' = Tail(pending) /\ mode' = mode
      BY <1>1, <2>2 DEF InitGenesisAdd
    <3>2. /\ Head(pending) \in Address /\ Tail(pending) \in Seq(Address)
          /\ Append(poa.list, Head(pending)) \o Tail(pending) = poa.list \o pending
      BY <1>0, <2>1, ImportTurn DEF PoaState
    <3>3. /\ Good(added.st) /\ added.st.list = Append(poa.list, Head(pending))
          /\ Len(added.st.list) <= poa.max \/ Len(poa.list) >= MaxUint16
      BY <1>0, <2>2, <3>2, AddKeepsGood DEF AddValidator
    <3> HIDE DEF added
    <3>4. TypeOK' /\ Agree(poa)'
      BY <1>0, <2>1, <3>1, <3>2, <3>3 DEF TypeOK, Good, Agree
    <3>5. ImportRestoresList' /\ PanicOnlyOnBadGenesis'
      BY <2>1, <3>1, <3>2, <3>3 DEF PoaInv, ImportRestoresList, PanicOnlyOnBadGenesis
    <3>6. WrapNeedsLargestLimit'
      BY <1>0, <3>1, <3>3, LimitStopsBeforeWrap DEF Good, WrapNeedsLargestLimit
    <3> QED
      BY <3>4, <3>5, <3>6 DEF PoaInv
  <2>3. CASE ~added.ok
    <3>1. mode' = "panicked" /\ poa' = poa /\ pending' = pending
      BY <1>1, <2>3 DEF InitGenesisAdd
    <3>2. ~IsInjective(exported) \/ Len(exported) > poa.max
      BY <2>1, <2>3, FailedTurnBadGenesis
    <3> QED
      BY <2>1, <3>1, <3>2
      DEF PoaInv, TypeOK, Agree, WrapNeedsLargestLimit, ImportRestoresList, PanicOnlyOnBadGenesis
  <2> QED
    BY <2>2, <2>3
<1>2. CASE InitGenesisDone
  BY <1>2 DEF InitGenesisDone, PoaInv, TypeOK, Agree, WrapNeedsLargestLimit,
              ImportRestoresList, PanicOnlyOnBadGenesis
<1>3. ASSUME NEW m \in PoaMsg(Address), ExecuteMsMsg(m) PROVE PoaInv'
  <2>1. /\ mode = "running" /\ mode' = mode /\ exported' = exported /\ pending' = pending
        /\ PoaMsHandler(poa, m).ok /\ poa' = PoaMsHandler(poa, m).st
    BY <1>3 DEF ExecuteMsMsg
  <2>2. /\ Good(poa')
        /\ Len(poa'.list) > Len(poa.list) => Len(poa'.list) <= poa.max \/ Len(poa.list) >= MaxUint16
    BY <1>0, <2>1, MsMsgKeepsGood
  <2>3. WrapNeedsLargestLimit'
    BY <1>0, <2>2, LimitStopsBeforeWrap DEF Good, WrapNeedsLargestLimit
  <2> QED
    BY <1>0, <2>1, <2>2, <2>3
    DEF PoaInv, TypeOK, Good, Agree, ImportRestoresList, PanicOnlyOnBadGenesis
<1>4. ASSUME NEW max \in Limits, NEW min \in Limits, ChangeParams(max, min) PROVE PoaInv'
  <2>1. /\ mode = "running" /\ mode' = mode /\ exported' = exported /\ pending' = pending
        /\ poa' = [poa EXCEPT !.max = max, !.min = min]
    BY <1>4 DEF ChangeParams
  <2>2. poa' \in PoaState /\ poa'.store = poa.store /\ poa'.list = poa.list /\ poa'.amount = poa.amount
    BY <1>0, <2>1 DEF PoaState
  <2> QED
    BY <1>0, <2>1, <2>2
    DEF PoaInv, TypeOK, Agree, WrapNeedsLargestLimit, ImportRestoresList, PanicOnlyOnBadGenesis
<1>5. CASE Restart
  <2>1. /\ poa' = EmptyPoa(poa.max, poa.min) /\ mode' = "importing"
        /\ exported' = poa.list /\ pending' = poa.list
    BY <1>5 DEF Restart, Import, PoaExportGenesis, GetValidators
  <2>2. poa.list \in Seq(Address) /\ poa.max \in Limits /\ poa.min \in Limits
    BY <1>0 DEF PoaState
  <2>3. Good(poa') /\ poa'.list = <<>>
    BY <2>1, <2>2, EmptyStoreGood
  <2>4. <<>> \o poa.list = poa.list
    BY <2>2, ConcatEmptySeq
  <2>5. WrapNeedsLargestLimit'
    BY <2>3, Uint16Assumption DEF WrapNeedsLargestLimit
  <2> QED
    BY <2>1, <2>2, <2>3, <2>4, <2>5
    DEF PoaInv, TypeOK, Good, Agree, ImportRestoresList, PanicOnlyOnBadGenesis
<1>6. CASE UNCHANGED vars
  BY <1>6 DEF vars, PoaInv, TypeOK, Agree, WrapNeedsLargestLimit,
              ImportRestoresList, PanicOnlyOnBadGenesis
<1> QED
  BY <1>1, <1>2, <1>3, <1>4, <1>5, <1>6 DEF Next

\* The invariant holds when InitGenesis starts.
LEMMA PoaInvInit == Init => PoaInv
<1> SUFFICES ASSUME Init PROVE PoaInv
  OBVIOUS
<1>1. PICK vals \in Genesis, max \in Limits, min \in Limits :
         /\ poa = EmptyPoa(max, min) /\ mode = "importing"
         /\ exported = vals /\ pending = vals
  BY DEF Init
<1>2. vals \in Seq(Address)
  BY GenesisAssumption
<1>3. Good(poa) /\ poa.list = <<>>
  BY <1>1, EmptyStoreGood
<1>4. <<>> \o vals = vals
  BY <1>2, ConcatEmptySeq
<1>5. WrapNeedsLargestLimit
  BY <1>3, Uint16Assumption DEF WrapNeedsLargestLimit
<1> QED
  BY <1>1, <1>2, <1>3, <1>4, <1>5
  DEF PoaInv, CopiesAgree, TypeOK, Good, Agree, ImportRestoresList, PanicOnlyOnBadGenesis

\* Type correctness of the PoA store, uint16 counter included.
THEOREM TypeCorrect == Spec => []TypeOK
<1>1. PoaInv => TypeOK
  BY DEF PoaInv
<1> QED
  BY <1>1, PoaInvInit, PoaInvStep, PTL DEF Spec

\* The uint16 counter is the length of the list for as long as it can be, and
\* the list outgrows it only when governance sets the largest uint16 as a
\* limit, where the check of addValidator wraps.
THEOREM CounterWrapsOnlyAtLargestLimit ==
  Spec => [](/\ WrapNeedsLargestLimit
             /\ Len(poa.list) <= MaxUint16 => poa.amount = Len(poa.list))
<1>1. PoaInv => /\ WrapNeedsLargestLimit
                /\ Len(poa.list) <= MaxUint16 => poa.amount = Len(poa.list)
  <2> SUFFICES ASSUME PoaInv, Len(poa.list) <= MaxUint16
               PROVE  poa.amount = Len(poa.list)
    BY DEF PoaInv
  <2>1. poa.list \in Seq(Address) /\ poa.amount = Uint16(Len(poa.list))
    BY DEF PoaInv, TypeOK, PoaState, CopiesAgree, Agree
  <2>2. Len(poa.list) \in Nat
    BY <2>1
  <2> QED
    BY <2>1, <2>2, Uint16Bounds
<1> QED
  BY <1>1, PoaInvInit, PoaInvStep, PTL DEF Spec

\* Whatever calls are executed, whatever governance does to the limits and
\* however often the chain is exported and restarted, the entries, the list
\* and the counter that addValidator and removeValidator maintain agree, the
\* counter modulo 2^16.
THEOREM CopiesAlwaysAgree == Spec => []CopiesAgree
<1>1. PoaInv => CopiesAgree
  BY DEF PoaInv
<1> QED
  BY <1>1, PoaInvInit, PoaInvStep, PTL DEF Spec

\* InitGenesis rebuilds the exported list in order, and panics only on a
\* genesis that is itself bad.
THEOREM ImportIsFaithful == Spec => [](ImportRestoresList /\ PanicOnlyOnBadGenesis)
<1>1. PoaInv => ImportRestoresList /\ PanicOnlyOnBadGenesis
  BY DEF PoaInv
<1> QED
  BY <1>1, PoaInvInit, PoaInvStep, PTL DEF Spec

\* The number of entries is the length of the list.
LEMMA StoreCardinality ==
  ASSUME NEW p, Good(p)
  PROVE  Cardinality(p.store) = Len(p.list)
<1>1. p.list \in Seq(Address) /\ IsInjective(p.list) /\ ToSet(p.list) = p.store
  BY DEF Good, PoaState, Agree
<1> QED
  BY <1>1, DistinctCardinality

\* GetEnoughConfirmations asks for a majority of the validators there are, as
\* long as their number fits the counter.
THEOREM MajorityAlwaysReachable == Spec => []MajorityReachableAndUnique
<1>1. PoaInv => MajorityReachableAndUnique
  <2> SUFFICES ASSUME PoaInv, Cardinality(poa.store) \in 1..MaxUint16
               PROVE  /\ GetEnoughConfirmations(poa) <= Cardinality(poa.store)
                      /\ 2 * GetEnoughConfirmations(poa) > Cardinality(poa.store)
    BY DEF MajorityReachableAndUnique
  <2>1. Good(poa)
    BY DEF PoaInv, TypeOK, CopiesAgree, Good
  <2> DEFINE n == Len(poa.list)
  <2>2. Cardinality(poa.store) = n /\ n \in 1..MaxUint16
    BY <2>1, StoreCardinality
  <2>3. poa.amount = n /\ n \in Nat /\ n # 0
    BY <2>1, <2>2, Uint16Bounds, Uint16Assumption DEF Good, Agree
  <2>4. GetEnoughConfirmations(poa) = n \div 2 + 1
    BY <2>3 DEF GetEnoughConfirmations, GetValidatorAmount
  <2>5. n \div 2 + 1 <= n /\ 2 * (n \div 2 + 1) > n
    <3> HIDE DEF n
    <3> QED
      BY <2>3
  <2> QED
    BY <2>2, <2>4, <2>5
<1> QED
  BY <1>1, PoaInvInit, PoaInvStep, PTL DEF Spec

\* No call moves the number of validators below the minimum in force, nor
\* above the maximum unless the counter is full or has wrapped.
THEOREM LimitsAlwaysHold == Spec => LimitsHoldOnChange
<1> DEFINE Within ==
      mode = "running" /\ mode' = "running" =>
        /\ Len(poa'.list) > Len(poa.list) =>
              Len(poa'.list) <= poa.max \/ Len(poa.list) >= MaxUint16
        /\ Len(poa'.list) < Len(poa.list) => Len(poa'.list) >= poa.min
<1>1. PoaInv /\ [Next]_vars => [Within]_vars
  <2> SUFFICES ASSUME PoaInv, Next, mode = "running", mode' = "running"
               PROVE  /\ Len(poa'.list) > Len(poa.list) =>
                            Len(poa'.list) <= poa.max \/ Len(poa.list) >= MaxUint16
                      /\ Len(poa'.list) < Len(poa.list) => Len(poa'.list) >= poa.min
    OBVIOUS
  <2>0. poa \in PoaState /\ Good(poa)
    BY DEF PoaInv, TypeOK, CopiesAgree, Good
  <2>1. ASSUME NEW m \in PoaMsg(Address), ExecuteMsMsg(m)
        PROVE  /\ Len(poa'.list) > Len(poa.list) =>
                            Len(poa'.list) <= poa.max \/ Len(poa.list) >= MaxUint16
               /\ Len(poa'.list) < Len(poa.list) => Len(poa'.list) >= poa.min
    BY <2>0, <2>1, MsMsgKeepsGood DEF ExecuteMsMsg
  <2>2. ASSUME NEW max \in Limits, NEW min \in Limits, ChangeParams(max, min)
        PROVE  poa'.list = poa.list
    BY <2>0, <2>2 DEF ChangeParams, PoaState
  <2>3. ~InitGenesisAdd /\ ~InitGenesisDone /\ ~Restart
    BY DEF InitGenesisAdd, InitGenesisDone, Restart, Import
  <2>4. poa.list \in Seq(Address)
    BY <2>0 DEF PoaState
  <2> QED
    BY <2>1, <2>2, <2>3, <2>4 DEF Next
<1> QED
  BY <1>1, PoaInvInit, PoaInvStep, PTL DEF Spec, LimitsHoldOnChange
=============================================================================
