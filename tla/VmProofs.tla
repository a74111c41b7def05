------------------------------- MODULE VmProofs -------------------------------
(***************************************************************************)
(* Proofs about x/vm, for any transactions, proposals, gas constants and   *)
(* number of attempts: what the VM is granted, and when scheduled updates  *)
(* run.                                                                    *)
(***************************************************************************)
EXTENDS Vm, SeqLemmas

-------------------------------------------------------------------------------
(* Gas *)

LevelFold == INSTANCE Folding WITH Op <- EventTypeLevel
NodeFold == INSTANCE Folding WITH Op <- ProcessEventType
EventFold == INSTANCE Folding WITH Op <- NewMoveEvent
WriteFold == INSTANCE Folding WITH Op <- SetValue
ExecFold == INSTANCE Folding WITH Op <- ProcessExecution

\* A level of the type of an event costs some gas.
LEMMA EventTypeGasIsNat ==
  ASSUME NEW depth \in Nat
  PROVE  EventTypeGas(depth) \in Nat
<1> DEFINE s == [k \in 1..depth |-> k]
           base == EventTypeProcessingGas
<1>1. s \in Seq(Nat) /\ base \in Nat
  BY GasAssumption
<1>2. ASSUME NEW a \in Nat, NEW k \in Nat PROVE EventTypeLevel(a, k) \in Nat
  <2> DEFINE n == k - EventTypeNoGasLevels - 1
  <2>1. CASE k <= EventTypeNoGasLevels
    BY <2>1 DEF EventTypeLevel
  <2>2. CASE ~(k <= EventTypeNoGasLevels)
    <3>1. n \in Nat /\ EventTypeProcessingGas \in Nat
      BY <2>2, GasAssumption
    <3>2. EventTypeLevel(a, k) = a + EventTypeProcessingGas * n
      BY <2>2 DEF EventTypeLevel
    <3> HIDE DEF n
    <3> QED BY <3>1, <3>2
  <2> QED BY <2>1, <2>2
<1> HIDE DEF base, s, EventTypeLevel
<1>3. FoldLeft(EventTypeLevel, base, s) = LevelFold!Fold(base, s)
  BY DEF FoldLeft, MapThenFoldSet, Max, LevelFold!Fold, LevelFold!MaxOf
<1>4. LevelFold!Fold(base, s) \in Nat
  <2> DEFINE R == Nat \X Nat
  <2>1. <<0, base>> \in R
    BY <1>1
  <2>2. LevelFold!HandsOn(R, s)
    <3>1. ASSUME NEW k \in Nat, NEW a, k < Len(s), <<k, a>> \in R
          PROVE  <<k + 1, EventTypeLevel(a, s[k + 1])>> \in R
      <4>1. a \in Nat /\ s[k + 1] \in Nat
        BY <1>1, <3>1
      <4>2. EventTypeLevel(a, s[k + 1]) \in Nat
        BY <1>2, <4>1, Zenon
      <4> QED BY <4>2
    <3> HIDE DEF R
    <3> QED BY <3>1 DEF LevelFold!HandsOn
  <2> HIDE DEF R
  <2>3. <<Len(s), LevelFold!Fold(base, s)>> \in R
    BY <1>1, <2>1, <2>2, NatInductionSet, LevelFold!FoldPrefixes, Zenon DEF LevelFold!Induction
  <2> QED BY <2>3 DEF R
<1> QED BY <1>3, <1>4 DEF EventTypeGas, base, s

\* What a message works on: stored values and a gas meter, which is within its
\* limit as long as it has not panicked.
MeterFields == {"val", "used", "limit", "ok"}

Metered(m) ==
  /\ m = [f \in MeterFields |-> m[f]]
  /\ m.used \in Nat \ {0} /\ m.limit \in Nat /\ m.ok \in BOOLEAN
  /\ m.ok = TRUE => ~OutOfGas(m.limit, m.used)

\* An answer of the VM.
IsExec(exec) ==
  /\ exec.gas \in Nat /\ exec.ok \in BOOLEAN
  /\ exec.writes \in Seq(ToSet(exec.writes))
  /\ exec.events \in Seq(Seq(Nat))

\* The VM answers a request for a contract with gas, writes and events.
LEMMA ExecutedIsExec ==
  ASSUME NEW code, IsCode(code), NEW value, NEW granted \in Nat
  PROVE  IsExec(Executed(code, value, granted))
<1> DEFINE e == Executed(code, value, granted)
           W(i) == [path |-> code.writes[i].path, value |-> IF code.writes[i].deletes THEN NoValue ELSE value]
           w == [i \in DOMAIN code.writes |-> W(i)]
<1>1. e.gas \in Nat /\ e.ok \in BOOLEAN /\ e.events \in Seq(Seq(Nat)) /\ (e.writes = <<>> \/ e.writes = w)
  BY DEF IsCode, Executed
<1>2. w \in Seq(ToSet(w))
  <2>1. DOMAIN w = 1..Len(code.writes) /\ Len(code.writes) \in Nat
    BY DEF IsCode
  <2>2. \A i \in DOMAIN w : w[i] \in ToSet(w)
    BY DEF ToSet
  <2>3. w = [i \in 1..Len(code.writes) |-> w[i]]
    BY <2>1
  <2> HIDE DEF w
  <2> QED BY <2>1, <2>2, <2>3
<1>3. <<>> \in Seq(ToSet(<<>>))
  OBVIOUS
<1> HIDE DEF e, w
<1> QED BY <1>1, <1>2, <1>3, Zenon DEF IsExec, e

\* ConsumeGas keeps the gas within the limit, or has the meter panic.
LEMMA ConsumeGasMeters ==
  ASSUME NEW m, Metered(m), NEW gas \in Nat
  PROVE  Metered(ConsumeGas(m, gas)) /\ ConsumeGas(m, gas).limit = m.limit
<1> DEFINE used == m.used + gas
           out == OutOfGas(m.limit, used)
           r == [m EXCEPT !.used = used, !.ok = ~out]
<1>1. used \in Nat \ {0} /\ m = [f \in MeterFields |-> m[f]] /\ m.limit \in Nat /\ m.ok \in BOOLEAN
  BY DEF Metered
<1>2. CASE m.ok = FALSE
  BY <1>2 DEF ConsumeGas
<1>3. CASE m.ok = TRUE
  <2>1. ConsumeGas(m, gas) = r
    BY <1>3 DEF ConsumeGas
  <2>2. out \in BOOLEAN
    BY DEF OutOfGas
  <2>3. r.ok = ~out /\ r.used = used /\ r.limit = m.limit /\ r = [f \in MeterFields |-> r[f]]
    BY <1>1, Zenon DEF MeterFields
  <2> HIDE DEF r
  <2>4. ~out => ~OutOfGas(r.limit, r.used)
    BY <2>3
  <2> HIDE DEF out, used
  <2> QED BY <1>1, <2>1, <2>2, <2>3, <2>4, Zenon DEF Metered
<1> QED BY <1>1, <1>2, <1>3, Zenon

\* So does a write or a deletion.
LEMMA SetValueMeters ==
  ASSUME NEW m, Metered(m), NEW w
  PROVE  Metered(SetValue(m, w)) /\ SetValue(m, w).limit = m.limit
<1> DEFINE c == ConsumeGas(m, WriteGas)
           v == [c.val EXCEPT ![w.path] = w.value]
           r == [c EXCEPT !.val = v]
<1>1. Metered(c) /\ c.limit = m.limit
  <2>1. WriteGas \in Nat
    BY GasAssumption
  <2> QED BY <2>1, ConsumeGasMeters, Zenon
<1>2. SetValue(m, w) = IF c.ok THEN r ELSE c
  BY DEF SetValue
<1> HIDE DEF c, v
<1>3. c = [f \in MeterFields |-> c[f]] /\ c.ok \in BOOLEAN
  BY <1>1 DEF Metered
<1>4. r.ok = c.ok /\ r.used = c.used /\ r.limit = c.limit /\ r = [f \in MeterFields |-> r[f]]
  BY <1>3, Zenon DEF MeterFields
<1> HIDE DEF r
<1>5. Metered(r)
  BY <1>1, <1>4, Zenon DEF Metered
<1> QED BY <1>1, <1>2, <1>3, <1>4, <1>5, Zenon

\* So does a write set.
LEMMA WriteSetMeters ==
  ASSUME NEW m, Metered(m), NEW B, NEW s \in Seq(B)
  PROVE  LET r == FoldLeft(SetValue, m, s) IN Metered(r) /\ r.limit = m.limit
<1> HIDE DEF SetValue
<1> DEFINE After(k) == WriteFold!Fold(m, SubSeq(s, 1, k))
           S == {k \in Nat : k <= Len(s) => Metered(After(k)) /\ After(k).limit = m.limit}
<1>1. FoldLeft(SetValue, m, s) = WriteFold!Fold(m, s)
  BY DEF FoldLeft, MapThenFoldSet, Max, WriteFold!Fold, WriteFold!MaxOf
<1>2. /\ After(0) = m /\ SubSeq(s, 1, Len(s)) = s
      /\ \A k \in Nat : k < Len(s) => After(k + 1) = SetValue(After(k), s[k + 1])
  BY NatInductionSet, WriteFold!FoldSteps, Zenon DEF WriteFold!Induction
<1>3. After(Len(s)) = WriteFold!Fold(m, s)
  BY <1>2, Zenon
<1> HIDE DEF After
<1>4. 0 \in S
  BY <1>2
<1>5. ASSUME NEW k \in Nat, k \in S PROVE k + 1 \in S
  <2>1. ASSUME k + 1 <= Len(s) PROVE Metered(After(k + 1)) /\ After(k + 1).limit = m.limit
    <3>1. Metered(After(k)) /\ After(k).limit = m.limit /\ k < Len(s)
      BY <1>5, <2>1
    <3>2. s[k + 1] \in B
      BY <2>1
    <3>3. /\ Metered(SetValue(After(k), s[k + 1]))
          /\ SetValue(After(k), s[k + 1]).limit = After(k).limit
      BY <3>1, <3>2, SetValueMeters, Zenon
    <3>4. After(k + 1) = SetValue(After(k), s[k + 1])
      BY <1>2, <3>1
    <3> QED BY <3>1, <3>3, <3>4
  <2> QED BY <2>1
<1>6. Len(s) \in S /\ Len(s) \in Nat
  <2> HIDE DEF S
  <2>1. Len(s) \in Nat
    OBVIOUS
  <2> QED BY <1>4, <1>5, <2>1, NatInductionSet
<1>7. Metered(After(Len(s))) /\ After(Len(s)).limit = m.limit
  BY <1>6
<1> QED BY <1>1, <1>3, <1>7

\* So does a node of the type of an event.
LEMMA NodeMeters ==
  ASSUME NEW m, Metered(m), NEW depth \in Nat
  PROVE  Metered(ProcessEventType(m, depth)) /\ ProcessEventType(m, depth).limit = m.limit
<1> HIDE DEF ConsumeGas, EventTypeGas
<1>1. EventTypeGas(depth) \in Nat
  BY EventTypeGasIsNat
<1>2. LET c == ConsumeGas(m, EventTypeGas(depth)) IN Metered(c) /\ c.limit = m.limit
  BY <1>1, ConsumeGasMeters
<1> QED BY <1>2 DEF ProcessEventType

\* So does the type of an event.
LEMMA TypeMeters ==
  ASSUME NEW m, Metered(m), NEW s \in Seq(Nat)
  PROVE  LET r == FoldLeft(ProcessEventType, m, s) IN Metered(r) /\ r.limit = m.limit
<1> HIDE DEF ProcessEventType
<1> DEFINE After(k) == NodeFold!Fold(m, SubSeq(s, 1, k))
           S == {k \in Nat : k <= Len(s) => Metered(After(k)) /\ After(k).limit = m.limit}
<1>1. FoldLeft(ProcessEventType, m, s) = NodeFold!Fold(m, s)
  BY DEF FoldLeft, MapThenFoldSet, Max, NodeFold!Fold, NodeFold!MaxOf
<1>2. /\ After(0) = m /\ SubSeq(s, 1, Len(s)) = s
      /\ \A k \in Nat : k < Len(s) => After(k + 1) = ProcessEventType(After(k), s[k + 1])
  BY NatInductionSet, NodeFold!FoldSteps, Zenon DEF NodeFold!Induction
<1>3. After(Len(s)) = NodeFold!Fold(m, s)
  BY <1>2, Zenon
<1> HIDE DEF After
<1>4. 0 \in S
  BY <1>2
<1>5. ASSUME NEW k \in Nat, k \in S PROVE k + 1 \in S
  <2>1. ASSUME k + 1 <= Len(s) PROVE Metered(After(k + 1)) /\ After(k + 1).limit = m.limit
    <3>1. Metered(After(k)) /\ After(k).limit = m.limit /\ k < Len(s)
      BY <1>5, <2>1
    <3>2. s[k + 1] \in Nat
      BY <2>1
    <3>3. /\ Metered(ProcessEventType(After(k), s[k + 1]))
          /\ ProcessEventType(After(k), s[k + 1]).limit = After(k).limit
      BY <3>1, <3>2, NodeMeters, Zenon
    <3>4. After(k + 1) = ProcessEventType(After(k), s[k + 1])
      BY <1>2, <3>1
    <3> QED BY <3>1, <3>3, <3>4
  <2> QED BY <2>1
<1>6. Len(s) \in S /\ Len(s) \in Nat
  <2> HIDE DEF S
  <2>1. Len(s) \in Nat
    OBVIOUS
  <2> QED BY <1>4, <1>5, <2>1, NatInductionSet
<1>7. Metered(After(Len(s))) /\ After(Len(s)).limit = m.limit
  BY <1>6
<1> QED BY <1>1, <1>3, <1>7

\* So does an event.
LEMMA EventMeters ==
  ASSUME NEW m, Metered(m), NEW type \in Seq(Nat)
  PROVE  Metered(NewMoveEvent(m, type)) /\ NewMoveEvent(m, type).limit = m.limit
BY TypeMeters DEF NewMoveEvent

\* So do the events of an answer.
LEMMA EventsMeter ==
  ASSUME NEW m, Metered(m), NEW s \in Seq(Seq(Nat))
  PROVE  LET r == FoldLeft(NewMoveEvent, m, s) IN Metered(r) /\ r.limit = m.limit
<1> HIDE DEF NewMoveEvent
<1> DEFINE After(k) == EventFold!Fold(m, SubSeq(s, 1, k))
           S == {k \in Nat : k <= Len(s) => Metered(After(k)) /\ After(k).limit = m.limit}
<1>1. FoldLeft(NewMoveEvent, m, s) = EventFold!Fold(m, s)
  BY DEF FoldLeft, MapThenFoldSet, Max, EventFold!Fold, EventFold!MaxOf
<1>2. /\ After(0) = m /\ SubSeq(s, 1, Len(s)) = s
      /\ \A k \in Nat : k < Len(s) => After(k + 1) = NewMoveEvent(After(k), s[k + 1])
  BY NatInductionSet, EventFold!FoldSteps, Zenon DEF EventFold!Induction
<1>3. After(Len(s)) = EventFold!Fold(m, s)
  BY <1>2, Zenon
<1> HIDE DEF After
<1>4. 0 \in S
  BY <1>2
<1>5. ASSUME NEW k \in Nat, k \in S PROVE k + 1 \in S
  <2>1. ASSUME k + 1 <= Len(s) PROVE Metered(After(k + 1)) /\ After(k + 1).limit = m.limit
    <3>1. Metered(After(k)) /\ After(k).limit = m.limit /\ k < Len(s)
      BY <1>5, <2>1
    <3>2. s[k + 1] \in Seq(Nat)
      BY <2>1
    <3>3. /\ Metered(NewMoveEvent(After(k), s[k + 1]))
          /\ NewMoveEvent(After(k), s[k + 1]).limit = After(k).limit
      BY <3>1, <3>2, EventMeters, Zenon
    <3>4. After(k + 1) = NewMoveEvent(After(k), s[k + 1])
      BY <1>2, <3>1
    <3> QED BY <3>1, <3>3, <3>4
  <2> QED BY <2>1
<1>6. Len(s) \in S /\ Len(s) \in Nat
  <2> HIDE DEF S
  <2>1. Len(s) \in Nat
    OBVIOUS
  <2> QED BY <1>4, <1>5, <2>1, NatInductionSet, Zenon
<1>7. Metered(After(Len(s))) /\ After(Len(s)).limit = m.limit
  BY <1>6
<1> QED BY <1>1, <1>3, <1>7

\* Answers are processed one after another.
LEMMA ExecutionFold ==
  ASSUME NEW S, NEW s \in Seq(S), NEW x, NEW r
  PROVE  /\ FoldLeft(ProcessExecution, r, <<>>) = r
         /\ FoldLeft(ProcessExecution, r, Append(s, x)) = ProcessExecution(FoldLeft(ProcessExecution, r, s), x)
<1> HIDE DEF ProcessExecution
<1>1. \A t : FoldLeft(ProcessExecution, r, t) = ExecFold!Fold(r, t)
  BY DEF FoldLeft, MapThenFoldSet, Max, ExecFold!Fold, ExecFold!MaxOf
<1>2. ExecFold!Fold(r, <<>>) = r
  BY ExecFold!FoldEmpty
<1>3. ExecFold!Fold(r, Append(s, x)) = ProcessExecution(ExecFold!Fold(r, s), x)
  BY NatInductionSet, ExecFold!FoldAppend DEF ExecFold!Induction
<1>4. FoldLeft(ProcessExecution, r, <<>>) = r
  BY <1>1, <1>2
<1> QED BY <1>1, <1>3, <1>4, Zenon

\* processExecution keeps the gas within the limit, or has the meter panic.
LEMMA ProcessExecutionMeters ==
  ASSUME NEW m, Metered(m), NEW exec, IsExec(exec)
  PROVE  Metered(ProcessExecution(m, exec)) /\ ProcessExecution(m, exec).limit = m.limit
<1> DEFINE c == ConsumeGas(m, exec.gas)
           w == FoldLeft(SetValue, c, exec.writes)
           e == FoldLeft(NewMoveEvent, w, exec.events)
<1>1. ProcessExecution(m, exec) = IF exec.ok THEN e ELSE c
  BY DEF ProcessExecution, ProcessWriteSet
<1>2. /\ exec.gas \in Nat /\ exec.ok \in BOOLEAN /\ exec.writes \in Seq(ToSet(exec.writes))
      /\ exec.events \in Seq(Seq(Nat))
  BY DEF IsExec
<1>3. Metered(c) /\ c.limit = m.limit
  BY <1>2, ConsumeGasMeters, Zenon
<1> HIDE DEF c
<1>4. Metered(w) /\ w.limit = c.limit
  BY <1>2, <1>3, WriteSetMeters
<1> HIDE DEF w
<1>5. Metered(e) /\ e.limit = w.limit
  BY <1>2, <1>4, EventsMeter
<1> HIDE DEF e
<1> QED BY <1>1, <1>2, <1>3, <1>4, <1>5, Zenon

\* All answers of a message.
LEMMA AnswersMeter ==
  ASSUME NEW m, Metered(m), NEW B, NEW s \in Seq(B), \A i \in DOMAIN s : IsExec(s[i])
  PROVE  LET r == FoldLeft(ProcessExecution, m, s) IN Metered(r) /\ r.limit = m.limit
<1> HIDE DEF ProcessExecution
<1> DEFINE After(k) == FoldLeft(ProcessExecution, m, SubSeq(s, 1, k))
           S == {k \in Nat : k <= Len(s) => Metered(After(k)) /\ After(k).limit = m.limit}
<1>1. 0 \in S
  <2>1. After(0) = m
    BY PrefixElements, ExecutionFold, Zenon
  <2> QED BY <2>1
<1>2. ASSUME NEW k \in Nat, k \in S PROVE k + 1 \in S
  <2>1. ASSUME k + 1 <= Len(s) PROVE Metered(After(k + 1)) /\ After(k + 1).limit = m.limit
    <3>1. /\ SubSeq(s, 1, k) \in Seq(B) /\ IsExec(s[k + 1])
          /\ SubSeq(s, 1, k + 1) = Append(SubSeq(s, 1, k), s[k + 1])
      BY <2>1, PrefixElements
    <3>2. After(k + 1) = ProcessExecution(After(k), s[k + 1])
      BY <3>1, ExecutionFold, Zenon
    <3>3. Metered(After(k)) /\ After(k).limit = m.limit
      BY <1>2, <2>1
    <3> HIDE DEF After
    <3> QED BY <3>1, <3>2, <3>3, ProcessExecutionMeters
  <2> QED BY <2>1
<1>3. Len(s) \in S
  <2> HIDE DEF S
  <2> QED BY <1>1, <1>2, NatInductionSet
<1>4. After(Len(s)) = FoldLeft(ProcessExecution, m, s)
  BY PrefixElements, Zenon
<1>5. Metered(After(Len(s))) /\ After(Len(s)).limit = m.limit
  BY <1>3
<1> HIDE DEF After
<1> QED BY <1>4, <1>5

-------------------------------------------------------------------------------
(* The queue of scheduled updates *)

DueFold == INSTANCE Folding WITH Op <- KeepDue
OthersFold == INSTANCE Folding WITH Op <- KeepOthers

IsUpdate(p) == IsCode(p.code) /\ p.height \in Nat \ {0} /\ p.id \in Nat

\* A queue of updates with different ids, all of them given out before next.
Queued(q, next) ==
  /\ q \in Seq(ToSet(q)) /\ next \in Nat
  /\ \A i \in DOMAIN q : IsUpdate(q[i]) /\ q[i].id < next
  /\ \A i, j \in DOMAIN q : q[i].id = q[j].id => i = j

\* BeginBlocker finds every update that is due.
LEMMA DueAreFound ==
  ASSUME NEW q, NEW next, Queued(q, next)
  PROVE  LET r == FoldLeft(KeepDue, <<>>, q)
         IN  /\ r \in Seq(ToSet(q))
             /\ \A i \in DOMAIN q :
                  ShouldExecute(q[i].height, height + 1) => \E j \in DOMAIN r : r[j] = q[i]
<1> DEFINE B == ToSet(q)
           T == {p \in B : ShouldExecute(p.height, height + 1)}
           r == FoldLeft(KeepDue, <<>>, q)
<1>1. q \in Seq(B)
  BY DEF Queued
<1>2. \A a \in Seq(B), p \in B : KeepDue(a, p) = IF p \in T THEN Append(a, p) ELSE a
  BY DEF KeepDue
<1> HIDE DEF KeepDue, B, T
<1>3. FoldLeft(KeepDue, <<>>, q) = DueFold!Fold(<<>>, q)
  BY DEF FoldLeft, MapThenFoldSet, Max, DueFold!Fold, DueFold!MaxOf
<1>4. DueFold!Fold(<<>>, q) \in Seq(B) /\ Filtered(DueFold!Fold(<<>>, q), q, Len(q), T)
  <2> DEFINE R == {p \in Nat \X Seq(B) : Filtered(p[2], q, p[1], T)}
  <2>1. <<0, <<>>>> \in R
    BY FilterStarts, Zenon
  <2>2. ASSUME NEW k \in Nat, NEW a, k < Len(q), <<k, a>> \in R
        PROVE  <<k + 1, KeepDue(a, q[k + 1])>> \in R
    <3>1. a \in Seq(B) /\ Filtered(a, q, k, T) /\ q[k + 1] \in B
      BY <1>1, <2>2
    <3>2. CASE q[k + 1] \in T
      <4>1. KeepDue(a, q[k + 1]) = Append(a, q[k + 1])
        BY <1>2, <3>1, <3>2
      <4>2. Append(a, q[k + 1]) \in Seq(B) /\ Filtered(Append(a, q[k + 1]), q, k + 1, T)
        BY <3>1, <3>2, FilterTakes
      <4>3. \A b \in Seq(B) : Filtered(b, q, k + 1, T) => <<k + 1, b>> \in R
        OBVIOUS
      <4> HIDE DEF R
      <4> QED BY <4>1, <4>2, <4>3, Zenon
    <3>3. CASE q[k + 1] \notin T
      <4>1. KeepDue(a, q[k + 1]) = a
        BY <1>2, <3>1, <3>3
      <4>2. Filtered(a, q, k + 1, T)
        BY <3>1, <3>3, FilterSkips
      <4> QED BY <3>1, <4>1, <4>2
    <3> QED BY <3>2, <3>3
  <2> HIDE DEF R
  <2>3. DueFold!HandsOn(R, q)
    BY <2>2 DEF DueFold!HandsOn
  <2>4. <<Len(q), DueFold!Fold(<<>>, q)>> \in R
    BY <1>1, <2>1, <2>3, NatInductionSet, DueFold!FoldPrefixes DEF DueFold!Induction
  <2> QED BY <2>4 DEF R
<1>5. r \in Seq(B) /\ Filtered(r, q, Len(q), T)
  BY <1>3, <1>4
<1> HIDE DEF r
<1>6. \A i \in 1..Len(q) : q[i] \in T => \E j \in 1..Len(r) : r[j] = q[i]
  BY <1>5 DEF Filtered
<1>7. DOMAIN q = 1..Len(q) /\ DOMAIN r = 1..Len(r) /\ \A i \in 1..Len(q) : q[i] \in B
  BY <1>1, <1>5
<1> QED BY <1>5, <1>6, <1>7 DEF T, B, r

\* RemoveProposalFromQueue removes the executed update and no other.
LEMMA ExecutedIsRemoved ==
  ASSUME NEW q, NEW next, Queued(q, next)
  PROVE  LET r == FoldLeft(KeepOthers, <<>>, q)
         IN  /\ Queued(r, next)
             /\ \A i \in DOMAIN r : r[i].id # Head(due).id /\ \E j \in DOMAIN q : r[i] = q[j]
<1> DEFINE B == ToSet(q)
           T == {p \in B : p.id # Head(due).id}
           r == FoldLeft(KeepOthers, <<>>, q)
<1>1. q \in Seq(B)
  BY DEF Queued
<1>2. \A a \in Seq(B), p \in B : KeepOthers(a, p) = IF p \in T THEN Append(a, p) ELSE a
  BY DEF KeepOthers
<1> HIDE DEF KeepOthers, B
<1>3. FoldLeft(KeepOthers, <<>>, q) = OthersFold!Fold(<<>>, q)
  BY DEF FoldLeft, MapThenFoldSet, Max, OthersFold!Fold, OthersFold!MaxOf
<1> HIDE DEF T
<1>4. OthersFold!Fold(<<>>, q) \in Seq(B) /\ Filtered(OthersFold!Fold(<<>>, q), q, Len(q), T)
  <2> DEFINE R == {p \in Nat \X Seq(B) : Filtered(p[2], q, p[1], T)}
  <2>1. <<0, <<>>>> \in R
    BY FilterStarts, Zenon
  <2>2. ASSUME NEW k \in Nat, NEW a, k < Len(q), <<k, a>> \in R
        PROVE  <<k + 1, KeepOthers(a, q[k + 1])>> \in R
    <3>1. a \in Seq(B) /\ Filtered(a, q, k, T) /\ q[k + 1] \in B
      BY <1>1, <2>2
    <3>2. CASE q[k + 1] \in T
      <4>1. KeepOthers(a, q[k + 1]) = Append(a, q[k + 1])
        BY <1>2, <3>1, <3>2
      <4>2. Append(a, q[k + 1]) \in Seq(B) /\ Filtered(Append(a, q[k + 1]), q, k + 1, T)
        BY <3>1, <3>2, FilterTakes
      <4>3. \A b \in Seq(B) : Filtered(b, q, k + 1, T) => <<k + 1, b>> \in R
        OBVIOUS
      <4> HIDE DEF R
      <4> QED BY <4>1, <4>2, <4>3, Zenon
    <3>3. CASE q[k + 1] \notin T
      <4>1. KeepOthers(a, q[k + 1]) = a
        BY <1>2, <3>1, <3>3
      <4>2. Filtered(a, q, k + 1, T)
        BY <3>1, <3>3, FilterSkips
      <4> QED BY <3>1, <4>1, <4>2
    <3> QED BY <3>2, <3>3
  <2> HIDE DEF R
  <2>3. OthersFold!HandsOn(R, q)
    BY <2>2 DEF OthersFold!HandsOn
  <2>4. <<Len(q), OthersFold!Fold(<<>>, q)>> \in R
    BY <1>1, <2>1, <2>3, NatInductionSet, OthersFold!FoldPrefixes DEF OthersFold!Induction
  <2> QED BY <2>4 DEF R
<1>5. r \in Seq(B) /\ Filtered(r, q, Len(q), T)
  BY <1>3, <1>4
<1> HIDE DEF r
<1>6. PICK f \in [1..Len(r) -> 1..Len(q)] :
             /\ \A i \in 1..Len(r) : r[i] = q[f[i]]
             /\ \A i, j \in 1..Len(r) : i < j => f[i] < f[j]
  BY <1>5 DEF Filtered
<1>7. \A i \in 1..Len(r) : r[i] \in T
  BY <1>5 DEF Filtered
<1>8. DOMAIN q = 1..Len(q) /\ DOMAIN r = 1..Len(r) /\ Len(r) \in Nat /\ Len(q) \in Nat
  BY <1>1, <1>5
<1>9. \A i \in DOMAIN r : f[i] \in DOMAIN q /\ r[i] = q[f[i]]
  BY <1>6, <1>8
<1>10. \A i, j \in DOMAIN r : f[i] = f[j] => i = j
  <2> SUFFICES ASSUME NEW i \in DOMAIN r, NEW j \in DOMAIN r, i # j PROVE f[i] # f[j]
    OBVIOUS
  <2>1. i \in 1..Len(r) /\ j \in 1..Len(r) /\ f[i] \in 1..Len(q) /\ f[j] \in 1..Len(q) /\ (i < j \/ j < i)
    BY <1>8
  <2>2. f[i] < f[j] \/ f[j] < f[i]
    BY <1>6, <2>1
  <2> QED BY <2>1, <2>2
<1>11. Queued(r, next)
  <2>1. r \in Seq(ToSet(r))
    BY <1>5 DEF ToSet
  <2>2. \A i \in DOMAIN r : IsUpdate(r[i]) /\ r[i].id < next
    BY <1>9 DEF Queued
  <2>3. \A i, j \in DOMAIN r : r[i].id = r[j].id => i = j
    BY <1>9, <1>10 DEF Queued
  <2> QED BY <2>1, <2>2, <2>3 DEF Queued
<1> QED BY <1>7, <1>8, <1>9, <1>11 DEF T, r

-------------------------------------------------------------------------------
(* The shape of the state *)

StoreFields == {"val", "queue", "nextID", "init"}

IsStore(st) == st = [f \in StoreFields |-> st[f]] /\ st.init \in BOOLEAN /\ Queued(st.queue, st.nextID)

DSFields == {"started", "ref", "val", "height"}

IsDS(d) == d = [f \in DSFields |-> d[f]]

TxFields == {"kind", "id", "msgs", "val", "used", "limit", "ok"}

\* A transaction that is executed: what is left of its messages, and a gas meter
\* that is within its limit as long as it has not panicked.
IsTx(t) ==
  /\ t = [f \in TxFields |-> t[f]]
  /\ t.kind \in {"deliver", "simulate"} /\ t.id \in Txs
  /\ t.msgs \in Seq(ToSet(t.id.msgs))
  /\ t.limit = IF t.kind = "deliver" THEN t.id.limit ELSE Infinite
  /\ t.used \in Nat \ {0} /\ t.ok \in BOOLEAN
  /\ t.ok = TRUE => ~OutOfGas(t.limit, t.used)

CallFields == {"kind", "codes", "plan", "resps", "attempt", "limit", "used", "granted"}

\* A request to the VM: what is left of its contracts, the answers so far, and
\* gas that is granted out of a meter that has not panicked.
IsCall(c) ==
  /\ c = [f \in CallFields |-> c[f]]
  /\ c.kind \in {"msg", "proposal", "dryrun"}
  /\ IsMsg(c.codes) /\ c.plan \in Nat
  /\ c.resps \in Seq(ToSet(c.resps)) /\ \A i \in DOMAIN c.resps : IsExec(c.resps[i])
  /\ c.limit \in 0..(Word - 1) /\ c.used \in Nat \ {0} /\ ~OutOfGas(c.limit, c.used)
  /\ c.granted = GetVMLimitedGas(GetFreeGas(c.limit, c.used))

\* Messages are executed for a transaction, updates in BeginBlock, and nothing
\* before the data source server has been started.
Shape ==
  /\ height \in Nat /\ phase \in {"down", "handshake", "idle", "begin", "block", "end"}
  /\ IsStore(store) /\ IsStore(blk)
  /\ IsDS(ds) /\ (phase \notin {"down", "handshake"} => ds.started = TRUE)
  /\ due \in Seq(ToSet(due)) /\ \A i \in DOMAIN due : IsUpdate(due[i])
  /\ tx = NoTx \/ IsTx(tx)
  /\ call = NoCall \/ IsCall(call)
  /\ phase \in {"down", "handshake"} => tx = NoTx /\ call = NoCall
  /\ phase = "begin" => tx = NoTx
  /\ tx # NoTx => call.kind \in {"none", "msg"}
  /\ call.kind = "msg" => IsTx(tx) /\ tx.ok = TRUE /\ tx.msgs # <<>>
  /\ call.kind = "proposal" => phase = "begin" /\ due # <<>>

\* Before BeginBlocker is through, what it has still to execute holds every
\* queued update whose block has come; after it, the queue holds none.
Scheduled ==
  /\ phase = "begin" =>
       \A i \in DOMAIN blk.queue :
         blk.queue[i].height <= height + 1 => \E j \in DOMAIN due : due[j].id = blk.queue[i].id
  /\ phase \in {"block", "end"} =>
       \A i \in DOMAIN blk.queue : blk.queue[i].height > height + 1

\* A new request.
LEMMA RequestIsCall ==
  ASSUME NEW kind \in {"msg", "proposal", "dryrun"}, NEW codes, IsMsg(codes), NEW plan \in Nat,
         NEW limit \in 0..(Word - 1), NEW used \in Nat \ {0}, ~OutOfGas(limit, used)
  PROVE  LET c == Request(kind, codes, plan, limit, used) IN IsCall(c) /\ c.kind = kind
<1> DEFINE c == Request(kind, codes, plan, limit, used)
           g == GetVMLimitedGas(GetFreeGas(limit, used))
<1>1. c = [kind |-> kind, codes |-> codes, plan |-> plan, resps |-> <<>>, attempt |-> 1,
           limit |-> limit, used |-> used, granted |-> g]
  BY DEF Request
<1> HIDE DEF c, g
<1>2. /\ c.kind = kind /\ c.codes = codes /\ c.plan = plan /\ c.resps = <<>>
      /\ c.limit = limit /\ c.used = used /\ c.granted = g
      /\ c = [f \in CallFields |-> c[f]]
  BY <1>1 DEF CallFields
<1>3. <<>> \in Seq(ToSet(<<>>)) /\ DOMAIN <<>> = {}
  OBVIOUS
<1>4. IsCall(c)
  BY <1>2, <1>3 DEF IsCall, g
<1> QED BY <1>2, <1>4 DEF c

\* Another attempt.
LEMMA RetriedIsCall ==
  ASSUME NEW c, IsCall(c), NEW n
  PROVE  LET d == [c EXCEPT !.attempt = n] IN IsCall(d) /\ d.kind = c.kind
BY DEF IsCall, CallFields

\* One more answer.
LEMMA AppendAnswers ==
  ASSUME NEW s, s \in Seq(ToSet(s)), \A i \in DOMAIN s : IsExec(s[i]), NEW exec, IsExec(exec)
  PROVE  LET r == Append(s, exec) IN r \in Seq(ToSet(r)) /\ \A i \in DOMAIN r : IsExec(r[i])
<1> DEFINE r == Append(s, exec)
<1>1. s \in Seq(ToSet(s) \cup {exec})
  BY SeqMonotonic
<1>2. /\ r \in Seq(ToSet(s) \cup {exec}) /\ DOMAIN r = 1..(Len(s) + 1) /\ Len(s) \in Nat
      /\ r[Len(s) + 1] = exec /\ \A i \in 1..Len(s) : r[i] = s[i] /\ i \in DOMAIN s
  BY <1>1
<1> HIDE DEF r
<1>3. \A i \in 1..(Len(s) + 1) : i = Len(s) + 1 \/ i \in 1..Len(s)
  BY <1>2
<1>4. r \in Seq(ToSet(r))
  BY <1>2, OwnElements
<1>5. \A i \in DOMAIN r : IsExec(r[i])
  BY <1>2, <1>3
<1> QED BY <1>4, <1>5 DEF r

\* The request for the next contract of a message.
LEMMA NextIsCall ==
  ASSUME NEW c, IsCall(c), Len(c.codes) > 1, NEW exec, IsExec(exec)
  PROVE  LET d == [c EXCEPT !.codes = Tail(@), !.resps = Append(@, exec), !.attempt = 1]
         IN  IsCall(d) /\ d.kind = c.kind
<1> DEFINE codes == Tail(c.codes)
           resps == Append(c.resps, exec)
           d == [c EXCEPT !.codes = Tail(@), !.resps = Append(@, exec), !.attempt = 1]
<1>1. IsMsg(codes)
  <2>1. c.codes \in Seq(ToSet(c.codes)) /\ c.codes # <<>> /\ \A i \in DOMAIN c.codes : IsCode(c.codes[i])
    BY Zenon DEF IsCall, IsMsg
  <2>2. /\ codes \in Seq(ToSet(c.codes)) /\ Len(codes) = Len(c.codes) - 1
        /\ \A i \in 1..(Len(c.codes) - 1) : codes[i] = c.codes[i + 1]
    BY <2>1, TailElements, Zenon
  <2> HIDE DEF codes
  <2>3. codes \in Seq(ToSet(codes)) /\ codes # <<>>
    BY <2>2, OwnElements
  <2>4. \A i \in DOMAIN codes : IsCode(codes[i])
    BY <2>1, <2>2
  <2> QED BY <2>3, <2>4 DEF IsMsg
<1>2. resps \in Seq(ToSet(resps)) /\ \A i \in DOMAIN resps : IsExec(resps[i])
  BY AppendAnswers, Zenon DEF IsCall
<1> HIDE DEF codes, resps
<1>3. /\ d = [f \in CallFields |-> d[f]] /\ d.kind = c.kind /\ d.plan = c.plan
      /\ d.codes = codes /\ d.resps = resps /\ d.limit = c.limit /\ d.used = c.used /\ d.granted = c.granted
  BY Zenon DEF IsCall, CallFields, codes, resps
<1> HIDE DEF d
<1> QED BY <1>1, <1>2, <1>3, Zenon DEF IsCall, d

\* The difference of two uint64, cut to what the VM takes, never exceeds what is left.
LEMMA GasIsCovered ==
  ASSUME NEW c, IsCall(c)
  PROVE  /\ c.granted \in Nat /\ c.granted <= VMMaxGasLimit
         /\ IF c.limit = Infinite THEN c.used + VMMaxGasLimit <= Word => c.granted = VMMaxGasLimit
                                  ELSE c.granted <= c.limit - c.used
<1> DEFINE free == (c.limit - c.used) % Word
<1>1. /\ Word \in Nat \ {0} /\ VMMaxGasLimit \in Nat \ {0}
      /\ c.limit \in 0..(Word - 1) /\ c.used \in Nat \ {0} /\ (c.limit = 0 \/ c.used <= c.limit)
      /\ c.granted = IF free > VMMaxGasLimit THEN VMMaxGasLimit ELSE free
  BY GasAssumption DEF IsCall, OutOfGas, Infinite, GetVMLimitedGas, GetFreeGas
<1>2. free \in Nat
  BY <1>1
<1>3. c.limit # 0 => free = c.limit - c.used
  BY <1>1
<1>4. c.limit = 0 /\ c.used < Word => free = Word - c.used
  BY <1>1
<1> HIDE DEF free
<1> QED BY <1>1, <1>2, <1>3, <1>4 DEF Infinite

\* ScheduleProposal gives the update an id that no other has.
LEMMA ScheduledIsStore ==
  ASSUME Shape, NEW code, IsCode(code), NEW plan \in Nat
  PROVE  IsStore(ScheduleProposal(code, plan))
<1>1. CASE plan <= height + 1
  BY <1>1 DEF ScheduleProposal, Shape
<1>2. CASE ~(plan <= height + 1)
  <2> DEFINE p == [id |-> blk.nextID, code |-> code, height |-> plan]
             q == blk.queue
             r == Append(q, p)
  <2>1. ScheduleProposal(code, plan) = [blk EXCEPT !.queue = r, !.nextID = blk.nextID + 1]
    BY <1>2 DEF ScheduleProposal
  <2>2. Queued(q, blk.nextID) /\ height \in Nat
    BY DEF Shape, IsStore
  <2>3. IsUpdate(p) /\ p.id = blk.nextID
    BY <1>2, <2>2 DEF IsUpdate, Queued
  <2> HIDE DEF p, q
  <2>4. /\ r \in Seq(ToSet(q) \cup {p}) /\ DOMAIN r = 1..(Len(q) + 1) /\ Len(q) \in Nat
        /\ r[Len(q) + 1] = p /\ \A i \in 1..Len(q) : r[i] = q[i] /\ i \in DOMAIN q
    <3>1. q \in Seq(ToSet(q) \cup {p})
      BY <2>2, SeqMonotonic DEF Queued
    <3> QED BY <3>1
  <2> HIDE DEF r
  <2>5. \A i \in DOMAIN r : i = Len(q) + 1 \/ i \in 1..Len(q)
    BY <2>4
  <2>6. Queued(r, blk.nextID + 1)
    <3>1. r \in Seq(ToSet(r)) /\ blk.nextID + 1 \in Nat
      BY <2>2, <2>4, OwnElements DEF Queued
    <3>2. \A i \in 1..Len(q) : IsUpdate(r[i]) /\ r[i].id < blk.nextID /\ r[i].id \in Nat
      BY <2>2, <2>4 DEF Queued, IsUpdate
    <3>3. \A i \in DOMAIN r : IsUpdate(r[i]) /\ r[i].id < blk.nextID + 1
      BY <2>2, <2>3, <2>4, <2>5, <3>2 DEF Queued
    <3>4. ASSUME NEW i \in DOMAIN r, NEW j \in DOMAIN r, r[i].id = r[j].id PROVE i = j
      <4>1. CASE i \in 1..Len(q) /\ j \in 1..Len(q)
        BY <2>2, <2>4, <3>4, <4>1 DEF Queued
      <4>2. CASE i = Len(q) + 1 \/ j = Len(q) + 1
        BY <2>2, <2>3, <2>4, <2>5, <3>2, <3>4, <4>2 DEF Queued
      <4> QED BY <2>5, <4>1, <4>2
    <3> QED BY <3>1, <3>3, <3>4 DEF Queued
  <2> QED BY <2>1, <2>6, Zenon DEF Shape, IsStore, StoreFields
<1> QED BY <1>1, <1>2

\* One contract is a message.
LEMMA OneCode ==
  ASSUME NEW code, IsCode(code)
  PROVE  IsMsg(<<code>>)
BY DEF IsMsg, ToSet

\* The queue is empty before the first update is scheduled.
LEMMA EmptyQueue == Queued(<<>>, 0)
BY DEF Queued, ToSet

\* The state has its shape at first,
LEMMA InitShape == Init => Shape
<1> SUFFICES ASSUME Init PROVE Shape
  OBVIOUS
<1>1. IsStore(store)
  BY EmptyQueue, Zenon DEF Init, IsStore, StoreFields
<1>2. IsDS(ds)
  BY Zenon DEF Init, IsDS, DSFields
<1> QED BY <1>1, <1>2 DEF Init, Shape, NoTx, NoCall, ToSet

\* when the process ends,
LEMMA DownShape ==
  ASSUME Shape, Down
  PROVE  Shape'
<1>1. IsDS(ds')
  BY DEF Down, IsDS, DSFields
<1> QED BY <1>1 DEF Down, Shape, NoTx, NoCall, ToSet

\* when an attempt is answered,
LEMMA AnsweredShape ==
  ASSUME Shape, Answered
  PROVE  Shape'
<1> DEFINE code == Head(call.codes)
<1>1. IsCall(call) /\ IsMsg(call.codes)
  BY DEF Answered, Shape, IsCall
<1>2. PICK v, exec : /\ exec = Executed(code, v, call.granted)
                     /\ IF Len(call.codes) > 1
                        THEN /\ call' = [call EXCEPT !.codes = Tail(@), !.resps = Append(@, exec), !.attempt = 1]
                             /\ UNCHANGED <<blk, due, tx, ds, log>>
                        ELSE Processed(call.resps, exec) /\ call' = NoCall
  BY Zenon DEF Answered
<1>3. UNCHANGED <<store, height, phase, spent>>
  BY DEF Answered
<1>4. IsExec(exec) /\ IsCode(code)
  <2>1. IsCode(code)
    BY <1>1, TailElements DEF IsMsg
  <2> QED BY <1>1, <1>2, <2>1, GasIsCovered, ExecutedIsExec
<1> HIDE DEF code
<1>5. CASE Len(call.codes) > 1
  <2>1. IsCall(call') /\ call'.kind = call.kind
    <3>1. call' = [call EXCEPT !.codes = Tail(@), !.resps = Append(@, exec), !.attempt = 1]
      BY <1>2, <1>5
    <3> QED BY <1>1, <1>4, <1>5, <3>1, NextIsCall, Zenon
  <2>2. UNCHANGED <<store, height, phase, blk, due, tx, ds>>
    BY <1>2, <1>3, <1>5
  <2>3. call # NoCall /\ call.kind # "none"
    BY <1>1 DEF IsCall, NoCall
  <2> QED BY <2>1, <2>2, <2>3 DEF Shape
<1>6. CASE ~(Len(call.codes) > 1) /\ call.kind = "msg"
  <2> DEFINE m0 == [val |-> tx.val, used |-> tx.used, limit |-> tx.limit, ok |-> TRUE]
             resps == Append(call.resps, exec)
             m == FoldLeft(ProcessExecution, m0, resps)
  <2>1. /\ tx' = [tx EXCEPT !.val = m.val, !.used = m.used, !.ok = m.ok, !.msgs = Tail(@)]
        /\ UNCHANGED <<blk, due, ds>> /\ call' = NoCall
    BY <1>2, <1>6 DEF Processed
  <2>2. IsTx(tx) /\ tx.ok = TRUE /\ tx.msgs # <<>>
    BY <1>6 DEF Shape
  <2>3. Metered(m0)
    <3>1. tx.used \in Nat \ {0} /\ tx.limit \in Nat /\ ~OutOfGas(tx.limit, tx.used)
      BY <2>2, TxAssumption, GasAssumption DEF IsTx, Infinite
    <3>2. /\ m0.used = tx.used /\ m0.limit = tx.limit /\ m0.ok = TRUE
          /\ m0 = [f \in MeterFields |-> m0[f]]
      BY DEF MeterFields
    <3> QED BY <3>1, <3>2 DEF Metered
  <2>4. resps \in Seq(ToSet(resps)) /\ \A i \in DOMAIN resps : IsExec(resps[i])
    BY <1>1, <1>4, AppendAnswers, Zenon DEF IsCall
  <2>5. m0.limit = tx.limit
    OBVIOUS
  <2> HIDE DEF m0, resps
  <2>6. Metered(m) /\ m.limit = tx.limit
    BY <2>3, <2>4, <2>5, AnswersMeter
  <2> HIDE DEF m
  <2>7. Tail(tx.msgs) \in Seq(ToSet(tx.id.msgs))
    BY <2>2, TailElements, Zenon DEF IsTx
  <2>8. /\ tx'.kind = tx.kind /\ tx'.id = tx.id /\ tx'.msgs = Tail(tx.msgs) /\ tx'.limit = tx.limit
        /\ tx'.used = m.used /\ tx'.ok = m.ok /\ tx' = [f \in TxFields |-> tx'[f]]
    BY <2>1, <2>2, Zenon DEF IsTx, TxFields
  <2>9. IsTx(tx')
    BY <2>2, <2>6, <2>7, <2>8 DEF IsTx, Metered
  <2> QED BY <1>3, <1>6, <2>1, <2>2, <2>9, Zenon DEF Shape, NoCall, NoTx, IsTx
<1>7. CASE ~(Len(call.codes) > 1) /\ call.kind = "proposal"
  <2>1. PICK val : blk' = [blk EXCEPT !.val = val, !.queue = FoldLeft(KeepOthers, <<>>, @)]
    BY <1>2, <1>7, Zenon DEF Processed
  <2>2. due' = Tail(due) /\ ds' = Context("block", height + 1) /\ tx' = tx /\ call' = NoCall
    BY <1>2, <1>7 DEF Processed
  <2>3. phase = "begin" /\ due # <<>>
    BY <1>7 DEF Shape
  <2>4. IsStore(blk')
    <3>1. Queued(FoldLeft(KeepOthers, <<>>, blk.queue), blk.nextID)
      BY ExecutedIsRemoved DEF Shape, IsStore
    <3> QED BY <2>1, <3>1, Zenon DEF Shape, IsStore, StoreFields
  <2>5. IsDS(ds') /\ ds'.started = ds.started
    BY <2>2, Zenon DEF Context, Shape, IsDS, DSFields
  <2>6. due' \in Seq(ToSet(due')) /\ \A i \in DOMAIN due' : IsUpdate(due'[i])
    <3>1. /\ due' \in Seq(ToSet(due)) /\ Len(due') = Len(due) - 1
          /\ \A i \in 1..(Len(due) - 1) : due'[i] = due[i + 1]
      BY <2>2, <2>3, TailElements DEF Shape
    <3> QED BY <3>1, OwnElements DEF Shape
  <2> QED BY <1>3, <2>2, <2>3, <2>4, <2>5, <2>6 DEF Shape, NoCall, NoTx
<1>8. CASE ~(Len(call.codes) > 1) /\ call.kind = "dryrun"
  <2>1. /\ blk' = blk \/ blk' = ScheduleProposal(code, call.plan)
        /\ UNCHANGED <<tx, due, ds>> /\ call' = NoCall
    BY <1>2, <1>8 DEF Processed, code
  <2>2. IsStore(blk')
    BY <1>1, <1>4, <2>1, ScheduledIsStore, Zenon DEF IsCall, Shape
  <2> QED BY <1>3, <1>8, <2>1, <2>2 DEF Shape, NoCall, NoTx
<1> QED BY <1>1, <1>5, <1>6, <1>7, <1>8 DEF IsCall

\* and after every step.
LEMMA ShapeStep == Shape /\ [Next]_vars => Shape'
<1> SUFFICES ASSUME Shape, [Next]_vars PROVE Shape'
  OBVIOUS
<1>0. TxGas \in Nat \ {0} /\ BlockGas \in Nat \ {0} /\ Word \in Nat \ {0}
  BY GasAssumption
<1>1. CASE Start
  <2>1. IsDS(ds') /\ ds'.started = store.init
    BY <1>1 DEF Start, IsDS, DSFields
  <2>2. phase' = "idle" => store.init
    BY <1>1 DEF Start
  <2>3. store.init \in BOOLEAN /\ tx = NoTx /\ call = NoCall
    BY <1>1 DEF Start, Shape, IsStore
  <2>4. phase' \notin {"down", "handshake"} => ds'.started = TRUE
    <3>1. phase' \in {"idle", "handshake"}
      BY <1>1 DEF Start
    <3> QED BY <2>1, <2>2, <2>3, <3>1, Zenon
  <2>5. phase' \in {"idle", "handshake"} /\ blk' = store /\ UNCHANGED <<store, height, due, tx, call>>
    BY <1>1 DEF Start
  <2> QED BY <2>1, <2>3, <2>4, <2>5 DEF Shape, NoCall, NoTx
<1>2. CASE InitChain
  <2>1. IsDS(ds') /\ ds'.started = (ds.started \/ TRUE)
    BY <1>2 DEF InitChain, StartDSServer, IsDS, DSFields
  <2>2. IsStore(blk')
    BY <1>2, Zenon DEF InitChain, Shape, IsStore, StoreFields
  <2>3. phase' = "idle" /\ UNCHANGED <<store, height, due, tx, call>> /\ tx = NoTx /\ call = NoCall
    BY <1>2 DEF InitChain, Shape
  <2> QED BY <2>1, <2>2, <2>3, Zenon DEF Shape, NoCall, NoTx
<1>3. CASE Crash
  BY <1>3, DownShape DEF Crash
<1>4. CASE Restart
  <2>1. IsStore(store') /\ blk' = store'
    BY <1>4, EmptyQueue DEF Restart, IsStore, StoreFields
  <2>2. IsDS(ds') /\ ds'.started = TRUE
    BY <1>4 DEF Restart, IsDS, DSFields
  <2> QED BY <1>4, <2>1, <2>2 DEF Restart, Shape
<1>5. CASE BeginBlock
  <2>1. IsStore(blk')
    BY <1>5 DEF BeginBlock, Shape
  <2>2. IsDS(ds') /\ ds'.started = ds.started
    BY <1>5, Zenon DEF BeginBlock, Context, Shape, IsDS, DSFields
  <2>3. due' \in Seq(ToSet(due')) /\ \A i \in DOMAIN due' : IsUpdate(due'[i])
    <3>1. due' \in Seq(ToSet(blk'.queue))
      BY <1>5, <2>1, DueAreFound DEF BeginBlock, IsStore
    <3>2. \A p \in ToSet(blk'.queue) : IsUpdate(p)
      BY <2>1 DEF IsStore, Queued, ToSet
    <3> QED BY <3>1, <3>2, OwnElements
  <2>4. /\ phase = "idle" /\ phase' = "begin" /\ tx = NoTx /\ call = NoCall
        /\ UNCHANGED <<store, height, tx, call>>
    BY <1>5 DEF BeginBlock, Idle
  <2> QED BY <2>1, <2>2, <2>3, <2>4 DEF Shape, NoCall, NoTx
<1>6. CASE ExecuteProposal
  <2> DEFINE p == Head(due)
  <2>1. /\ phase = "begin" /\ call = NoCall /\ due # <<>>
        /\ call' = Request("proposal", <<p.code>>, p.height, Infinite, BlockGas)
        /\ UNCHANGED <<store, blk, height, phase, due, tx, ds>>
    BY <1>6 DEF ExecuteProposal
  <2>2. IsUpdate(p)
    BY <2>1, TailElements DEF Shape
  <2> HIDE DEF p
  <2>3. IsMsg(<<p.code>>) /\ p.height \in Nat
    BY <2>2, OneCode DEF IsUpdate
  <2>4. IsCall(call') /\ call'.kind = "proposal"
    BY <1>0, <2>1, <2>3, RequestIsCall DEF Infinite, OutOfGas
  <2> QED BY <2>1, <2>4 DEF Shape
<1>7. CASE BeginBlockDone
  BY <1>7 DEF BeginBlockDone, Shape, NoCall
<1>8. CASE Commit
  BY <1>8 DEF Commit, Idle, Shape, NoCall, NoTx
<1>9. ASSUME NEW t \in Txs, DeliverTx(t) \/ Simulate(t) PROVE Shape'
  <2>1. PICK kind \in {"deliver", "simulate"} : \E val :
          tx' = Running(kind, t, val, IF kind = "deliver" THEN t.limit ELSE Infinite)
    BY <1>9 DEF DeliverTx, Simulate
  <2>2. IsTx(tx')
    <3>1. /\ tx' = [f \in TxFields |-> tx'[f]] /\ tx'.kind = kind /\ tx'.id = t /\ tx'.msgs = t.msgs
          /\ tx'.used = TxGas /\ tx'.ok = TRUE
          /\ tx'.limit = IF kind = "deliver" THEN t.limit ELSE Infinite
      BY <2>1 DEF Running, TxFields
    <3>2. t.msgs \in Seq(ToSet(t.msgs)) /\ t.limit \in TxGas..(Word - 1)
      BY TxAssumption
    <3>3. ~OutOfGas(tx'.limit, tx'.used)
      BY <1>0, <3>1, <3>2 DEF OutOfGas, Infinite
    <3> QED BY <1>0, <3>1, <3>2, <3>3, Zenon DEF IsTx
  <2>3. /\ phase \in {"block", "idle"} /\ call = NoCall
        /\ UNCHANGED <<store, blk, height, phase, due, call, ds>>
    BY <1>9 DEF DeliverTx, Simulate, Idle
  <2> QED BY <2>2, <2>3 DEF Shape, NoCall
<1>10. CASE Handle
  <2>1. /\ tx # NoTx /\ call = NoCall /\ tx.ok /\ tx.msgs # <<>>
        /\ call' = Request("msg", Head(tx.msgs), 0, tx.limit, tx.used)
        /\ UNCHANGED <<store, blk, height, phase, due, tx>>
    BY <1>10 DEF Handle
  <2>2. IsTx(tx)
    BY <2>1 DEF Shape
  <2>3. tx.ok = TRUE
    BY <2>1, <2>2, Zenon DEF IsTx
  <2>4. /\ tx.limit \in 0..(Word - 1) /\ tx.used \in Nat \ {0} /\ ~OutOfGas(tx.limit, tx.used)
        /\ IsMsg(Head(tx.msgs))
    <3>1. Head(tx.msgs) \in ToSet(tx.id.msgs)
      BY <2>1, <2>2, TailElements DEF IsTx
    <3>2. IsMsg(Head(tx.msgs))
      BY <2>2, <3>1, TxAssumption, Zenon DEF IsTx, ToSet
    <3>3. tx.id.limit \in TxGas..(Word - 1) /\ tx.limit \in {tx.id.limit, 0}
      BY <2>2, TxAssumption DEF IsTx, Infinite
    <3>4. tx.limit \in 0..(Word - 1)
      BY <1>0, <3>3
    <3> QED BY <2>2, <2>3, <3>2, <3>4 DEF IsTx
  <2>5. IsCall(call') /\ call'.kind = "msg"
    <3> DEFINE codes == Head(tx.msgs)
               c == Request("msg", codes, 0, tx.limit, tx.used)
    <3>1. call' = c /\ IsMsg(codes) /\ 0 \in Nat
      BY <2>1, <2>4
    <3> HIDE DEF codes
    <3>2. IsCall(c) /\ c.kind = "msg"
      BY <2>4, <3>1, RequestIsCall
    <3> QED BY <3>1, <3>2
  <2>6. IsDS(ds') /\ ds'.started = ds.started
    BY <1>10, Zenon DEF Handle, Context, Shape, IsDS, DSFields
  <2> QED BY <2>1, <2>2, <2>3, <2>5, <2>6 DEF Shape
<1>11. CASE FinishTx
  <2>1. tx' = NoTx /\ call = NoCall /\ UNCHANGED <<store, height, phase, due, call>>
    BY <1>11 DEF FinishTx
  <2>2. IsStore(blk')
    <3>1. blk' = blk \/ blk' = [blk EXCEPT !.val = tx.val]
      BY <1>11 DEF FinishTx
    <3> QED BY <3>1 DEF Shape, IsStore, StoreFields
  <2>3. IsDS(ds') /\ ds'.started = ds.started
    <3>1. ds' = ds \/ \E x : ds' = [ds EXCEPT !.val = tx.val, !.ref = x]
      BY <1>11, Zenon DEF FinishTx
    <3> QED BY <3>1, Zenon DEF Shape, IsDS, DSFields
  <2> QED BY <2>1, <2>2, <2>3 DEF Shape, NoCall, NoTx
<1>12. ASSUME NEW p \in Proposals, GovPassed(p) PROVE Shape'
  <2>1. /\ phase' = "end" /\ phase \in {"block", "end"} /\ tx = NoTx
        /\ call' = Request("dryrun", <<p.code>>, p.height, Infinite, BlockGas)
        /\ UNCHANGED <<store, blk, height, due, tx, ds>>
    BY <1>12 DEF GovPassed, Idle
  <2>2. IsMsg(<<p.code>>) /\ p.height \in Nat
    BY ProposalAssumption, OneCode
  <2>3. IsCall(call') /\ call'.kind = "dryrun"
    BY <1>0, <2>1, <2>2, RequestIsCall DEF Infinite, OutOfGas
  <2> QED BY <2>1, <2>3 DEF Shape
<1>13. CASE Answered
  BY <1>13, AnsweredShape
<1>14. CASE AttemptFailed
  <2>1. CASE Down
    BY <2>1, DownShape
  <2>2. CASE call' = NoCall /\ UNCHANGED <<store, blk, height, phase, due, tx, ds>>
    BY <2>2 DEF Shape, NoCall, NoTx
  <2>3. CASE \E n : call' = [call EXCEPT !.attempt = n] /\ UNCHANGED <<store, blk, height, phase, due, tx, ds>>
    <3>1. IsCall(call) /\ call # NoCall /\ call.kind # "none"
      BY <1>14 DEF AttemptFailed, Shape, IsCall, NoCall
    <3>2. IsCall(call') /\ call'.kind = call.kind
      BY <2>3, <3>1, RetriedIsCall
    <3> QED BY <2>3, <3>1, <3>2 DEF Shape
  <2> QED BY <1>14, <2>1, <2>2, <2>3 DEF AttemptFailed
<1>15. CASE UNCHANGED vars
  BY <1>15 DEF vars, Shape
<1> QED
  BY <1>1, <1>2, <1>3, <1>4, <1>5, <1>6, <1>7, <1>8, <1>9, <1>10, <1>11, <1>12, <1>13, <1>14, <1>15 DEF Next

\* The state always has its shape.
THEOREM ShapeHolds == Spec => []Shape
<1>1. Init => Shape
  BY InitShape
<1>2. Shape /\ [Next]_vars => Shape'
  BY ShapeStep
<1> QED BY <1>1, <1>2, PTL DEF Spec

\* Every request to the VM finds the data source server running and is granted
\* the gas that its message has left, cut to what the VM takes: GetFreeGas never
\* wraps below a limit, whatever the contracts before it have consumed.
THEOREM RequestsAlwaysCovered == Spec => []RequestsAreCovered
<1>1. Shape => RequestsAreCovered
  <2> SUFFICES ASSUME Shape, call # NoCall
               PROVE  /\ ds.started
                      /\ call.granted <= VMMaxGasLimit
                      /\ IF call.limit = Infinite
                         THEN call.used + VMMaxGasLimit <= Word => call.granted = VMMaxGasLimit
                         ELSE call.granted <= call.limit - call.used
    BY DEF RequestsAreCovered
  <2>1. IsCall(call) /\ ds.started = TRUE
    BY DEF Shape
  <2> QED BY <2>1, GasIsCovered
<1> QED BY <1>1, ShapeHolds, PTL

-------------------------------------------------------------------------------
(* Scheduled updates *)

\* An answer keeps the schedule: an executed update leaves the queue and the
\* list together, and a new one is for a later block.
LEMMA AnsweredScheduled ==
  ASSUME Shape, Scheduled, Answered
  PROVE  Scheduled'
<1>1. UNCHANGED <<height, phase>> /\ IsCall(call) /\ height \in Nat
  BY DEF Answered, Shape
<1>2. PICK exec : IF Len(call.codes) > 1
                  THEN UNCHANGED <<blk, due, tx, ds, log>>
                  ELSE Processed(call.resps, exec)
  BY DEF Answered
<1>3. CASE UNCHANGED <<blk, due>>
  BY <1>1, <1>3 DEF Scheduled
<1>4. CASE ~(Len(call.codes) > 1) /\ call.kind = "proposal"
  <2> DEFINE q == blk.queue
             r == FoldLeft(KeepOthers, <<>>, q)
  <2>1. \E val : blk' = [blk EXCEPT !.val = val, !.queue = r]
    BY <1>2, <1>4, Zenon DEF Processed
  <2>2. due' = Tail(due) /\ phase = "begin" /\ due # <<>> /\ due \in Seq(ToSet(due))
    BY <1>2, <1>4 DEF Processed, Shape
  <2>3. Queued(q, blk.nextID) /\ blk = [f \in StoreFields |-> blk[f]]
    BY DEF Shape, IsStore
  <2>4. \A i \in DOMAIN r : r[i].id # Head(due).id /\ \E j \in DOMAIN q : r[i] = q[j]
    BY <2>3, ExecutedIsRemoved, Zenon
  <2> HIDE DEF r
  <2>5. blk'.queue = r
    BY <2>1, <2>3 DEF StoreFields
  <2>6. ASSUME NEW i \in DOMAIN r, r[i].height <= height + 1
        PROVE  \E j \in DOMAIN due' : due'[j].id = r[i].id
    <3>1. PICK n \in DOMAIN q : r[i] = q[n]
      BY <2>4
    <3>2. PICK j \in DOMAIN due : due[j].id = r[i].id
      BY <2>2, <2>6, <3>1 DEF Scheduled
    <3>3. /\ Head(due) = due[1] /\ due' \in Seq(ToSet(due)) /\ Len(due') = Len(due) - 1
          /\ \A m \in 1..(Len(due) - 1) : due'[m] = due[m + 1]
      BY <2>2, TailElements
    <3>4. j \in 1..Len(due) /\ j # 1 /\ Len(due) \in Nat
      BY <2>2, <2>4, <3>2, <3>3
    <3>5. j - 1 \in 1..(Len(due) - 1) /\ (j - 1) + 1 = j
      BY <3>4
    <3>6. j - 1 \in DOMAIN due' /\ due'[j - 1] = due[j]
      BY <3>3, <3>5
    <3> QED BY <3>2, <3>6
  <2> QED BY <1>1, <2>2, <2>5, <2>6 DEF Scheduled
<1>5. CASE ~(Len(call.codes) > 1) /\ call.kind = "dryrun"
  <2>1. due' = due /\ (blk' = blk \/ blk' = ScheduleProposal(Head(call.codes), call.plan))
    BY <1>2, <1>5 DEF Processed
  <2> DEFINE plan == call.plan
             q == blk.queue
             p == [id |-> blk.nextID, code |-> Head(call.codes), height |-> plan]
             r == Append(q, p)
  <2>2. CASE blk' # blk
    <3>1. /\ ~(plan <= height + 1) /\ blk' = [blk EXCEPT !.queue = r, !.nextID = blk.nextID + 1]
      BY <2>1, <2>2 DEF ScheduleProposal
    <3>2. /\ Queued(q, blk.nextID) /\ blk = [f \in StoreFields |-> blk[f]] /\ plan \in Nat
          /\ p.height = plan
      BY <1>1 DEF Shape, IsStore, IsCall
    <3>3. plan > height + 1
      BY <1>1, <3>1, <3>2
    <3> HIDE DEF p
    <3>4. /\ DOMAIN r = 1..(Len(q) + 1) /\ Len(q) \in Nat /\ DOMAIN q = 1..Len(q)
          /\ r[Len(q) + 1] = p /\ \A i \in 1..Len(q) : r[i] = q[i]
      <4>1. q \in Seq(ToSet(q) \cup {p})
        BY <3>2, SeqMonotonic DEF Queued
      <4> QED BY <4>1
    <3> HIDE DEF r
    <3>5. blk'.queue = r
      BY <3>1, <3>2 DEF StoreFields
    <3>6. \A i \in DOMAIN r : r[i].height > height + 1 \/ (i \in DOMAIN q /\ r[i] = q[i])
      <4>1. \A i \in DOMAIN r : i = Len(q) + 1 \/ i \in 1..Len(q)
        BY <3>4
      <4> QED BY <3>2, <3>3, <3>4, <4>1, Zenon
    <3>7. ~(plan <= height + 1) /\ \A i \in DOMAIN r :
             (i \in DOMAIN q /\ r[i] = q[i]) \/ ~(r[i].height <= height + 1)
      <4>1. \A i \in DOMAIN r : i = Len(q) + 1 \/ i \in 1..Len(q)
        BY <3>4
      <4> QED BY <3>1, <3>2, <3>4, <4>1, Zenon
    <3> HIDE DEF q
    <3> QED BY <1>1, <2>1, <3>5, <3>6, <3>7 DEF Scheduled, q
  <2> QED BY <1>3, <2>1, <2>2
<1>6. CASE ~(Len(call.codes) > 1) /\ call.kind = "msg"
  BY <1>2, <1>3, <1>6 DEF Processed
<1> QED BY <1>1, <1>2, <1>3, <1>4, <1>5, <1>6 DEF IsCall

\* Every step keeps the schedule.
LEMMA ScheduledStep == Shape /\ Scheduled /\ [Next]_vars => Scheduled'
<1> SUFFICES ASSUME Shape, Scheduled, [Next]_vars PROVE Scheduled'
  OBVIOUS
<1>1. CASE phase' \in {"down", "handshake", "idle"}
  BY <1>1 DEF Scheduled
<1>2. CASE BeginBlock
  <2>1. IsStore(blk') /\ due' = FoldLeft(KeepDue, <<>>, blk'.queue) /\ phase' = "begin" /\ height' = height
    BY <1>2 DEF BeginBlock, Shape
  <2>2. Queued(blk'.queue, blk'.nextID) /\ height \in Nat
    BY <2>1 DEF IsStore, Shape
  <2>3. \A i \in DOMAIN blk'.queue :
          ShouldExecute(blk'.queue[i].height, height + 1) => \E j \in DOMAIN due' : due'[j] = blk'.queue[i]
    BY <2>1, <2>2, DueAreFound
  <2>4. \A i \in DOMAIN blk'.queue : blk'.queue[i].height \in Nat \ {0}
    BY <2>2 DEF Queued, IsUpdate
  <2>5. \A i \in DOMAIN blk'.queue :
          blk'.queue[i].height <= height + 1 => ShouldExecute(blk'.queue[i].height, height + 1)
    BY <2>2, <2>4 DEF ShouldExecute
  <2> QED BY <2>1, <2>3, <2>5 DEF Scheduled
<1>3. CASE BeginBlockDone
  <2>1. /\ phase = "begin" /\ due = <<>> /\ phase' = "block" /\ UNCHANGED <<blk, height>> /\ height \in Nat
        /\ \A i \in DOMAIN blk.queue : blk.queue[i].height \in Nat
    BY <1>3, Zenon DEF BeginBlockDone, Shape, IsStore, Queued, IsUpdate
  <2>2. \A i \in DOMAIN blk.queue : ~(blk.queue[i].height <= height + 1)
    BY <2>1 DEF Scheduled
  <2> QED BY <2>1, <2>2 DEF Scheduled
<1>4. CASE UNCHANGED <<blk, due, height, phase>>
  BY <1>4 DEF Scheduled
<1>5. CASE FinishTx
  <2>1. blk' = blk \/ blk' = [blk EXCEPT !.val = tx.val]
    BY <1>5 DEF FinishTx
  <2>2. blk'.queue = blk.queue
    BY <2>1 DEF Shape, IsStore, StoreFields
  <2> QED BY <1>5, <2>2 DEF FinishTx, Scheduled
<1>6. ASSUME NEW p \in Proposals, GovPassed(p) PROVE Scheduled'
  BY <1>6 DEF GovPassed, Scheduled
<1>7. CASE Answered
  BY <1>7, AnsweredScheduled
<1>8. CASE AttemptFailed
  <2>1. CASE Down
    BY <1>1, <2>1 DEF Down
  <2> QED BY <1>4, <1>8, <2>1 DEF AttemptFailed
<1>9. CASE Start \/ InitChain \/ Crash \/ Restart \/ Commit
  BY <1>1, <1>9, Zenon DEF Start, InitChain, Crash, Down, Restart, Commit
<1>10. CASE ExecuteProposal \/ Handle \/ (\E t \in Txs : DeliverTx(t) \/ Simulate(t)) \/ UNCHANGED vars
  BY <1>4, <1>10 DEF ExecuteProposal, Handle, DeliverTx, Simulate, vars
<1> QED BY <1>2, <1>3, <1>5, <1>6, <1>7, <1>8, <1>9, <1>10 DEF Next

\* An update that has been scheduled is executed in the BeginBlocker of its block,
\* with every other one that is due, and updates never share an id.
THEOREM UpdatesAlwaysRunOnTime == Spec => []UpdatesRunOnTime
<1>1. Init => Scheduled
  BY DEF Init, Scheduled
<1>2. Shape /\ Scheduled /\ [Next]_vars => Scheduled'
  BY ScheduledStep
<1>3. Shape /\ Scheduled => UpdatesRunOnTime
  BY Zenon DEF Shape, IsStore, Queued, Scheduled, UpdatesRunOnTime
<1> QED BY <1>1, <1>2, <1>3, ShapeHolds, PTL DEF Spec
===============================================================================
