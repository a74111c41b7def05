--------------------------- MODULE VmStorageProofs ---------------------------
(***************************************************************************)
(* Proofs about x/vm: the storage at the end of a block is determined by   *)
(* what the block executes, for any transactions, proposals, gas constants *)
(* and number of attempts.                                                 *)
(***************************************************************************)
EXTENDS VmProofs

-------------------------------------------------------------------------------
(* The storage of a block *)

\* The values of a block, as Replay works on them.
Values(val, h) == [val |-> val, height |-> h]

\* What Replay starts from.
Base == Values(IF store.init THEN store.val ELSE GenesisValues, height + 1)

\* What the DS server has to answer to a contract of a transaction.
ReadAt(val, h, path) == IF path = HeightPath THEN h ELSE val[path]

\* A transaction between two messages, as RunMsg works on it.
MeterAt(t, h) == [val |-> t.val, used |-> t.used, limit |-> t.limit, ok |-> t.ok, height |-> h]

\* A transaction has executed its first messages on these values, and has the others left.
HasRun(t, val, h) ==
  \E n \in 0..Len(t.id.msgs) :
    /\ t.msgs = SubSeq(t.id.msgs, n + 1, Len(t.id.msgs))
    /\ MeterAt(t, h) = FoldLeft(RunMsg, Before(Values(val, h), TxGas, t.id.limit), SubSeq(t.id.msgs, 1, n))

\* A request has the answers for the first contracts of a message, all of them
\* computed from these values, and has the others left.
HasAnswers(c, codes, val, h) ==
  \E k \in 0..(Len(codes) - 1) :
    /\ c.codes = SubSeq(codes, k + 1, Len(codes)) /\ Len(c.resps) = k
    /\ \A i \in 1..k : c.resps[i] = Executed(codes[i], ReadAt(val, h, codes[i].reads), c.granted)

\* The block so far is the replay of its log; a delivered transaction is part of
\* the way through its messages on top of it; and the VM reads what the running
\* message or update has to see.
Determined ==
  /\ log \in Seq(ToSet(log))
  /\ phase \notin {"down", "handshake"} => blk.init = TRUE
  /\ phase = "idle" /\ store.init = FALSE => blk.val = GenesisValues
  /\ phase \in {"begin", "block", "end"} => FoldLeft(Replay, Base, log) = Values(blk.val, height + 1)
  /\ tx.kind = "deliver" => phase = "block" /\ HasRun(tx, blk.val, height + 1)
  /\ tx.kind = "deliver" /\ call.kind = "msg" =>
       /\ ds.ref = "tx" /\ ds.height = height + 1 /\ call.limit = tx.limit /\ call.used = tx.used
       /\ HasAnswers(call, Head(tx.msgs), tx.val, height + 1)
  /\ phase = "begin" => ds.ref = "block" /\ ds.height = height + 1
  /\ call.kind = "proposal" =>
       /\ call.codes = <<Head(due).code>> /\ call.resps = <<>>
       /\ call.limit = Infinite /\ call.used = BlockGas

MsgFold == INSTANCE Folding WITH Op <- RunMsg
ItemFold == INSTANCE Folding WITH Op <- Replay

\* Messages are run one after another,
LEMMA MessagesFold ==
  ASSUME NEW S, NEW s \in Seq(S), NEW x, NEW r
  PROVE  /\ FoldLeft(RunMsg, r, <<>>) = r
         /\ FoldLeft(RunMsg, r, Append(s, x)) = RunMsg(FoldLeft(RunMsg, r, s), x)
<1> HIDE DEF RunMsg
<1>1. \A t : FoldLeft(RunMsg, r, t) = MsgFold!Fold(r, t)
  BY DEF FoldLeft, MapThenFoldSet, Max, MsgFold!Fold, MsgFold!MaxOf
<1>2. MsgFold!Fold(r, <<>>) = r
  BY MsgFold!FoldEmpty
<1>3. MsgFold!Fold(r, Append(s, x)) = RunMsg(MsgFold!Fold(r, s), x)
  BY NatInductionSet, MsgFold!FoldAppend DEF MsgFold!Induction
<1>4. FoldLeft(RunMsg, r, <<>>) = r
  BY <1>1, <1>2
<1> QED BY <1>1, <1>3, <1>4, Zenon

\* and so are the items of a log.
LEMMA ItemsFold ==
  ASSUME NEW S, NEW s \in Seq(S), NEW x, NEW r
  PROVE  /\ FoldLeft(Replay, r, <<>>) = r
         /\ FoldLeft(Replay, r, Append(s, x)) = Replay(FoldLeft(Replay, r, s), x)
<1> HIDE DEF Replay
<1>1. \A t : FoldLeft(Replay, r, t) = ItemFold!Fold(r, t)
  BY DEF FoldLeft, MapThenFoldSet, Max, ItemFold!Fold, ItemFold!MaxOf
<1>2. ItemFold!Fold(r, <<>>) = r
  BY ItemFold!FoldEmpty
<1>3. ItemFold!Fold(r, Append(s, x)) = Replay(ItemFold!Fold(r, s), x)
  BY NatInductionSet, ItemFold!FoldAppend DEF ItemFold!Induction
<1>4. FoldLeft(Replay, r, <<>>) = r
  BY <1>1, <1>2
<1> QED BY <1>1, <1>3, <1>4, Zenon

\* A transaction that has failed at a message stays failed.
LEMMA FailedStaysFailed ==
  ASSUME NEW S, NEW s \in Seq(S), NEW m, NEW n \in 0..Len(s), ~FoldLeft(RunMsg, m, SubSeq(s, 1, n)).ok
  PROVE  ~FoldLeft(RunMsg, m, s).ok
<1> DEFINE After(k) == FoldLeft(RunMsg, m, SubSeq(s, 1, k))
           T == {k \in Nat : n + k <= Len(s) => ~After(n + k).ok}
<1>0. n \in Nat /\ Len(s) \in Nat
  OBVIOUS
<1>1. 0 \in T
  <2>1. n + 0 = n
    BY <1>0
  <2> QED BY <2>1
<1>2. ASSUME NEW k \in Nat, k \in T PROVE k + 1 \in T
  <2>1. ASSUME n + (k + 1) <= Len(s) PROVE ~After(n + (k + 1)).ok
    <3> DEFINE j == n + k
    <3>1. j \in Nat /\ j < Len(s) /\ n + (k + 1) = j + 1 /\ j \in 0..Len(s)
      BY <1>0, <2>1
    <3>2. ~After(j).ok
      BY <1>0, <1>2, <2>1
    <3> HIDE DEF j
    <3>3. SubSeq(s, 1, j) \in Seq(S) /\ SubSeq(s, 1, j + 1) = Append(SubSeq(s, 1, j), s[j + 1])
      BY <3>1, PrefixElements
    <3>4. After(j + 1) = RunMsg(After(j), s[j + 1])
      BY <3>3, MessagesFold, Zenon
    <3> HIDE DEF After
    <3>5. RunMsg(After(j), s[j + 1]) = After(j)
      BY <3>2, Zenon DEF RunMsg
    <3> QED BY <3>1, <3>2, <3>4, <3>5
  <2> QED BY <2>1
<1>3. Len(s) - n \in T
  <2>1. Len(s) - n \in Nat
    BY <1>0
  <2> HIDE DEF T
  <2> QED BY <1>1, <1>2, <2>1, NatInductionSet
<1>4. n + (Len(s) - n) = Len(s) /\ Len(s) - n \in Nat
  BY <1>0
<1>5. SubSeq(s, 1, Len(s)) = s
  BY PrefixElements
<1>6. ~After(Len(s)).ok
  <2> HIDE DEF After
  <2> QED BY <1>0, <1>3, <1>4
<1> QED BY <1>5, <1>6, Zenon

\* Under a gas limit the VM is granted what is left, up to what it takes.
LEMMA GrantedIsLeft ==
  ASSUME NEW c, IsCall(c), c.limit # Infinite
  PROVE  c.granted = IF c.limit - c.used < VMMaxGasLimit THEN c.limit - c.used ELSE VMMaxGasLimit
<1>1. /\ Word \in Nat \ {0} /\ VMMaxGasLimit \in Nat \ {0}
      /\ c.limit \in 0..(Word - 1) /\ c.used \in Nat \ {0} /\ c.used <= c.limit
  BY GasAssumption DEF IsCall, OutOfGas
<1>2. (c.limit - c.used) % Word = c.limit - c.used
  BY <1>1
<1>3. c.granted = GetVMLimitedGas(c.limit - c.used)
  BY <1>2 DEF IsCall, GetFreeGas
<1> QED BY <1>1, <1>3 DEF GetVMLimitedGas

\* The gas a message is granted in a replay.
Granted(m) ==
  IF m.limit = Infinite THEN VMMaxGasLimit
  ELSE IF m.limit - m.used < VMMaxGasLimit THEN m.limit - m.used ELSE VMMaxGasLimit

\* The answers to the contracts of a message, computed from these values.
AnswersFrom(codes, val, h, granted) ==
  [i \in DOMAIN codes |-> Executed(codes[i], ReadAt(val, h, codes[i].reads), granted)]

\* The gas meter and the values that the answers of a message are processed on,
Fresh(m) == [val |-> m.val, used |-> m.used, limit |-> m.limit, ok |-> TRUE]

\* and what they leave.
Outcome(m, r) == [val |-> r.val, used |-> r.used, limit |-> m.limit, ok |-> r.ok, height |-> m.height]

\* A message is run on answers that were all computed from the values before it.
LEMMA MessageRuns ==
  ASSUME NEW m, m.ok = TRUE, NEW codes
  PROVE  RunMsg(m, codes) =
           Outcome(m, FoldLeft(ProcessExecution, Fresh(m), AnswersFrom(codes, m.val, m.height, Granted(m))))
BY DEF RunMsg, ReadAt, Granted, AnswersFrom, Fresh, Outcome

\* The next contract is asked for with the answers so far.
LEMMA OneMoreAnswer ==
  ASSUME NEW c, IsCall(c), Len(c.codes) > 1, NEW B, NEW codes \in Seq(B), NEW val, NEW h,
         HasAnswers(c, codes, val, h), NEW d, d.codes = Tail(c.codes), d.granted = c.granted,
         d.resps = Append(c.resps, Executed(Head(c.codes), ReadAt(val, h, Head(c.codes).reads), c.granted))
  PROVE  HasAnswers(d, codes, val, h)
<1>1. PICK k \in 0..(Len(codes) - 1) :
          /\ c.codes = SubSeq(codes, k + 1, Len(codes)) /\ Len(c.resps) = k
          /\ \A i \in 1..k : c.resps[i] = Executed(codes[i], ReadAt(val, h, codes[i].reads), c.granted)
  BY DEF HasAnswers
<1>2. k \in 0..Len(codes) /\ k \in Nat /\ Len(codes) \in Nat
  OBVIOUS
<1>3. c.codes # <<>> /\ c.resps \in Seq(ToSet(c.resps))
  BY DEF IsCall, IsMsg
<1>4. /\ Len(c.codes) = Len(codes) - k /\ Head(c.codes) = codes[k + 1]
      /\ Tail(c.codes) = SubSeq(codes, (k + 1) + 1, Len(codes))
  <2> DEFINE t == SubSeq(codes, k + 1, Len(codes))
  <2>1. /\ Len(t) = Len(codes) - k
        /\ t # <<>> => Head(t) = codes[k + 1] /\ Tail(t) = SubSeq(codes, (k + 1) + 1, Len(codes))
    BY <1>2, SuffixElements
  <2> HIDE DEF t
  <2>2. c.codes = t
    BY <1>1 DEF t
  <2> QED BY <1>3, <2>1, <2>2
<1>5. k + 1 \in 0..(Len(codes) - 1)
  BY <1>2, <1>4
<1> DEFINE exec == Executed(Head(c.codes), ReadAt(val, h, Head(c.codes).reads), c.granted)
<1>6. exec = Executed(codes[k + 1], ReadAt(val, h, codes[k + 1].reads), d.granted)
  BY <1>4
<1> HIDE DEF exec
<1>7. Len(d.resps) = k + 1 /\ d.resps[k + 1] = exec /\ \A i \in 1..k : d.resps[i] = c.resps[i]
  <2>1. d.resps = Append(c.resps, exec)
    BY DEF exec
  <2>2. c.resps \in Seq(ToSet(c.resps) \cup {exec})
    BY <1>3, SeqMonotonic
  <2> QED BY <1>1, <1>2, <2>1, <2>2
<1>8. \A i \in 1..(k + 1) : d.resps[i] = Executed(codes[i], ReadAt(val, h, codes[i].reads), d.granted)
  <2>1. \A i \in 1..(k + 1) : i = k + 1 \/ i \in 1..k
    BY <1>2
  <2> QED BY <1>1, <1>6, <1>7, <2>1, Zenon
<1> QED BY <1>4, <1>5, <1>7, <1>8, Zenon DEF HasAnswers

\* The last contract is answered, and the message is done.
LEMMA LastAnswer ==
  ASSUME NEW c, IsCall(c), ~(Len(c.codes) > 1), NEW B, NEW codes \in Seq(B), NEW val, NEW h,
         HasAnswers(c, codes, val, h), NEW exec,
         exec = Executed(Head(c.codes), ReadAt(val, h, Head(c.codes).reads), c.granted)
  PROVE  LET r == Append(c.resps, exec)
         IN  r = AnswersFrom(codes, val, h, c.granted)
<1>1. PICK k \in 0..(Len(codes) - 1) :
          /\ c.codes = SubSeq(codes, k + 1, Len(codes)) /\ Len(c.resps) = k
          /\ \A i \in 1..k : c.resps[i] = Executed(codes[i], ReadAt(val, h, codes[i].reads), c.granted)
  BY DEF HasAnswers
<1>2. k \in 0..Len(codes) /\ k \in Nat /\ Len(codes) \in Nat
  OBVIOUS
<1>3. c.codes # <<>> /\ c.resps \in Seq(ToSet(c.resps))
  BY DEF IsCall, IsMsg
<1>4. Len(c.codes) = Len(codes) - k /\ Head(c.codes) = codes[k + 1]
  <2> DEFINE t == SubSeq(codes, k + 1, Len(codes))
  <2>1. Len(t) = Len(codes) - k /\ (t # <<>> => Head(t) = codes[k + 1])
    BY <1>2, SuffixElements
  <2> HIDE DEF t
  <2>2. c.codes = t
    BY <1>1 DEF t
  <2> QED BY <1>3, <2>1, <2>2
<1>5. Len(codes) = k + 1
  BY <1>2, <1>4
<1>6. exec = Executed(codes[k + 1], ReadAt(val, h, codes[k + 1].reads), c.granted)
  BY <1>4
<1> DEFINE r == Append(c.resps, exec)
<1>7. /\ r = [i \in 1..(k + 1) |-> r[i]] /\ r[k + 1] = exec /\ \A i \in 1..k : r[i] = c.resps[i]
  <2>1. c.resps \in Seq(ToSet(c.resps) \cup {exec})
    BY <1>3, SeqMonotonic
  <2>2. /\ r \in Seq(ToSet(c.resps) \cup {exec}) /\ Len(r) = Len(c.resps) + 1
        /\ r[Len(c.resps) + 1] = exec /\ \A i \in 1..Len(c.resps) : r[i] = c.resps[i]
    BY <2>1, AppendProperties
  <2> HIDE DEF r
  <2>3. r = [i \in 1..Len(r) |-> r[i]]
    BY <2>2
  <2> QED BY <1>1, <2>2, <2>3, Zenon
<1> HIDE DEF r
<1>8. \A i \in 1..(k + 1) : r[i] = Executed(codes[i], ReadAt(val, h, codes[i].reads), c.granted)
  <2>1. \A i \in 1..(k + 1) : i = k + 1 \/ i \in 1..k
    BY <1>2
  <2> QED BY <1>1, <1>6, <1>7, <2>1, Zenon
<1>9. DOMAIN codes = 1..(k + 1)
  BY <1>5
<1>10. r = AnswersFrom(codes, val, h, c.granted)
  BY <1>7, <1>8, <1>9 DEF AnswersFrom
<1> QED BY <1>10 DEF r

\* A transaction whose next message is done has run one message more.
LEMMA OneMoreMessage ==
  ASSUME NEW t, NEW B, t.id.msgs \in Seq(B), t.msgs # <<>>, NEW val, NEW h, HasRun(t, val, h),
         NEW u, u.id = t.id, u.msgs = Tail(t.msgs), MeterAt(u, h) = RunMsg(MeterAt(t, h), Head(t.msgs))
  PROVE  HasRun(u, val, h)
<1> DEFINE msgs == t.id.msgs
           b == Before(Values(val, h), TxGas, t.id.limit)
<1>1. PICK n \in 0..Len(msgs) :
          t.msgs = SubSeq(msgs, n + 1, Len(msgs)) /\ MeterAt(t, h) = FoldLeft(RunMsg, b, SubSeq(msgs, 1, n))
  BY Zenon DEF HasRun
<1> HIDE DEF b
<1>2. n \in Nat /\ Len(msgs) \in Nat
  OBVIOUS
<1>3. n < Len(msgs) /\ Head(t.msgs) = msgs[n + 1] /\ Tail(t.msgs) = SubSeq(msgs, (n + 1) + 1, Len(msgs))
  BY <1>1, SuffixElements
<1>4. SubSeq(msgs, 1, n) \in Seq(B) /\ SubSeq(msgs, 1, n + 1) = Append(SubSeq(msgs, 1, n), msgs[n + 1])
  BY <1>2, <1>3, PrefixElements
<1>5. FoldLeft(RunMsg, b, SubSeq(msgs, 1, n + 1)) = RunMsg(FoldLeft(RunMsg, b, SubSeq(msgs, 1, n)), msgs[n + 1])
  <2> DEFINE done == SubSeq(msgs, 1, n)
             x == msgs[n + 1]
  <2> HIDE DEF done, x, RunMsg
  <2>1. FoldLeft(RunMsg, b, Append(done, x)) = RunMsg(FoldLeft(RunMsg, b, done), x)
    BY <1>4, MessagesFold, Zenon DEF done
  <2> QED BY <1>4, <2>1, Zenon DEF done, x
<1>6. n + 1 \in 0..Len(msgs)
  BY <1>2, <1>3
<1>7. MeterAt(u, h) = FoldLeft(RunMsg, b, SubSeq(msgs, 1, n + 1))
  BY <1>1, <1>3, <1>5, Zenon
<1> QED BY <1>3, <1>6, <1>7, Zenon DEF HasRun, b

\* What FinishTx writes to the log.
TxItem(t) == [kind |-> "tx", tx |-> t]

\* A transaction that is done, or has failed, is what Replay makes of it.
LEMMA FinishedIsReplayed ==
  ASSUME NEW t, IsTx(t), NEW val, NEW h, HasRun(t, val, h)
  PROVE  /\ t.msgs = <<>> /\ t.ok = TRUE => Replay(Values(val, h), TxItem(t.id)) = Values(t.val, h)
         /\ t.ok # TRUE => Replay(Values(val, h), TxItem(t.id)) = Values(val, h)
<1> DEFINE msgs == t.id.msgs
           b == Values(val, h)
           m0 == Before(b, TxGas, t.id.limit)
           m == FoldLeft(RunMsg, m0, msgs)
           item == TxItem(t.id)
<1>0. msgs \in Seq(ToSet(msgs))
  BY TxAssumption DEF IsTx
<1>1. PICK n \in 0..Len(msgs) :
          t.msgs = SubSeq(msgs, n + 1, Len(msgs)) /\ MeterAt(t, h) = FoldLeft(RunMsg, m0, SubSeq(msgs, 1, n))
  BY DEF HasRun
<1>2. Replay(b, item) = IF m.ok THEN [b EXCEPT !.val = m.val] ELSE b
  BY DEF Replay, TxItem
<1>3. MeterAt(t, h).ok = t.ok /\ MeterAt(t, h).val = t.val
  BY DEF MeterAt
<1> HIDE DEF m0
<1>4. CASE t.ok = FALSE
  <2>1. ~m.ok
    BY <1>0, <1>1, <1>3, <1>4, FailedStaysFailed
  <2> HIDE DEF m
  <2> QED BY <1>2, <1>4, <2>1
<1>5. CASE t.ok = TRUE /\ t.msgs = <<>>
  <2>1. n = Len(msgs)
    BY <1>0, <1>1, <1>5, SuffixElements
  <2>2. SubSeq(msgs, 1, n) = msgs
    BY <1>0, <2>1, PrefixElements
  <2>3. m = MeterAt(t, h)
    BY <1>1, <2>2, Zenon
  <2> HIDE DEF m
  <2>4. [b EXCEPT !.val = t.val] = Values(t.val, h)
    BY DEF Values
  <2> HIDE DEF b
  <2> QED BY <1>2, <1>3, <1>5, <2>3, <2>4, Zenon DEF b
<1>6. t.ok # TRUE => t.ok = FALSE
  BY Zenon DEF IsTx
<1> QED BY <1>4, <1>5, <1>6, Zenon

\* The contracts of the message that is executed.
LEMMA HeadIsMsg ==
  ASSUME NEW t, IsTx(t), t.msgs # <<>>
  PROVE  IsMsg(Head(t.msgs)) /\ t.id.msgs \in Seq(ToSet(t.id.msgs))
<1>1. Head(t.msgs) \in ToSet(t.id.msgs)
  BY TailElements DEF IsTx
<1> QED BY <1>1, TxAssumption, Zenon DEF IsTx, ToSet

\* A single answer is processed.
LEMMA OneAnswer ==
  ASSUME NEW r, NEW exec
  PROVE  FoldLeft(ProcessExecution, r, <<exec>>) = ProcessExecution(r, exec)
<1> HIDE DEF ProcessExecution
<1> DEFINE e == <<>>
<1>1. e \in Seq({exec}) /\ <<exec>> = Append(e, exec)
  OBVIOUS
<1>2. \A x : ExecFold!Fold(r, Append(e, x)) = ProcessExecution(ExecFold!Fold(r, e), x)
  <2> HIDE DEF e
  <2> QED BY <1>1, NatInductionSet, ExecFold!FoldAppend DEF ExecFold!Induction
<1>3. ExecFold!Fold(r, e) = r
  BY ExecFold!FoldEmpty
<1>4. \A t : FoldLeft(ProcessExecution, r, t) = ExecFold!Fold(r, t)
  BY DEF FoldLeft, MapThenFoldSet, Max, ExecFold!Fold, ExecFold!MaxOf
<1> HIDE DEF e
<1> QED BY <1>1, <1>2, <1>3, <1>4, Zenon

\* An update that BeginBlocker executes is what Replay makes of it.
LEMMA UpdateIsReplayed ==
  ASSUME NEW c, IsCall(c), NEW code, c.limit = Infinite, c.used = BlockGas, NEW val, NEW h, NEW exec,
         exec = Executed(code, ReadAt(val, h, code.reads), c.granted)
  PROVE  Replay(Values(val, h), [kind |-> "proposal", code |-> code]) =
           Values(ProcessExecution([val |-> val, used |-> BlockGas, limit |-> Infinite, ok |-> TRUE], exec).val, h)
<1> DEFINE b == Values(val, h)
           m == Before(b, BlockGas, Infinite)
           m0 == [val |-> val, used |-> BlockGas, limit |-> Infinite, ok |-> TRUE]
           r == ProcessExecution(m0, exec)
           codes == <<code>>
           resps == <<exec>>
<1>1. c.granted = VMMaxGasLimit
  <2>1. BlockGas + VMMaxGasLimit <= Word
    BY GasAssumption
  <2> QED BY <2>1, GasIsCovered
<1>2. /\ m.val = val /\ m.used = BlockGas /\ m.limit = Infinite /\ m.ok = TRUE /\ m.height = h
      /\ b.val = val /\ b.height = h
  BY DEF Before, Values
<1>3. /\ DOMAIN codes = {1} /\ codes[1] = code /\ resps = [i \in {1} |-> exec]
  OBVIOUS
<1>4. FoldLeft(ProcessExecution, m0, resps) = r
  <2> HIDE DEF m0, ProcessExecution
  <2> QED BY OneAnswer, Zenon
<1>5. Replay(b, [kind |-> "proposal", code |-> code]) = [b EXCEPT !.val = RunMsg(m, codes).val]
  BY DEF Replay
<1> HIDE DEF m, codes, resps, r
<1>6. resps = AnswersFrom(codes, m.val, m.height, Granted(m))
  BY <1>1, <1>2, <1>3 DEF Granted, AnswersFrom
<1>7. m0 = Fresh(m)
  BY <1>2 DEF Fresh
<1> HIDE DEF m0
<1>8. RunMsg(m, codes) = Outcome(m, r)
  BY <1>2, <1>4, <1>6, <1>7, MessageRuns, Zenon
<1>9. RunMsg(m, codes).val = r.val
  BY <1>8 DEF Outcome
<1> QED BY <1>5, <1>9 DEF Values, r, m0

\* An answer keeps the block determined.
LEMMA AnsweredDetermined ==
  ASSUME Shape, Determined, Answered
  PROVE  Determined'
<1> DEFINE code == Head(call.codes)
<1>1. IsCall(call) /\ UNCHANGED <<store, height, phase>>
  BY DEF Answered, Shape
<1>2. PICK v \in GetRaw(code.reads) :
          IF Len(call.codes) > 1
          THEN /\ call' = [call EXCEPT !.codes = Tail(@), !.resps = Append(@, Executed(code, v, call.granted)), !.attempt = 1]
               /\ UNCHANGED <<blk, due, tx, ds, log>>
          ELSE Processed(call.resps, Executed(code, v, call.granted)) /\ call' = NoCall
  BY Zenon DEF Answered
<1> DEFINE exec == Executed(code, v, call.granted)
<1>3. CASE Len(call.codes) > 1
  <2>1. /\ call' = [call EXCEPT !.codes = Tail(@), !.resps = Append(@, exec), !.attempt = 1]
        /\ UNCHANGED <<store, height, phase, blk, due, tx, ds, log>>
    BY <1>1, <1>2, <1>3
  <2> HIDE DEF exec
  <2>2. /\ call'.kind = call.kind /\ call'.codes = Tail(call.codes) /\ call'.resps = Append(call.resps, exec)
        /\ call'.limit = call.limit /\ call'.used = call.used /\ call'.granted = call.granted
    BY <1>1, <2>1 DEF IsCall, CallFields
  <2>3. call.kind # "proposal"
    <3>1. \A x : ~(Len(<<x>>) > 1)
      OBVIOUS
    <3>2. call.kind = "proposal" => call.codes = <<Head(due).code>>
      BY DEF Determined
    <3> QED BY <1>3, <3>1, <3>2, Zenon
  <2>4. ASSUME tx.kind = "deliver", call.kind = "msg"
        PROVE  HasAnswers(call', Head(tx.msgs), tx.val, height + 1)
    <3>1. ds.ref = "tx" /\ ds.height = height + 1 /\ HasAnswers(call, Head(tx.msgs), tx.val, height + 1)
      BY <2>4 DEF Determined
    <3>2. v = ReadAt(tx.val, height + 1, code.reads)
      BY <3>1 DEF GetRaw, ReadAt
    <3>3. IsMsg(Head(tx.msgs))
      BY <2>4, HeadIsMsg DEF Shape
    <3> QED BY <1>1, <1>3, <2>2, <3>1, <3>2, <3>3, OneMoreAnswer DEF exec, IsMsg
  <2> QED BY <2>1, <2>2, <2>3, <2>4 DEF Determined, Base
<1>4. CASE ~(Len(call.codes) > 1) /\ call.kind = "msg"
  <2> DEFINE m0 == [val |-> tx.val, used |-> tx.used, limit |-> tx.limit, ok |-> TRUE]
             resps == Append(call.resps, exec)
             m == FoldLeft(ProcessExecution, m0, resps)
             h == height + 1
  <2>1. /\ tx' = [tx EXCEPT !.val = m.val, !.used = m.used, !.ok = m.ok, !.msgs = Tail(@)]
        /\ UNCHANGED <<store, height, phase, blk, due, ds, log>> /\ call' = NoCall
    BY <1>1, <1>2, <1>4 DEF Processed
  <2>2. IsTx(tx) /\ tx.ok = TRUE /\ tx.msgs # <<>>
    BY <1>4 DEF Shape
  <2> HIDE DEF m
  <2>3. /\ tx'.kind = tx.kind /\ tx'.id = tx.id /\ tx'.msgs = Tail(tx.msgs) /\ tx'.val = m.val
        /\ tx'.used = m.used /\ tx'.limit = tx.limit /\ tx'.ok = m.ok
    BY <2>1, <2>2 DEF IsTx, TxFields
  <2>4. ASSUME tx.kind = "deliver" PROVE HasRun(tx', blk.val, h)
    <3> DEFINE M == MeterAt(tx, h)
               codes == Head(tx.msgs)
    <3>1. /\ ds.ref = "tx" /\ ds.height = h /\ HasAnswers(call, codes, tx.val, h)
          /\ call.limit = tx.limit /\ call.used = tx.used /\ HasRun(tx, blk.val, h)
      BY <1>4, <2>4 DEF Determined
    <3>2. exec = Executed(code, ReadAt(tx.val, h, code.reads), call.granted)
      BY <3>1 DEF GetRaw, ReadAt
    <3>3. IsMsg(codes) /\ tx.id.msgs \in Seq(ToSet(tx.id.msgs)) /\ codes \in Seq(ToSet(codes))
      BY <2>2, HeadIsMsg DEF IsMsg
    <3> HIDE DEF exec, codes, h
    <3>4. resps = AnswersFrom(codes, tx.val, h, call.granted)
      BY <1>1, <1>4, <3>1, <3>2, <3>3, LastAnswer
    <3>5. M.val = tx.val /\ M.used = tx.used /\ M.limit = tx.limit /\ M.ok = TRUE /\ M.height = h
      BY <2>2 DEF MeterAt
    <3>6. call.granted = Granted(M)
      <4>1. tx.limit # Infinite
        BY <2>2, <2>4, TxAssumption, GasAssumption DEF IsTx, Infinite
      <4> HIDE DEF M
      <4> QED BY <1>1, <3>1, <3>5, <4>1, GrantedIsLeft DEF Granted
    <3>7. m0 = Fresh(M)
      BY <3>5 DEF Fresh
    <3> HIDE DEF M, m0, resps
    <3>8. RunMsg(M, codes) = Outcome(M, m)
      <4>1. m = FoldLeft(ProcessExecution, Fresh(M), AnswersFrom(codes, M.val, M.height, Granted(M)))
        BY <3>4, <3>5, <3>6, <3>7 DEF m
      <4> QED BY <3>5, <4>1, MessageRuns, Zenon
    <3>9. MeterAt(tx', h) = RunMsg(M, codes)
      BY <2>3, <3>5, <3>8 DEF MeterAt, Outcome
    <3> QED BY <2>2, <2>3, <3>1, <3>3, <3>9, OneMoreMessage DEF M, codes
  <2> QED BY <2>1, <2>3, <2>4 DEF Determined, Base, NoCall
<1>5. CASE ~(Len(call.codes) > 1) /\ call.kind = "proposal"
  <2> DEFINE m0 == [val |-> blk.val, used |-> BlockGas, limit |-> Infinite, ok |-> TRUE]
             m == ProcessExecution(m0, exec)
             item == [kind |-> "proposal", code |-> Head(due).code]
             h == height + 1
  <2>1. /\ \E q : blk' = [blk EXCEPT !.val = m.val, !.queue = q]
        /\ log' = Append(log, item) /\ ds' = Context("block", h) /\ tx' = tx /\ call' = NoCall
    BY <1>2, <1>5, Zenon DEF Processed
  <2>2. /\ phase = "begin" /\ tx = NoTx /\ IsDS(ds) /\ blk = [f \in StoreFields |-> blk[f]]
    BY <1>5 DEF Shape, IsStore
  <2>3. /\ ds.ref = "block" /\ ds.height = h /\ call.codes = <<Head(due).code>>
        /\ call.limit = Infinite /\ call.used = BlockGas /\ log \in Seq(ToSet(log))
        /\ FoldLeft(Replay, Base, log) = Values(blk.val, h) /\ blk.init = TRUE
    BY <1>5, <2>2 DEF Determined
  <2>4. code = Head(due).code /\ exec = Executed(code, ReadAt(blk.val, h, code.reads), call.granted)
    BY <2>3 DEF GetRaw, ReadAt
  <2> HIDE DEF code, exec
  <2>5. Replay(Values(blk.val, h), item) = Values(m.val, h)
    BY <1>1, <2>3, <2>4, UpdateIsReplayed
  <2> HIDE DEF m, item
  <2>6. blk'.val = m.val /\ blk'.init = blk.init
    BY <2>1, <2>2 DEF StoreFields
  <2>7. FoldLeft(Replay, Base, log') = Values(m.val, h)
    <3> HIDE DEF Replay
    <3>1. FoldLeft(Replay, Base, Append(log, item)) = Replay(FoldLeft(Replay, Base, log), item)
      BY <2>3, ItemsFold, Zenon
    <3> QED BY <2>1, <2>3, <2>5, <3>1
  <2>8. log' \in Seq(ToSet(log'))
    <3>1. log \in Seq(ToSet(log) \cup {item})
      BY <2>3, SeqMonotonic
    <3>2. log' \in Seq(ToSet(log) \cup {item})
      BY <2>1, <3>1, AppendProperties
    <3> QED BY <3>2, OwnElements
  <2>9. ds'.ref = "block" /\ ds'.height = h
    BY <2>1, <2>2 DEF Context, IsDS, DSFields
  <2>10. Base' = Base
    BY <1>1 DEF Base
  <2> QED BY <1>1, <2>1, <2>2, <2>3, <2>6, <2>7, <2>8, <2>9, <2>10 DEF Determined, NoCall, NoTx
<1>6. CASE ~(Len(call.codes) > 1) /\ call.kind = "dryrun"
  <2>1. /\ blk' = blk \/ blk' = ScheduleProposal(code, call.plan)
        /\ UNCHANGED <<tx, due, ds, log>> /\ call' = NoCall
    BY <1>2, <1>6 DEF Processed
  <2>2. blk'.val = blk.val /\ blk'.init = blk.init
    BY <2>1, Zenon DEF ScheduleProposal, Shape, IsStore, StoreFields
  <2> QED BY <1>1, <2>1, <2>2, Zenon DEF Determined, Base, NoCall
<1> QED BY <1>1, <1>3, <1>4, <1>5, <1>6 DEF IsCall

\* The end of a transaction keeps it determined: all of it or nothing.
LEMMA FinishDetermined ==
  ASSUME Shape, Determined, FinishTx
  PROVE  Determined'
<1> DEFINE h == height + 1
           item == TxItem(tx.id)
<1>1. /\ tx # NoTx /\ call = NoCall /\ (tx.msgs = <<>> \/ ~tx.ok) /\ tx' = NoTx
      /\ UNCHANGED <<store, height, phase, due, call>>
  BY DEF FinishTx
<1>2. IsTx(tx) /\ tx.ok \in BOOLEAN /\ tx.kind \in {"deliver", "simulate"} /\ phase # "begin"
  BY <1>1 DEF Shape, IsTx
<1>3. Base' = Base
  BY <1>1 DEF Base
<1>4. CASE tx.kind = "simulate"
  <2>1. UNCHANGED <<blk, log>>
    BY <1>4 DEF FinishTx
  <2> QED BY <1>1, <1>2, <1>3, <2>1 DEF Determined, NoTx, NoCall
<1>5. CASE tx.kind = "deliver"
  <2>1. /\ log' = Append(log, item) /\ blk' = IF tx.ok THEN [blk EXCEPT !.val = tx.val] ELSE blk
    BY <1>5 DEF FinishTx, TxItem
  <2>2. /\ phase = "block" /\ HasRun(tx, blk.val, h) /\ log \in Seq(ToSet(log))
        /\ FoldLeft(Replay, Base, log) = Values(blk.val, h) /\ blk.init = TRUE
    BY <1>5 DEF Determined
  <2>3. blk'.val = (IF tx.ok THEN tx.val ELSE blk.val) /\ blk'.init = TRUE
    <3>1. blk = [f \in StoreFields |-> blk[f]]
      BY DEF Shape, IsStore
    <3> QED BY <2>1, <2>2, <3>1 DEF StoreFields
  <2>4. tx.msgs = <<>> \/ tx.ok = FALSE
    BY <1>1, <1>2, Zenon
  <2>5. Replay(Values(blk.val, h), item) = Values(IF tx.ok THEN tx.val ELSE blk.val, h)
    <3> HIDE DEF h, Replay
    <3>1. IsTx(tx) /\ HasRun(tx, blk.val, h)
      BY <1>2, <2>2
    <3>2. ASSUME tx.ok # TRUE PROVE Replay(Values(blk.val, h), item) = Values(blk.val, h)
      <4>1. \A val : HasRun(tx, val, h) => Replay(Values(val, h), item) = Values(val, h)
        BY <3>1, <3>2, FinishedIsReplayed, Zenon
      <4> QED BY <3>1, <4>1
    <3>3. ASSUME tx.msgs = <<>>, tx.ok = TRUE PROVE Replay(Values(blk.val, h), item) = Values(tx.val, h)
      BY <3>1, <3>3, FinishedIsReplayed, Zenon
    <3>4. tx.ok # TRUE => ~tx.ok
      BY <1>2, Zenon
    <3>5. tx.ok # TRUE \/ (tx.msgs = <<>> /\ tx.ok = TRUE)
      BY <2>4, Zenon
    <3> QED BY <3>2, <3>3, <3>4, <3>5, Zenon
  <2> HIDE DEF item
  <2>6. FoldLeft(Replay, Base, log') = Values(blk'.val, h)
    <3> HIDE DEF Replay
    <3>1. FoldLeft(Replay, Base, Append(log, item)) = Replay(FoldLeft(Replay, Base, log), item)
      BY <2>2, ItemsFold, Zenon
    <3> QED BY <2>1, <2>2, <2>3, <2>5, <3>1, Zenon
  <2>7. log' \in Seq(ToSet(log'))
    <3>1. log \in Seq(ToSet(log) \cup {item})
      BY <2>2, SeqMonotonic
    <3>2. log' \in Seq(ToSet(log) \cup {item})
      BY <2>1, <3>1, AppendProperties
    <3> QED BY <3>2, OwnElements
  <2> QED BY <1>1, <1>3, <2>2, <2>3, <2>6, <2>7 DEF Determined, NoTx, NoCall
<1> QED BY <1>2, <1>4, <1>5

\* A message begins: the VM reads what the messages before it have left.
LEMMA HandleDetermined ==
  ASSUME Shape, Determined, Handle
  PROVE  Determined'
<1> DEFINE codes == Head(tx.msgs)
<1>1. /\ tx # NoTx /\ call = NoCall /\ tx.msgs # <<>>
      /\ call' = Request("msg", codes, 0, tx.limit, tx.used)
      /\ ds' = Context("tx", IF tx.kind = "deliver" THEN height + 1 ELSE height)
      /\ UNCHANGED <<store, blk, height, phase, due, tx, log>>
  BY DEF Handle
<1>2. IsTx(tx) /\ phase # "begin" /\ IsDS(ds)
  BY <1>1 DEF Shape
<1>3. codes \in Seq(ToSet(codes)) /\ codes # <<>>
  BY <1>1, <1>2, HeadIsMsg DEF IsMsg
<1> HIDE DEF codes
<1>4. call'.kind = "msg" /\ call'.codes = codes /\ call'.resps = <<>> /\ call'.limit = tx.limit /\ call'.used = tx.used
  BY <1>1, Zenon DEF Request
<1>5. ds'.ref = "tx" /\ (tx.kind = "deliver" => ds'.height = height + 1)
  BY <1>1, <1>2 DEF Context, IsDS, DSFields
<1>6. HasAnswers(call', codes, tx.val, height + 1)
  <2>1. 0 \in 0..(Len(codes) - 1) /\ SubSeq(codes, 0 + 1, Len(codes)) = codes /\ 1..0 = {}
    <3>1. Len(codes) \in Nat \ {0}
      BY <1>3, EmptySeq
    <3>2. SubSeq(codes, 1, Len(codes)) = codes
      BY <1>3, PrefixElements
    <3> QED BY <3>1, <3>2
  <2>2. Len(call'.resps) = 0
    BY <1>4, EmptySeq
  <2> QED BY <1>4, <2>1, <2>2 DEF HasAnswers
<1> QED BY <1>1, <1>2, <1>4, <1>5, <1>6, Zenon DEF Determined, Base, NoCall, codes

\* Every step keeps the block determined.
LEMMA DeterminedStep == Shape /\ Determined /\ [Next]_vars => Determined'
<1> SUFFICES ASSUME Shape, Determined, [Next]_vars PROVE Determined'
  OBVIOUS
<1>0. store.init \in BOOLEAN /\ blk.init \in BOOLEAN /\ store = [f \in StoreFields |-> store[f]]
  BY DEF Shape, IsStore
<1>1. CASE Down
  BY <1>1 DEF Down, Determined, NoTx, NoCall, ToSet
<1>2. CASE Start
  <2>1. /\ tx = NoTx /\ call = NoCall /\ UNCHANGED <<tx, call, log, store>> /\ blk' = store
        /\ phase' = IF store.init THEN "idle" ELSE "handshake"
    BY <1>2 DEF Start, Shape
  <2>2. phase' = "idle" => store.init = TRUE
    BY <1>0, <2>1
  <2>3. phase' \in {"idle", "handshake"}
    BY <2>1
  <2> QED BY <2>1, <2>2, <2>3 DEF Determined, NoTx, NoCall
<1>3. CASE InitChain
  <2>1. /\ tx = NoTx /\ call = NoCall /\ UNCHANGED <<tx, call, log>> /\ phase' = "idle"
        /\ blk'.val = GenesisValues /\ blk'.init = TRUE
    BY <1>0, <1>3 DEF InitChain, Shape, StoreFields
  <2> QED BY <2>1 DEF Determined, NoTx, NoCall
<1>4. CASE Restart
  <2>1. /\ tx = NoTx /\ call = NoCall /\ UNCHANGED <<tx, call, log>> /\ phase' = "idle"
        /\ blk'.init = TRUE /\ store'.init = TRUE
    BY <1>4 DEF Restart, Idle
  <2> QED BY <2>1 DEF Determined, NoTx, NoCall
<1>5. CASE BeginBlock
  <2>1. /\ phase = "idle" /\ phase' = "begin" /\ log' = <<>> /\ tx = NoTx /\ call = NoCall
        /\ UNCHANGED <<store, height, tx, call>> /\ blk' = IF store.init THEN store ELSE blk
        /\ ds' = Context("block", height + 1)
    BY <1>5 DEF BeginBlock, Idle
  <2>2. ds'.ref = "block" /\ ds'.height = height + 1
    BY <2>1 DEF Context, Shape, IsDS, DSFields
  <2>3. blk'.init = TRUE /\ blk'.val = IF store.init THEN store.val ELSE GenesisValues
    BY <1>0, <2>1 DEF Determined
  <2>4. log' \in Seq(ToSet(log')) /\ \A x : FoldLeft(Replay, x, log') = x
    <3>1. <<>> \in Seq({})
      OBVIOUS
    <3> HIDE DEF Replay
    <3>2. \A x : FoldLeft(Replay, x, <<>>) = x
      BY <3>1, ItemsFold, Zenon
    <3>3. <<>> \in Seq(ToSet(<<>>))
      BY <3>1, OwnElements
    <3> QED BY <2>1, <3>2, <3>3
  <2>5. Base' = Values(blk'.val, height' + 1)
    BY <2>1, <2>3 DEF Base
  <2>6. FoldLeft(Replay, Base', log') = Values(blk'.val, height' + 1)
    BY <2>4, <2>5
  <2> QED BY <2>1, <2>2, <2>3, <2>4, <2>6 DEF Determined, NoTx, NoCall
<1>6. CASE ExecuteProposal
  <2>1. /\ call' = Request("proposal", <<Head(due).code>>, Head(due).height, Infinite, BlockGas)
        /\ phase = "begin" /\ UNCHANGED <<store, blk, height, phase, due, tx, ds, log>>
    BY <1>6 DEF ExecuteProposal
  <2>2. /\ call'.kind = "proposal" /\ call'.codes = <<Head(due).code>> /\ call'.resps = <<>>
        /\ call'.limit = Infinite /\ call'.used = BlockGas
    BY <2>1 DEF Request
  <2> QED BY <2>1, <2>2, Zenon DEF Determined, Base
<1>7. CASE BeginBlockDone
  BY <1>7, Zenon DEF BeginBlockDone, Determined, Base, NoCall
<1>8. CASE Commit
  BY <1>8 DEF Commit, Idle, Determined, NoTx, NoCall
<1>9. ASSUME NEW t \in Txs, DeliverTx(t) PROVE Determined'
  <2>1. /\ phase = "block" /\ call = NoCall /\ tx' = Running("deliver", t, blk.val, t.limit)
        /\ UNCHANGED <<store, blk, height, phase, due, call, ds, log>>
    BY <1>9 DEF DeliverTx, Idle
  <2>2. HasRun(tx', blk.val, height + 1)
    <3> DEFINE m == Before(Values(blk.val, height + 1), TxGas, t.limit)
    <3>1. tx'.id = t /\ tx'.msgs = t.msgs /\ MeterAt(tx', height + 1) = m
      BY <2>1 DEF Running, MeterAt, Before, Values
    <3>2. t.msgs \in Seq(ToSet(t.msgs))
      BY TxAssumption
    <3>3. SubSeq(t.msgs, 0 + 1, Len(t.msgs)) = t.msgs /\ SubSeq(t.msgs, 1, 0) = <<>> /\ 0 \in 0..Len(t.msgs)
      BY <3>2, PrefixElements
    <3> HIDE DEF m
    <3>4. FoldLeft(RunMsg, m, <<>>) = m
      <4> HIDE DEF RunMsg
      <4> QED BY <3>2, MessagesFold, Zenon
    <3> QED BY <3>1, <3>3, <3>4, Zenon DEF HasRun, m
  <2>3. tx'.kind = "deliver"
    BY <2>1 DEF Running
  <2> QED BY <2>1, <2>2, <2>3 DEF Determined, Base, NoCall
<1>10. ASSUME NEW t \in Txs, Simulate(t) PROVE Determined'
  <2>1. tx'.kind = "simulate" /\ call = NoCall /\ UNCHANGED <<store, blk, height, phase, due, call, ds, log>>
    BY <1>10 DEF Simulate, Idle, Running
  <2> QED BY <2>1, Zenon DEF Determined, Base, NoCall
<1>11. ASSUME NEW p \in Proposals, GovPassed(p) PROVE Determined'
  <2>1. /\ call'.kind = "dryrun" /\ tx = NoTx /\ phase \in {"block", "end"} /\ phase' = "end"
        /\ UNCHANGED <<store, blk, height, due, tx, ds, log>>
    BY <1>11 DEF GovPassed, Idle, Request
  <2> QED BY <2>1 DEF Determined, Base, NoTx
<1>12. CASE AttemptFailed
  <2>1. CASE call' = NoCall /\ UNCHANGED <<store, blk, height, phase, due, tx, ds, log>>
    BY <2>1 DEF Determined, Base, NoCall
  <2>2. CASE \E n : call' = [call EXCEPT !.attempt = n] /\ UNCHANGED <<store, blk, height, phase, due, tx, ds, log>>
    <3>1. IsCall(call) /\ UNCHANGED <<store, blk, height, phase, due, tx, ds, log>>
      BY <1>12, <2>2 DEF AttemptFailed, Shape
    <3>2. /\ call'.kind = call.kind /\ call'.codes = call.codes /\ call'.resps = call.resps
          /\ call'.limit = call.limit /\ call'.used = call.used /\ call'.granted = call.granted
      BY <2>2, <3>1 DEF IsCall, CallFields
    <3>3. \A codes, val, h : HasAnswers(call, codes, val, h) => HasAnswers(call', codes, val, h)
      BY <3>2 DEF HasAnswers
    <3> QED BY <3>1, <3>2, <3>3, Zenon DEF Determined, Base
  <2> QED BY <1>1, <1>12, <2>1, <2>2 DEF AttemptFailed
<1>13. CASE UNCHANGED vars
  BY <1>13 DEF vars, Determined, Base
<1>14. CASE Handle
  BY <1>14, HandleDetermined
<1>15. CASE FinishTx
  BY <1>15, FinishDetermined
<1>16. CASE Answered
  BY <1>16, AnsweredDetermined
<1>17. CASE Crash
  BY <1>1, <1>17 DEF Crash
<1> QED
  BY <1>2, <1>3, <1>4, <1>5, <1>6, <1>7, <1>8, <1>9, <1>10, <1>11, <1>12, <1>13, <1>14, <1>15, <1>16, <1>17 DEF Next

\* The storage of a block is the replay of what the block has executed, whatever
\* was retried, simulated or left in the data source server before: for any
\* contracts, any number of transactions and any limits.
THEOREM StorageAlwaysDetermined == Spec => []StorageIsDetermined
<1>1. Init => Determined
  <2> SUFFICES ASSUME Init PROVE Determined
    OBVIOUS
  <2>1. phase = "down" /\ tx.kind = "none" /\ call.kind = "none" /\ log = <<>>
    BY DEF Init, NoTx, NoCall
  <2>2. log \in Seq(ToSet(log))
    BY <2>1, EmptySeq
  <2> QED BY <2>1, <2>2 DEF Determined
<1>2. Shape /\ Determined /\ [Next]_vars => Determined'
  BY DeterminedStep
<1>3. Determined => StorageIsDetermined
  <2> SUFFICES ASSUME Determined, phase \in {"begin", "block", "end"}
               PROVE  blk.val = FoldLeft(Replay, [val |-> IF store.init THEN store.val ELSE GenesisValues,
                                                  height |-> height + 1], log).val
    BY DEF StorageIsDetermined
  <2>1. FoldLeft(Replay, Base, log) = Values(blk.val, height + 1)
    BY DEF Determined
  <2>2. Values(blk.val, height + 1).val = blk.val
    BY DEF Values
  <2> QED BY <2>1, <2>2 DEF Base, Values
<1> QED BY <1>1, <1>2, <1>3, ShapeHolds, PTL DEF Spec

===============================================================================
