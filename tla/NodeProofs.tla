------------------------------ MODULE NodeProofs ------------------------------
(***************************************************************************)
(* Proofs about the application, for any transactions, genesis, block gas, *)
(* halt height and number of crashes: its committed states are a Ledger    *)
(* and a function of the decided blocks, no transaction takes effect       *)
(* twice, and what is pooled pays its fee.                                 *)
(***************************************************************************)
EXTENDS Node, SeqLemmas

\* In a block, the height matters to the ante handler only by not being 0.
LEMMA HeightIsIrrelevant ==
  ASSUME NEW h \in Nat \ {0}, NEW st, NEW tx, NEW up
  PROVE  LET c == [mode |-> "deliver", height |-> h, chain |-> ChainID]
             d == [mode |-> "deliver", height |-> 1, chain |-> ChainID]
         IN  /\ AnteHandler(c, st, tx) <=> AnteHandler(d, st, tx)
             /\ RunMsgs(c, st, tx, up) = RunMsgs(d, st, tx, up)
<1> DEFINE c == [mode |-> "deliver", height |-> h, chain |-> ChainID]
           d == [mode |-> "deliver", height |-> 1, chain |-> ChainID]
<1>1. GasLimit(c, tx) = GasLimit(d, tx)
  BY DEF GasLimit
<1>2. AnteHandler(c, st, tx) <=> AnteHandler(d, st, tx)
  <2>1. AdmittedUnread(c, tx) <=> AdmittedUnread(d, tx)
    BY DEF AdmittedUnread, DenomDecorator, MempoolFeeDecorator, ValidateBasicDecorator
  <2>2. SetPubKeyDecorator(c, st, tx) <=> SetPubKeyDecorator(d, st, tx)
    BY DEF SetPubKeyDecorator
  <2>3. SigGasConsumeDecorator(c, st, tx) <=> SigGasConsumeDecorator(d, st, tx)
    BY DEF SigGasConsumeDecorator
  <2>4. SigVerificationDecorator(c, st, tx) <=> SigVerificationDecorator(d, st, tx)
    BY DEF SigVerificationDecorator
  <2> QED BY <1>1, <2>1, <2>2, <2>3, <2>4 DEF AnteHandler
<1>3. RunMsgs(c, st, tx, up) = RunMsgs(d, st, tx, up)
  BY <1>1 DEF RunMsgs
<1> QED BY <1>2, <1>3

\* What runTx leaves in the state of the block is an outcome that the ledger
\* allows, and its messages only take effect behind the ante handler.
LEMMA DeliverIsOutcome ==
  ASSUME NEW s, s.height \in Nat \ {0}, NEW t, NEW up \in BOOLEAN
  PROVE  RunTxDeliver(s, t, up).st \in TxOutcomes(s.st, t)
<1> DEFINE tx == Decode[t]
           c == [mode |-> "deliver", height |-> s.height, chain |-> ChainID]
           d == [mode |-> "deliver", height |-> 1, chain |-> ChainID]
           r == RunMsgs(c, Charged(s.st, tx), tx, up)
<1>1. CASE ~AnteHandler(c, s.st, tx) \/ tx = NoTx
  <2>1. RunTxDeliver(s, t, up).st = s.st
    BY <1>1 DEF RunTxDeliver, Answered
  <2> QED BY <2>1 DEF TxOutcomes
<1>2. CASE AnteHandler(c, s.st, tx) /\ tx # NoTx
  <2>1. RunTxDeliver(s, t, up).st \in
          {s.st, IF r.tag = "ok" THEN Executed(s.st, t, r) ELSE Charged(s.st, tx)}
    BY <1>2 DEF RunTxDeliver, Answered
  <2>2. AnteHandler(d, s.st, tx) /\ r = RunMsgs(d, Charged(s.st, tx), tx, up)
    BY <1>2, HeightIsIrrelevant
  <2> HIDE DEF r
  <2>3. CASE r.tag = "ok"
    <3>1. Executed(s.st, t, r) \in TxOutcomes(s.st, t)
      BY <2>2, <2>3, <1>2 DEF TxOutcomes
    <3> QED BY <2>1, <2>3, <3>1 DEF TxOutcomes
  <2>4. CASE r.tag # "ok"
    BY <2>1, <2>2, <2>4, <1>2 DEF TxOutcomes
  <2> QED BY <2>3, <2>4
<1> QED BY <1>1, <1>2

-------------------------------------------------------------------------------
(* The committed states are a ledger *)

\* The chain of decided blocks leads the committed states by one block at most,
\* and the deliver state is the one of the phase.
Shape ==
  /\ deliver.nil \in BOOLEAN
  /\ cms \in Seq(ToSet(cms))
  /\ chain \in Seq(Seq(TxBytes))
  /\ pos \in Nat
  /\ vm \in BOOLEAN
  /\ phase \in {"down", "handshake", "idle", "begun", "ended"}
  /\ phase = "handshake" => cms = <<>>
  /\ phase = "idle" => IF deliver.nil THEN cms # <<>> ELSE cms = <<>> /\ deliver.st = GenesisStore
  /\ phase \in {"begun", "ended"} =>
       /\ Len(chain) > Len(cms)
       /\ deliver.nil = FALSE
       /\ deliver.height = Len(cms) + 1

\* A sequence stays one when it grows.
LEMMA AppendSelf ==
  ASSUME NEW s, s \in Seq(ToSet(s)), NEW x
  PROVE  /\ Append(s, x) \in Seq(ToSet(Append(s, x)))
         /\ Append(s, x) # <<>>
         /\ Len(Append(s, x)) = Len(s) + 1
<1>1. s \in Seq(ToSet(s) \cup {x})
  BY SeqDef
<1>2. Append(s, x) \in Seq(ToSet(s) \cup {x}) /\ Len(Append(s, x)) = Len(s) + 1 /\ Len(s) \in Nat
  BY <1>1
<1>3. \A i \in 1..(Len(s) + 1) : Append(s, x)[i] \in ToSet(Append(s, x))
  BY <1>2 DEF ToSet
<1>4. Append(s, x) \in [1..(Len(s) + 1) -> ToSet(Append(s, x))]
  BY <1>2, <1>3, LenProperties
<1>5. Append(s, x) \in Seq(ToSet(Append(s, x)))
  <2> HIDE DEF ToSet
  <2> DEFINE a == Append(s, x)
  <2>1. a \in [1..(Len(s) + 1) -> ToSet(a)] /\ Len(s) + 1 \in Nat
    BY <1>2, <1>4
  <2> HIDE DEF a
  <2>2. a \in Seq(ToSet(a))
    BY <2>1, SeqDef
  <2> QED BY <2>2 DEF a
<1> QED BY <1>2, <1>5

\* The variables have their shape at first,
LEMMA InitShape == Init => Shape
<1> SUFFICES ASSUME Init PROVE Shape
  OBVIOUS
<1>1. <<>> \in Seq(ToSet(<<>>)) /\ <<>> \in Seq(Seq(TxBytes))
  OBVIOUS
<1> QED BY <1>1 DEF Init, Shape, NilState

\* and every step keeps it.
LEMMA ShapeStep == Shape /\ [Next]_vars => Shape'
<1> SUFFICES ASSUME Shape, [Next]_vars PROVE Shape'
  OBVIOUS
<1>1. CASE Start
  BY <1>1 DEF Shape, Start, NilState
<1>2. CASE InitChain
  BY <1>2 DEF Shape, InitChain
<1>3. CASE Crash \/ VMFails \/ VMReturns
  <2>1. CASE Crash
    BY <2>1 DEF Shape, Crash, NilState
  <2>2. CASE VMFails
    BY <2>2 DEF Shape, VMFails
  <2>3. CASE VMReturns
    BY <2>3 DEF Shape, VMReturns
  <2> QED BY <1>3, <2>1, <2>2, <2>3
<1>4. CASE Decide
  <2>1. PICK n \in 0..MaxBlockTxs[Len(chain) + 1] :
          \E b \in [1..n -> TxBytes] : chain' = Append(chain, b)
    BY <1>4 DEF Decide
  <2>2. PICK b \in [1..n -> TxBytes] : chain' = Append(chain, b)
    BY <2>1
  <2>3. n \in Nat
    BY <2>1
  <2>4. b \in Seq(TxBytes)
    BY <2>2, <2>3, SeqDef
  <2>5. chain' \in Seq(Seq(TxBytes))
    BY <2>2, <2>4 DEF Shape
  <2> QED BY <1>4, <2>5 DEF Shape, Decide
<1>5. CASE BeginBlock
  BY <1>5 DEF Shape, BeginBlock, LastBlockHeight
<1>6. CASE DeliverTx
  <2>1. PICK r \in {RunTxDeliver(deliver, CurrentBlock[pos + 1], vm)} :
          \/ /\ deliver' = Delivering(r.st, r.gas)
             /\ pos' = pos + 1
             /\ UNCHANGED <<phase, pool, recheck>>
          \/ /\ phase' = "down" /\ deliver' = NilState /\ pos' = 0
    BY <1>6 DEF DeliverTx
  <2>2. phase = "begun" /\ UNCHANGED <<cms, check, chain, vm, faults>>
    BY <1>6 DEF DeliverTx
  <2>3. CASE deliver' = NilState /\ phase' = "down" /\ pos' = 0
    BY <2>2, <2>3 DEF Shape, NilState
  <2>4. CASE /\ deliver' = Delivering(r.st, r.gas)
             /\ pos' = pos + 1 /\ phase' = phase
    <3>1. deliver'.nil = FALSE /\ deliver'.height = deliver.height
      BY <2>4 DEF Delivering
    <3>2. pos' \in Nat
      BY <2>4 DEF Shape
    <3>3. phase' = "begun" /\ UNCHANGED <<cms, chain, vm>>
      BY <2>2, <2>4
    <3> HIDE <2>4
    <3>4. deliver'.nil \in BOOLEAN
      BY <3>1, Zenon
    <3> QED BY <2>2, <3>1, <3>2, <3>3, <3>4 DEF Shape
  <2> QED BY <2>1, <2>3, <2>4
<1>7. CASE EndBlock
  <2>1. deliver'.nil = FALSE /\ deliver'.height = deliver.height
    BY <1>7 DEF EndBlock, Delivering
  <2> QED BY <1>7, <2>1 DEF Shape, EndBlock
<1>8. CASE Commit
  <2>1. cms' \in Seq(ToSet(cms')) /\ cms' # <<>>
    BY <1>8, AppendSelf DEF Commit, Shape
  <2>2. deliver'.nil = TRUE /\ phase' \in {"down", "idle"} /\ pos' = 0 /\ UNCHANGED <<chain, vm>>
    BY <1>8 DEF Commit, NilState
  <2> QED BY <2>1, <2>2 DEF Shape, NilState
<1>9. ASSUME NEW t \in TxBytes, CheckTx(t) \/ Simulate(t) PROVE Shape'
  <2>1. CASE CheckTx(t)
    BY <2>1 DEF Shape, CheckTx
  <2>2. CASE Simulate(t)
    BY <2>2 DEF Shape, Simulate, NilState
  <2> QED BY <1>9, <2>1, <2>2
<1>10. CASE ReCheckTx
  BY <1>10 DEF Shape, ReCheckTx
<1>11. CASE UNCHANGED vars
  BY <1>11 DEF Shape, vars
<1> QED
  BY <1>1, <1>2, <1>3, <1>4, <1>5, <1>6, <1>7, <1>8, <1>9, <1>10, <1>11 DEF Next

\* The variables always have their shape: a block is only executed on a deliver
\* state, at the height after the committed one.
THEOREM ShapeHolds == Spec => []Shape
<1>1. Init => Shape
  BY InitShape
<1>2. Shape /\ [Next]_vars => Shape'
  BY ShapeStep
<1> QED BY <1>1, <1>2, PTL DEF Spec

\* The initial state is one of the ledger.
LEMMA LedgerInit == Init => L!Init
BY DEF Init, L!Init

\* Every step of the application is a step of the ledger, or none.
LEMMA LedgerStep == Shape /\ [Next]_vars => [L!Next]_L!lvars
<1> SUFFICES ASSUME Shape, [Next]_vars PROVE [L!Next]_L!lvars
  OBVIOUS
<1> USE DEF L!lvars
<1>1. CASE Start \/ InitChain \/ Decide \/ VMFails \/ VMReturns
  BY <1>1 DEF Start, InitChain, Decide, VMFails, VMReturns
<1>2. CASE Crash
  BY <1>2 DEF Crash, L!Next, L!Abort
<1>3. CASE BeginBlock
  <2>1. phase = "idle" /\ phase' = "begun" /\ UNCHANGED cms
    BY <1>3 DEF BeginBlock
  <2>2. deliver'.st = Opened(IF deliver.nil THEN Committed ELSE deliver.st)
    BY <1>3 DEF BeginBlock
  <2>3. (IF deliver.nil THEN Committed ELSE deliver.st) = L!Last
    BY <2>1 DEF Shape, Committed, L!Last
  <2>4. L!Begin
    BY <2>1, <2>2, <2>3 DEF L!Begin
  <2> QED BY <2>4 DEF L!Next
<1>4. CASE DeliverTx
  <2> DEFINE t == CurrentBlock[pos + 1]
             r == RunTxDeliver(deliver, t, vm)
  <2>1. /\ phase = "begun" /\ pos < Len(CurrentBlock)
        /\ UNCHANGED cms
        /\ \/ deliver' = Delivering(r.st, r.gas) /\ phase' = phase
           \/ phase' = "down"
    BY <1>4 DEF DeliverTx
  <2>2. CASE phase' = "down"
    BY <2>1, <2>2 DEF L!Next, L!Abort
  <2>3. CASE deliver' = Delivering(r.st, r.gas) /\ phase' = phase
    <3>1. t \in TxBytes
      BY <2>1 DEF CurrentBlock, LastBlockHeight, Shape
    <3>2. deliver.height \in Nat \ {0} /\ vm \in BOOLEAN
      BY <2>1 DEF Shape
    <3>3. r.st \in TxOutcomes(deliver.st, t)
      BY <3>2, DeliverIsOutcome
    <3>4. deliver'.st = r.st
      BY <2>3 DEF Delivering
    <3>5. L!Deliver(t)
      BY <2>1, <2>3, <3>3, <3>4 DEF L!Deliver
    <3> QED BY <3>1, <3>5 DEF L!Next
  <2> QED BY <2>1, <2>2, <2>3
<1>5. CASE EndBlock
  <2>1. L!End
    BY <1>5 DEF EndBlock, Delivering, L!End
  <2> QED BY <2>1 DEF L!Next
<1>6. CASE Commit
  <2>1. phase = "ended" /\ phase' \in {"down", "idle"} /\ cms' = Append(cms, deliver.st)
    BY <1>6 DEF Commit
  <2>2. L!Commit
    BY <2>1 DEF L!Commit
  <2> QED BY <2>2 DEF L!Next
<1>7. ASSUME NEW t \in TxBytes, CheckTx(t) PROVE [L!Next]_L!lvars
  BY <1>7 DEF CheckTx
<1>8. ASSUME NEW t \in TxBytes, Simulate(t) PROVE [L!Next]_L!lvars
  BY <1>8 DEF Simulate, L!Next, L!Abort
<1>9. CASE ReCheckTx
  BY <1>9 DEF ReCheckTx
<1>10. CASE UNCHANGED vars
  BY <1>10 DEF vars
<1> QED
  BY <1>1, <1>2, <1>3, <1>4, <1>5, <1>6, <1>7, <1>8, <1>9, <1>10 DEF Next

\* BaseApp implements the ledger: whatever is checked, simulated, delivered,
\* lost in a crash and delivered again, the committed states are whole blocks of
\* whole transactions on top of each other.
THEOREM CommittedStatesAreALedger == Spec => ImplementsLedger
<1>1. Init => L!Init
  BY LedgerInit
<1>2. Shape /\ [Next]_vars => [L!Next]_L!lvars
  BY LedgerStep
<1>3. Spec => []Shape
  BY ShapeHolds
<1> QED BY <1>1, <1>2, <1>3, PTL DEF Spec, L!Spec, ImplementsLedger

-------------------------------------------------------------------------------
(* No transaction takes effect twice *)

\* A transaction that took effect was signed for a sequence number its first
\* signer has passed.
StoreOK(st) ==
  /\ IsStore(st)
  /\ st.seq \in [Acc -> Nat]
  /\ st.done \in [TxBytes -> 0..1]
  /\ \A t \in TxBytes :
       st.done[t] = 1 => /\ Decode[t] # NoTx
                         /\ Decode[t].sigs[1].seq \in Nat
                         /\ Decode[t].sigs[1].seq < st.seq[Decode[t].signers[1]]

StoresOK ==
  /\ \A i \in 1..Len(cms) : StoreOK(cms[i])
  /\ StoreOK(check.st)
  /\ deliver.nil = FALSE => StoreOK(deliver.st)

\* The stores before and after InitGenesis are in order.
LEMMA FirstStores == StoreOK(GenesisStore) /\ StoreOK(BlankStore)
BY StoreAssumption DEF StoreOK

\* Running the blockers.
LEMMA BlockersKeepOK ==
  ASSUME NEW st, StoreOK(st)
  PROVE  StoreOK(Opened(st)) /\ StoreOK(Closed(st))
BY DEF StoreOK, IsStore, StoreFields, Opened, Closed

\* Charging a transaction only moves sequence numbers up.
LEMMA ChargedKeepsOK ==
  ASSUME NEW st, StoreOK(st), NEW tx
  PROVE  /\ StoreOK(Charged(st, tx))
         /\ Charged(st, tx).seq = IncrementSequences(st, tx)
         /\ Charged(st, tx).done = st.done
<1> DEFINE q == Charged(st, tx)
<1>1. /\ IsStore(q) /\ q.done = st.done /\ q.seq = IncrementSequences(st, tx)
  BY DEF StoreOK, IsStore, StoreFields, Charged
<1>2. /\ IncrementSequences(st, tx) \in [Acc -> Nat]
      /\ \A a \in Acc : IncrementSequences(st, tx)[a] >= st.seq[a]
  BY DEF StoreOK, IncrementSequences
<1> HIDE DEF q
<1>3. \A t \in TxBytes : st.done[t] = 1 => Decode[t].signers[1] \in Acc
  BY TxAssumption DEF StoreOK
<1>4. ASSUME NEW t \in TxBytes, q.done[t] = 1
      PROVE  Decode[t].sigs[1].seq < q.seq[Decode[t].signers[1]]
  BY <1>1, <1>2, <1>3, <1>4 DEF StoreOK
<1>5. StoreOK(q)
  BY <1>1, <1>2, <1>4 DEF StoreOK
<1> QED BY <1>1, <1>5 DEF q

\* The messages of a transaction that the ante handler accepts have not taken
\* effect before, and the accepted sequence number is used up.
LEMMA ExecutedKeepsOK ==
  ASSUME NEW st, StoreOK(st), NEW t \in TxBytes, Decode[t] # NoTx, NEW h, NEW r,
         AnteHandler([mode |-> "deliver", height |-> h, chain |-> ChainID], st, Decode[t])
  PROVE  StoreOK(Executed(st, t, r))
<1> DEFINE tx == Decode[t]
           p == Charged(st, tx)
           q == Executed(st, t, r)
<1>1. tx.signers \in Seq(Acc) /\ 1 \in DOMAIN tx.signers /\ tx.signers[1] \in Acc
  BY TxAssumption
<1>2. tx.sigs[1].seq = st.seq[tx.signers[1]]
  BY <1>1, Zenon DEF AnteHandler, SigVerificationDecorator
<1>3. st.done[t] = 0
  BY <1>1, <1>2 DEF StoreOK
<1>4. StoreOK(p) /\ p.seq = IncrementSequences(st, tx) /\ p.done = st.done
  BY ChargedKeepsOK
<1>5. p.seq[tx.signers[1]] = st.seq[tx.signers[1]] + 1
  BY <1>1, <1>4 DEF IncrementSequences, Signers, ToSet
<1> HIDE DEF p
<1>6. IsStore(q) /\ q.seq = p.seq /\ q.done = [p.done EXCEPT ![t] = @ + 1]
  BY <1>4, Zenon DEF StoreOK, IsStore, StoreFields, Executed, p
<1> HIDE DEF q
<1>7. q.done \in [TxBytes -> 0..1]
  BY <1>3, <1>4, <1>6 DEF StoreOK
<1>8. ASSUME NEW u \in TxBytes, q.done[u] = 1
      PROVE  /\ Decode[u] # NoTx
             /\ Decode[u].sigs[1].seq \in Nat
             /\ Decode[u].sigs[1].seq < q.seq[Decode[u].signers[1]]
  <2>1. CASE u = t
    <3>1. st.seq[tx.signers[1]] \in Nat
      BY <1>1 DEF StoreOK
    <3>2. q.seq[tx.signers[1]] = st.seq[tx.signers[1]] + 1
      BY <1>5, <1>6, Zenon
    <3> QED BY <2>1, <3>1, <3>2, <1>2
  <2>2. CASE u # t
    BY <2>2, <1>4, <1>6, <1>8 DEF StoreOK
  <2> QED BY <2>1, <2>2
<1>9. StoreOK(q)
  BY <1>4, <1>6, <1>7, <1>8, Zenon DEF StoreOK
<1> QED BY <1>9 DEF q

\* A delivered transaction leaves a store that is in order.
LEMMA DeliverKeepsOK ==
  ASSUME NEW s, StoreOK(s.st), NEW t \in TxBytes, NEW up
  PROVE  StoreOK(RunTxDeliver(s, t, up).st)
<1> DEFINE tx == Decode[t]
           c == [mode |-> "deliver", height |-> s.height, chain |-> ChainID]
           r == RunMsgs(c, Charged(s.st, tx), tx, up)
<1>1. \/ RunTxDeliver(s, t, up).st = s.st
      \/ /\ tx # NoTx /\ AnteHandler(c, s.st, tx)
         /\ RunTxDeliver(s, t, up).st \in {Executed(s.st, t, r), Charged(s.st, tx)}
  BY DEF RunTxDeliver, Answered
<1> HIDE DEF r
<1> QED BY <1>1, ExecutedKeepsOK, ChargedKeepsOK

\* Every step of the node keeps all stores in order.
LEMMA StoresStep == Shape /\ StoresOK /\ [Next]_vars => StoresOK'
<1> SUFFICES ASSUME Shape, StoresOK, [Next]_vars PROVE StoresOK'
  OBVIOUS
<1>1. StoreOK(Committed)
  BY FirstStores DEF Shape, StoresOK, Committed
<1>2. CASE Start
  BY <1>1, <1>2 DEF StoresOK, Start, NilState
<1>3. CASE InitChain
  BY <1>1, <1>3, FirstStores DEF StoresOK, InitChain
<1>4. CASE Crash
  BY <1>4 DEF StoresOK, Crash, NilState
<1>5. CASE Decide \/ VMFails \/ VMReturns
  BY <1>5 DEF StoresOK, Decide, VMFails, VMReturns
<1>6. CASE BeginBlock
  <2>1. /\ deliver'.st = Opened(IF deliver.nil THEN Committed ELSE deliver.st)
        /\ phase = "idle" /\ UNCHANGED <<cms, check>>
    BY <1>6 DEF BeginBlock
  <2>2. deliver.nil = FALSE \/ (IF deliver.nil THEN Committed ELSE deliver.st) \in {Committed, GenesisStore}
    BY <2>1 DEF Shape
  <2>3. StoreOK(IF deliver.nil THEN Committed ELSE deliver.st)
    BY <1>1, <2>2, FirstStores DEF StoresOK
  <2> QED BY <2>1, <2>3, BlockersKeepOK DEF StoresOK
<1>7. CASE DeliverTx
  <2> DEFINE t == CurrentBlock[pos + 1]
             r == RunTxDeliver(deliver, t, vm)
  <2>1. /\ phase = "begun" /\ pos < Len(CurrentBlock)
        /\ UNCHANGED <<cms, check>>
        /\ deliver' \in {Delivering(r.st, r.gas), NilState}
    BY <1>7 DEF DeliverTx
  <2>2. t \in TxBytes
    BY <2>1 DEF CurrentBlock, LastBlockHeight, Shape
  <2>3. StoreOK(r.st)
    BY <2>1, <2>2, DeliverKeepsOK DEF Shape, StoresOK
  <2>4. deliver'.nil = FALSE => deliver'.st = r.st
    <3> HIDE DEF r
    <3> QED BY <2>1 DEF Delivering, NilState
  <2> HIDE DEF r
  <2> QED BY <2>1, <2>3, <2>4 DEF StoresOK
<1>8. CASE EndBlock
  <2>1. /\ phase = "ended" \/ phase = "begun"
        /\ UNCHANGED <<cms, check>>
        /\ deliver'.st = Closed(deliver.st)
    BY <1>8 DEF EndBlock, Delivering
  <2> QED BY <2>1, BlockersKeepOK DEF Shape, StoresOK
<1>9. CASE Commit
  <2>1. /\ StoreOK(deliver.st)
        /\ cms' = Append(cms, deliver.st) /\ check'.st = deliver.st /\ deliver' = NilState
    BY <1>9 DEF Commit, Shape, StoresOK
  <2>2. \A i \in 1..Len(cms') : StoreOK(cms'[i])
    <3>1. cms \in Seq(ToSet(cms) \cup {deliver.st})
      BY SeqMonotonic DEF Shape
    <3>2. /\ Len(cms') = Len(cms) + 1
          /\ \A i \in 1..(Len(cms) + 1) : cms'[i] = IF i <= Len(cms) THEN cms[i] ELSE deliver.st
      BY <2>1, <3>1
    <3> QED BY <2>1, <3>1, <3>2 DEF StoresOK
  <2> QED BY <2>1, <2>2 DEF StoresOK, NilState
<1>10. ASSUME NEW t \in TxBytes, CheckTx(t) PROVE StoresOK'
  <2>1. check'.st = Charged(check.st, Decode[t]) \/ check'.st = check.st
    BY <1>10 DEF CheckTx, Checking
  <2> QED BY <1>10, <2>1, ChargedKeepsOK, Zenon DEF CheckTx, StoresOK
<1>11. ASSUME NEW t \in TxBytes, Simulate(t) PROVE StoresOK'
  BY <1>11 DEF Simulate, StoresOK, NilState
<1>12. CASE ReCheckTx
  <2>1. \/ check' = Checking(Charged(check.st, Decode[pool[Len(pool) - recheck + 1]]))
        \/ check' = check
    BY <1>12 DEF ReCheckTx
  <2>2. \/ check'.st = Charged(check.st, Decode[pool[Len(pool) - recheck + 1]])
        \/ check'.st = check.st
    BY <2>1 DEF Checking
  <2> QED BY <1>12, <2>2, ChargedKeepsOK, Zenon DEF ReCheckTx, StoresOK
<1>13. CASE UNCHANGED vars
  BY <1>13 DEF StoresOK, vars
<1> QED
  BY <1>2, <1>3, <1>4, <1>5, <1>6, <1>7, <1>8, <1>9, <1>10, <1>11, <1>12, <1>13 DEF Next

\* No transaction takes effect twice, in no store the application holds: a
\* replayed block starts from the committed sequence numbers, and what CheckTx
\* and ReCheckTx let pass is verified again when it is delivered.
THEOREM TransactionsTakeEffectOnce == Spec => []NoReplay
<1>1. Init => StoresOK
  BY FirstStores DEF Init, StoresOK, NilState
<1>2. Shape /\ StoresOK /\ [Next]_vars => StoresOK'
  BY StoresStep
<1>3. Shape /\ StoresOK => NoReplay
  <2> SUFFICES ASSUME Shape, StoresOK PROVE NoReplay
    OBVIOUS
  <2>1. StoreOK(Committed)
    BY FirstStores DEF Shape, StoresOK, Committed
  <2>2. deliver.nil \in BOOLEAN
    BY DEF Shape
  <2>3. \A st \in Stores : StoreOK(st)
    BY <2>1, <2>2 DEF Stores, StoresOK
  <2> QED BY <2>3 DEF NoReplay, StoreOK
<1>4. Spec => []Shape
  BY ShapeHolds
<1> QED BY <1>1, <1>2, <1>3, <1>4, PTL DEF Spec

-------------------------------------------------------------------------------
(* The committed states are determined by the blocks *)

\* The outcome of messages is a record with these fields.
RunFields == {"tag", "coins", "accs", "vm", "limit", "used"}

IsRun(r) == r = [f \in RunFields |-> r[f]]

\* The outcome r of messages that may have run without the VM, and the outcome q
\* of the same messages with it.
Agree(r, q) ==
  /\ IsRun(r) /\ IsRun(q) /\ q.vm = TRUE
  /\ r.tag # "crash" => /\ q.tag = r.tag /\ q.coins = r.coins /\ q.accs = r.accs
                        /\ q.limit = r.limit /\ q.used = r.used

\* A handler does not look at the VM.
LEMMA HandlerAgrees ==
  ASSUME NEW r, NEW q, NEW m, Agree(r, q), r.tag = "ok"
  PROVE  Agree(Handler(r, m), Handler(q, m))
<1> DEFINE coins == Sent(r.coins, m)
<1>0. /\ IsRun(r) /\ IsRun(q) /\ q.vm = TRUE
      /\ q.tag = r.tag /\ q.coins = r.coins /\ q.accs = r.accs
      /\ q.limit = r.limit /\ q.used = r.used
  BY DEF Agree
<1>1. CASE \/ m.type = "send" /\ m.amount > r.coins[m.from]
           \/ m.type = "script" /\ m.panics
  <2>1. Handler(r, m) = [r EXCEPT !.tag = "error"] /\ Handler(q, m) = [q EXCEPT !.tag = "error"]
    BY <1>0, <1>1 DEF Handler
  <2> QED BY <1>0, <2>1, Zenon DEF Agree, IsRun, RunFields
<1>2. CASE m.type = "send" /\ ~(m.amount > r.coins[m.from])
  <2>1. /\ Handler(r, m) = [r EXCEPT !.coins = coins, !.accs = @ \cup {m.to}]
        /\ Handler(q, m) = [q EXCEPT !.coins = coins, !.accs = @ \cup {m.to}]
    BY <1>0, <1>2 DEF Handler
  <2> HIDE DEF coins
  <2>2. /\ IsRun(Handler(r, m)) /\ Handler(r, m).tag = r.tag /\ Handler(r, m).coins = coins
        /\ Handler(r, m).accs = r.accs \cup {m.to}
        /\ Handler(r, m).limit = r.limit /\ Handler(r, m).used = r.used
    BY <1>0, <2>1, Zenon DEF IsRun, RunFields
  <2>3. /\ IsRun(Handler(q, m)) /\ Handler(q, m).tag = q.tag /\ Handler(q, m).coins = coins
        /\ Handler(q, m).accs = q.accs \cup {m.to} /\ Handler(q, m).vm = q.vm
        /\ Handler(q, m).limit = q.limit /\ Handler(q, m).used = q.used
    BY <1>0, <2>1, Zenon DEF IsRun, RunFields
  <2> HIDE <2>1
  <2> QED BY <1>0, <2>2, <2>3, Zenon DEF Agree
<1>3. CASE m.type # "send" /\ ~(m.type = "script" /\ m.panics)
  <2>1. Handler(r, m) = r /\ Handler(q, m) = q
    BY <1>0, <1>3 DEF Handler
  <2> QED BY <1>0, <2>1 DEF Agree, IsRun, RunFields
<1> QED BY <1>1, <1>2, <1>3

\* A message leaves the VM as it is.
LEMMA RunMsgKeepsVM ==
  ASSUME NEW r, NEW m, IsRun(r)
  PROVE  IsRun(RunMsg(r, m)) /\ RunMsg(r, m).vm = r.vm
<1>1. ASSUME NEW q, IsRun(q) PROVE IsRun(Handler(q, m)) /\ Handler(q, m).vm = q.vm
  <2>1. \A x, y : LET z == [q EXCEPT !.coins = x, !.accs = y] IN IsRun(z) /\ z.vm = q.vm
    BY <1>1, Zenon DEF IsRun, RunFields
  <2>2. \A x : LET z == [q EXCEPT !.tag = x] IN IsRun(z) /\ z.vm = q.vm
    BY <1>1 DEF IsRun, RunFields
  <2> QED BY <1>1, <2>1, <2>2, Zenon DEF Handler
<1>2. IsRun([r EXCEPT !.used = @ + m.gas]) /\ [r EXCEPT !.used = @ + m.gas].vm = r.vm
  BY DEF IsRun, RunFields
<1>3. IsRun([r EXCEPT !.tag = "error", !.used = @ + m.gas]) /\ [r EXCEPT !.tag = "error", !.used = @ + m.gas].vm = r.vm
  BY Zenon DEF IsRun, RunFields
<1>4. \A x : IsRun([r EXCEPT !.tag = x]) /\ [r EXCEPT !.tag = x].vm = r.vm
  BY DEF IsRun, RunFields
<1> QED BY <1>1, <1>2, <1>3, <1>4, Zenon DEF RunMsg

\* A message with a VM that answers comes to what it came to without one, unless
\* it needed the VM.
LEMMA RunMsgAgrees ==
  ASSUME NEW r, NEW q, NEW m, Agree(r, q)
  PROVE  Agree(RunMsg(r, m), RunMsg(q, m))
<1>1. IsRun(RunMsg(r, m)) /\ IsRun(RunMsg(q, m)) /\ RunMsg(q, m).vm = TRUE
  BY RunMsgKeepsVM DEF Agree
<1>2. CASE r.tag # "ok"
  BY <1>1, <1>2 DEF RunMsg, Agree
<1>3. CASE r.tag = "ok"
  <2> DEFINE x == [r EXCEPT !.used = @ + m.gas]
             y == [q EXCEPT !.used = @ + m.gas]
  <2>1. Agree(x, y) /\ x.tag = "ok"
    BY <1>3 DEF Agree, IsRun, RunFields
  <2>2. Agree(Handler(x, m), Handler(y, m))
    BY <2>1, HandlerAgrees, Zenon
  <2> DEFINE refused == ~CustomMsgVerifier(m) \/ MsgDenied(m) \/ ~HasRoute(m)
             spent == OutOfGas(r.limit, r.used + m.gas)
  <2>3. q.tag = "ok" /\ q.vm = TRUE /\ q.limit = r.limit /\ q.used = r.used
    BY <1>3 DEF Agree
  <2>4. CASE refused
    <3>1. RunMsg(r, m) = [r EXCEPT !.tag = "error"] /\ RunMsg(q, m) = [q EXCEPT !.tag = "error"]
      BY <1>3, <2>3, <2>4 DEF RunMsg
    <3> QED BY <1>3, <3>1 DEF Agree, IsRun, RunFields
  <2>5. CASE ~refused /\ m.type = "script" /\ ~r.vm
    <3>1. RunMsg(r, m) = [r EXCEPT !.tag = "crash"]
      BY <1>3, <2>5 DEF RunMsg
    <3>2. RunMsg(r, m).tag = "crash"
      BY <3>1 DEF Agree, IsRun, RunFields
    <3> QED BY <1>1, <3>2 DEF Agree
  <2>6. CASE ~refused /\ ~(m.type = "script" /\ ~r.vm) /\ spent
    <3>1. /\ RunMsg(r, m) = [r EXCEPT !.tag = "error", !.used = @ + m.gas]
          /\ RunMsg(q, m) = [q EXCEPT !.tag = "error", !.used = @ + m.gas]
      BY <1>3, <2>3, <2>6 DEF RunMsg
    <3>2. /\ RunMsg(r, m).tag = "error" /\ RunMsg(r, m).coins = r.coins /\ RunMsg(r, m).accs = r.accs
          /\ RunMsg(r, m).limit = r.limit /\ RunMsg(r, m).used = r.used + m.gas
      BY <3>1 DEF Agree, IsRun, RunFields
    <3>3. /\ RunMsg(q, m).tag = "error" /\ RunMsg(q, m).coins = q.coins /\ RunMsg(q, m).accs = q.accs
          /\ RunMsg(q, m).limit = q.limit /\ RunMsg(q, m).used = q.used + m.gas
      BY <3>1 DEF Agree, IsRun, RunFields
    <3> HIDE <3>1
    <3> QED BY <1>1, <1>3, <2>3, <3>2, <3>3 DEF Agree
  <2>7. CASE ~refused /\ ~(m.type = "script" /\ ~r.vm) /\ ~spent
    <3>1. RunMsg(r, m) = Handler(x, m) /\ RunMsg(q, m) = Handler(y, m)
      BY <1>3, <2>3, <2>7 DEF RunMsg
    <3> QED BY <2>2, <3>1
  <2> QED BY <2>4, <2>5, <2>6, <2>7
<1> QED BY <1>2, <1>3

-------------------------------------------------------------------------------
(* The folds of the model *)

MsgFold == INSTANCE Folding WITH Op <- RunMsg
TxFold == INSTANCE Folding WITH Op <- ReplayTx

\* Messages are run one after another.
LEMMA RunMsgFold ==
  ASSUME NEW S, NEW s \in Seq(S), NEW x, NEW r
  PROVE  /\ FoldLeft(RunMsg, r, <<>>) = r
         /\ FoldLeft(RunMsg, r, Append(s, x)) = RunMsg(FoldLeft(RunMsg, r, s), x)
<1> HIDE DEF RunMsg
<1>1. \A t : FoldLeft(RunMsg, r, t) = MsgFold!Fold(r, t)
  BY DEF FoldLeft, MapThenFoldSet, Max, MsgFold!Fold, MsgFold!MaxOf
<1>2. MsgFold!Fold(r, <<>>) = r
  BY NatInductionSet, MsgFold!FoldEmpty DEF MsgFold!Induction
<1>3. MsgFold!Fold(r, Append(s, x)) = RunMsg(MsgFold!Fold(r, s), x)
  BY NatInductionSet, MsgFold!FoldAppend DEF MsgFold!Induction
<1>4. FoldLeft(RunMsg, r, <<>>) = r
  BY <1>1, <1>2
<1> QED BY <1>1, <1>3, <1>4, Zenon

\* Transactions are replayed one after another.
LEMMA ReplayFold ==
  ASSUME NEW S, NEW s \in Seq(S), NEW x, NEW r
  PROVE  /\ FoldLeft(ReplayTx, r, <<>>) = r
         /\ FoldLeft(ReplayTx, r, Append(s, x)) = ReplayTx(FoldLeft(ReplayTx, r, s), x)
<1> HIDE DEF ReplayTx
<1>1. \A t : FoldLeft(ReplayTx, r, t) = TxFold!Fold(r, t)
  BY DEF FoldLeft, MapThenFoldSet, Max, TxFold!Fold, TxFold!MaxOf
<1>2. TxFold!Fold(r, <<>>) = r
  BY NatInductionSet, TxFold!FoldEmpty DEF TxFold!Induction
<1>3. TxFold!Fold(r, Append(s, x)) = ReplayTx(TxFold!Fold(r, s), x)
  BY NatInductionSet, TxFold!FoldAppend DEF TxFold!Induction
<1>4. FoldLeft(ReplayTx, r, <<>>) = r
  BY <1>1, <1>2
<1> QED BY <1>1, <1>3, <1>4, Zenon

\* All messages of a transaction.
LEMMA RunMsgsAgree ==
  ASSUME NEW c, NEW st, NEW tx, tx.msgs \in Seq(ToSet(tx.msgs)), NEW up
  PROVE  Agree(RunMsgs(c, st, tx, up), RunMsgs(c, st, tx, TRUE))
<1> DEFINE From(u) == [tag |-> "ok", coins |-> st.coins, accs |-> st.accs, vm |-> u,
                        limit |-> GasLimit(c, tx), used |-> TxSizeGas + SigGas]
           After(u, k) == FoldLeft(RunMsg, From(u), SubSeq(tx.msgs, 1, k))
           S == {k \in Nat : k <= Len(tx.msgs) => Agree(After(up, k), After(TRUE, k))}
<1>1. 0 \in S
  <2>1. After(up, 0) = From(up) /\ After(TRUE, 0) = From(TRUE)
    BY PrefixElements, RunMsgFold, Zenon
  <2>2. Agree(From(up), From(TRUE))
    BY Zenon DEF Agree, IsRun, RunFields
  <2> QED BY <2>1, <2>2, Zenon
<1>2. ASSUME NEW k \in Nat, k \in S PROVE k + 1 \in S
  <2>0. ASSUME k + 1 <= Len(tx.msgs) PROVE Agree(After(up, k + 1), After(TRUE, k + 1))
    <3>1. /\ SubSeq(tx.msgs, 1, k) \in Seq(ToSet(tx.msgs))
          /\ SubSeq(tx.msgs, 1, k + 1) = Append(SubSeq(tx.msgs, 1, k), tx.msgs[k + 1])
      BY <2>0, PrefixElements
    <3>2. Agree(After(up, k), After(TRUE, k))
      BY <1>2, <2>0
    <3> HIDE DEF From
    <3>3. After(up, k + 1) = RunMsg(After(up, k), tx.msgs[k + 1])
      BY <3>1, RunMsgFold, Zenon
    <3>4. After(TRUE, k + 1) = RunMsg(After(TRUE, k), tx.msgs[k + 1])
      BY <3>1, RunMsgFold, Zenon
    <3> QED BY <3>2, <3>3, <3>4, RunMsgAgrees, Zenon
  <2> QED BY <2>0
<1>3. Len(tx.msgs) \in S
  <2> HIDE DEF S
  <2> QED BY <1>1, <1>2, NatInductionSet
<1>4. /\ After(up, Len(tx.msgs)) = RunMsgs(c, st, tx, up)
      /\ After(TRUE, Len(tx.msgs)) = RunMsgs(c, st, tx, TRUE)
  BY PrefixElements, Zenon DEF RunMsgs
<1>5. Agree(After(up, Len(tx.msgs)), After(TRUE, Len(tx.msgs)))
  BY <1>3
<1> HIDE DEF After
<1> QED BY <1>4, <1>5, Zenon

\* Where a delivered transaction neither ends the process nor hides that the VM
\* did not answer, it does what it does with a VM that answers.
LEMMA DeliverIsReplay ==
  ASSUME NEW s, NEW t \in TxBytes, NEW up,
         RunTxDeliver(s, t, up).tag # "crash", RunTxDeliver(s, t, up).masked = FALSE
  PROVE  /\ RunTxDeliver(s, t, TRUE).st = RunTxDeliver(s, t, up).st
         /\ RunTxDeliver(s, t, TRUE).gas = RunTxDeliver(s, t, up).gas
<1> DEFINE tx == Decode[t]
           c == [mode |-> "deliver", height |-> s.height, chain |-> ChainID]
           r == RunMsgs(c, Charged(s.st, tx), tx, up)
           q == RunMsgs(c, Charged(s.st, tx), tx, TRUE)
           Ran(x) == Answered(s, x.tag, IF x.tag = "ok" THEN Executed(s.st, t, x) ELSE Charged(s.st, tx),
                              GasToLimit(x.limit, x.used))
<1>1. CASE \/ tx = NoTx \/ BlockGasSpent(s.gas) \/ ~ValidateBasicTxMsgs(tx)
           \/ ~AnteHandler(c, s.st, tx)
  BY <1>1, Zenon DEF RunTxDeliver
<1>2. CASE /\ tx # NoTx /\ ~BlockGasSpent(s.gas) /\ ValidateBasicTxMsgs(tx)
           /\ AnteHandler(c, s.st, tx)
  <2>1. RunTxDeliver(s, t, up) = Ran(r) /\ RunTxDeliver(s, t, TRUE) = Ran(q)
    BY <1>2, Zenon DEF RunTxDeliver
  <2>2. Agree(r, q)
    BY <1>2, TxAssumption, RunMsgsAgree, Zenon
  <2> HIDE DEF r, q
  <2>3. r.tag # "crash"
    <3> SUFFICES ASSUME r.tag = "crash" PROVE FALSE
      OBVIOUS
    <3> DEFINE over == BlockGasPassed(s.gas + GasToLimit(r.limit, r.used))
    <3>1. /\ Ran(r).tag = IF over THEN "error" ELSE r.tag
          /\ Ran(r).masked = (over /\ r.tag = "crash")
      BY DEF Answered
    <3> HIDE DEF over
    <3> QED BY <2>1, <3>1, Zenon
  <2>4. q.tag = r.tag /\ q.coins = r.coins /\ q.accs = r.accs /\ q.limit = r.limit /\ q.used = r.used
    BY <2>2, <2>3 DEF Agree
  <2>5. Executed(s.st, t, r) = Executed(s.st, t, q)
    BY <2>4 DEF Executed
  <2> QED BY <2>1, <2>4, <2>5, Zenon
<1> QED BY <1>1, <1>2, Zenon

\* A list of transactions is replayed on a deliver state.
ReplayAll(s, txs) == FoldLeft(ReplayTx, s, txs)

\* The deliver state that BeginBlock opens at a height.
Opening(h) ==
  [nil |-> FALSE, st |-> Opened(IF h = 1 THEN GenesisStore ELSE cms[h - 1]), height |-> h,
   gas |-> 0, base |-> BeginGas + (IF h = 1 THEN GenesisGas ELSE 0)]

DeliverFields == {"nil", "st", "height", "gas", "base"}

\* While a block is executed, the deliver state is what replaying the delivered
\* part of the block on the last committed store makes.
Replaying ==
  /\ resp.masked \in BOOLEAN
  /\ Len(cms) <= Len(chain)
  /\ phase = "idle" /\ deliver.nil = FALSE => deliver.base = GenesisGas
  /\ phase = "begun" => pos <= Len(CurrentBlock)
  /\ ~resp.masked =>
       /\ cms # <<>> => Committed = Closed(ReplayAll(Opening(Len(cms)), chain[Len(cms)]).st)
       /\ phase = "begun" =>
            /\ deliver = [f \in DeliverFields |-> deliver[f]]
            /\ deliver = ReplayAll(Opening(Len(cms) + 1), SubSeq(CurrentBlock, 1, pos))
       /\ phase = "ended" =>
            deliver.st = Closed(ReplayAll(Opening(Len(cms) + 1), CurrentBlock).st)

\* The steps that neither execute a block nor change what was decided.
LEMMA ReplayingKept ==
  ASSUME Shape, Replaying, UNCHANGED <<cms, chain, resp>>,
         phase' \in {"down", "handshake", "idle"},
         phase' = "idle" /\ deliver'.nil = FALSE => deliver'.base = GenesisGas
  PROVE  Replaying'
<1>1. Committed' = Committed /\ Opening(Len(cms))' = Opening(Len(cms))
  BY DEF Committed, Opening
<1> QED BY <1>1 DEF Replaying

\* Every step of the node keeps Replaying.
LEMMA ReplayingStep == Shape /\ Shape' /\ Replaying /\ [Next]_vars => Replaying'
<1> SUFFICES ASSUME Shape, Shape', Replaying, [Next]_vars PROVE Replaying'
  OBVIOUS
<1> USE DEF LastBlockHeight
<1>0. CASE UNCHANGED <<cms, chain, resp, phase, deliver, pos>>
  <2>1. UNCHANGED <<Committed, Opening(Len(cms)), Opening(Len(cms) + 1), CurrentBlock>>
    BY <1>0 DEF Committed, Opening, CurrentBlock
  <2> QED BY <1>0, <2>1 DEF Replaying
<1>1. CASE Start
  BY <1>1, ReplayingKept DEF Start, NilState
<1>2. CASE InitChain
  BY <1>2, ReplayingKept DEF InitChain
<1>3. CASE Crash
  BY <1>3, ReplayingKept DEF Crash, NilState
<1>4. CASE VMFails \/ VMReturns \/ ReCheckTx \/ UNCHANGED vars
  BY <1>0, <1>4, Zenon DEF VMFails, VMReturns, ReCheckTx, vars
<1>5. ASSUME NEW t \in TxBytes, CheckTx(t) \/ Simulate(t) PROVE Replaying'
  <2>1. CASE CheckTx(t)
    BY <1>0, <2>1 DEF CheckTx
  <2>2. CASE Simulate(t)
    BY <2>2, ReplayingKept DEF Simulate, NilState
  <2> QED BY <1>5, <2>1, <2>2
<1>6. CASE Decide
  <2>1. PICK b : chain' = Append(chain, b)
    BY <1>6 DEF Decide
  <2>2. UNCHANGED <<cms, resp, phase, deliver, pos>> /\ phase = "idle"
    BY <1>6 DEF Decide
  <2>3. Len(chain') = Len(chain) + 1 /\ \A h \in 1..Len(chain) : chain'[h] = chain[h]
    BY <2>1 DEF Shape
  <2>4. UNCHANGED <<Committed, Opening(Len(cms))>> /\ Len(cms) \in Nat /\ Len(chain) \in Nat
    BY <2>2 DEF Committed, Opening, Shape
  <2>5. cms # <<>> => chain'[Len(cms)] = chain[Len(cms)]
    <3>1. cms # <<>> => Len(cms) # 0
      BY EmptySeq DEF Shape
    <3>2. Len(cms) <= Len(chain)
      BY DEF Replaying
    <3> QED BY <2>3, <2>4, <3>1, <3>2
  <2> QED BY <2>2, <2>3, <2>4, <2>5 DEF Replaying
<1>7. CASE BeginBlock
  <2> DEFINE h == Len(cms) + 1
             st == IF deliver.nil THEN Committed ELSE deliver.st
             base == IF deliver.nil THEN 0 ELSE deliver.base
  <2>1. /\ phase = "idle" /\ phase' = "begun" /\ pos' = 0 /\ UNCHANGED <<cms, chain, resp>>
        /\ Len(chain) > Len(cms)
        /\ deliver' = [nil |-> FALSE, st |-> Opened(st), height |-> h, gas |-> 0, base |-> BeginGas + base]
    BY <1>7 DEF BeginBlock
  <2>2. /\ st = IF h = 1 THEN GenesisStore ELSE cms[h - 1]
        /\ base = IF h = 1 THEN GenesisGas ELSE 0
    BY <2>1 DEF Shape, Replaying, Committed
  <2>3. deliver' = Opening(h)
    BY <2>1, <2>2, Zenon DEF Opening
  <2>4. UNCHANGED <<Committed, Opening(Len(cms)), CurrentBlock>> /\ Opening(h)' = Opening(h)
    BY <2>1, Zenon DEF Committed, Opening, CurrentBlock
  <2>5. deliver' = [f \in DeliverFields |-> deliver'[f]]
    BY <2>1 DEF DeliverFields
  <2>6. CurrentBlock \in Seq(TxBytes)
    BY <2>1 DEF CurrentBlock, Shape
  <2>7. SubSeq(CurrentBlock, 1, 0) = <<>> /\ ReplayAll(Opening(h), <<>>) = Opening(h)
    BY <2>6, PrefixElements, ReplayFold, Zenon DEF ReplayAll
  <2>8. 0 <= Len(CurrentBlock)
    BY <2>6
  <2> QED BY <2>1, <2>3, <2>4, <2>5, <2>7, <2>8, Zenon DEF Replaying
<1>8. CASE DeliverTx
  <2> DEFINE t == CurrentBlock[pos + 1]
             r == RunTxDeliver(deliver, t, vm)
             h == Len(cms) + 1
  <2>1. phase = "begun" /\ pos < Len(CurrentBlock) /\ UNCHANGED <<cms, chain>>
    BY <1>8 DEF DeliverTx
  <2>2. \/ /\ r.tag # "crash" /\ deliver' = Delivering(r.st, r.gas) /\ pos' = pos + 1 /\ phase' = phase
           /\ resp'.masked = (resp.masked \/ r.masked)
        \/ phase' = "down" /\ resp' = resp /\ deliver' = NilState
    <3> DEFINE ok == r.tag = "ok"
               effect == r.st.done # deliver.st.done
               masked == resp.masked \/ r.masked
    <3>1. \/ /\ r.tag # "crash" /\ deliver' = Delivering(r.st, r.gas) /\ pos' = pos + 1 /\ phase' = phase
             /\ resp' = [ok |-> ok, effect |-> effect, masked |-> masked]
          \/ phase' = "down" /\ resp' = resp /\ deliver' = NilState
      BY <1>8, Zenon DEF DeliverTx
    <3> HIDE DEF r, ok, effect, masked
    <3>2. [ok |-> ok, effect |-> effect, masked |-> masked].masked = masked
      OBVIOUS
    <3>3. \/ /\ r.tag # "crash" /\ deliver' = Delivering(r.st, r.gas) /\ pos' = pos + 1 /\ phase' = phase
             /\ resp'.masked = masked
          \/ phase' = "down" /\ resp' = resp /\ deliver' = NilState
      BY <3>1, <3>2, Zenon
    <3> QED BY <3>3, Zenon DEF masked
  <2>3. CASE phase' = "down" /\ resp' = resp /\ deliver' = NilState
    BY <2>1, <2>3, ReplayingKept
  <2>4. CASE /\ r.tag # "crash" /\ deliver' = Delivering(r.st, r.gas) /\ pos' = pos + 1 /\ phase' = phase
             /\ resp'.masked = (resp.masked \/ r.masked)
    <3>1. UNCHANGED <<Committed, Opening(Len(cms)), CurrentBlock>> /\ Opening(h)' = Opening(h)
      BY <2>1 DEF Committed, Opening, CurrentBlock
    <3>2. CurrentBlock \in Seq(TxBytes) /\ t \in TxBytes /\ pos \in Nat
      BY <2>1 DEF CurrentBlock, Shape
    <3>3. r.masked \in BOOLEAN
      BY Zenon DEF RunTxDeliver, Answered
    <3>4. resp'.masked \in BOOLEAN /\ (~resp'.masked => ~resp.masked /\ r.masked = FALSE)
      BY <2>4, <3>3 DEF Replaying
    <3>5. ASSUME ~resp'.masked
          PROVE  /\ deliver' = [f \in DeliverFields |-> deliver'[f]]
                 /\ deliver' = ReplayAll(Opening(h), SubSeq(CurrentBlock, 1, pos + 1))
      <4>1. /\ deliver = [f \in DeliverFields |-> deliver[f]] /\ deliver.nil = FALSE
            /\ deliver = ReplayAll(Opening(h), SubSeq(CurrentBlock, 1, pos))
        BY <2>1, <3>4, <3>5 DEF Replaying, Shape
      <4>2. /\ RunTxDeliver(deliver, t, TRUE).st = r.st
            /\ RunTxDeliver(deliver, t, TRUE).gas = r.gas
        <5>1. RunTxDeliver(deliver, t, vm).tag # "crash"
          BY <2>4
        <5>2. RunTxDeliver(deliver, t, vm).masked = FALSE
          BY <3>4, <3>5
        <5> HIDE DEF t
        <5> QED BY <3>2, <5>1, <5>2, DeliverIsReplay, Zenon DEF r
      <4> HIDE DEF r
      <4>3. ReplayTx(deliver, t) = [deliver EXCEPT !.st = r.st, !.gas = r.gas]
        BY <4>2, Zenon DEF ReplayTx
      <4>4. [deliver EXCEPT !.st = r.st, !.gas = r.gas] = Delivering(r.st, r.gas)
        <5> DEFINE d == [deliver EXCEPT !.st = r.st, !.gas = r.gas]
        <5>1. d = [f \in DeliverFields |-> IF f = "st" THEN r.st ELSE IF f = "gas" THEN r.gas ELSE deliver[f]]
          BY <4>1, Zenon DEF DeliverFields
        <5>2. Delivering(r.st, r.gas) =
                [f \in DeliverFields |-> IF f = "st" THEN r.st ELSE IF f = "gas" THEN r.gas ELSE deliver[f]]
          <6>1. Delivering(r.st, r.gas) = [nil |-> deliver.nil, st |-> r.st, height |-> deliver.height,
                                           gas |-> r.gas, base |-> deliver.base]
            BY <4>1, Zenon DEF Delivering
          <6> QED BY <6>1 DEF DeliverFields
        <5> QED BY <5>1, <5>2
      <4>5. /\ SubSeq(CurrentBlock, 1, pos) \in Seq(TxBytes)
            /\ SubSeq(CurrentBlock, 1, pos + 1) = Append(SubSeq(CurrentBlock, 1, pos), t)
        BY <2>1, <3>2, PrefixElements
      <4>6. ReplayAll(Opening(h), SubSeq(CurrentBlock, 1, pos + 1)) = ReplayTx(deliver, t)
        <5> DEFINE b == SubSeq(CurrentBlock, 1, pos)
        <5>1. ReplayAll(Opening(h), Append(b, t)) = ReplayTx(ReplayAll(Opening(h), b), t)
          <6> HIDE DEF b, t
          <6> QED BY <4>5, ReplayFold, Zenon DEF ReplayAll, b, t
        <5> QED BY <4>1, <4>5, <5>1, Zenon
      <4>7. deliver' = [f \in DeliverFields |-> deliver'[f]]
        BY <2>4 DEF Delivering, DeliverFields
      <4> QED BY <2>4, <4>3, <4>4, <4>6, <4>7
    <3>6. pos + 1 <= Len(CurrentBlock)
      BY <2>1, <3>2
    <3> HIDE DEF r, t
    <3>7. phase' = "begun" /\ pos' = pos + 1
      BY <2>1, <2>4
    <3> QED BY <2>1, <3>1, <3>4, <3>5, <3>6, <3>7 DEF Replaying
  <2> QED BY <2>2, <2>3, <2>4
<1>9. CASE EndBlock
  <2> DEFINE h == Len(cms) + 1
  <2>1. /\ phase = "begun" /\ phase' = "ended" /\ pos = Len(CurrentBlock)
        /\ deliver'.st = Closed(deliver.st) /\ UNCHANGED <<cms, chain, resp>>
    BY <1>9 DEF EndBlock, Delivering
  <2>2. UNCHANGED <<Committed, Opening(Len(cms)), CurrentBlock>> /\ Opening(h)' = Opening(h)
    BY <2>1 DEF Committed, Opening, CurrentBlock
  <2>3. SubSeq(CurrentBlock, 1, pos) = CurrentBlock
    <3>1. CurrentBlock \in Seq(TxBytes)
      BY <2>1 DEF CurrentBlock, Shape
    <3> QED BY <2>1, <3>1, PrefixElements
  <2> QED BY <2>1, <2>2, <2>3, Zenon DEF Replaying
<1>10. CASE Commit
  <2> DEFINE h == Len(cms) + 1
  <2>1. /\ phase = "ended" /\ phase' \in {"down", "idle"} /\ UNCHANGED <<chain, resp>>
        /\ cms' = Append(cms, deliver.st) /\ deliver' = NilState
    BY <1>10 DEF Commit
  <2>2. cms \in Seq(ToSet(cms) \cup {deliver.st})
    BY SeqMonotonic DEF Shape
  <2>3. /\ Len(cms') = h /\ cms'[h] = deliver.st /\ cms' # <<>>
        /\ \A i \in 1..Len(cms) : cms'[i] = cms[i]
    BY <2>1, <2>2
  <2>4. Committed' = deliver.st
    BY <2>3 DEF Committed
  <2>5. Opening(Len(cms))' = Opening(h)
    <3>1. Len(cms) \in Nat /\ (h # 1 => h - 1 \in 1..Len(cms))
      BY <2>2
    <3>2. h # 1 => cms'[h - 1] = cms[h - 1]
      BY <2>3, <3>1
    <3> QED BY <2>3, <3>1, <3>2, Zenon DEF Opening
  <2>6. Len(cms') <= Len(chain') /\ chain'[Len(cms')] = CurrentBlock
    BY <2>1, <2>2, <2>3 DEF Shape, CurrentBlock
  <2> QED BY <2>1, <2>3, <2>4, <2>5, <2>6 DEF Replaying, NilState
<1> QED
  BY <1>1, <1>2, <1>3, <1>4, <1>5, <1>6, <1>7, <1>8, <1>9, <1>10 DEF Next

\* Every node commits the same states for the same blocks: however often it
\* crashed in the middle of one, what it commits is what replaying the block on
\* the state before it gives, unless the panic of the block's meter took the
\* place of a crash of the VM.
THEOREM CommittedStatesAreDetermined == Spec => []CommittedIsDetermined
<1>1. Init => Replaying
  <2> SUFFICES ASSUME Init PROVE Replaying
    OBVIOUS
  <2>1. /\ resp.masked = FALSE /\ cms = <<>> /\ chain = <<>>
        /\ phase \notin {"idle", "begun", "ended"}
    BY DEF Init, NoResp
  <2>2. Len(cms) <= Len(chain)
    BY <2>1
  <2> QED BY <2>1, <2>2, Zenon DEF Replaying
<1>2. Shape /\ Shape' /\ Replaying /\ [Next]_vars => Replaying'
  BY ReplayingStep
<1>3. Shape /\ Replaying => CommittedIsDetermined
  BY DEF Shape, Replaying, CommittedIsDetermined, LastBlockHeight, Replayed, ReplayAll, Opening
<1>4. Spec => []Shape
  BY ShapeHolds
<1> QED BY <1>1, <1>2, <1>3, <1>4, PTL DEF Spec

-------------------------------------------------------------------------------
(* What is in the pool pays *)

PoolFold == INSTANCE Folding WITH Op <- KeepPooled

\* Commit only takes transactions out of the pool.
LEMMA KeptWerePooled ==
  ASSUME NEW p, NEW T, p \in Seq(T)
  PROVE  FoldLeft(KeepPooled, <<>>, p) \in Seq(T)
<1> HIDE DEF KeepPooled
<1> DEFINE After(k) == FoldLeft(KeepPooled, <<>>, SubSeq(p, 1, k))
           S == {k \in Nat : k <= Len(p) => After(k) \in Seq(T)}
<1>1. \A s : FoldLeft(KeepPooled, <<>>, s) = PoolFold!Fold(<<>>, s)
  BY DEF FoldLeft, MapThenFoldSet, Max, PoolFold!Fold, PoolFold!MaxOf
<1>2. 0 \in S
  <2>1. After(0) = PoolFold!Fold(<<>>, <<>>)
    BY <1>1, PrefixElements, Zenon
  <2>2. After(0) = <<>>
    BY <2>1, NatInductionSet, PoolFold!FoldEmpty DEF PoolFold!Induction
  <2>3. After(0) \in Seq(T)
    BY <2>2, EmptySeq, Zenon
  <2> HIDE DEF After
  <2> QED BY <2>3
<1>3. ASSUME NEW k \in Nat, k \in S PROVE k + 1 \in S
  <2>1. ASSUME k + 1 <= Len(p) PROVE After(k + 1) \in Seq(T)
    <3>1. /\ SubSeq(p, 1, k) \in Seq(T) /\ p[k + 1] \in T
          /\ SubSeq(p, 1, k + 1) = Append(SubSeq(p, 1, k), p[k + 1])
      BY <2>1, PrefixElements
    <3>2. After(k) \in Seq(T)
      BY <1>3, <2>1
    <3> DEFINE b == SubSeq(p, 1, k)
    <3>3. PoolFold!Fold(<<>>, Append(b, p[k + 1]))
            = KeepPooled(PoolFold!Fold(<<>>, b), p[k + 1])
      <4> HIDE DEF b
      <4> QED BY <3>1, NatInductionSet, PoolFold!FoldAppend, Zenon DEF PoolFold!Induction, b
    <3>4. After(k + 1) = KeepPooled(After(k), p[k + 1])
      BY <1>1, <3>1, <3>3, Zenon
    <3>5. After(k + 1) \in {After(k), Append(After(k), p[k + 1])}
      BY <3>4, Zenon DEF KeepPooled
    <3> HIDE DEF After
    <3> QED BY <3>1, <3>2, <3>5
  <2> QED BY <2>1
<1>4. Len(p) \in S
  <2> HIDE DEF S
  <2> QED BY <1>2, <1>3, NatInductionSet
<1>5. After(Len(p)) = FoldLeft(KeepPooled, <<>>, p)
  BY PrefixElements, Zenon
<1>6. After(Len(p)) \in Seq(T)
  BY <1>4
<1> QED BY <1>5, <1>6

\* The check state of height 0 has no chain id, or no accounts.
Pooling ==
  /\ pool \in Seq(TxBytes)
  /\ recheck \in 0..Len(pool)
  /\ check.height \in Nat
  /\ check.height = 0 => check.chain = NoChainID \/ check.st = BlankStore
  /\ PooledPays

\* A transaction that is signed for this chain and that CheckTx accepts has a fee.
LEMMA AcceptedPays ==
  ASSUME Pooling, NEW t \in TxBytes, RunTxCheck("check", Decode[t]),
         \E i \in DOMAIN Decode[t].sigs : Decode[t].sigs[i].chain = ChainID
  PROVE  Decode[t].fee > 0 /\ Decode[t].denom = MainDenom
<1> DEFINE tx == Decode[t]
           c == Context("check", check)
<1>1. /\ tx # NoTx /\ DenomDecorator(c, tx) /\ ValidateBasicDecorator(c, tx)
      /\ DeductFeeDecorator(check.st, tx) /\ SigVerificationDecorator(c, check.st, tx)
  BY DEF RunTxCheck, AnteHandler, AdmittedUnread
<1>2. /\ tx.signers \in Seq(Acc) /\ tx.sigs \in Seq(ToSet(tx.sigs)) /\ tx.fee \in Nat
  BY <1>1, TxAssumption, Zenon
<1>3. c.mode = "check" /\ c.height = check.height /\ c.chain = check.chain
  BY DEF Context
<1> HIDE DEF c
<1>4. Len(tx.sigs) = Len(tx.signers) /\ \A i \in DOMAIN tx.signers : tx.sigs[i].chain = check.chain
  BY <1>1, <1>3, Zenon DEF SigVerificationDecorator
<1>5. check.chain = ChainID
  <2>1. DOMAIN tx.sigs = DOMAIN tx.signers
    BY <1>2, <1>4
  <2> QED BY <1>4, <2>1
<1>6. check.st # BlankStore
  BY <1>1, BlankAssumption, Zenon DEF DeductFeeDecorator
<1>7. check.height > 0
  BY <1>5, <1>6, ChainAssumption DEF Pooling
<1>8. tx.fee # 0 /\ tx.denom = MainDenom
  BY <1>1, <1>3, <1>7, Zenon DEF DenomDecorator
<1> HIDE DEF tx
<1>9. tx.fee > 0 /\ tx.denom = MainDenom
  BY <1>2, <1>8
<1> QED BY <1>9 DEF tx

\* Every step of the node keeps Pooling.
LEMMA PoolingStep == Shape /\ Pooling /\ [Next]_vars => Pooling'
<1> SUFFICES ASSUME Shape, Pooling, [Next]_vars PROVE Pooling'
  OBVIOUS
<1>1. CASE UNCHANGED <<pool, recheck, check>>
  BY <1>1 DEF Pooling, PooledPays
<1>2. CASE Start
  BY <1>2 DEF Start, Pooling, PooledPays, ToSet
<1>3. CASE InitChain
  <2>1. UNCHANGED <<pool, recheck>> /\ check' = [st |-> BlankStore, height |-> 0, chain |-> ChainID]
    BY <1>3, Zenon DEF InitChain, Shape, Committed
  <2> QED BY <2>1 DEF Pooling, PooledPays
<1>4. ASSUME pool' = <<>>, recheck' = 0, check' = check PROVE Pooling'
  BY <1>4 DEF Pooling, PooledPays, ToSet
<1>5. CASE Crash \/ \E t \in TxBytes : Simulate(t)
  BY <1>4, <1>5 DEF Crash, Simulate
<1>6. CASE VMFails \/ VMReturns \/ Decide \/ BeginBlock \/ EndBlock \/ UNCHANGED vars
  BY <1>1, <1>6, Zenon DEF VMFails, VMReturns, Decide, BeginBlock, EndBlock, vars
<1>7. CASE DeliverTx
  <2>1. \/ UNCHANGED <<pool, recheck, check>>
        \/ pool' = <<>> /\ recheck' = 0 /\ check' = check
    BY <1>7, Zenon DEF DeliverTx
  <2> QED BY <1>1, <1>4, <2>1
<1>8. CASE Commit
  <2>1. check'.height = Len(cms) + 1 /\ Len(cms) \in Nat
    BY <1>8 DEF Commit, Shape
  <2>2. CASE pool' = <<>> /\ recheck' = 0
    BY <2>1, <2>2 DEF Pooling, PooledPays, ToSet
  <2>3. CASE pool' = FoldLeft(KeepPooled, <<>>, pool) /\ recheck' = Len(pool')
    <3>1. pool \in Seq(TxBytes) /\ pool \in Seq(ToSet(pool))
      BY DEF Pooling, ToSet
    <3>2. pool' \in Seq(TxBytes) /\ pool' \in Seq(ToSet(pool))
      BY <2>3, <3>1, KeptWerePooled
    <3>3. ToSet(pool') \subseteq ToSet(pool)
      BY <3>2 DEF ToSet
    <3>4. recheck' \in 0..Len(pool')
      BY <2>3, <3>2
    <3> QED BY <2>1, <3>2, <3>3, <3>4 DEF Pooling, PooledPays
  <2> QED BY <1>8, <2>2, <2>3 DEF Commit
<1>9. ASSUME NEW t \in TxBytes, CheckTx(t) PROVE Pooling'
  <2>1. /\ RunTxCheck("check", Decode[t]) /\ recheck' = recheck /\ recheck = 0
        /\ check'.height = check.height /\ check'.chain = check.chain
        /\ pool' = Append(pool, t) \/ pool' = pool
    BY <1>9 DEF CheckTx, Checking
  <2>2. check.st # BlankStore
    BY <2>1, BlankAssumption, Zenon DEF RunTxCheck, AnteHandler, DeductFeeDecorator
  <2>3. pool' \in Seq(TxBytes) /\ recheck' \in 0..Len(pool') /\ ToSet(pool') \subseteq ToSet(pool) \cup {t}
    BY <2>1 DEF Pooling, ToSet
  <2>4. PooledPays'
    BY <2>1, <2>3, AcceptedPays, Zenon DEF Pooling, PooledPays
  <2> QED BY <2>1, <2>2, <2>3, <2>4 DEF Pooling
<1>10. CASE ReCheckTx
  <2> DEFINE i == Len(pool) - recheck + 1
  <2>1. /\ recheck > 0 /\ recheck' = recheck - 1
        /\ pool' = pool \/ pool' = RemoveAt(pool, i)
        /\ \/ check' = check
           \/ RunTxCheck("recheck", Decode[pool[i]]) /\ check'.height = check.height /\ check'.chain = check.chain
    BY <1>10 DEF ReCheckTx, Checking
  <2>2. check' = check \/ check.st # BlankStore
    BY <2>1, BlankAssumption, Zenon DEF RunTxCheck, AnteHandler, DeductFeeDecorator
  <2>3. i \in 1..Len(pool)
    BY <2>1 DEF Pooling
  <2> HIDE DEF i
  <2>4. pool' \in Seq(TxBytes) /\ recheck' \in 0..Len(pool') /\ ToSet(pool') \subseteq ToSet(pool)
    <3>1. CASE pool' = pool
      BY <2>1, <3>1 DEF Pooling
    <3>2. CASE pool' = RemoveAt(pool, i)
      <4>1. pool' \in Seq(TxBytes) /\ Len(pool') = Len(pool) - 1 /\ ToSet(pool') \subseteq ToSet(pool)
        BY <2>3, <3>2, RemoveAtElements, RemoveAtSubset DEF Pooling
      <4> QED BY <2>1, <4>1 DEF Pooling
    <3> QED BY <2>1, <3>1, <3>2
  <2> QED BY <2>1, <2>2, <2>4, Zenon DEF Pooling, PooledPays
<1> QED
  BY <1>2, <1>3, <1>5, <1>6, <1>7, <1>8, <1>9, <1>10 DEF Next

\* No transaction that is signed for this chain is pooled without a proper fee,
\* at any height and in a process that has just been started.
THEOREM PooledTransactionsPay == Spec => []PooledPays
<1>1. Init => Pooling
  BY DEF Init, Pooling, PooledPays, ToSet
<1>2. Shape /\ Pooling /\ [Next]_vars => Pooling'
  BY PoolingStep
<1>3. Pooling => PooledPays
  BY DEF Pooling
<1>4. Spec => []Shape
  BY ShapeHolds
<1> QED BY <1>1, <1>2, <1>3, <1>4, PTL DEF Spec

===============================================================================
