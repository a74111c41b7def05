--------------------------------- MODULE Node ---------------------------------
(***************************************************************************)
(* app: the ABCI application a node runs.  Tendermint (external) decides   *)
(* blocks, keeps them, pools transactions and drives the application: one  *)
(* action per ABCI call, which the local client serialises.  The process   *)
(* may die between any two calls, and inside DeliverTx when the VM does    *)
(* not answer; what is left then is the committed store and the decided    *)
(* blocks.                                                                 *)
(***************************************************************************)
EXTENDS Ante, FiniteSetsExt

CONSTANTS TxBytes,      \* encoded transactions
          Decode,       \* [TxBytes -> Tx \cup {NoTx}]: txDecoder
          NoTx,
          GenesisStore, \* store after InitGenesis
          BlankStore,   \* store before it
          MaxBlockGas,  \* ConsensusParams.Block.MaxGas, -1 for no limit
          GenesisGas,   \* gas InitGenesis consumes, on the meter of the deliver state
          BeginGas,     \* gas the begin blockers consume, on the same meter
          HaltHeight,   \* configured halt height, 0 for none
          MaxBlockTxs,  \* bound on the transactions of each block, by height
          MaxPool,      \* bound on the pooled transactions
          MaxCrashes    \* bound on the crashes and VM outages

ASSUME TxAssumption ==
  \A t \in TxBytes :
    Decode[t] # NoTx =>
      /\ Decode[t].signers \in Seq(Acc) /\ Decode[t].signers # <<>>
      /\ Decode[t].sigs \in Seq(ToSet(Decode[t].sigs))
      /\ \A i \in DOMAIN Decode[t].sigs : Decode[t].sigs[i].seq \in Nat
      /\ Decode[t].msgs \in Seq(ToSet(Decode[t].msgs))
      /\ Decode[t].fee \in Nat

\* The fields of a store: accounts with their coins, public keys and sequence
\* numbers, the fees collected, and as a record of what happened, how often the
\* messages of each transaction took effect and the blockers ran.
StoreFields == {"accs", "coins", "keys", "seq", "collected", "done", "begun", "ended"}

IsStore(st) == st = [f \in StoreFields |-> st[f]]

ASSUME StoreAssumption ==
  \A st \in {GenesisStore, BlankStore} :
    IsStore(st) /\ st.seq \in [Acc -> Nat] /\ st.done = [t \in TxBytes |-> 0]
ASSUME BlankAssumption == BlankStore.accs = {}
ASSUME ChainAssumption == ChainID # NoChainID
ASSUME BoundsAssumption == MaxBlockTxs \in Seq(Nat)

VARIABLES cms,     \* committed multistore: the store of each version
          deliver, \* deliverState: [nil], or [nil, st, height, gas, base]
          check,   \* checkState: [st, height, chain]
          phase,   \* next call: "down", "handshake", "idle", "begun", "ended"
          pos,     \* transactions of the current block already delivered
          chain,   \* decided blocks, sequences of transactions
          pool,    \* mempool, in order
          recheck, \* number of pooled transactions still to be rechecked
          vm,      \* does the virtual machine answer?
          faults,  \* crashes and outages so far
          resp     \* last response of DeliverTx: was it a success, did its messages take
                   \* effect; has the block's meter hidden a crash of the VM so far?

vars == <<cms, deliver, check, phase, pos, chain, pool, recheck, vm, faults, resp>>

\* A nil deliverState.
NilState == [nil |-> TRUE]

NoResp == [ok |-> TRUE, effect |-> FALSE, masked |-> FALSE]

LastBlockHeight == Len(cms)

Committed == IF cms = <<>> THEN BlankStore ELSE cms[Len(cms)]

MaxHeight == Len(MaxBlockTxs)

\* getMaximumBlockGas: 0 and -1 both mean an infinite meter.
BlockGasLimit == IF MaxBlockGas > 0 THEN MaxBlockGas ELSE NoLimit

-------------------------------------------------------------------------------
(* Messages *)

\* CustomMsgVerifiers: the liquidity provider token cannot be sent.
CustomMsgVerifier(msg) == ~(msg.type = "send" /\ msg.denom = "lpt")

\* MsgDeniedList: withdraws of currencies are not accepted as transactions.
MsgDenied(msg) == msg.type = "withdraw"

HasRoute(msg) == msg.type \in {"send", "script", "withdraw"}

\* SendCoins (SDK): subtracted first, then added.
Sent(coins, msg) ==
  LET paid == [coins EXCEPT ![msg.from] = @ - msg.amount]
  IN  [paid EXCEPT ![msg.to] = @ + msg.amount]

\* The handlers that the model distinguishes (bank, x/vm): r is the outcome so far.
Handler(r, msg) ==
  IF msg.type = "send"
  THEN IF msg.amount > r.coins[msg.from] THEN [r EXCEPT !.tag = "error"]
       ELSE [r EXCEPT !.coins = Sent(@, msg), !.accs = @ \cup {msg.to}]
  ELSE IF msg.type = "script" /\ msg.panics THEN [r EXCEPT !.tag = "error"] ELSE r

\* Defect: the panic of a crashed VM is recovered as any other.
RunMsgVMCrashRecovered(r, msg) ==
  IF r.tag # "ok" THEN r
  ELSE IF ~CustomMsgVerifier(msg) \/ MsgDenied(msg) \/ ~HasRoute(msg) \/ (msg.type = "script" /\ ~r.vm)
       THEN [r EXCEPT !.tag = "error"]
       ELSE Handler([r EXCEPT !.used = @ + msg.gas], msg)

\* One turn of runMsgs: verifier, denied list, route, handler.  Running out of
\* gas is a panic that runTx turns into an error; a VM that does not answer is
\* one that ends the process, before its gas is known.
RunMsg(r, msg) ==
  IF r.tag # "ok" THEN r
  ELSE IF ~CustomMsgVerifier(msg) \/ MsgDenied(msg) \/ ~HasRoute(msg) THEN [r EXCEPT !.tag = "error"]
  ELSE IF msg.type = "script" /\ ~r.vm THEN [r EXCEPT !.tag = "crash"]
  ELSE IF OutOfGas(r.limit, r.used + msg.gas)
       THEN [r EXCEPT !.tag = "error", !.used = @ + msg.gas]
       ELSE Handler([r EXCEPT !.used = @ + msg.gas], msg)

\* runMsgs when messages are executed (deliver and simulate).
RunMsgs(c, st, tx, up) ==
  FoldLeft(RunMsg,
           [tag |-> "ok", coins |-> st.coins, accs |-> st.accs, vm |-> up,
            limit |-> GasLimit(c, tx), used |-> TxSizeGas + SigGas],
           tx.msgs)

\* runMsgs when they are not (check and recheck): the loop is left in its first
\* turn, after the verifier.
CheckMsgs(tx) == CustomMsgVerifier(tx.msgs[1])

ValidateBasicTxMsgs(tx) == tx.msgs # <<>> /\ \A i \in DOMAIN tx.msgs : tx.msgs[i].valid

\* The store once the messages are written, too.
Executed(st, txBytes, r) ==
  [Charged(st, Decode[txBytes]) EXCEPT !.coins = r.coins, !.accs = r.accs, !.done[txBytes] = @ + 1]

-------------------------------------------------------------------------------
(* runTx *)

Context(mode, s) == [mode |-> mode, height |-> s.height, chain |-> s.chain]

\* The block's meter is exhausted (IsOutOfGas), or passed by another gas units.
BlockGasSpent(gas) == BlockGasLimit # NoLimit /\ gas >= BlockGasLimit
BlockGasPassed(gas) == BlockGasLimit # NoLimit /\ gas > BlockGasLimit

\* The end of runTx in DeliverTx mode.  The deferred call charges the block's
\* meter after the stores are written, and when that meter panics, its panic is
\* what runTx recovers, whatever the transaction came to.
Answered(s, tag, st, used) ==
  [tag    |-> IF BlockGasPassed(s.gas + used) THEN "error" ELSE tag,
   st     |-> st,
   gas    |-> s.gas + used,
   masked |-> BlockGasPassed(s.gas + used) /\ tag = "crash"]

\* runTx in DeliverTx mode, on the state s of the open block; up: the VM answers.
RunTxDeliver(s, txBytes, up) ==
  LET tx == Decode[txBytes]
      c == [mode |-> "deliver", height |-> s.height, chain |-> ChainID]
      Ran(r) == Answered(s, r.tag, IF r.tag = "ok" THEN Executed(s.st, txBytes, r) ELSE Charged(s.st, tx),
                         GasToLimit(r.limit, r.used))
  IN  IF tx = NoTx \/ BlockGasSpent(s.gas) THEN [tag |-> "error", st |-> s.st, gas |-> s.gas, masked |-> FALSE]
      ELSE IF ~ValidateBasicTxMsgs(tx) THEN Answered(s, "error", s.st, s.base)
      ELSE IF ~AnteHandler(c, s.st, tx) THEN Answered(s, "error", s.st, RefusedGas(c, s.st, tx))
      ELSE Ran(RunMsgs(c, Charged(s.st, tx), tx, up))

\* runTx in CheckTx or ReCheckTx mode: accepted, and what the ante handler writes.
RunTxCheck(mode, tx) ==
  /\ tx # NoTx
  /\ ValidateBasicTxMsgs(tx)
  /\ AnteHandler(Context(mode, check), check.st, tx)

-------------------------------------------------------------------------------
(* The process *)

\* Defect: the check state of a new process keeps the chain id
\* and not the height.
StartWithChainID ==
  /\ phase = "down"
  /\ check' = [st |-> Committed, height |-> 0, chain |-> ChainID]
  /\ deliver' = NilState
  /\ phase' = IF cms = <<>> THEN "handshake" ELSE "idle"
  /\ pos' = 0 /\ pool' = <<>> /\ recheck' = 0
  /\ UNCHANGED <<cms, chain, vm, faults, resp>>

\* A new process: LoadLatestVersion and initFromMainStore, whose check state
\* has an empty header.  Tendermint asks Info and, without blocks, InitChain.
Start ==
  /\ phase = "down"
  /\ check' = [st |-> Committed, height |-> 0, chain |-> NoChainID]
  /\ deliver' = NilState
  /\ phase' = IF cms = <<>> THEN "handshake" ELSE "idle"
  /\ pos' = 0 /\ pool' = <<>> /\ recheck' = 0
  /\ UNCHANGED <<cms, chain, vm, faults, resp>>

\* InitChain: both states are branched from the committed store, and the
\* genesis is written into the one for delivery only.
InitChain ==
  /\ phase = "handshake"
  /\ deliver' = [nil |-> FALSE, st |-> GenesisStore, height |-> 0, gas |-> 0, base |-> GenesisGas]
  /\ check' = [st |-> Committed, height |-> 0, chain |-> ChainID]
  /\ phase' = "idle"
  /\ UNCHANGED <<cms, pos, chain, pool, recheck, vm, faults, resp>>

\* The process dies; everything that is not committed is lost.
Crash ==
  /\ phase # "down" /\ faults < MaxCrashes
  /\ faults' = faults + 1
  /\ phase' = "down" /\ deliver' = NilState /\ pos' = 0 /\ pool' = <<>> /\ recheck' = 0
  /\ UNCHANGED <<cms, check, chain, vm, resp>>

\* The virtual machine, another process, fails and comes back.
VMFails == vm /\ faults < MaxCrashes /\ vm' = FALSE /\ faults' = faults + 1
           /\ UNCHANGED <<cms, deliver, check, phase, pos, chain, pool, recheck, resp>>

VMReturns == ~vm /\ vm' = TRUE
             /\ UNCHANGED <<cms, deliver, check, phase, pos, chain, pool, recheck, faults, resp>>

-------------------------------------------------------------------------------
(* Blocks *)

\* Consensus decides the next block; any validator may have proposed it.
Decide ==
  /\ phase = "idle" /\ recheck = 0
  /\ Len(chain) = LastBlockHeight /\ Len(chain) < MaxHeight
  /\ \E n \in 0..MaxBlockTxs[Len(chain) + 1] :
       \E b \in [1..n -> TxBytes] : chain' = Append(chain, b)
  /\ UNCHANGED <<cms, deliver, check, phase, pos, pool, recheck, vm, faults, resp>>

\* Defect: the height of the last block is compared.
ValidHeightOfLast(h) == h >= 1 /\ h = LastBlockHeight

\* validateHeight
ValidHeight(h) == h >= 1 /\ h = LastBlockHeight + 1

\* The state BeginBlock opens: the one InitChain left, or a branch of the
\* committed store; then the begin blockers (external) run on it.
Opened(st) == [st EXCEPT !.begun = @ + 1]

\* Defect: the block is opened on the check state.
BeginBlockOnCheckState ==
  /\ phase = "idle" /\ recheck = 0
  /\ Len(chain) > LastBlockHeight
  /\ deliver' = [nil    |-> FALSE,
                 st     |-> Opened(IF deliver.nil THEN check.st ELSE deliver.st),
                 height |-> LastBlockHeight + 1,
                 gas    |-> 0,
                 base   |-> BeginGas]
  /\ phase' = "begun" /\ pos' = 0
  /\ UNCHANGED <<cms, check, chain, pool, recheck, vm, faults, resp>>

BeginBlock ==
  /\ phase = "idle" /\ recheck = 0
  /\ Len(chain) > LastBlockHeight
  /\ ValidHeight(LastBlockHeight + 1)
  /\ deliver' = [nil    |-> FALSE,
                 st     |-> Opened(IF deliver.nil THEN Committed ELSE deliver.st),
                 height |-> LastBlockHeight + 1,
                 gas    |-> 0,
                 base   |-> BeginGas + (IF deliver.nil THEN 0 ELSE deliver.base)]
  /\ phase' = "begun" /\ pos' = 0
  /\ UNCHANGED <<cms, check, chain, pool, recheck, vm, faults, resp>>

\* The deliver state of the open block with another store and block gas.
Delivering(st, gas) ==
  [nil |-> FALSE, st |-> st, height |-> deliver.height, gas |-> gas, base |-> deliver.base]

CurrentBlock == chain[LastBlockHeight + 1]

\* DeliverTx.  A crash of the VM is the one panic that runTx does not recover.
DeliverTx ==
  /\ phase = "begun" /\ pos < Len(CurrentBlock)
  /\ \E r \in {RunTxDeliver(deliver, CurrentBlock[pos + 1], vm)} :
       \/ /\ r.tag # "crash"
          /\ deliver' = Delivering(r.st, r.gas)
          /\ resp' = [ok |-> r.tag = "ok", effect |-> r.st.done # deliver.st.done,
                      masked |-> resp.masked \/ r.masked]
          /\ pos' = pos + 1
          /\ UNCHANGED <<phase, pool, recheck>>
       \/ /\ r.tag = "crash"
          /\ phase' = "down" /\ deliver' = NilState /\ pos' = 0 /\ pool' = <<>> /\ recheck' = 0
          /\ UNCHANGED resp
  /\ UNCHANGED <<cms, check, chain, vm, faults>>

\* EndBlock: the end blockers (external).
Closed(st) == [st EXCEPT !.ended = @ + 1]

EndBlock ==
  /\ phase = "begun" /\ pos = Len(CurrentBlock)
  /\ deliver' = Delivering(Closed(deliver.st), deliver.gas)
  /\ phase' = "ended"
  /\ UNCHANGED <<cms, check, pos, chain, pool, recheck, vm, faults, resp>>

\* One turn of Tendermint's update of the pool: the block's transactions go.
KeepPooled(kept, t) == IF t \in ToSet(CurrentBlock) THEN kept ELSE Append(kept, t)

\* Commit: write, commit, new check state, no deliver state; past the halt
\* height the process ends itself.  Tendermint drops the transactions of the
\* block from its pool and rechecks the others.
Commit ==
  /\ phase = "ended"
  /\ cms' = Append(cms, deliver.st)
  /\ check' = [st |-> deliver.st, height |-> deliver.height, chain |-> ChainID]
  /\ deliver' = NilState
  /\ pos' = 0
  /\ IF HaltHeight > 0 /\ deliver.height >= HaltHeight
     THEN phase' = "down" /\ pool' = <<>> /\ recheck' = 0
     ELSE /\ phase' = "idle"
          /\ pool' = FoldLeft(KeepPooled, <<>>, pool)
          /\ recheck' = Len(pool')
  /\ UNCHANGED <<chain, vm, faults, resp>>

-------------------------------------------------------------------------------
(* The mempool and query connections *)

\* The check state with another store.
Checking(st) == [st |-> st, height |-> check.height, chain |-> check.chain]

\* CheckTx of a new transaction; Tendermint pools it when it is accepted.
CheckTx(txBytes) ==
  /\ phase \notin {"down", "handshake"} /\ recheck = 0
  /\ Len(pool) < MaxPool /\ txBytes \notin ToSet(pool)
  /\ RunTxCheck("check", Decode[txBytes])
  /\ check' = Checking(Charged(check.st, Decode[txBytes]))
  /\ pool' = IF CheckMsgs(Decode[txBytes]) THEN Append(pool, txBytes) ELSE pool
  /\ UNCHANGED <<cms, deliver, phase, pos, chain, recheck, vm, faults, resp>>

\* CheckTx with CheckTxType_Recheck for the pooled transactions, oldest first.
ReCheckTx ==
  /\ phase = "idle" /\ recheck > 0
  /\ LET i == Len(pool) - recheck + 1
         tx == Decode[pool[i]]
         ok == RunTxCheck("recheck", tx)
     IN  /\ check' = IF ok THEN Checking(Charged(check.st, tx)) ELSE check
         /\ pool' = IF ok /\ CheckMsgs(tx) THEN pool ELSE RemoveAt(pool, i)
  /\ recheck' = recheck - 1
  /\ UNCHANGED <<cms, deliver, phase, pos, chain, vm, faults, resp>>

\* A query app/simulate runs the messages on a branch of the check state that is
\* thrown away: nothing changes, unless the VM does not answer.
Simulate(txBytes) ==
  /\ phase \notin {"down", "handshake"} /\ recheck = 0
  /\ LET tx == Decode[txBytes]
         c  == Context("simulate", check)
     IN  /\ tx # NoTx /\ ValidateBasicTxMsgs(tx) /\ AnteHandler(c, check.st, tx)
         /\ RunMsgs(c, Charged(check.st, tx), tx, vm).tag = "crash"
  /\ phase' = "down" /\ deliver' = NilState /\ pos' = 0 /\ pool' = <<>> /\ recheck' = 0
  /\ UNCHANGED <<cms, check, chain, vm, faults, resp>>

Init ==
  /\ cms = <<>> /\ deliver = NilState
  /\ check = [st |-> BlankStore, height |-> 0, chain |-> NoChainID]
  /\ phase = "down" /\ pos = 0 /\ chain = <<>> /\ pool = <<>> /\ recheck = 0
  /\ vm = TRUE /\ faults = 0 /\ resp = NoResp

NodeStep == Start \/ InitChain \/ BeginBlock \/ DeliverTx \/ EndBlock \/ Commit \/ ReCheckTx

Next ==
  \/ Start \/ InitChain \/ Crash \/ VMFails \/ VMReturns
  \/ Decide \/ BeginBlock \/ DeliverTx \/ EndBlock \/ Commit
  \/ (\E t \in TxBytes : CheckTx(t) \/ Simulate(t)) \/ ReCheckTx

Spec == Init /\ [][Next]_vars

\* Tendermint keeps calling, the operator restarts the node and the VM.
Fairness == WF_vars(NodeStep) /\ WF_vars(VMReturns)

FairSpec == Spec /\ Fairness

-------------------------------------------------------------------------------
(* The promise *)

\* What a delivered transaction may do: nothing, when the ante handler refuses
\* it; else pay its fee, and have all of its messages executed or none.
TxOutcomes(st, txBytes) ==
  LET c  == [mode |-> "deliver", height |-> 1, chain |-> ChainID]
      tx == Decode[txBytes]
  IN  {st} \cup
      (IF tx # NoTx /\ AnteHandler(c, st, tx)
       THEN {Charged(st, tx)} \cup
            {Executed(st, txBytes, RunMsgs(c, Charged(st, tx), tx, up)) :
               up \in {u \in BOOLEAN : RunMsgs(c, Charged(st, tx), tx, u).tag = "ok"}}
       ELSE {})

L == INSTANCE Ledger WITH Genesis  <- GenesisStore,
                          Open     <- Opened,
                          Close    <- Closed,
                          Outcomes <- TxOutcomes,
                          Tx       <- TxBytes,
                          NoWork   <- NilState,
                          history  <- cms,
                          stage    <- IF phase = "begun" THEN "open"
                                      ELSE IF phase = "ended" THEN "closed" ELSE "none",
                          work     <- IF phase \in {"begun", "ended"} THEN deliver.st ELSE NilState

\* The committed states of BaseApp are a ledger: check, recheck, crashes, VM
\* outages, restarts and replayed blocks change nothing but by a whole block.
ImplementsLedger == L!Spec

\* The deliver state after one more transaction, with a VM that answers.
ReplayTx(s, t) ==
  LET r == RunTxDeliver(s, t, TRUE) IN [s EXCEPT !.st = r.st, !.gas = r.gas]

\* The store of a block that was opened on st, after its transactions.
Replayed(st, h, base) ==
  Closed(FoldLeft(ReplayTx,
                  [nil |-> FALSE, st |-> Opened(st), height |-> h, gas |-> 0, base |-> base],
                  chain[h]).st)

\* Every node computes the same states from the same blocks, however often it
\* crashed in the middle of one (DeliverTx runs again on the committed store),
\* unless the panic of the block's meter took the place of a crash of the VM.
CommittedIsDetermined ==
  LET h == LastBlockHeight
  IN  ~resp.masked /\ h > 0 =>
        Committed = Replayed(IF h = 1 THEN GenesisStore ELSE cms[h - 1], h,
                             BeginGas + (IF h = 1 THEN GenesisGas ELSE 0))

\* The stores that are alive.
Stores == {Committed, check.st} \cup (IF deliver.nil THEN {} ELSE {deliver.st})

\* The messages of a signed transaction take effect once at most: sequence
\* numbers outlive crashes and restarts, and rechecked transactions, whose
\* signatures runTx does not verify, are not delivered unverified.
NoReplay == \A st \in Stores : \A t \in TxBytes : st.done[t] <= 1

\* A transaction that is signed for this chain is never pooled without a proper
\* fee, although the check state of a fresh process has height 0, where
\* DenomDecorator asks for no fee: that state has no chain id either.
PooledPays ==
  \A t \in ToSet(pool) :
    (\E i \in DOMAIN Decode[t].sigs : Decode[t].sigs[i].chain = ChainID) =>
      Decode[t].fee > 0 /\ Decode[t].denom = MainDenom

\* DeliverTx's comment: state is only persisted when a transaction succeeds,
\* "otherwise, the ResponseDeliverTx will contain releveant error information".
FailedTxHasNoEffect == resp.effect => resp.ok

\* Every decided block is committed: crashes, VM outages and the configured halt
\* delay it, the restarted node replays it.
DecidedIsCommitted == \A h \in 1..MaxHeight : Len(chain) >= h ~> LastBlockHeight >= h
===============================================================================
