---------------------------------- MODULE Vm ----------------------------------
(***************************************************************************)
(* x/vm: scripts and modules are executed by the Move virtual machine, a   *)
(* process of its own that is asked over gRPC and reads the node's storage *)
(* back through the node's data source (DS) server.  The DS server reads   *)
(* the storage of the context that SetDSContext left in it.                *)
(*                                                                         *)
(* The ABCI calls of a node are serialised by one lock, so a simulated     *)
(* transaction runs between delivered ones, never during one.  A request   *)
(* that the VM does not answer in time is sent again; an answer to an      *)
(* attempt that timed out is dropped by the gRPC client.                   *)
(***************************************************************************)
EXTENDS Integers, Sequences, FiniteSets, SequencesExt

CONSTANTS
  Paths,         \* access paths of stored values
  HeightPath,    \* the path that the block middleware answers
  NoValue,       \* nothing is stored
  GenesisValues, \* the write set of the genesis file
  Txs,           \* transactions: [msgs, limit], a message is the sequence of its contracts
  Proposals,     \* standard library updates: [code, height]
  MaxAttempts,   \* VMConfig.MaxAttempts, 0 for ever
  Word,          \* 2^64
  VMMaxGasLimit, \* what the VM takes at most
  TxGas,         \* consumed before the first message
  BlockGas,      \* consumed by a block's context before x/vm uses it
  WriteGas,      \* consumed by a write to the store or a deletion
  EventTypeProcessingGas, EventTypeNoGasLevels,
  MaxHeight, MaxBlockTxs, MaxSimulations, MaxCrashes, MaxProposals  \* bounds

ASSUME GasAssumption ==
  /\ {Word, VMMaxGasLimit, TxGas, BlockGas, WriteGas, EventTypeProcessingGas, EventTypeNoGasLevels} \subseteq Nat \ {0}
  /\ VMMaxGasLimit < Word - BlockGas

\* A contract: what it reads and writes, its gas, and its events.  The type of an
\* event is a tree: it is the depths of its nodes in the order they are visited.
IsCode(code) ==
  /\ code.gas \in Nat
  /\ code.writes \in Seq(ToSet(code.writes))
  /\ code.events \in Seq(Seq(Nat))

\* The contracts of a message: one script, or one or more modules.
IsMsg(codes) == codes \in Seq(ToSet(codes)) /\ codes # <<>> /\ \A i \in DOMAIN codes : IsCode(codes[i])

ASSUME TxAssumption ==
  \A t \in Txs :
    /\ t.limit \in TxGas..(Word - 1)
    /\ t.msgs \in Seq(ToSet(t.msgs))
    /\ \A i \in DOMAIN t.msgs : IsMsg(t.msgs[i])

ASSUME ProposalAssumption == \A p \in Proposals : IsCode(p.code) /\ p.height \in Nat

VARIABLES
  store,  \* committed: [val, queue, nextID, init]
  blk,    \* the same of the open block
  height, \* of the last committed block
  phase,  \* "down", "handshake", "idle", "begin", "block", "end"
  due,    \* proposals BeginBlocker has still to execute
  tx,     \* the running transaction
  call,   \* the request the VM has to answer
  ds,     \* DSServer: [started, ref, val, height]
  log,    \* what the open block has executed
  spent   \* what is bounded: [txs, sims, crashes, props]

vars == <<store, blk, height, phase, due, tx, call, ds, log, spent>>

NoTx == [kind |-> "none"]
NoCall == [kind |-> "none"]
Infinite == 0   \* the limit an infinite gas meter tells

-------------------------------------------------------------------------------
(* Gas *)

\* Defect: what is consumed is not subtracted.
FreeGasOfLimit(limit, used) == limit % Word

\* GetFreeGas: the difference of two uint64.
GetFreeGas(limit, used) == (limit - used) % Word

GetVMLimitedGas(gas) == IF gas > VMMaxGasLimit THEN VMMaxGasLimit ELSE gas

OutOfGas(limit, used) == limit # Infinite /\ used > limit

\* ConsumeGas on m = [val, used, limit, ok]; ~ok: the gas meter has panicked, and
\* nothing that follows it is done.
ConsumeGas(m, gas) ==
  IF ~m.ok THEN m
  ELSE [m EXCEPT !.used = @ + gas, !.ok = ~OutOfGas(m.limit, m.used + gas)]

\* The gas of a level of a type, from that of the level above.
EventTypeLevel(gas, k) ==
  IF k <= EventTypeNoGasLevels THEN gas
  ELSE gas + EventTypeProcessingGas * (k - EventTypeNoGasLevels - 1)

\* The gas of a level: every parameter of a type gets what its parent has.
EventTypeGas(depth) == FoldLeft(EventTypeLevel, EventTypeProcessingGas, [k \in 1..depth |-> k])

\* processEventType at a node of a type; the first levels are free.
ProcessEventType(m, depth) ==
  IF depth <= EventTypeNoGasLevels THEN m ELSE ConsumeGas(m, EventTypeGas(depth))

\* NewMoveEvent: every node of the type of the event.
NewMoveEvent(m, type) == FoldLeft(ProcessEventType, m, type)

-------------------------------------------------------------------------------
(* The virtual machine (external) and the processing of its answer *)

\* The VM executes a contract with the value it reads: it copies it to its paths.
Executed(code, value, granted) ==
  IF code.gas > granted THEN [ok |-> FALSE, gas |-> granted, writes |-> <<>>, events |-> <<>>]
  ELSE IF code.aborts \/ value = NoValue
       THEN [ok |-> FALSE, gas |-> code.gas, writes |-> <<>>, events |-> <<>>]
       ELSE [ok |-> TRUE, gas |-> code.gas, events |-> code.events,
             writes |-> [i \in DOMAIN code.writes |->
                           [path  |-> code.writes[i].path,
                            value |-> IF code.writes[i].deletes THEN NoValue ELSE value]]]

\* setValue, delValue: the store charges gas first.
SetValue(m, w) ==
  LET c == ConsumeGas(m, WriteGas)
  IN  IF c.ok THEN [c EXCEPT !.val = [@ EXCEPT ![w.path] = w.value]] ELSE c

ProcessWriteSet(m, writes) == FoldLeft(SetValue, m, writes)

\* processExecution.  An error status keeps the message and writes nothing.
ProcessExecution(m, exec) ==
  LET c == ConsumeGas(m, exec.gas)
  IN  IF exec.ok THEN FoldLeft(NewMoveEvent, ProcessWriteSet(c, exec.writes), exec.events) ELSE c

-------------------------------------------------------------------------------
(* The data source server *)

\* What GetRaw may answer: middlewares first, then the storage of the context.
\* The branch of a failed or simulated transaction is a cache that nobody writes
\* any more: what the transaction touched is frozen, the rest is read through to
\* the storage it branched from.
GetRaw(path) ==
  IF path = HeightPath THEN {ds.height}
  ELSE CASE ds.ref = "tx"    -> {tx.val[path]}
         [] ds.ref = "block" -> {blk.val[path]}
         [] ds.ref = "failed" -> {ds.val[path], blk.val[path]}
         [] ds.ref = "simulated" -> {ds.val[path], store.val[path]}

\* SetDSContext
Context(ref, h) == [ds EXCEPT !.ref = ref, !.height = h]

\* StartDSServer, on a store
StartDSServer(init) == [started |-> ds.started \/ init, ref |-> "block", val |-> blk.val, height |-> height]

-------------------------------------------------------------------------------
(* The process *)

Idle == tx = NoTx /\ call = NoCall

\* NewDnServiceApp: the DS server is started when the genesis is in the store.
Start ==
  /\ phase = "down"
  /\ blk' = store
  /\ ds' = [started |-> store.init, ref |-> "block", val |-> store.val, height |-> 0]
  /\ phase' = IF store.init THEN "idle" ELSE "handshake"
  /\ UNCHANGED <<store, height, due, tx, call, log, spent>>

\* InitChainer: InitGenesis of x/vm and the start of the DS server.
InitChain ==
  /\ phase = "handshake"
  /\ blk' = [store EXCEPT !.val = GenesisValues, !.init = TRUE]
  /\ ds' = StartDSServer(TRUE)
  /\ phase' = "idle"
  /\ UNCHANGED <<store, height, due, tx, call, log, spent>>

Down ==
  /\ phase' = "down" /\ blk' = store /\ due' = <<>> /\ tx' = NoTx /\ call' = NoCall /\ log' = <<>>
  /\ ds' = [started |-> FALSE, ref |-> "block", val |-> store.val, height |-> 0]
  /\ UNCHANGED <<store, height>>

Crash ==
  /\ phase # "down" /\ spent.crashes < MaxCrashes
  /\ Down
  /\ spent' = [spent EXCEPT !.crashes = @ + 1]

-------------------------------------------------------------------------------
(* Blocks *)

\* Defect: executed in the block after the planned one.
ShouldExecuteAfter(plan, h) == plan > 0 /\ h > plan

ShouldExecute(plan, h) == plan > 0 /\ h >= plan

\* One turn of the iterator over the queue.
KeepDue(kept, p) == IF ShouldExecute(p.height, height + 1) THEN Append(kept, p) ELSE kept

BeginBlock ==
  /\ phase = "idle" /\ Idle /\ height < MaxHeight
  /\ blk' = IF store.init THEN store ELSE blk
  /\ ds' = Context("block", height + 1)
  /\ due' = FoldLeft(KeepDue, <<>>, blk'.queue)
  /\ phase' = "begin" /\ log' = <<>>
  /\ spent' = [spent EXCEPT !.txs = 0]
  /\ UNCHANGED <<store, height, tx, call>>

BeginBlockDone ==
  /\ phase = "begin" /\ call = NoCall /\ due = <<>>
  /\ phase' = "block"
  /\ UNCHANGED <<store, blk, height, due, tx, call, ds, log, spent>>

\* A request: the contracts of a message, each with the gas that is free now, and
\* the planned block of an update.
Request(kind, codes, plan, limit, used) ==
  [kind |-> kind, codes |-> codes, plan |-> plan, resps |-> <<>>, attempt |-> 1,
   limit |-> limit, used |-> used, granted |-> GetVMLimitedGas(GetFreeGas(limit, used))]

\* handleStdlibUpdateProposalExecution
ExecuteProposal ==
  /\ phase = "begin" /\ call = NoCall /\ due # <<>>
  /\ call' = Request("proposal", <<Head(due).code>>, Head(due).height, Infinite, BlockGas)
  /\ UNCHANGED <<store, blk, height, phase, due, tx, ds, log, spent>>

\* runTx has accepted a transaction; its messages work on a branch of the store.
Running(kind, t, val, limit) ==
  [kind |-> kind, id |-> t, msgs |-> t.msgs, val |-> val, used |-> TxGas, limit |-> limit, ok |-> TRUE]

DeliverTx(t) ==
  /\ phase = "block" /\ Idle /\ spent.txs < MaxBlockTxs
  /\ tx' = Running("deliver", t, blk.val, t.limit)
  /\ spent' = [spent EXCEPT !.txs = @ + 1]
  /\ UNCHANGED <<store, blk, height, phase, due, call, ds, log>>

\* Simulation works on a branch of the check state, without a gas limit.  Before
\* the first commit the check state has no account and every one is refused.
Simulate(t) ==
  /\ phase \in {"idle", "block"} /\ Idle /\ spent.sims < MaxSimulations /\ store.init
  /\ tx' = Running("simulate", t, store.val, Infinite)
  /\ spent' = [spent EXCEPT !.sims = @ + 1]
  /\ UNCHANGED <<store, blk, height, phase, due, call, ds, log>>

\* Defect: the DS server keeps the context of the block.
HandleInBlockContext ==
  /\ tx # NoTx /\ call = NoCall /\ tx.ok /\ tx.msgs # <<>>
  /\ call' = Request("msg", Head(tx.msgs), 0, tx.limit, tx.used)
  /\ UNCHANGED <<store, blk, height, phase, due, tx, ds, log, spent>>

\* NewHandler: the DS server gets the context of the message.
Handle ==
  /\ tx # NoTx /\ call = NoCall /\ tx.ok /\ tx.msgs # <<>>
  /\ ds' = Context("tx", IF tx.kind = "deliver" THEN height + 1 ELSE height)
  /\ call' = Request("msg", Head(tx.msgs), 0, tx.limit, tx.used)
  /\ UNCHANGED <<store, blk, height, phase, due, tx, log, spent>>

\* The messages of a transaction are done, or one has failed.
FinishTx ==
  /\ tx # NoTx /\ call = NoCall /\ (tx.msgs = <<>> \/ ~tx.ok)
  /\ IF tx.kind = "deliver"
     THEN /\ blk' = IF tx.ok THEN [blk EXCEPT !.val = tx.val] ELSE blk
          /\ log' = Append(log, [kind |-> "tx", tx |-> tx.id])
     ELSE UNCHANGED <<blk, log>>
  /\ ds' = IF ds.ref # "tx" THEN ds
           ELSE [ds EXCEPT !.val = tx.val,
                           !.ref = IF tx.kind = "simulate" THEN "simulated" ELSE IF tx.ok THEN "block" ELSE "failed"]
  /\ tx' = NoTx
  /\ UNCHANGED <<store, height, phase, due, call, spent>>

\* A vote on a proposal ends in EndBlock and x/gov calls the proposal's handler,
\* which asks the VM for a dry run in whatever context the DS server has.
GovPassed(p) ==
  /\ phase \in {"block", "end"} /\ Idle /\ spent.props < MaxProposals
  /\ phase' = "end"
  /\ call' = Request("dryrun", <<p.code>>, p.height, Infinite, BlockGas)
  /\ spent' = [spent EXCEPT !.props = @ + 1]
  /\ UNCHANGED <<store, blk, height, due, tx, ds, log>>

\* ScheduleProposal: refused when the planned block is not in the future.
ScheduleProposal(code, plan) ==
  IF plan <= height + 1 THEN blk
  ELSE [blk EXCEPT !.queue = Append(@, [id |-> blk.nextID, code |-> code, height |-> plan]),
                   !.nextID = @ + 1]

Commit ==
  /\ phase \in {"block", "end"} /\ Idle
  /\ store' = blk /\ height' = height + 1
  /\ phase' = "idle" /\ log' = <<>>
  /\ UNCHANGED <<blk, due, tx, call, ds, spent>>

-------------------------------------------------------------------------------
(* retryExecReq *)

\* RemoveProposalFromQueue on the proposal that has been executed.
KeepOthers(kept, p) == IF p.id = Head(due).id THEN kept ELSE Append(kept, p)

\* The last contract is answered: processExecution for every answer.
Processed(resps, exec) ==
  CASE call.kind = "msg" ->
         /\ \E m \in {FoldLeft(ProcessExecution, [val |-> tx.val, used |-> tx.used, limit |-> tx.limit, ok |-> TRUE],
                               Append(resps, exec))} :
              tx' = [tx EXCEPT !.val = m.val, !.used = m.used, !.ok = m.ok, !.msgs = Tail(@)]
         /\ UNCHANGED <<blk, due, ds, log>>
    [] call.kind = "proposal" ->
         /\ \E m \in {ProcessExecution([val |-> blk.val, used |-> BlockGas, limit |-> Infinite, ok |-> TRUE], exec)} :
              blk' = [blk EXCEPT !.val = m.val, !.queue = FoldLeft(KeepOthers, <<>>, @)]
         /\ log' = Append(log, [kind |-> "proposal", code |-> Head(due).code])
         /\ due' = Tail(due)
         /\ ds' = Context("block", height + 1)
         /\ UNCHANGED tx
    [] call.kind = "dryrun" ->
         /\ blk' = IF exec.ok THEN ScheduleProposal(Head(call.codes), call.plan) ELSE blk
         /\ UNCHANGED <<tx, due, ds, log>>

\* An attempt is answered.  DeployContract sends the next contract before the
\* answer to this one is processed.
Answered ==
  /\ call # NoCall
  /\ \E v \in GetRaw(Head(call.codes).reads) :
     \E exec \in {Executed(Head(call.codes), v, call.granted)} :
       IF Len(call.codes) > 1
       THEN /\ call' = [call EXCEPT !.codes = Tail(@), !.resps = Append(@, exec), !.attempt = 1]
            /\ UNCHANGED <<blk, due, tx, ds, log>>
       ELSE /\ Processed(call.resps, exec)
            /\ call' = NoCall
  /\ UNCHANGED <<store, height, phase, spent>>

\* An attempt fails or times out.  When it was the last one, a dry run is
\* refused and any other request panics, which ends the process.
AttemptFailed ==
  /\ call # NoCall
  /\ IF MaxAttempts # 0 /\ call.attempt = MaxAttempts
     THEN IF call.kind = "dryrun"
          THEN call' = NoCall /\ UNCHANGED <<store, blk, height, phase, due, tx, ds, log, spent>>
          ELSE Down /\ UNCHANGED spent
     ELSE /\ call' = [call EXCEPT !.attempt = IF MaxAttempts = 0 THEN @ ELSE @ + 1]
          /\ UNCHANGED <<store, blk, height, phase, due, tx, ds, log, spent>>

\* The state is exported and a new chain starts from it, in one step here: the
\* values are part of the exported state, the queue and the last id are not.
Restart ==
  /\ phase = "idle" /\ Idle /\ height > 0 /\ spent.crashes < MaxCrashes
  /\ store' = [val |-> store.val, queue |-> <<>>, nextID |-> 0, init |-> TRUE]
  /\ blk' = store'
  /\ height' = 0
  /\ ds' = [started |-> TRUE, ref |-> "block", val |-> store.val, height |-> 0]
  /\ spent' = [spent EXCEPT !.crashes = @ + 1]
  /\ UNCHANGED <<phase, due, tx, call, log>>

Init ==
  /\ store = [val |-> [p \in Paths |-> NoValue], queue |-> <<>>, nextID |-> 0, init |-> FALSE]
  /\ blk = store
  /\ height = 0 /\ phase = "down" /\ due = <<>> /\ tx = NoTx /\ call = NoCall
  /\ ds = [started |-> FALSE, ref |-> "block", val |-> store.val, height |-> 0]
  /\ log = <<>>
  /\ spent = [txs |-> 0, sims |-> 0, crashes |-> 0, props |-> 0]

Next ==
  \/ Start \/ InitChain \/ Crash \/ Restart
  \/ BeginBlock \/ ExecuteProposal \/ BeginBlockDone \/ Commit
  \/ (\E t \in Txs : DeliverTx(t) \/ Simulate(t)) \/ Handle \/ FinishTx
  \/ (\E p \in Proposals : GovPassed(p))
  \/ Answered \/ AttemptFailed

Spec == Init /\ [][Next]_vars

-------------------------------------------------------------------------------
(* Properties *)

\* The values and the gas after a message of a transaction in a block of this height.
RunMsg(m, codes) ==
  LET granted == IF m.limit = Infinite THEN VMMaxGasLimit
                 ELSE IF m.limit - m.used < VMMaxGasLimit THEN m.limit - m.used ELSE VMMaxGasLimit
      Read(p) == IF p = HeightPath THEN m.height ELSE m.val[p]
      r == FoldLeft(ProcessExecution, [val |-> m.val, used |-> m.used, limit |-> m.limit, ok |-> TRUE],
                    [i \in DOMAIN codes |-> Executed(codes[i], Read(codes[i].reads), granted)])
  IN  IF ~m.ok THEN m
      ELSE [val |-> r.val, used |-> r.used, limit |-> m.limit, ok |-> r.ok, height |-> m.height]

\* A transaction or proposal before its first message, on the values of the block b.
Before(b, used, limit) == [val |-> b.val, used |-> used, limit |-> limit, ok |-> TRUE, height |-> b.height]

\* The values of the block b after one logged item, all of it or nothing.
Replay(b, item) ==
  IF item.kind = "proposal"
  THEN [b EXCEPT !.val = RunMsg(Before(b, BlockGas, Infinite), <<item.code>>).val]
  ELSE LET m == FoldLeft(RunMsg, Before(b, TxGas, item.tx.limit), item.tx.msgs)
       IN  IF m.ok THEN [b EXCEPT !.val = m.val] ELSE b

\* The storage of a block is what its proposals and transactions make of the
\* last block's, one after another and each of them whole: whatever requests
\* were repeated, whatever was simulated in between and whatever context the DS
\* server had before, every node reads and writes the same values.
StorageIsDetermined ==
  phase \in {"begin", "block", "end"} =>
    blk.val = FoldLeft(Replay,
                       [val |-> IF store.init THEN store.val ELSE GenesisValues, height |-> height + 1],
                       log).val

\* No scheduled update is passed over: behind BeginBlocker every queued plan is
\* for a later block, and no two queued updates have the same id.
UpdatesRunOnTime ==
  /\ phase \in {"block", "end"} => \A i \in DOMAIN blk.queue : blk.queue[i].height > height + 1
  /\ \A i, j \in DOMAIN blk.queue : blk.queue[i].id = blk.queue[j].id => i = j

\* The VM is asked only when it can read the storage, and is granted what the
\* transaction has left and no more; where the meter is infinite, the uint64
\* difference wraps to more than the VM takes and is cut to its limit, as long as
\* the gas consumed stays that far below 2^64.
RequestsAreCovered ==
  call # NoCall =>
    /\ ds.started
    /\ call.granted <= VMMaxGasLimit
    /\ IF call.limit = Infinite
       THEN call.used + VMMaxGasLimit <= Word => call.granted = VMMaxGasLimit
       ELSE call.granted <= call.limit - call.used

\* "DS context is updated during the BeginBlock" (x/vm/module.go), so the dry
\* run of an update that has passed the vote reads the storage of the block.
\* The dry run sets no context of its own: it reads what the last message left,
\* the branch of a failed or of a simulated transaction included.
DryRunReadsTheBlock ==
  call.kind = "dryrun" =>
    LET path == Head(call.codes).reads
    IN  GetRaw(path) = {IF path = HeightPath THEN height + 1 ELSE blk.val[path]}

===============================================================================
