# A TLA+ model of dnode

dnode (dfinance) is a Cosmos-SDK chain with a proof-of-authority bridge to
other chains (the "peg zone"), a Move virtual machine reached over gRPC, a
price oracle and an exchange. This directory holds TLA+ modules that model its
state machines, TLC configurations that check them on small instances, and
TLAPS proofs of what matters most about the peg zone, the oracle, the VM's
storage and what a node commits.

## The system and its parts

| part | code | what it does | modules |
|---|---|---|---|
| PoA validators | `x/poa` | the accounts that may vote on multisig calls, the limits on their number | `PoaKeeper`, `Poa`, `PoaProofs` |
| multisig | `x/multisig`, `x/core/msmodule` | calls submitted by one validator, confirmed by others, then executed, failed or rejected at the end of a block | `Multisig`, `PegZone`, `MultisigProofs` |
| currencies | `x/currencies`, `x/ccstorage`, `x/vmauth` | issue and withdrawal of coins; supplies and balances mirrored in the VM's storage | `Currencies` |
| matching | `x/orderbook` | supply and demand curves, clearance price, pro rata fills | `Dec`, `Matcher`, `MatcherPool` |
| exchange | `x/markets`, `x/orders`, `x/orderbook` | markets, orders with locked coins, time-outs, execution of fills, history | `Dex` |
| oracle | `x/oracle` | prices posted by oracles, median per block, prices for the VM | `Oracle`, `OracleProofs` |
| VM | `x/vm` | requests to the Move VM and their repetition, data source server, scheduled updates of the standard library | `Vm`, `VmProofs`, `VmStorageProofs` |
| node | `app` (baseapp, ABCI), `x/core` | mempool checks, ante handler, delivery, gas, commit, crash and replay | `Ledger`, `Ante`, `Node`, `NodeProofs` |
| genesis and export | `cmd`, `app/export*.go`, `x/genaccounts`, genesis commands of the modules | a genesis file is built, validated, started, exported, squashed to height zero | `ZeroHeight`, `Genesis` |
| clients | `x/*/client`, queriers and messages of `x/*`, `helpers` | requests become messages, queries are answered, Move code is compiled | `Inputs`, `Messages`, `TxClient`, `QueryClient`, `Clients` |
| migration, logging, configuration files | `x/migration`, `helpers`, `cmd` | offline conversion and I/O | not modelled |

They interact as follows. Tendermint drives the node through ABCI calls, one at
a time. A block delivers transactions one by one; the ante handler charges a
transaction, and one that fails afterwards leaves no other trace. Multisig calls
reach `x/poa` and `x/currencies` through the multisig router, from multisig's
`EndBlocker`. `x/vmauth` wraps the SDK's account keeper, so every bank operation
also writes the VM's balance resources, and every read of an account takes over
what Move scripts changed. A Move script is executed by a process of its own
that reads the node's storage back through the data source server. At the end
of a block run, among others, multisig, then orders (time-outs), then orderbook
(clearing), in that order (`app/app.go`, `SetOrderEndBlockers`).

## Modules and code

A keeper is a set of operators on a record that stands for its store, named
like the Go functions; an action is a whole handler or blocker. A handler that
returns an error has its writes dropped by the SDK, so it is a disabled action.
Where the code goes on after an error (multisig's failed calls, the fills that
are skipped, the time-outs that are only logged, the updates that fail) the
model goes on too.

**`Uint16`** has Go's 16-bit arithmetic with its wrap-around.

**`PoaKeeper`** has the operators of `x/poa/internal/keeper`; the state keeps
the three copies the code writes separately: records (`store`), `list` and
`amount`. **`Poa`** is their state machine: multisig messages, governance
changes of both limits, and export and import, validator by validator.

**`Multisig`** is `x/multisig` for any handlers behind the router (constants
`Handle`, `IsValidator`, `EnoughConfirmations`). State: `calls`, `callIDs`
(unique id index), `votes`, `queue`, `lastCallID`, the block `height` and
`phase`, and `app`, the state behind the router. Actions:
`handleMsgSubmitCall`, `handleMsgConfirmCall`, `handleMsgRevokeConfirm`, both
loops of `EndBlocker` one turn at a time in the order of the store keys
(big-endian height, then the id as a decimal string), and
`RestartAtZeroHeight` (`PrepareForZeroHeight`, export, validation, import).
Nothing else is enabled between the turns of a loop. **`PegZone`** puts `x/poa`
behind the router, so that executing a call changes who may vote.

**`Currencies`** keeps what the code keeps several times: standard accounts,
VM balance resources, currency records, their VM copy and the supply module's
total. `GetAccount` and `SetAccount` are translated from `x/vmauth` with all
their writes. Bank, staking and mint are external and modelled from their use;
`ScriptTransfer` stands for a Move script that moves coins in the VM's storage.
`first` says that the next block is block 1 of its chain: `BeginBlocker` forwards mints to the
currency records only from block 2 on.

**`Dec`** is the SDK's fixed-point decimal (external), with its rounding.
**`Matcher`** has the matching algorithm as pure operators: sorting,
aggregation, curves, crossing point, clearance state, fills. **`MatcherPool`**
adds orders one by one and runs all matchers. **`Dex`** composes markets,
orders and orderbook; its `EndBlock` is the two `EndBlocker`s in their order.

**`Ante`** is the chain of decorators of `x/core` in the order of
`NewAnteHandler`, those of the SDK included: a decorator that refuses is a
predicate, the effects of the ones that write (`SetPubKeys`, `DeductFees`,
`IncrementSequences`) are functions on the store. **`Node`** is the ABCI
application: `cms` are the committed stores, `deliver` and `check` the two
states on top of the last one, `chain` the blocks Tendermint has decided and
`pool` its mempool. One action per ABCI call (`InitChain`, `BeginBlock`,
`CheckTx`, `ReCheckTx`, `DeliverTx`, `EndBlock`, `Commit`, `Simulate`), and
`Start`, `Crash` and the comings and goings of the VM. `RunTxDeliver` follows
`runTx` with both of its deferred functions. A crash leaves the committed store
and the decided blocks; Tendermint replays what the store does not hold.
**`Ledger`** is the abstract promise: a history that only grows, one state per
block, each made from the last by opening a block, by whole transactions and by
closing it.

**`Oracle`** has `assets` with their oracles, `raw` (the prices of the open
block), `current` and `vmres`, the prices the VM reads. Handlers check, in their
order, what `ValidateBasic`, handler and keeper check; `EndBlock` is
`SetCurrentPrices` with its medians, the reversed price, and the passing over of
zero and unchanged prices. `Restart` exports and imports, at once or later, and
may panic. Prices are bounded as the code bounds them, by bytes.

**`Vm`** splits what x/vm does where the node waits: a transaction or an update
puts a `call` to the VM, an attempt fails or is answered, a failure after the
last attempt ends the process. `ds` is the data source: whether it was started,
and the context it was left with, which is the state of the block or a copy of a
transaction's branch. `Simulate` runs between delivered transactions, as the
ABCI lock has it. The scheduler (`ScheduleProposal`, `BeginBlock`,
`ExecuteProposal`) and the dry run of an update that passed the vote
(`GovPassed`) use the same calls. Gas is counted and wraps as it does in Go: the
gas the VM asks for, a price for every write to the store (external, of one
size here), and the growing price of the nested types of an event. A type is
the sequence of the depths of its nodes in the order `processEventType` visits
them, so that the parameters of one type are charged one after the other.

**`ZeroHeight`** is the export for height zero as a function on a chain: the
options of the three variants, the squashes of `x/ccstorage`, `x/vmauth`,
`x/multisig` and `x/orderbook`, the registered invariants, the stakers' report
and what is minted from it. Of the options of the debug variant those of supply
and accounts are kept, of the mainnet variant all but the parameters of mint and
gov. **`Genesis`** is the life of a genesis file: every genesis command, the
validation of every module, the start (with its panics), a few transactions, and
both exports. What a module stores with a time or a height (prices, orders,
history, withdraws, calls) is `dated`: `validate-genesis` looks at neither, and
InitGenesis does, against a genesis time that operators move or leave.

**`Inputs`** has the parsers of `helpers` and of the VM client over texts
abstracted to what the parsers tell apart; **`Messages`** the constructors and
`ValidateBasic` of every message and proposal; **`TxClient`** every transaction
command and REST handler; **`QueryClient`** the queries with the queriers behind
them, pagination, the VM status of a transaction and the compiler's client. A
function that may return an error is the set of its results, empty on error.
**`Clients`** lets the requests be sent, the chain change, and a reader ask for
page after page meanwhile.

The `*Proofs` modules hold the proofs, `SeqLemmas` and `Folding` the lemmas they
share. The
`MC*` modules hold the values of constants for TLC. Operators commented as a
defect or a plausible slip are mutated forms of the definition next to them and
belong to no specification; each shows that a property notices that mistake.

## Runs

| run | states | bounds | shows |
|---|---|---|---|
| `poa` | 71 thousand | 4 addresses, a counter that holds 3, every limit it can hold, genesis lists up to 3, one with a duplicate | copies agree, majority reachable and unique, limits hold on change, up to and over the wrap of the counter |
| `pegzone` | 368 thousand | 3 accounts, 1 or 2 of them validators at the start, 4 messages, 2 calls, interval 1, 4 blocks, restarts | queue, ages, finality, exports; the router's state changes only by confirmed calls; every queued call leaves the queue |
| `currencies` | 63 thousand | a pool, an account and an address without one, 2 currencies, amounts of 1, 2 mints, one of them in block 1 | supplies, balances and their VM copies in step, also over restarts, but for what block 1 mints |
| `matcher` | 692 thousand | 1 market, up to 4 orders, prices 1, 2, 4, quantities 1 to 3 and one that is twice the precision | which books panic, both sides equal and within every order's limits, priority respected |
| `dex` | 296 thousand | 2 owners, 2 mirrored markets, 4 orders of quantity 3, 2 blocks, a unit of 2 so that amounts round to nothing, restarts | coins for every unlock, time-outs, history tells the trades, order of the markets irrelevant, when an export can be imported |
| `node` | 60 thousand | 2 accounts, 7 transactions (conflicting, free, failing half way, asking for the VM, with two signers, invalid, garbage), blocks of 2, 1 and 0, a halt height of 3, a crash or an outage | committed states determined by the blocks and a ledger, no transaction twice, none unpaid in the pool, every decided block committed |
| `oracle` | 320 thousand | 3 oracles, a nominee, an asset and its reverse, 17 messages of which 4 are sent in 2 blocks, 2 restarts | queries and VM agree, medians not moved by a minority, which exports can be imported when |
| `vm` | 651 thousand | 2 paths, 3 transactions, 2 updates, 3 blocks of up to 2 transactions, a simulation, 2 attempts, 2 crashes | storage determined, updates on time, requests covered by gas |
| `genesis` | 470 thousand | 4 addresses, 3 currencies, a new file or one of two testnets, 4 commands, blocks or exports, the genesis time moved or not | which valid files start and can be exported, account numbers, supply and stakers survive the squash |
| `clients` | 42 thousand | the requests and queries of `MCClients`, 2 messages delivered, pages of 2 | both doors agree, pages are complete, status told, a script runs with what was compiled and asked for |

Why the bounds are enough for what they are for. Two calls are the least with
which one executed call changes the majority for the next in the same block.
The three initial validator sets differ in their limits, which decide what can
be submitted: from one validator the majority rises, from two of at most two it
falls, and from two of at most three a third voter comes, so that a call is
executed without the votes of all; a replacement fails half way behind an
addition. With interval 1 and four blocks both loops, the late start of the rejection
loop, its steady state and a restart happen. In `currencies` the address without
an account matters: the first write of an account takes another path. Four
orders are the least with which two markets clear in one block, and they are
also two trades of one market in different blocks, the second with the rest of
an order, which is what the squash of the history and the time-out of a rest
need; a quantity of three makes what was filled and what is left differ. Two
blocks of a node are one replayed from a genesis state and one from a commit;
the gas limits are such that a block's meter runs out within and at the end of
a transaction. Three oracles are the least whose median has a minority on either
side, four messages let one post twice after another was removed. In `vm` a
block of two transactions and a simulation are the least that leave a stale
context behind. `genesis` starts from nothing and from a testnet, because four
steps would not build one. In `clients` numbers have a word of 8 bits instead of
64 and digits of base 2, so that wraps and the textual order of ids are met.

`CHECK_DEADLOCK FALSE` stands where a bound on blocks, orders or steps lets the
model stop. Symmetry is used only in `dex`, over the two owners, which the
specification treats alike.

The decimals have two or three digits instead of eighteen. `BoughtIsSold` and
`PriorityIsKept` are stated for books (`Exact`) whose volumes are at most half
the precision: the larger volume is computed as a volume times a rounded quotient
(`GetClearanceState`), so with volumes near 10^18 base units the two sides can
differ by units. A demand of twice the precision times the supply makes the
quotient zero, and the division by it panics (`pq_curves.go:127`); the quantity
of 200 with a precision of 100 reaches that. The quantities of `dex` stay below
(`DexAssumption`).

In `poa` a counter of two bits instead of sixteen lets four addresses outgrow it,
which takes a maximum of the largest value it holds: then `curValidators+1` is 0
and passes any maximum.

### Fairness

`pegzone` assumes weak fairness of the steps of the end of a block and of the
next block: consensus keeps producing blocks, and a block is run to its commit.
Nothing is assumed of accounts: they may never vote. `QueuedIsResolved` is
stated for chains that are not restarted for ever, since a restart moves pending
calls back to height 0; the premise is part of the formula.

`node` assumes weak fairness of the node's own steps (Tendermint keeps calling,
the operator restarts a process that died) and of the return of the VM. Nothing
is assumed of users. Crashes are bounded, which is the usual "finally no
crashes" without which nothing can be promised.

### Disagreements between texts and code

Two runs show one with a counterexample:

| run | what a text says | what the code does |
|---|---|---|
| `fills_are_transfers` | `orders/.../funds.go`: fills transfer funds | the owner is credited, the module account that holds the locked coins is not debited |
| `dry_run` | `x/vm/module.go`: the data source's context is updated during the BeginBlock | the dry run of an update, at the end of the block, reads what the last message left: the branch of a failed transaction, or of one simulated on this node alone |

Four more have a configuration of their own, to be run with the module named,
each with one property that TLC finds violated:

| configuration | what a text says | what the code does |
|---|---|---|
| `MCConfirmedIsExecuted` (`MCPegZone`) | `docs/peg_zone.md:50`: with N/2+1 confirmations the message is executed | a call whose last vote was revoked leaves the queue, still takes votes, and is not executed |
| `MCTotalSupply` (`MCCurrencies`) | `currencies/.../invariants.go:16`: currency supplies and the supply total are equal | an issue to an address without an account is counted twice; the registered invariant compares a value with itself |
| `MCTtlRevokes` (`MCDex`) | `docs/dex.md:81`: an order is auto-revoked by its time to live | the rest of a bid worth less than the smallest quote unit cannot be revoked; the error is logged |
| `MCFailedTx` (`MCNode`) | `app/abci.go:195`: state is persisted only if all messages are executed successfully | when the block's gas meter overflows at the end of a transaction its messages are written and the answer is an error |

The passing runs state what does hold instead: `QueueMatchesCalls`,
`SupplyIsExplained`, `OnlyDustOutlivesTtl`, `ImplementsLedger`. Others met while
modelling are built into the properties as exceptions or bounds:

- `docs/peg_zone.md` says a call not confirmed within the interval is rejected,
  while the rejection loop starts only once the chain is higher than two
  intervals (`QueueAgeBound`: two intervals and a block).
- What mint pays in block 1 never reaches the currency records
  (`currencies/abci.go:16`); `CurrencyCoversAccounts` bounds the shortfall by it.
- The import of `x/orders` refuses the node's own export once the newest order
  is gone (`ImportNeedsNewestOrder`).
- The panic of a dead VM, which has to stop the node, is hidden when the block's
  gas meter panics too, in the defer that runs first (`baseapp.go:602`); such a
  node commits a state of its own (`CommittedIsDetermined` excepts it).
- `price.go:60` says previous inputs are cleaned up; raw prices are never
  removed. An oracle removed in a block in which it posted still counts. When an
  asset and its reverse are both registered they overwrite each other's price in
  the VM (`QueryAgreesWithVM` excepts them).
- An export of `x/oracle` may hold a price from the future and is then refused
  until that time (`PanicOnlyOnFreshPrice`).
- The debug variant of the zero-height export overwrites an existing account
  (`SquashKeepsSupply` excepts it); the minting for stakers is part of every
  zero-height export, so repeated exports mint again where there is a shortfall;
  the registered invariants leave out those of `x/supply` (`app.go:545`).
- `add-genesis-account` takes any currency, and a chain with an unknown one does
  not start; nor does one whose genesis time was left before a price, an order, a
  history item or a withdraw of the export, or a plain export with a multisig call
  or a history item from above height 0, all of which `validate-genesis` passes; an
  empty VM path passes validation and makes a later export panic. `ValidFileLives`
  says that there is nothing else, and that the export for height zero leaves no
  height behind.
- REST does not lower the letters of an order's asset and direction, code in a
  file has no `0x` to drop, and only a file holds several items
  (`ReadDifferently` in `Clients`). The REST handler of a multisig call goes on
  after it refused the id, and the command for raw prices prints that it could
  not get them and returns no error (`AnsweredDifferently`). Several commands do not call `ValidateBasic`;
  the node does. `received_at` is documented as RFC 3339 and parsed as seconds
  (`oracle/client/rest/rest.go:31`).
- `PaginateSlice` multiplies in 64 bits and wraps for pages nobody has;
  market keys are decimal texts, so a new market may come before an old one and
  a reader of pages may see one twice (`PagesAreComplete`).

## Proofs

`MultisigProofs` proves, for any accounts, messages, handlers and any positive
interval, the safety properties of the `pegzone` run, `QueueMatchesCalls`,
`QueueAgeBound`, `ExportAlwaysValid`, `DecidedIsFinal` and
`AppChangesOnlyByExecution`, and on the way `TypeOK`, `UniqueIDIndex`,
`OneOutcome` and `OneVotePerAccount`. The bounds `MaxCalls`, `MaxSubmitHeight`
and `MaxHeight` are arbitrary natural numbers in the proofs. The inductive
invariant `MsInv` is the conjunction of `TypeOK`, `UniqueIDIndex`,
`QueueMatchesCalls`, `OneOutcome` and `OneVotePerAccount` with `QueueTiming`.
`QueueTiming` says, phase by phase, how old queue entries are: before the
rejection loop all are fresh with respect to the previous block, within it an
entry is fresh or still to be visited, after it all are fresh. It is needed
because `QueueAgeBound` says nothing of the loop in progress, and because a
turn of a loop may remove only what is still queued (`iterator` within
`queue`). `DecideKeepsInv` is the common argument of executed, failed and
rejected calls. Finality and the last property follow from `MsInv`, action by
action.

`PoaProofs` proves, for any addresses and any limits a uint16 can hold, the
properties of the `poa` run and that an import is faithful. The invariant `PoaInv`
carries the agreement of the three copies through every message and every turn of
an import; the counter is the length of a list without duplicates, modulo 2^16.
`CounterWrapsOnlyAtLargestLimit` says when the modulus matters: the list reaches
the largest uint16 only if governance may set that as a limit, since every
smaller maximum stops `addValidator` below it.

`NodeProofs` proves the safety properties of the `node` run, for any
transactions, message handler, genesis, gas prices and limits, and for any
number of crashes and VM outages.

- `CommittedStatesAreALedger` is the refinement: under the mapping in `Node`
  every step of the node is a step of `Ledger` or a stutter. The invariant
  `Shape` ties the phase to the deliver state and to the decided blocks; the
  step that matters is `DeliverIsOutcome`, that whatever `runTx` comes to, out
  of gas in the transaction or in the block, a panic, a refused message, the
  store it leaves is one of the outcomes `Ledger` allows.
- `TransactionsTakeEffectOnce` proves `NoReplay` from `StoresOK`: in every store
  that is alive, committed, delivered or checked, a transaction that took effect
  has a first signature older than the sequence number of its signer, so that it
  can never be verified again; rechecked transactions, which are not verified,
  run no messages.
- `CommittedStatesAreDetermined` proves `CommittedIsDetermined`: what is committed
  is the replay of the decided blocks, whatever was checked, restarted or
  interrupted meanwhile. The invariant `Replaying` says the same of a block in
  progress: the deliver state is the replay of the part that was delivered.
- `PooledTransactionsPay` proves `PooledPays`. At height 0 no fee is asked for;
  the invariant `Pooling` says why nothing signed for this chain gets in then:
  the check state has no chain id yet, or no accounts.

`VmProofs` and `VmStorageProofs` prove the safety properties of the `vm` run, for
any transactions, contracts, updates, number of attempts and gas constants that
`GasAssumption` allows. `Shape` says what a request in flight belongs to and that
its gas was paid for, of which `RequestsAlwaysCovered` is a consequence: 64-bit
sums do not wrap, because the limit of a request is far below the word. What the
answers charge, write by write and node by node of the types of their events,
only adds to a meter and stops at its limit (`ProcessExecutionMeters`, from
`SetValueMeters` and `NodeMeters` by `FoldSteps`).
`UpdatesAlwaysRunOnTime` needs `Scheduled`: while `BeginBlocker` works, what it
has still to execute holds every queued update whose block has come.
`StorageAlwaysDetermined` needs `Determined`: the values of the open block are
the replay of its log, a transaction being delivered has run a prefix of its
messages on them, a request has the answers of a prefix of the contracts, and
the data source server reads the branch of the running message. The last is what
makes the answers independent of simulations and of the attempts.

`OracleProofs` proves the properties of the `oracle` run, for any assets,
oracles, messages, prices and block times.

- `MinorityCannotMoveThePrice` is `MedianIsBounded`: at least half of the posted
  prices are not above, and half not below, a new ask, and so for the bid. The
  argument is about any list: inserting one by one makes a sorted rearrangement
  (`ByAsk`, `ByBid`), the middle of a sorted list has half of it on each side
  (`MiddleSplits`, for whichever price it is sorted by), and a rearrangement counts the same oracles
  (`OraclesCounted`), which needs that an oracle has one price in a list
  (`OncePerBlock`, kept by `SetPrice`).
- `ClientsAndContractsAgree` is `QueryAgreesWithVM`. The invariant `Agree` carries
  the price and its reverse through every turn of the loop of `EndBlocker`
  (`LoopIsSound`), which writes both resources; assets whose reverse is
  registered are excepted, since their turns overwrite each other.
- `ExportIsImportable` is `PanicOnlyOnFreshPrice`: a start from an export panics
  only for a price from the future. `Known` bounds how far ahead a current price
  can be, from `Timely`, which says the same of the posted ones.

`sort.Slice` is modelled as the insertion sort it is for up to a dozen elements.
Of longer lists the proofs use no more than that the result is a sorted
rearrangement; the order of equal prices does not matter to them.

`SeqLemmas` has the facts about sequences that are shared: induction over the
numbers, stated with a set in the place of a predicate (`NatInductionSet`), the
first elements of a sequence, removing an element, sequences without duplicates
and the number of their elements. `Folding` has what `FoldLeft` makes of the
empty sequence, of one more element, of a relation that every step hands on
(`FoldPrefixes`), and of the beginnings of a sequence (`FoldSteps`), for any operator; a proof about a loop of the code instantiates
it with the body of the loop.

Assumptions are the named `ASSUME`s of the modules; TLC evaluates them in the
runs. They say what a decoder or a genesis file can produce (`TxAssumption`,
`MsgAssumption`, `GenesisAssumption`, `StoreAssumption`), which bounds are
numbers, and of the constants only what the code relies on: the zero time lies
before the genesis by more than any time difference (`TimeAssumption`), the
greatest gas limit of the VM is below the word by more than a block's gas
(`GasAssumption`), a chain has an id (`ChainAssumption`).

Only model-checked:

- liveness (`QueuedIsResolved`, `DecidedIsCommitted`), which is out of the
  prover's reach;
- `Currencies`, whose properties compare sums over all accounts, and
  `MatcherPool`, whose fills are quotients of such sums: what is needed is
  arithmetic of sums and of rounded products, beyond linear arithmetic;
- `Dex`, which rests on `MatcherPool`'s fills and compares whole histories;
- `Genesis` and `Clients`, finite compositions of many commands, whose
  properties are about what a sequence of them computes; a helper of
  `QueryClient` is recursive, which the prover cannot use.

## What is not modelled

- The parse of multisig queue keys (`multisig/.../keys.go:83` splits at a byte
  that heights may contain) and of issue keys (`currencies/.../keys.go:39`) at an
  export. Store keys are abstract, except where their order or their length
  decides something. An export of an earlier height (`--height`).
- Changes of the multisig interval by governance: a constant of `Multisig`.
- The squashes for height zero of staking, distribution, slashing, mint and gov:
  code of the SDK fork, outside of the repository. They are external in
  `ZeroHeight`, as far as the balances depend on them.
- `x/migration`: a conversion of a genesis file assembled from the SDK's legacy
  packages, run once, offline.
- Vesting and module account data in `x/genaccounts`; public keys, which the
  export drops.
- The Move VM and its compiler, Tendermint, the bank, staking and mint modules:
  external, modelled from their use.
- Encoding, key rings and broadcasting in the clients, generated API
  documentation, configuration files, logging, the drawing of supply and demand
  curves, the permissions of modules (constant, checked at start-up): pure I/O or
  no state.
- Votes of validators that have been removed since are counted, and scheduled
  updates are lost over a genesis export: modelled as the code has it, without a
  property, because no text says what should happen.
