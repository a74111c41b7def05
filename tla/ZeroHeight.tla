------------------------------ MODULE ZeroHeight ------------------------------
(***************************************************************************)
(* dnode export --for-zero-height: the state of a running chain is         *)
(* squashed on a context that is never committed, currencies are removed   *)
(* and renamed, and payees of the testnet that own less than they were     *)
(* given are topped up by minting.                                         *)
(*                                                                         *)
(* A chain is a record: acc maps the addresses of existing accounts to     *)
(* [num, coins], total is x/supply, ccs maps registered denominations to   *)
(* the supply x/ccstorage keeps, bond is the staking denomination, val and *)
(* shares are the bonding tokens of the one validator and what delegators  *)
(* hold of it, rewards is the rewards bank and issues what x/currencies    *)
(* issued.  Coins of staking and distribution are held by Pool.  dated is  *)
(* what carries a time or a height: prices, orders, history, withdraws and *)
(* calls.  An entry is young when it is later than the genesis time.       *)
(***************************************************************************)
EXTENDS Integers, Sequences, FiniteSets, FiniteSetsExt, SequencesExt

CONSTANTS
  Denoms,       \* denominations coins can have
  Pool,         \* the module accounts of x/staking and x/distribution
  GenBalances,  \* what accounts of the testnet's genesis were given
  FakeVal,      \* the operator of the debug validator
  FakeAmount,   \* and its self-delegation
  Unit          \* 1.0 as an sdk.Dec

ZeroCoins == [d \in Denoms |-> 0]

Holdings(chain, d) == MapThenSumSet(LAMBDA a : chain.acc[a].coins[d], DOMAIN chain.acc)

-------------------------------------------------------------------------------
(* Options *)

\* prepareDefaultZeroHeightOptions: nothing is to be changed.
DefaultOptions ==
  [toZero |-> FALSE, supply |-> <<>>, add |-> <<>>, balances |-> <<>>, bond |-> {}, rewards |-> <<>>]

\* setDebugZeroHeightOptions: coins and an account for one more validator.  The
\* validator itself is added by x/staking, of which one is modelled.
DebugOptions(opts) ==
  [opts EXCEPT !.supply = Append(@, [denom |-> "sxfi", remove |-> FALSE, to |-> "", amount |-> FakeAmount]),
               !.add = Append(@, [addr |-> FakeVal, coins |-> [ZeroCoins EXCEPT !["sxfi"] = FakeAmount]])]

\* setMainnetZeroHeightOptionsV10, the options of x/ccstorage.
SuppliesToZero(opts) == [opts EXCEPT !.toZero = TRUE]

\* setMainnetZeroHeightOptionsV10: remove three denominations, rename one.  Of
\* x/distribution, rewards in xfi are removed; x/mint and x/gov only change
\* parameters, which are left out.
MainnetOptions(opts) ==
  LET removed == <<"xfi", "usdt", "btc">>
      Removal(d) == [denom |-> d, remove |-> TRUE, to |-> "", amount |-> 0]
      ops == Append([i \in 1..3 |-> Removal(removed[i])],
                    [denom |-> "sxfi", remove |-> FALSE, to |-> "xfi", amount |-> 0])
  IN  SuppliesToZero([opts EXCEPT !.supply = @ \o ops, !.balances = @ \o ops, !.bond = {"xfi"},
                                  !.rewards = @ \o <<ops[1], ops[4]>>])

\* The setters that are switched on: the calls of the last two are commented
\* out of prepareGenesisForZeroHeight and are put back for an export.
Options(variant) ==
  CASE variant = "default" -> DefaultOptions
    [] variant = "debug" -> DebugOptions(DefaultOptions)
    [] variant = "mainnet" -> MainnetOptions(DefaultOptions)

-------------------------------------------------------------------------------
(* The squash functions of the modules *)

\* x/ccstorage PrepareForZeroHeight.
SquashCCStorage(chain, opts) ==
  IF opts.toZero THEN [chain EXCEPT !.ccs = [d \in DOMAIN @ |-> 0]] ELSE chain

Moved(coins, op) ==
  CASE op.remove -> [coins EXCEPT ![op.denom] = 0]
    [] ~op.remove /\ op.to # "" -> [coins EXCEPT ![op.to] = @ + coins[op.denom], ![op.denom] = 0]
    [] OTHER -> coins

\* x/supply PrepareForZeroHeight (external): removal, renaming, addition.
SquashSupply(chain, opts) ==
  LET Apply(total, op) ==
        IF op.denom \notin Denoms THEN total
        ELSE [Moved(total, op) EXCEPT ![op.denom] = @ + op.amount]
  IN  [chain EXCEPT !.total = FoldLeft(Apply, @, opts.supply)]

\* x/auth NewAccountWithAddress: the account takes the next number.
NewAccount(chain, addr, coins) ==
  [chain EXCEPT !.acc = (addr :> [num |-> chain.next, coins |-> coins]) @@ @,
                !.next = @ + 1]

\* x/vmauth SetAccount of an account that is not known: the supplies of its
\* coins grow.
Registered(chain, addr, coins) ==
  IF addr \in DOMAIN chain.acc THEN chain
  ELSE [chain EXCEPT !.ccs = [d \in DOMAIN @ |-> @[d] + coins[d]]]

\* x/vmauth PrepareForZeroHeight, addAccountOps.
AddAccounts(chain, ops) ==
  FoldLeft(LAMBDA c, op : NewAccount(Registered(c, op.addr, op.coins), op.addr, op.coins), chain, ops)

\* Defect: renaming takes the old coins and adds none.
BalanceOpsLose(chain, ops) ==
  LET op == [Last(ops) EXCEPT !.remove = TRUE]
  IN  IF ops = <<>> THEN chain
      ELSE [chain EXCEPT !.acc = [a \in DOMAIN @ |-> [@[a] EXCEPT !.coins = Moved(@, op)]]]

\* x/vmauth PrepareForZeroHeight, accountBalanceOps: first every removal,
\* then every renaming, over all accounts.
BalanceOps(chain, ops) ==
  LET known == SelectSeq(ops, LAMBDA op : op.denom \in Denoms)
      Apply(c, op) == [c EXCEPT !.acc = [a \in DOMAIN @ |-> [@[a] EXCEPT !.coins = Moved(@, op)]]]
      removals == SelectSeq(known, LAMBDA op : op.remove)
      renamings == SelectSeq(known, LAMBDA op : ~op.remove /\ op.to # "")
  IN  FoldLeft(Apply, chain, removals \o renamings)

SquashVMAuth(chain, opts) == BalanceOps(AddAccounts(chain, opts.add), opts.balances)

\* x/staking PrepareForZeroHeight (external): the bonding denomination.
SquashStaking(chain, opts) ==
  IF opts.bond = {} THEN chain ELSE [chain EXCEPT !.bond = CHOOSE d \in opts.bond : TRUE]

\* x/distribution PrepareForZeroHeight (external): rewards are coins of the
\* denomination that was bonded, and follow it when it is renamed.
SquashDistribution(chain, bonded, opts) ==
  IF \E i \in DOMAIN opts.rewards : opts.rewards[i].remove /\ opts.rewards[i].denom = bonded
  THEN [chain EXCEPT !.rewards = [a \in DOMAIN @ |-> 0]]
  ELSE chain

\* Defect: the height of a call is reset only when the call is put back into
\* the queue.
SquashOpenCalls(chain) ==
  [chain EXCEPT !.dated.calls = {[k EXCEPT !.height = IF k.open THEN 0 ELSE @] : k \in @}]

\* x/multisig PrepareForZeroHeight; PegZone has the queue.
SquashMultisig(chain) ==
  [chain EXCEPT !.dated.calls = {[k EXCEPT !.height = 0] : k \in @}]

\* x/orderbook PrepareForZeroHeight: the latest item of every market.
SquashOrderBook(chain) ==
  [chain EXCEPT !.dated.history =
     {[h EXCEPT !.height = 0] : h \in {i \in @ : \A j \in @ : j.market = i.market => j.height <= i.height}}]

\* checkInvariants (external): the routes of every module but x/supply.
CheckInvariants(chain) ==
  chain.acc[Pool].coins[chain.bond] >= chain.val.tokens + MapThenSumSet(LAMBDA a : chain.rewards[a], DOMAIN chain.rewards)

-------------------------------------------------------------------------------
(* The balance report *)

NoStaker == -1

\* NewSXFIBalanceReportItem.
ReportItem(chain, addr) ==
  [balance |-> chain.acc[addr].coins["xfi"], issued |-> 0, rewards |-> 0, tokens |-> 0,
   gen |-> 0, staker |-> NoStaker]

Error == [error |-> TRUE]

Failed(result) == result = Error

\* AppendGenesisBalances: every account of the table has to exist.
AppendGenesisBalances(chain) ==
  IF \E a \in DOMAIN GenBalances : a \notin DOMAIN chain.acc THEN Error
  ELSE [a \in DOMAIN GenBalances |-> [ReportItem(chain, a) EXCEPT !.gen = GenBalances[a]]]

\* The issues of getMainnetSXFIBalanceReport, combined by payee.  Only those in
\* the issue denomination are asked for later.
AppendIssues(chain, report) ==
  LET Apply(r, issue) ==
        IF Failed(r) \/ (issue.payee \notin DOMAIN r /\ issue.payee \notin DOMAIN chain.acc) THEN Error
        ELSE LET item == IF issue.payee \in DOMAIN r THEN r[issue.payee] ELSE ReportItem(chain, issue.payee)
                 amount == IF issue.denom = "sxfi" THEN issue.amount ELSE 0
             IN  (issue.payee :> [item EXCEPT !.issued = @ + amount]) @@ r
  IN  FoldLeft(Apply, report, chain.issues)

\* BondingTokensFromSharesTruncated (external).
TokensFromShares(val, shares) == ((shares * val.tokens * Unit) \div val.shares)

\* Coins of the rewards bank, and what the delegated shares are worth.
AppendStakes(chain, report) ==
  [a \in DOMAIN report |->
     [report[a] EXCEPT
        !.rewards = IF chain.bond = "xfi" THEN chain.rewards[a] ELSE 0,
        !.tokens = IF chain.shares[a] = 0 THEN 0 ELSE TokensFromShares(chain.val, chain.shares[a])]]

\* AppendStakerCSVReport: a row belongs to an item, and no two to the same.
AppendStakerCSVReport(report, rows) ==
  LET Apply(r, row) ==
        IF Failed(r) THEN Error
        ELSE IF ~row.parsed \/ row.addr \notin DOMAIN r THEN Error
        ELSE IF r[row.addr].staker # NoStaker THEN Error
        ELSE [r EXCEPT ![row.addr].staker = row.amount]
  IN  FoldLeft(Apply, report, rows)

\* getMainnetSXFIBalanceReport.
GetReport(chain, rows) ==
  LET gen == AppendGenesisBalances(chain)
      issued == IF Failed(gen) THEN gen ELSE AppendIssues(chain, gen)
  IN  IF Failed(issued) THEN issued ELSE AppendStakerCSVReport(AppendStakes(chain, issued), rows)

\* Verify: what was issued is what the stakers' report says.
Verify(report) == \A a \in DOMAIN report : report[a].staker \in {NoStaker, report[a].issued}

\* GetInitialBondingBalance: issues count for stakers only.
InitialBalance(item) == item.gen + (IF item.staker = NoStaker THEN 0 ELSE item.issued)

\* Defect: the delegated tokens are not truncated but rounded up.
CurrentBalanceRoundsUp(item) == item.balance + item.rewards + (item.tokens + Unit - 1) \div Unit

\* GetCurrentBondingBalance: what the account holds, earned and delegated.
CurrentBalance(item) == item.balance + item.rewards + item.tokens \div Unit

\* GetResults.
BondingDiff(item) == CurrentBalance(item) - InitialBalance(item)

\* processMainnetSXFIBalance: mint what is missing and hand it out.  The answer
\* is Error or the chain.
ProcessMainnetBalance(chain, env, rows) ==
  LET report == GetReport(chain, rows)
      short == {a \in DOMAIN report : BondingDiff(report[a]) < 0}
      minted == MapThenSumSet(LAMBDA a : -BondingDiff(report[a]), short)
  IN  IF ~env \/ Failed(report) THEN Error
      ELSE IF ~Verify(report) \/ "xfi" \notin DOMAIN chain.ccs THEN Error
      ELSE LET after == [chain EXCEPT
                           !.total["xfi"] = @ + minted,
                           !.ccs["xfi"] = @ + minted,
                           !.acc = [a \in DOMAIN @ |->
                                      IF a \in short THEN [@[a] EXCEPT !.coins["xfi"] = @ - BondingDiff(report[a])]
                                      ELSE @[a]]]
           IN  IF CheckInvariants(after) THEN after ELSE Error

\* prepareGenesisForZeroHeight.
PrepareForZeroHeight(chain, variant, env, rows) ==
  LET opts == Options(variant)
      staked == SquashStaking(SquashVMAuth(SquashSupply(SquashCCStorage(chain, opts), opts), opts), opts)
      squashed == SquashOrderBook(SquashMultisig(SquashDistribution(staked, chain.bond, opts)))
  IN  IF ~CheckInvariants(chain) \/ ~CheckInvariants(squashed) THEN Error
      ELSE ProcessMainnetBalance(squashed, env, rows)

===============================================================================
