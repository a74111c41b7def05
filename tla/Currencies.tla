----------------------------- MODULE Currencies -----------------------------
(***************************************************************************)
(* The supply bookkeeping of dnode.  An amount of a currency is recorded   *)
(* in up to five places: the coins of the standard account, the account's  *)
(* Balance resource in the VM storage, the currency of x/ccstorage, its    *)
(* CurrencyInfo resource in the VM storage and the total of the supply     *)
(* module.  x/currencies issues, withdraws and burns coins, x/vmauth keeps *)
(* accounts and resources in step, and a genesis export carries only part  *)
(* of it over.                                                             *)
(***************************************************************************)
EXTENDS Naturals, FiniteSetsExt

CONSTANTS Address,       \* accounts
          Pool,          \* a module account: bonded pool and fee collector
          Denom,         \* denominations, registered or not
          MintDenom,     \* types.MintDenom, the inflation currency
          BondDenom,     \* the staking denomination
          LPDenom,       \* the liquidity denomination
          GenesisDenom,  \* currencies registered by the genesis
          GenesisCoins,  \* coins of the genesis accounts
          IssueID,       \* ids of issue messages
          MaxAmount,     \* bound: coins per message
          MaxWithdraws,  \* bound: withdrawals
          MaxMints       \* bound: coins minted

ASSUME GenesisAssumption ==
    /\ Pool \in DOMAIN GenesisCoins
    /\ DOMAIN GenesisCoins \subseteq Address
    /\ \A a \in DOMAIN GenesisCoins :
          /\ GenesisCoins[a] \in [Denom -> Nat]
          /\ \A d \in Denom \ GenesisDenom : GenesisCoins[a][d] = 0
    /\ {MintDenom, BondDenom} \subseteq GenesisDenom /\ GenesisDenom \subseteq Denom

VARIABLES store,       \* the stores of vmauth, vm, ccstorage, supply, staking
          issues,      \* issue id -> [denom, amount, payee]
          withdraws,   \* withdraw id -> [denom, amount]
          last,        \* lastWithdrawID: {} before the first, {id} after
          first,       \* the next block is block 1 of its chain
          minted,      \* history: MintDenom coins minted
          missed,      \* history: those of them minted in block 1 of this chain
          burned       \* history: coins burned by UnstakeCurrency

vars == <<store, issues, withdraws, last, first, minted, missed, burned>>

Amount == 1 .. MaxAmount
NoCoins == [d \in Denom |-> 0]
Coin(d, n) == [NoCoins EXCEPT ![d] = n]
Plus(c, e) == [d \in Denom |-> c[d] + e[d]]
Minus(c, e) == [d \in Denom |-> c[d] - e[d]]
Covers(c, e) == \A d \in Denom : c[d] >= e[d]
Put(f, k, v) == [x \in DOMAIN f \cup {k} |-> IF x = k THEN v ELSE f[x]]

Failed(s) == [ok |-> FALSE, st |-> s]
Done(s) == [ok |-> TRUE, st |-> s]

\* What follows a call that may return an error, and a local variable.
Then(r, op(_)) == IF r.ok THEN op(r.st) ELSE r
With(x, op(_)) == op(x)
-----------------------------------------------------------------------------
(* x/ccstorage *)

HasCurrency(s, d) == d \in DOMAIN s.currencies

storeCurrency(s, d, n) == [s EXCEPT !.currencies = Put(@, d, n)]

storeResStdCurrencyInfo(s, d, n) == [s EXCEPT !.info = Put(@, d, n)]

SetSupply(s, d, n) == storeResStdCurrencyInfo(storeCurrency(s, d, n), d, n)

CreateCurrency(s, d) ==
    IF HasCurrency(s, d) THEN Failed(s) ELSE Done(SetSupply(s, d, 0))

IncreaseCurrencySupply(s, d, n) ==
    IF HasCurrency(s, d) THEN Done(SetSupply(s, d, s.currencies[d] + n)) ELSE Failed(s)

DecreaseCurrencySupply(s, d, n) ==
    IF HasCurrency(s, d) THEN Done(SetSupply(s, d, s.currencies[d] - n)) ELSE Failed(s)

(* newBalances: the coins held, and the other registered currencies. *)
filledBalances(coins) == {d \in Denom : coins[d] > 0}
emptyBalances(s, coins) == DOMAIN s.currencies \ filledBalances(coins)

\* Defect: balances that became empty are not written.
SetFilledBalances(s, a, coins) ==
    [s EXCEPT !.resources[a] =
        [d \in DOMAIN @ \cup filledBalances(coins) |->
            IF d \in filledBalances(coins) THEN coins[d] ELSE @[d]]]

(* Balances of the coins held are written, and empty balances only where   *)
(* the resource exists already.                                            *)
SetAccountBalanceResources(s, a, coins) ==
    LET written == filledBalances(coins)
                     \cup (emptyBalances(s, coins) \cap DOMAIN s.resources[a])
    IN  [s EXCEPT !.resources[a] =
            [d \in DOMAIN @ \cup written |-> IF d \in written THEN coins[d] ELSE @[d]]]

(* Only resources of registered currencies are read. *)
GetAccountBalanceResources(s, a) ==
    DOMAIN s.currencies \cap DOMAIN s.resources[a]
-----------------------------------------------------------------------------
(* x/vmauth *)

(* A brand-new account adds its coins to the currency supplies, and the    *)
(* keeper panics when one of them is not registered.                       *)
SetAccount(s, a, coins) ==
    LET isNew == a \notin DOMAIN s.accounts
        held  == filledBalances(coins)
        counted == IF isNew
                   THEN FoldSet(LAMBDA d, t : IncreaseCurrencySupply(t, d, coins[d]).st,
                                s, held)
                   ELSE s
        written == SetAccountBalanceResources(counted, a, coins)
    IN  IF isNew /\ \E d \in held : ~HasCurrency(s, d)
        THEN Failed(s)
        ELSE Done([written EXCEPT !.accounts = Put(@, a, coins)])

RealCoins(s, a) ==
    [d \in Denom |-> IF d \in GetAccountBalanceResources(s, a)
                     THEN s.resources[a][d] ELSE 0]

(* Reading an account first brings it in line with its VM resources, and   *)
(* creates it when only the VM knows it.                                   *)
GetAccount(s, a) ==
    IF \/ GetAccountBalanceResources(s, a) = {}
       \/ a \in DOMAIN s.accounts /\ s.accounts[a] = RealCoins(s, a)
    THEN s
    ELSE SetAccount(s, a, RealCoins(s, a)).st
-----------------------------------------------------------------------------
(* The bank and staking keepers of the SDK, which reach accounts through   *)
(* the vmauth keeper.                                                      *)

GetCoins(s, a) == IF a \in DOMAIN s.accounts THEN s.accounts[a] ELSE NoCoins

SetCoins(s, a, coins) == SetAccount(GetAccount(s, a), a, coins)

AddCoins(s, a, coins) ==
    With(GetAccount(s, a), LAMBDA g : SetCoins(g, a, Plus(GetCoins(g, a), coins)))

SubtractCoins(s, a, coins) ==
    With(GetAccount(s, a), LAMBDA g :
        IF Covers(GetCoins(g, a), coins)
        THEN SetCoins(g, a, Minus(GetCoins(g, a), coins))
        ELSE Failed(s))

SendCoins(s, from, to, coins) ==
    Then(SubtractCoins(s, from, coins), LAMBDA t : AddCoins(t, to, coins))

ForceRemoveDelegator(s, a) ==
    IF s.delegated[a] = 0 THEN Done(s)
    ELSE SendCoins([s EXCEPT !.delegated[a] = 0], Pool, a, Coin(BondDenom, s.delegated[a]))
-----------------------------------------------------------------------------
(* x/currencies *)

AddToTotal(s, d, n) == [s EXCEPT !.total = Plus(@, Coin(d, n))]

\* The payee is credited, then the currency's supply and the total are raised.
PayIssue(s, d, n, payee) ==
    Then(AddCoins(s, payee, Coin(d, n)), LAMBDA t :
        Then(IncreaseCurrencySupply(t, d, n), LAMBDA u : Done(AddToTotal(u, d, n))))

\* Defect: an id that was issued already is issued again.
IssueAgain(s, id, d, n, payee) ==
    IF payee \in s.banned \/ ~HasCurrency(s, d)
    THEN Failed(s) ELSE PayIssue(s, d, n, payee)

IssueCurrency(s, id, d, n, payee) ==
    IF payee \in s.banned \/ id \in DOMAIN issues \/ ~HasCurrency(s, d)
    THEN Failed(s) ELSE PayIssue(s, d, n, payee)

WithdrawCurrency(s, d, n, spender) ==
    IF ~HasCurrency(s, d) THEN Failed(s)
    ELSE Then(SubtractCoins(s, spender, Coin(d, n)), LAMBDA t :
            Then(DecreaseCurrencySupply(t, d, n), LAMBDA u : Done(AddToTotal(u, d, -n))))

StakingCoins(coins) ==
    [d \in Denom |-> IF d \in {BondDenom, LPDenom} THEN coins[d] ELSE 0]

\* The staking coins of an account that was just read are burned in both
\* supplies, and the account is banned.
BurnStaking(s, staker) ==
    LET coins == GetCoins(s, staker)
        burn  == StakingCoins(coins)
        held  == filledBalances(burn)
        down  == FoldSet(LAMBDA d, t : DecreaseCurrencySupply(t, d, burn[d]).st, s, held)
    IN  IF \E d \in held : ~HasCurrency(s, d) THEN Failed(s)
        ELSE Then(SetCoins(down, staker, Minus(coins, burn)), LAMBDA t :
                Done([t EXCEPT !.total = Minus(@, burn), !.banned = @ \cup {staker}]))

\* All delegations return to the staker first.
UnstakeCurrency(s, staker) ==
    Then(ForceRemoveDelegator(s, staker), LAMBDA t : BurnStaking(GetAccount(t, staker), staker))

getNextWithdrawID == IF last = {} THEN 0 ELSE Max(last) + 1
-----------------------------------------------------------------------------
(* genesis *)

(* ccstorage creates the currencies, with no supply. *)
CreateGenesisCurrencies(s, denoms) ==
    FoldSet(LAMBDA d, t : CreateCurrency(t, d).st, s, denoms)

(* Then every genesis account is stored, and being new adds its coins to   *)
(* the supplies.                                                           *)
InitGenesis(s, denoms, accounts) ==
    LET empty == [s EXCEPT !.currencies = [d \in {} |-> 0],
                           !.accounts   = [a \in {} |-> NoCoins]]
    IN  FoldSet(LAMBDA a, t : SetAccount(t, a, accounts[a]).st,
                CreateGenesisCurrencies(empty, denoms), DOMAIN accounts)

(* Iterating over the accounts reads, and so synchronises, each of them.   *)
ExportAccounts(s) ==
    FoldSet(LAMBDA a, t : GetAccount(t, a), s, DOMAIN s.accounts)

\* types.GenesisState.Validate: no withdraw is from the future of the new
\* chain's genesis time, and the last id is the greatest withdraw id.  future
\* are the withdraws whose timestamp is after that time.
Validate(future) ==
    /\ future = {}
    /\ IF DOMAIN withdraws = {} THEN last = {} ELSE last = {Max(DOMAIN withdraws)}

Sum(f) == MapThenSumSet(LAMBDA x : f[x], DOMAIN f)

Init ==
    /\ store = InitGenesis(
          [accounts   |-> [a \in {} |-> NoCoins],
           resources  |-> [a \in Address |-> [d \in {} |-> 0]],
           currencies |-> [d \in {} |-> 0],
           info       |-> [d \in {} |-> 0],
           total      |-> [d \in Denom |-> Sum([a \in DOMAIN GenesisCoins |-> GenesisCoins[a][d]])],
           banned     |-> {},
           delegated  |-> [a \in Address |-> 0]],
          GenesisDenom, GenesisCoins)
    /\ issues = [id \in {} |-> 0]
    /\ withdraws = [id \in {} |-> 0]
    /\ last = {}
    /\ first = TRUE
    /\ minted = 0
    /\ missed = 0
    /\ burned = NoCoins
-----------------------------------------------------------------------------
(* Messages and queries reach a chain that has begun its first block. *)
Begun == ~first

(* handleMsMsgIssueCurrency, run by a confirmed multisig call *)
Issue(id, d, n, payee) ==
    \E r \in {IssueCurrency(store, id, d, n, payee)} :
        /\ Begun
        /\ r.ok
        /\ store' = r.st
        /\ issues' = Put(issues, id, [denom |-> d, amount |-> n])
        /\ UNCHANGED <<withdraws, last, first, minted, missed, burned>>

(* The Balance resource in the VM is the real balance of an account, the   *)
(* coins of the standard account its cached copy.                          *)
Balance(a, d) ==
    IF d \in DOMAIN store.resources[a] THEN store.resources[a][d] ELSE GetCoins(store, a)[d]

(* What a staker owns and has delegated, of the staking denominations. *)
Staked(a) ==
    Plus(StakingCoins([d \in Denom |-> Balance(a, d)]), Coin(BondDenom, store.delegated[a]))

(* handleMsMsgUnstakeCurrency, run by a confirmed multisig call *)
Unstake(staker) ==
    \E r \in {UnstakeCurrency(store, staker)} :
        /\ Begun
        /\ r.ok
        /\ store' = r.st
        /\ burned' = Plus(burned, Staked(staker))
        /\ UNCHANGED <<issues, withdraws, last, first, minted, missed>>

(* handleMsgWithdraw *)
Withdraw(d, n, spender) ==
    \E r \in {WithdrawCurrency(store, d, n, spender)} :
        /\ Begun
        /\ getNextWithdrawID < MaxWithdraws
        /\ r.ok
        /\ store' = r.st
        /\ withdraws' = Put(withdraws, getNextWithdrawID, [denom |-> d, amount |-> n])
        /\ last' = {getNextWithdrawID}
        /\ UNCHANGED <<issues, first, minted, missed, burned>>

(* handleAddCurrencyProposal *)
AddCurrency(d) ==
    \E r \in {CreateCurrency(store, d)} :
        /\ Begun
        /\ r.ok
        /\ store' = r.st
        /\ UNCHANGED <<issues, withdraws, last, first, minted, missed, burned>>

\* Defect: the mint event is never forwarded to ccstorage.
BeginBlockerMintOnly(n) ==
    LET paid == AddCoins(store, Pool, Coin(MintDenom, n))
    IN  /\ minted + n <= MaxMints
        /\ store' = AddToTotal(paid.st, MintDenom, n)
        /\ minted' = minted + n
        /\ missed' = IF first THEN n ELSE missed
        /\ first' = FALSE
        /\ UNCHANGED <<issues, withdraws, last, burned>>

(* The mint module credits the fee collector and the supply total; the     *)
(* BeginBlocker of x/currencies, which runs after it, adds the amount of   *)
(* the mint event to the currency, except in block 1.                      *)
BeginBlocker(n) ==
    LET paid == AddCoins(store, Pool, Coin(MintDenom, n))
        up   == IF first THEN paid ELSE IncreaseCurrencySupply(paid.st, MintDenom, n)
    IN  /\ minted + n <= MaxMints
        /\ store' = AddToTotal(up.st, MintDenom, n)
        /\ minted' = minted + n
        /\ missed' = IF first THEN n ELSE missed
        /\ first' = FALSE
        /\ UNCHANGED <<issues, withdraws, last, burned>>

(* A bank transfer; the restrictions refuse the liquidity denomination. *)
Send(from, to, d, n) ==
    \E r \in {SendCoins(store, from, to, Coin(d, n))} :
        /\ Begun
        /\ from # Pool /\ d # LPDenom
        /\ r.ok
        /\ store' = r.st
        /\ UNCHANGED <<issues, withdraws, last, first, minted, missed, burned>>

(* The staking module moves the coins of a delegator to the bonded pool. *)
Delegate(a, n) ==
    \E r \in {SendCoins(store, a, Pool, Coin(BondDenom, n))} :
        /\ Begun
        /\ a # Pool /\ a \notin store.banned
        /\ r.ok
        /\ store' = [r.st EXCEPT !.delegated[a] = @ + n]
        /\ UNCHANGED <<issues, withdraws, last, first, minted, missed, burned>>

(* A Move script moves coins of its signer between two Balance resources.  *)
(* The ante handler has read the signer's account by then; the standard    *)
(* accounts learn of the transfer when they are next read.                 *)
ScriptTransfer(signer, to, d, n) ==
    LET s   == GetAccount(store, signer)
        had == IF d \in DOMAIN s.resources[to] THEN s.resources[to][d] ELSE 0
    IN  /\ Begun
        /\ signer \in DOMAIN s.accounts \ {Pool, to}
        /\ d \in DOMAIN s.resources[signer] /\ s.resources[signer][d] >= n
        /\ store' = [s EXCEPT !.resources[signer][d] = @ - n,
                              !.resources[to] = Put(@, d, had + n)]
        /\ UNCHANGED <<issues, withdraws, last, first, minted, missed, burned>>

(* Any query or message that reads an account *)
ReadAccount(a) ==
    /\ Begun
    /\ store' = GetAccount(store, a)
    /\ UNCHANGED <<issues, withdraws, last, first, minted, missed, burned>>

\* Defect: the last withdraw id is not exported.
RestartForgetsLast(future) ==
    LET exported == ExportAccounts(store)
    IN  /\ Begun
        /\ store' = InitGenesis(exported, DOMAIN exported.currencies, exported.accounts)
        /\ last' = {}
        /\ first' = TRUE
        /\ missed' = 0
        /\ UNCHANGED <<issues, withdraws, minted, burned>>

(* The state is exported and a chain is started from it.  The VM storage,  *)
(* the supply total, the delegations and the bans are carried over; the    *)
(* currencies are created again and the accounts stored again.  A genesis  *)
(* that Validate refuses starts no chain.                                  *)
Restart(future) ==
    LET exported == ExportAccounts(store)
    IN  /\ Begun
        /\ Validate(future)
        /\ \A id \in DOMAIN issues : HasCurrency(store, issues[id].denom)
        /\ \A id \in DOMAIN withdraws : HasCurrency(store, withdraws[id].denom)
        /\ store' = InitGenesis(exported, DOMAIN exported.currencies, exported.accounts)
        /\ first' = TRUE
        /\ missed' = 0
        /\ UNCHANGED <<issues, withdraws, last, minted, burned>>

Next ==
    \/ \E n \in 0 .. MaxAmount : BeginBlocker(n)
    \/ \E id \in IssueID, d \in Denom, n \in Amount, a \in Address \ {Pool} :
          Issue(id, d, n, a)
    \/ \E a \in Address \ {Pool} : Unstake(a) \/ ReadAccount(a)
    \/ \E d \in Denom, n \in Amount, a \in Address \ {Pool} : Withdraw(d, n, a)
    \/ \E d \in Denom : AddCurrency(d)
    \/ \E from, to \in Address, d \in Denom, n \in Amount :
          Send(from, to, d, n) \/ ScriptTransfer(from, to, d, n)
    \/ \E a \in Address, n \in Amount : Delegate(a, n)
    \/ \E future \in SUBSET DOMAIN withdraws : Restart(future)

Spec == Init /\ [][Next]_vars
-----------------------------------------------------------------------------
(* Properties *)

(* The total of the supply module is the sum of all real balances: coins   *)
(* that Issue, Withdraw, Unstake, transfers and scripts add, remove or     *)
(* move are neither lost nor resurrected by the synchronisation of         *)
(* vmauth's GetAccount and SetAccount, nor by a restart.                   *)
TotalIsSumOfBalances ==
    \A d \in Denom : store.total[d] = Sum([a \in Address |-> Balance(a, d)])

Flow(f, d) == MapThenSumSet(LAMBDA id : f[id].amount,
                            {id \in DOMAIN f : f[id].denom = d})

(* The supply total is explained by the history: the genesis, the mints,   *)
(* every recorded issue once and every recorded withdraw once, less all    *)
(* that the unstaked accounts had owned and delegated of the staking       *)
(* denominations.                                                          *)
SupplyIsExplained ==
    \A d \in Denom :
        store.total[d] + Flow(withdraws, d) + burned[d]
          = Sum([a \in DOMAIN GenesisCoins |-> GenesisCoins[a][d]])
            + (IF d = MintDenom THEN minted ELSE 0) + Flow(issues, d)

(* The ccstorage supply of a currency falls short of what the standard    *)
(* accounts really hold by no more than what the mint module paid in block *)
(* 1 of this chain, the one mint that BeginBlocker does not forward; every *)
(* other operation raises or lowers both together, and a restart counts    *)
(* the accounts anew.  The CurrencyInfo resource that Move code reads      *)
(* shows that supply.                                                      *)
CurrencyCoversAccounts ==
    store.info = store.currencies /\ \A d \in DOMAIN store.currencies :
        store.currencies[d] + (IF d = MintDenom THEN missed ELSE 0)
          >= Sum([a \in DOMAIN store.accounts |-> Balance(a, d)])

(* Withdraw ids are 0 to the last one with no gap, so that the pages of    *)
(* GetWithdrawsFiltered, which stop at the first missing id, are complete. *)
WithdrawIDsHaveNoGap ==
    DOMAIN withdraws = IF last = {} THEN {} ELSE 0 .. Max(last)

(* x/currencies/internal/keeper/invariants.go: "TotalSupply checks that    *)
(* the currency total supply and supply module amounts are equal."         *)
TotalSupply ==
    \A d \in Denom :
        store.total[d] = IF HasCurrency(store, d) THEN store.currencies[d] ELSE 0
=============================================================================
