-------------------------------- MODULE Genesis -------------------------------
(***************************************************************************)
(* The life of a genesis file: dnode init writes it, genesis commands edit *)
(* it, validate-genesis judges it, a chain starts from it, runs and is     *)
(* exported to the next file, as it is or squashed to height zero          *)
(* (ZeroHeight).  Commands and exports run one at a time on one file; a    *)
(* command that fails leaves the file alone.                               *)
(***************************************************************************)
EXTENDS ZeroHeight, TLC

CONSTANTS
  Addrs,         \* addresses in the order of the account store
  DefaultCurrencies,  \* of x/ccstorage
  Codes,         \* asset codes
  WriteSets,     \* JSON files of read-genesis-write-set
  StakerReports, \* CSV files of the stakers' report
  PoaMax,        \* DefaultMaxValidators
  Testnets,      \* chains that run already
  NoFile, NoChain,
  MaxSteps    \* bound on commands, blocks and exports

VARIABLES
  file,    \* genesis.json
  chain,   \* the state of the running chain
  origin,  \* the file a chain was last started from
  last,    \* the last start or export: [did], with the chain before and after
  spent    \* commands, blocks and exports so far

vars == <<file, chain, origin, last, spent>>

Nothing == [did |-> "nothing"]

NoEntries == [prices |-> {}, orders |-> {}, lastOrder |-> 0, history |-> {}, withdraws |-> {}, calls |-> {}]

-------------------------------------------------------------------------------
(* Files *)

\* DefaultGenesisState of the modules.
DefaultGenesis ==
  [acc |-> <<>>, ccs |-> DefaultCurrencies, markets |-> <<>>, lastMarket |-> 0,
   nominees |-> <<>>, assets |-> <<>>, poa |-> <<>>, min |-> 1, max |-> PoaMax, ws |-> <<>>,
   bond |-> "stake", dated |-> NoEntries, issues |-> <<>>, total |-> ZeroCoins, val |-> [tokens |-> 0, shares |-> 0],
   shares |-> [a \in Range(Addrs) |-> 0], rewards |-> [a \in Range(Addrs) |-> 0]]

\* OverrideGenesisStateDefaults: the parameters of x/staking, of which the bond
\* denomination is modelled, and those of x/poa.
OverrideStaking(state) == [state EXCEPT !.bond = "xfi"]

OverridePoa(state) == [state EXCEPT !.max = PoaMax, !.min = 1]

Registers(f, denom) == denom \in Range(f.ccs)

\* Market ids count from 1 here, 0 stands for a missing last id.
ValidMarkets(f) ==
  LET ids == {f.markets[i].id : i \in DOMAIN f.markets}
  IN  /\ Cardinality(ids) = Len(f.markets)
      /\ f.lastMarket = IF ids = {} THEN 0 ELSE Max(ids)

ValidAccounts(f) == IsInjective([i \in DOMAIN f.acc |-> f.acc[i].addr])

ValidCurrencies(f) == IsInjective(f.ccs)

ValidPoaValidators(f) == f.min >= 1 /\ f.max <= PoaMax /\ IsInjective(f.poa)

\* Validate of x/poa, the numbers of validators included.
ValidPoa(f) == ValidPoaValidators(f) /\ Len(f.poa) \in f.min..f.max

\* Validate of x/vm.  A write operation is [text, key, form]: operations are
\* told apart by their text, values by the bytes the text stands for.
ValidWriteSet(f) ==
  /\ \A i \in DOMAIN f.ws : f.ws[i].form \notin {"not hex", "short address"}
  /\ IsInjective([i \in DOMAIN f.ws |-> f.ws[i].text])

\* Validate of x/oracle: asset codes and nominees are not empty.
ValidOracle(f) == \A i \in DOMAIN f.assets : f.assets[i].code # ""

\* Validate of x/orders, times apart: the last id is that of the newest order.
ValidOrders(f) ==
  LET ids == {o.id : o \in f.dated.orders}
  IN  f.dated.lastOrder = IF ids = {} THEN 0 ELSE Max(ids)

\* validate-genesis: ModuleBasics.ValidateGenesis.  The time and the height are
\* not known: Validate(time.Time{}) and Validate(-1) do not look at either.
ValidGenesis(f) ==
  /\ ValidAccounts(f) /\ ValidCurrencies(f) /\ ValidMarkets(f) /\ ValidPoa(f) /\ ValidWriteSet(f)
  /\ ValidOracle(f) /\ ValidOrders(f)

-------------------------------------------------------------------------------
(* Commands *)

Command(next) ==
  /\ spent < MaxSteps
  /\ file' = next
  /\ spent' = spent + 1
  /\ UNCHANGED <<chain, origin, last>>

\* init: refused on an existing file unless told to overwrite it.
InitCmd(overwrite) ==
  /\ file = NoFile \/ overwrite
  /\ Command(OverridePoa(OverrideStaking(DefaultGenesis)))

\* set-currency: replaces the parameters of a known denomination.
AddGenesisCurrencyInfo(denom) ==
  /\ file # NoFile
  /\ Command([file EXCEPT !.ccs = IF Registers(file, denom) THEN @ ELSE Append(@, denom)])

\* add-genesis-account: NewGenesisAccountRaw has number 0; no denomination is
\* looked up.
AddGenesisAccountCmd(addr, coins) ==
  /\ file # NoFile
  /\ \A i \in DOMAIN file.acc : file.acc[i].addr # addr
  /\ Command([file EXCEPT !.acc = Append(@, [addr |-> addr, coins |-> coins, num |-> 0])])

\* add-market-gen: the search for the quote skips the currency that is the base.
AddMarketGenCmd(base, quote) ==
  /\ file # NoFile
  /\ Registers(file, base)
  /\ Registers(file, quote) /\ quote # base
  /\ Command([file EXCEPT !.lastMarket = @ + 1,
                          !.markets = Append(@, [id |-> file.lastMarket + 1, base |-> base, quote |-> quote])])

\* add-oracle-nominees-gen: the given nominees replace the old ones.
AddOracleNomineesCmd(addresses) ==
  /\ file # NoFile
  /\ Command([file EXCEPT !.nominees = addresses])

\* add-oracle-asset-gen: a known asset gets the oracles, another is appended.
AddAssetGenCmd(code, oracles) ==
  /\ file # NoFile
  /\ oracles # <<>>
  /\ Command([file EXCEPT !.assets =
       IF \E i \in DOMAIN @ : @[i].code = code
       THEN LET i == CHOOSE k \in DOMAIN @ : @[k].code = code /\ \A j \in 1..(k - 1) : @[j].code # code
            IN  [@ EXCEPT ![i] = [code |-> code, oracles |-> oracles]]
       ELSE Append(@, [code |-> code, oracles |-> oracles])])

\* add-genesis-poa-validator: validated but for the number of validators.
AddGenesisPoAValidatorCmd(addr) ==
  LET next == [file EXCEPT !.poa = Append(@, addr)]
  IN  /\ file # NoFile
      /\ ValidPoaValidators(next)
      /\ Command(next)

\* read-genesis-write-set: the file's content replaces the state of x/vm and
\* is not validated.
AddGenesisWSFromFileCmd(ws) ==
  /\ file # NoFile
  /\ Command([file EXCEPT !.ws = ws])

-------------------------------------------------------------------------------
(* The start of a chain *)

\* Defect: accounts are taken in the order of the file.
SanitizeNothing(accounts) == accounts

\* Sanitize: by account number; the few accounts of one number keep their order.
Sanitize(accounts) ==
  LET Before(i, j) == accounts[i].num < accounts[j].num \/ (accounts[i].num = accounts[j].num /\ i < j)
      order == SetToSortSeq(DOMAIN accounts, Before)
  IN  [k \in DOMAIN order |-> accounts[order[k]]]

\* genaccounts InitGenesis: accounts are numbered anew; SetAccount panics on
\* coins of a denomination that is not registered.
InitAccounts(c, accounts) ==
  LET Apply(acc, ga) ==
        IF Failed(acc) THEN Error
        ELSE IF \E d \in Denoms : ga.coins[d] > 0 /\ d \notin DOMAIN acc.ccs THEN Error
        ELSE NewAccount(Registered(acc, ga.addr, ga.coins), ga.addr, ga.coins)
  IN  FoldLeft(Apply, c, Sanitize(accounts))

\* x/vm InitGenesis: the bytes are stored whatever their length.
InitWriteSet(ws) ==
  IF \E i \in DOMAIN ws : ws[i].form = "not hex" THEN Error
  ELSE [k \in {ws[i].key : i \in DOMAIN ws} |-> ws[Max({i \in DOMAIN ws : ws[i].key = k})].form]

\* x/poa InitGenesis: AddValidator refuses a known address and one too many.
PoaStarts(f) == IsInjective(f.poa) /\ Len(f.poa) <= f.max

\* InitGenesis of x/currencies and x/markets look currencies up, x/oracle
\* assets and x/orders markets.
ReferencesKnown(f) ==
  /\ \A i \in DOMAIN f.issues : Registers(f, f.issues[i].denom)
  /\ \A w \in f.dated.withdraws : Registers(f, w.denom)
  /\ \A i \in DOMAIN f.markets : Registers(f, f.markets[i].base) /\ Registers(f, f.markets[i].quote)
  /\ \A p \in f.dated.prices : \E i \in DOMAIN f.assets : f.assets[i].code = p.code
  /\ \A o \in f.dated.orders : \E i \in DOMAIN f.markets : f.markets[i].id = o.market

\* InitGenesis validates again with the genesis time, in x/oracle, x/orders,
\* x/orderbook and x/currencies.
TimesPass(f) ==
  \A e \in f.dated.prices \cup f.dated.orders \cup f.dated.history \cup f.dated.withdraws : ~e.young

\* And with the height, 0, in x/multisig and x/orderbook.
HeightsPass(f) ==
  \A e \in f.dated.calls \cup f.dated.history : e.height <= 0

\* InitChainer: the modules in the order of SetOrderInitGenesis.  x/staking
\* opens its pool, x/supply counts the coins if the file has no total.
Started(f) ==
  LET values == InitWriteSet(f.ws)
      empty == [acc |-> <<>>, next |-> 0, total |-> ZeroCoins, ccs |-> [d \in Range(f.ccs) |-> 0],
                bond |-> f.bond, val |-> f.val, shares |-> f.shares, rewards |-> f.rewards,
                issues |-> f.issues, markets |-> f.markets, lastMarket |-> f.lastMarket,
                nominees |-> f.nominees, assets |-> f.assets, poa |-> f.poa, min |-> f.min, max |-> f.max,
                vm |-> values, dated |-> f.dated]
      paid == InitAccounts(empty, f.acc)
      open == IF Failed(paid) \/ Pool \in DOMAIN paid.acc THEN paid ELSE NewAccount(paid, Pool, ZeroCoins)
  IN  IF Failed(values) \/ ~ValidCurrencies(f) \/ Failed(open) THEN Error
      ELSE IF ~PoaStarts(f) \/ ~ReferencesKnown(f) \/ ~ValidOracle(f) THEN Error
      ELSE IF ~ValidOrders(f) \/ ~TimesPass(f) \/ ~HeightsPass(f) THEN Error
      ELSE [open EXCEPT !.total = IF f.total = ZeroCoins THEN [d \in Denoms |-> Holdings(open, d)] ELSE f.total]

\* The genesis time is moved past all that was exported.
Aged(f) ==
  LET Old(es) == {[e EXCEPT !.young = FALSE] : e \in es}
  IN  [f EXCEPT !.dated = [@ EXCEPT !.prices = Old(@), !.orders = Old(@), !.history = Old(@), !.withdraws = Old(@)]]

\* A node starts a new chain from the file, or panics.  The export leaves the
\* genesis time as it was (external); operators move it or not.
InitChain(moved) ==
  /\ file # NoFile /\ chain = NoChain
  /\ LET f == IF moved THEN Aged(file) ELSE file
     IN  /\ \E c \in {Started(f)} :
              /\ chain' = IF Failed(c) THEN NoChain ELSE c
              /\ last' = [did |-> IF Failed(c) THEN "start panics" ELSE "started"]
         /\ origin' = f
         /\ file' = f
  /\ UNCHANGED spent

-------------------------------------------------------------------------------
(* Blocks *)

Block(next) ==
  /\ spent < MaxSteps
  /\ chain' = next
  /\ spent' = spent + 1
  /\ UNCHANGED <<file, origin, last>>

Known(c, a) == a \in DOMAIN c.acc

\* bank AddCoins: an unknown account is created with the coin.
Credited(c, a, denom, n) ==
  LET coins == [IF Known(c, a) THEN c.acc[a].coins ELSE ZeroCoins EXCEPT ![denom] = @ + n]
  IN  IF Known(c, a) THEN [c EXCEPT !.acc = (a :> [num |-> @[a].num, coins |-> coins]) @@ @]
      ELSE NewAccount(Registered(c, a, coins), a, coins)

Debited(c, a, denom, n) ==
  [c EXCEPT !.acc = (a :> [@[a] EXCEPT !.coins = [@ EXCEPT ![denom] = @ - n]]) @@ @]

\* IssueCurrency.
Issue(payee, n) ==
  /\ chain # NoChain
  /\ "sxfi" \in DOMAIN chain.ccs
  /\ LET paid == Credited(chain, payee, "sxfi", n)
     IN  Block([paid EXCEPT !.issues = Append(@, [payee |-> payee, denom |-> "sxfi", amount |-> n]),
                            !.ccs = [@ EXCEPT !["sxfi"] = @ + n],
                            !.total = [@ EXCEPT !["sxfi"] = @ + n]])

\* MsgSend (external).
Send(from, to, denom) ==
  /\ chain # NoChain
  /\ Known(chain, from) /\ from # to
  /\ chain.acc[from].coins[denom] > 0
  /\ Block(Credited(Debited(chain, from, denom, 1), to, denom, 1))

\* x/staking (external): coins are bonded for shares at the current rate.
Delegate(a, n) ==
  /\ chain # NoChain
  /\ Known(chain, a)
  /\ chain.acc[a].coins[chain.bond] >= n
  /\ LET got == IF chain.val.shares = 0 THEN n * Unit ELSE (n * chain.val.shares) \div chain.val.tokens
     IN  Block([Credited(Debited(chain, a, chain.bond, n), Pool, chain.bond, n) EXCEPT
                  !.val = [tokens |-> @.tokens + n, shares |-> @.shares + got],
                  !.shares = [@ EXCEPT ![a] = @ + got]])

\* x/slashing (external): bonded tokens are burned.
Slash ==
  /\ chain # NoChain
  /\ chain.val.tokens > 1
  /\ Block([Debited(chain, Pool, chain.bond, 1) EXCEPT
               !.val = [@ EXCEPT !.tokens = @ - 1],
               !.total = [@ EXCEPT ![chain.bond] = @ - 1]])

\* x/mint and x/distribution (external): a delegator earns a coin.
Reward(a) ==
  /\ chain # NoChain
  /\ chain.shares[a] > 0
  /\ Block([Credited(chain, Pool, chain.bond, 1) EXCEPT
               !.rewards = [@ EXCEPT ![a] = @ + 1],
               !.total = [@ EXCEPT ![chain.bond] = @ + 1],
               !.ccs = [@ EXCEPT ![chain.bond] = @ + 1]])

\* SetCurrentPrices of x/oracle: the price of an asset is replaced.
PostPrice(code) ==
  /\ chain # NoChain
  /\ \E i \in DOMAIN chain.assets : chain.assets[i].code = code
  /\ Block([chain EXCEPT !.dated.prices = {p \in @ : p.code # code} \cup {[code |-> code, young |-> TRUE]}])

\* SubmitCall of x/multisig, in a block above height 0.
SubmitCall(a) ==
  /\ chain # NoChain
  /\ \E i \in DOMAIN chain.poa : chain.poa[i] = a
  /\ Block([chain EXCEPT !.dated.calls =
              @ \cup {[id |-> Cardinality(@), height |-> 1, open |-> TRUE]}])

-------------------------------------------------------------------------------
(* Export *)

\* genaccounts ExportGenesis: accounts in the order of the store.
ExportedAccounts(c) ==
  LET known == SelectSeq(Addrs, LAMBDA a : Known(c, a))
  IN  [i \in DOMAIN known |-> [addr |-> known[i], coins |-> c.acc[known[i]].coins, num |-> c.acc[known[i]].num]]

\* MustParsePathKey panics on a key that is not a 20 byte address and a path of
\* at least one byte.
KeysParse(values) == \A k \in DOMAIN values : values[k] \notin {"short address", "empty path"}

\* x/vm ExportGenesis.
ExportedWriteSet(values) ==
  LET keys == SetToSeq(DOMAIN values)
  IN  [i \in DOMAIN keys |-> [text |-> keys[i], key |-> keys[i], form |-> values[keys[i]]]]

\* ExportAppStateAndValidators, once the chain is prepared.
ExportedFile(c) ==
  [acc |-> ExportedAccounts(c), ccs |-> SetToSeq(DOMAIN c.ccs), markets |-> c.markets, lastMarket |-> c.lastMarket,
   nominees |-> c.nominees, assets |-> c.assets, poa |-> c.poa, min |-> c.min, max |-> c.max,
   ws |-> ExportedWriteSet(c.vm), dated |-> c.dated,
   bond |-> c.bond, issues |-> c.issues, total |-> c.total, val |-> c.val, shares |-> c.shares, rewards |-> c.rewards]

\* The operator replaces the chain by the exported file.  With --height the file
\* is the one an export at that block would have written.
Exported(c, how) ==
  /\ spent < MaxSteps
  /\ spent' = spent + 1
  /\ UNCHANGED origin
  /\ \/ /\ ~KeysParse(c.vm)
        /\ last' = [did |-> "export panics"]
        /\ UNCHANGED <<file, chain>>
     \/ /\ KeysParse(c.vm)
        /\ file' = ExportedFile(c)
        /\ last' = how
        /\ chain' = NoChain

Export ==
  /\ chain # NoChain
  /\ Exported(chain, [did |-> "exported"])

\* An export that fails changes nothing: its context is not committed.
ExportForZeroHeight(variant, env, rows) ==
  /\ chain # NoChain
  /\ spent < MaxSteps
  /\ \E c \in {PrepareForZeroHeight(chain, variant, env, rows)} :
       IF Failed(c) THEN UNCHANGED vars
       ELSE Exported(c, [did |-> "squashed", variant |-> variant, rows |-> rows, before |-> chain, after |-> c])

-------------------------------------------------------------------------------

Init ==
  /\ file = NoFile
  /\ chain \in {NoChain} \cup Testnets
  /\ origin = NoFile
  /\ last = Nothing
  /\ spent = 0

Users == Range(Addrs) \ {Pool, FakeVal}

Commands ==
  \/ \E overwrite \in BOOLEAN : InitCmd(overwrite)
  \/ \E d \in Denoms : AddGenesisCurrencyInfo(d)
  \/ \E a \in Users, d \in Denoms : AddGenesisAccountCmd(a, [ZeroCoins EXCEPT ![d] = 2])
  \/ \E b, q \in Denoms : AddMarketGenCmd(b, q)
  \/ \E a \in Users : AddOracleNomineesCmd(<<a>>)
  \/ \E code \in Codes, a \in Users : AddAssetGenCmd(code, <<a>>)
  \/ \E a \in Users : AddGenesisPoAValidatorCmd(a)
  \/ \E ws \in WriteSets : AddGenesisWSFromFileCmd(ws)

Blocks ==
  \/ \E a \in Users, n \in 1..2 : Issue(a, n)
  \/ \E from \in Users, to \in Users \cup {FakeVal}, d \in Denoms : Send(from, to, d)
  \/ \E a \in Users : Delegate(a, 1)
  \/ Slash
  \/ \E a \in Users : Reward(a)
  \/ \E code \in Codes : PostPrice(code)
  \/ \E a \in Users : SubmitCall(a)

Exports ==
  \/ Export
  \/ \E variant \in {"default", "debug", "mainnet"}, rows \in StakerReports :
       ExportForZeroHeight(variant, TRUE, rows)
  \/ ExportForZeroHeight("default", FALSE, <<>>)

Next == Commands \/ (\E moved \in BOOLEAN : InitChain(moved)) \/ Blocks \/ Exports

Spec == Init /\ [][Next]_vars

-------------------------------------------------------------------------------
(* Properties *)

\* A file that validate-genesis accepts starts, but for what it cannot see or
\* does not look at: coins of a currency the file does not register, which
\* add-genesis-account lets in; entries later than the genesis time, when the
\* operators left it where it was; calls and history above height 0, which a
\* plain export writes and an export for height zero never does.  What InitGenesis
\* looks up, the currencies of markets, issues and withdraws, the assets of prices
\* and the markets of orders, is always there: no command and no export tears
\* them apart.  And a running chain can be exported: MustParsePathKey panics only
\* on a key that came with the write set of the first file, as an empty path or
\* as an address that validate-genesis refuses.
ValidFileLives ==
  /\ (last.did = "start panics" /\ ValidGenesis(origin)) =>
       \/ \E i \in DOMAIN origin.acc : \E d \in Denoms : origin.acc[i].coins[d] > 0 /\ ~Registers(origin, d)
       \/ ~TimesPass(origin)
       \/ ~HeightsPass(origin)
  /\ last.did = "squashed" => HeightsPass(file)
  /\ last.did = "export panics" =>
       \E i \in DOMAIN origin.ws : origin.ws[i].form \in {"short address", "empty path"}

\* Accounts keep their numbers over an export and a start, so that what was
\* signed for a number stays valid: the export lists accounts by address and
\* InitGenesis numbers them anew.
NumbersSurvive ==
  (chain # NoChain /\ origin # NoFile) =>
    LET nums == {origin.acc[i].num : i \in DOMAIN origin.acc}
    IN  nums = 0..(Len(origin.acc) - 1) =>
          \A i \in DOMAIN origin.acc : chain.acc[origin.acc[i].addr].num = origin.acc[i].num

TotalIsHeld(c) == \A d \in Denoms : c.total[d] = Holdings(c, d)

\* The squash keeps the total of x/supply equal to the coins of the accounts,
\* which no invariant of the node checks: it can fail only if the account of
\* the debug validator existed and is overwritten.
SquashKeepsSupply ==
  (last.did = "squashed" /\ TotalIsHeld(last.before)) =>
    TotalIsHeld(last.after) \/ (last.variant = "debug" /\ FakeVal \in DOMAIN last.before.acc)

\* What the stakers' report promises is in the exported accounts: a payee it
\* lists has at least the coins issued to it and given to it at genesis, and
\* one that was short has exactly these, a fraction lost to truncation apart.
StakersAreWhole ==
  last.did = "squashed" =>
    \A i \in DOMAIN last.rows :
      LET a == last.rows[i].addr
          c == last.after
          given == last.rows[i].amount + (IF a \in DOMAIN GenBalances THEN GenBalances[a] ELSE 0)
          owned == c.acc[a].coins["xfi"] + (IF c.bond = "xfi" THEN c.rewards[a] ELSE 0)
          staked == IF c.shares[a] = 0 THEN 0 ELSE TokensFromShares(c.val, c.shares[a])
          topped == c.acc[a].coins # SquashVMAuth(last.before, Options(last.variant)).acc[a].coins
      IN  /\ owned * Unit + staked >= given * Unit
          /\ topped => owned * Unit + staked < (given + 1) * Unit

===============================================================================
