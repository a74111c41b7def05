-------------------------------- MODULE Dex --------------------------------
(***************************************************************************)
(* The exchange: x/markets, x/orders and x/orderbook composed.  Between    *)
(* two ends of blocks markets are created and orders posted and revoked;   *)
(* the end of a block revokes the orders whose time is over (orders) and   *)
(* then clears every market and executes the fills (orderbook).  A restart *)
(* exports the state at height zero and imports it.                        *)
(*                                                                         *)
(* Block time counts blocks.  Bank balances hold what an owner can spend;  *)
(* the orders module account holds what is locked.                         *)
(***************************************************************************)
EXTENDS Matcher, FiniteSets

CONSTANTS Owner,        \* accounts that trade
          ModuleAcc,    \* the module account of x/orders
          Denom,        \* currencies registered in ccstorage
          Unit,         \* denom -> 10^decimals of the currency
          Pair,         \* <<base, quote>> pairs somebody asks a market for
          Price,        \* prices, in the smallest quote unit per whole base
          Quantity,     \* quantities, in the smallest base unit
          Ttl,          \* times to live, in blocks
          InitBalance,  \* what every owner starts with, of each denom
          MaxOrders,    \* bound: orders ever posted
          MaxTime       \* bound: blocks

ASSUME DexAssumption ==
    /\ ModuleAcc \notin Owner
    /\ Pair \subseteq Denom \X Denom
    /\ \A d \in Denom : Unit[d] > 0 /\ Precision % Unit[d] = 0
    /\ 0 \notin Price \cup Quantity \cup Ttl
    \* supply over demand does not round to 0, on which Process panics (see MatcherPool)
    /\ \A q \in Quantity : MaxOrders * q < 2 * Precision

VARIABLES
    markets,    \* market id -> <<base, quote>>
    lastMarket, \* the last market id, NoID before the first market
    store,      \* the orders, the last order id and the balances
    history,    \* <<market id, height>> -> history item
    now,        \* time of the block in progress
    height      \* its height

vars == <<markets, lastMarket, store, history, now, height>>

NoID == -1

Account == Owner \cup {ModuleAcc}

----------------------------------------------------------------------------
(* Amounts *)

Bad == [ok |-> FALSE]
Coin(d, n) == [ok |-> TRUE, denom |-> d, amount |-> n]

UintToDec(d, n) == n * (Precision \div Unit[d])
MinDecimal(d) == Precision \div Unit[d]

BaseToQuoteQuantity(pair, price, quantity) ==
    LET quote == Mul(UintToDec(pair[2], price), UintToDec(pair[1], quantity))
    IN  IF quote < MinDecimal(pair[2]) THEN Bad
        ELSE Coin(pair[2], Quo(quote, MinDecimal(pair[2])) \div Precision)

LockCoin(o) ==
    IF o.direction = Bid THEN BaseToQuoteQuantity(o.pair, o.price, o.quantity)
    ELSE Coin(o.pair[1], o.quantity)

FillCoin(f) ==
    IF f.order.direction = Bid THEN Coin(f.order.pair[1], f.quantityFilled)
    ELSE BaseToQuoteQuantity(f.order.pair, f.clearancePrice, f.quantityFilled)

\* Bad when there is nothing to refund or when it is too small.
RefundCoin(f) ==
    IF f.order.direction = Bid /\ f.clearancePrice < f.order.price
    THEN BaseToQuoteQuantity(f.order.pair, f.order.price - f.clearancePrice, f.quantityFilled)
    ELSE Bad

\* Bank and supply keepers.
AddCoins(st, a, coin) ==
    IF coin.ok THEN [st EXCEPT !.balance[a][coin.denom] = @ + coin.amount] ELSE st

CanSend(st, from, coin) == coin.ok /\ st.balance[from][coin.denom] >= coin.amount

SendCoins(st, from, to, coin) ==
    AddCoins([st EXCEPT !.balance[from][coin.denom] = @ - coin.amount], to, coin)

----------------------------------------------------------------------------
(* x/orders *)

nextID(st) == IF st.last = NoID THEN 0 ELSE st.last + 1

set(st, o) == [st EXCEPT !.orders = (o.id :> o) @@ @]

del(st, id) == [st EXCEPT !.orders = Restrict(st.orders, DOMAIN st.orders \ {id})]

\* A plausible slip: coins unlocked, the order forgotten in the store.
RevokeKeepsOrder(st, id) ==
    LET coin == LockCoin(st.orders[id])
    IN  IF CanSend(st, ModuleAcc, coin)
        THEN [ok |-> TRUE, st |-> SendCoins(st, ModuleAcc, st.orders[id].owner, coin)]
        ELSE [ok |-> FALSE, st |-> st]

\* UnlockOrderCoins, then del.
RevokeOrder(st, id) ==
    LET coin == LockCoin(st.orders[id])
    IN  IF CanSend(st, ModuleAcc, coin)
        THEN [ok |-> TRUE,
              st |-> del(SendCoins(st, ModuleAcc, st.orders[id].owner, coin), id)]
        ELSE [ok |-> FALSE, st |-> st]

\* A plausible slip: an order lives one block too long.
ExpiredLater(o, time) == time - o.createdAt > o.ttl

Expired(o, time) == time - o.createdAt >= o.ttl

\* EndBlocker of x/orders; an order that cannot be revoked is only logged.
RevokeExpired(st, time) ==
    LET Turn(s, id) == IF Expired(s.orders[id], time) THEN RevokeOrder(s, id).st ELSE s
    IN  FoldLeft(Turn, st, SetToSortSeq(DOMAIN st.orders, <))

\* A plausible slip: what was filled, not what is left, stays in the book.
ExecuteKeepsFilled(st, fill, time) ==
    LET paid == AddCoins(AddCoins(st, fill.order.owner, FillCoin(fill)),
                         fill.order.owner, RefundCoin(fill))
    IN  IF ~ FillCoin(fill).ok THEN st
        ELSE IF fill.quantityUnfilled = 0 THEN del(paid, fill.order.id)
        ELSE set(paid, [fill.order EXCEPT !.quantity = fill.quantityFilled, !.updatedAt = time])

\* A plausible slip: an order stays in the store when nothing of it is left.
ExecuteLeavesEmpty(st, fill, time) ==
    LET paid == AddCoins(AddCoins(st, fill.order.owner, FillCoin(fill)),
                         fill.order.owner, RefundCoin(fill))
    IN  IF ~ FillCoin(fill).ok THEN st
        ELSE set(paid, [fill.order EXCEPT !.quantity = fill.quantityUnfilled, !.updatedAt = time])

\* One turn of ExecuteOrderFills.  The coins are added to the owner's account,
\* none is taken from the module account.  A fill whose coin is too small is
\* logged and skipped.
ExecuteOrderFill(st, fill, time) ==
    LET paid == AddCoins(AddCoins(st, fill.order.owner, FillCoin(fill)),
                         fill.order.owner, RefundCoin(fill))
    IN  IF ~ FillCoin(fill).ok THEN st
        ELSE IF fill.quantityUnfilled = 0 THEN del(paid, fill.order.id)
        ELSE set(paid, [fill.order EXCEPT !.quantity = fill.quantityUnfilled, !.updatedAt = time])

ExecuteOrderFills(st, fills, time) ==
    FoldLeft(LAMBDA s, f : ExecuteOrderFill(s, f, time), st, fills)

----------------------------------------------------------------------------
(* x/orderbook *)

\* A plausible slip: a matcher that keeps the orders of the markets before it.
QueueNotEmptied(st, m, d) ==
    LET ids == {i \in DOMAIN st.orders : st.orders[i].market <= m /\ st.orders[i].direction = d}
        seq == SetToSortSeq(ids, <)
    IN  [k \in DOMAIN seq |-> st.orders[seq[k]]]

\* The orders of a market in the order of the store iterator (big-endian ids).
Queue(st, m, d) ==
    LET ids == {i \in DOMAIN st.orders : st.orders[i].market = m /\ st.orders[i].direction = d}
        seq == SetToSortSeq(ids, <)
    IN  [k \in DOMAIN seq |-> st.orders[seq[k]]]

\* MatcherPool.Process: the markets that have orders and were cleared.
Results(st) ==
    LET all == [m \in {st.orders[i].market : i \in DOMAIN st.orders} |->
                    Match(Queue(st, m, Bid), Queue(st, m, Ask))]
    IN  Restrict(all, {m \in DOMAIN all : all[m].err = "none"})

NewHistoryItem(result, time) ==
    [clearancePrice   |-> result.clearanceState.price,
     matchedBidVolume |-> result.matchedBidVolume \div Precision,
     matchedAskVolume |-> result.matchedAskVolume \div Precision,
     timestamp        |-> time]

\* All fills were computed before the first is executed.  The markets come in
\* the order of a Go map; MarketOrderIsIrrelevant says that any order will do.
ProcessResults(st, results, time) ==
    FoldSet(LAMBDA m, s : ExecuteOrderFills(s, results[m].orderFills, time),
            st, DOMAIN results)

\* PrepareForZeroHeight: the latest item of each market, moved to height 0.
Squash(h) ==
    [k \in {<<x[1], 0>> : x \in DOMAIN h} |->
        h[<<k[1], Max({x[2] : x \in {y \in DOMAIN h : y[1] = k[1]}})>>]]

----------------------------------------------------------------------------
(* Genesis *)

\* GenesisState.Validate of x/markets and of x/orders: the last id is the
\* highest id, and there is one exactly when there are objects.
ValidIDs(ids, last) ==
    /\ (last = NoID) = (ids = {})
    /\ last # NoID => last = Max(ids)

ValidOrders(st, time) ==
    /\ \A i \in DOMAIN st.orders : LET o == st.orders[i] IN
            /\ o.price # 0 /\ o.quantity # 0
            /\ o.createdAt <= o.updatedAt /\ o.updatedAt <= time
    /\ ValidIDs(DOMAIN st.orders, st.last)

ValidHistory(h, time) ==
    \A k \in DOMAIN h : h[k].clearancePrice # 0 /\ h[k].timestamp <= time

----------------------------------------------------------------------------

Init ==
    /\ markets = <<>>
    /\ lastMarket = NoID
    /\ store = [orders |-> <<>>, last |-> NoID,
                balance |-> [a \in Account |-> [d \in Denom |->
                                IF a = ModuleAcc THEN 0 ELSE InitBalance]]]
    /\ history = <<>>
    /\ now = 0
    /\ height = 1

\* MsgCreateMarket (the pairs are of registered currencies).
AddMarket(pair) ==
    /\ \A m \in DOMAIN markets : markets[m] # pair
    /\ lastMarket' = IF lastMarket = NoID THEN 0 ELSE lastMarket + 1
    /\ markets' = (lastMarket' :> pair) @@ markets
    /\ UNCHANGED <<store, history, now, height>>

\* MsgPostOrder.
PostOrder(owner, pair, direction, price, quantity, ttl) ==
    \E m \in DOMAIN markets :
        LET o == [id |-> nextID(store), owner |-> owner, market |-> m, pair |-> pair,
                  direction |-> direction, price |-> price, quantity |-> quantity,
                  ttl |-> ttl, createdAt |-> now, updatedAt |-> now]
        IN  /\ markets[m] = pair
            /\ CanSend(store, owner, LockCoin(o))
            /\ store' = [set(SendCoins(store, owner, ModuleAcc, LockCoin(o)), o)
                            EXCEPT !.last = o.id]
            /\ UNCHANGED <<markets, lastMarket, history, now, height>>

\* MsgRevokeOrder: only the owner may.
CancelOrder(owner, id) ==
    /\ id \in DOMAIN store.orders
    /\ store.orders[id].owner = owner
    /\ RevokeOrder(store, id).ok
    /\ store' = RevokeOrder(store, id).st
    /\ UNCHANGED <<markets, lastMarket, history, now, height>>

\* The EndBlockers of orders and orderbook, in this order, and the next block.
EndBlock ==
    /\ now < MaxTime
    /\ \E live \in {RevokeExpired(store, now)} : \E results \in {Results(live)} :
            /\ store' = ProcessResults(live, results, now)
            /\ history' = [k \in {<<m, height>> : m \in DOMAIN results} |->
                                NewHistoryItem(results[k[1]], now)] @@ history
    /\ now' = now + 1
    /\ height' = height + 1
    /\ UNCHANGED <<markets, lastMarket>>

\* The genesis of the three modules passes the checks of their InitGenesis.
Importable ==
    /\ ValidIDs(DOMAIN markets, lastMarket)
    /\ ValidOrders(store, now)
    /\ \A i \in DOMAIN store.orders : store.orders[i].market \in DOMAIN markets
    /\ ValidHistory(history, now)

\* Export for height zero and import into a new chain, when the import does not
\* panic.
Restart ==
    /\ Importable
    /\ height > 1
    /\ history' = Squash(history)
    /\ height' = 1
    /\ UNCHANGED <<markets, lastMarket, store, now>>

Next ==
    \/ \E pair \in Pair : AddMarket(pair)
    \/ \E o \in Owner, pair \in Pair, d \in {Bid, Ask}, p \in Price, q \in Quantity, t \in Ttl :
            nextID(store) < MaxOrders /\ PostOrder(o, pair, d, p, q, t)
    \/ \E o \in Owner, id \in DOMAIN store.orders : CancelOrder(o, id)
    \/ EndBlock
    \/ Restart

Spec == Init /\ [][Next]_vars

----------------------------------------------------------------------------
(* Properties *)

Order == [id : Nat, owner : Owner, market : DOMAIN markets, pair : Pair,
          direction : {Bid, Ask}, price : Price, quantity : Nat \ {0}, ttl : Ttl,
          createdAt : 0 .. now, updatedAt : 0 .. now]

Sum(S, op(_)) == MapThenSumSet(op, S)

Claims(d) ==
    Sum({i \in DOMAIN store.orders :
            LockCoin(store.orders[i]).ok /\ LockCoin(store.orders[i]).denom = d},
        LAMBDA i : LockCoin(store.orders[i]).amount)

\* The orders module account always holds enough to unlock every live order:
\* RevokeOrder never fails for want of funds, whatever was partly filled, at
\* whatever rounding, before.
LocksAreCovered == \A d \in Denom : store.balance[ModuleAcc][d] >= Claims(d)

\* After the end of a block an order whose time to live is over is still there
\* only when its remaining quantity is worth less than the smallest quote unit,
\* so that its lock coin cannot be built (x/orders/abci.go, RevokeOrder).
OnlyDustOutlivesTtl ==
    [][now' > now =>
        \A i \in DOMAIN store'.orders :
            now - store'.orders[i].createdAt >= store'.orders[i].ttl =>
                ~ LockCoin(store'.orders[i]).ok]_vars

\* The node can be restarted from its own export exactly while no order was
\* ever posted or the newest one is still live: ExportGenesis of x/orders writes
\* the counter as it is and Validate wants it to be the highest id of a live
\* order.  Nothing else ever stands in the way, neither what was filled in part
\* nor the markets and the history.
ImportNeedsNewestOrder ==
    Importable <=> store.last = NoID \/ store.last \in DOMAIN store.orders

Open(st, m, d) ==
    Sum({i \in DOMAIN st.orders : st.orders[i].market = m /\ st.orders[i].direction = d},
        LAMBDA i : st.orders[i].quantity)

\* A restart keeps, of the history of every market, the latest item
\* (PrepareForZeroHeight), and it is a genesis that Validate accepts.
LatestTradeSurvives ==
    /\ ValidHistory(history', now)
    /\ \A k \in DOMAIN history : \E l \in DOMAIN history' :
            l[1] = k[1] /\ l[2] = 0 /\ history'[l].timestamp >= history[k].timestamp

\* What the history says was bought in a block left the book: the open bids of
\* the market shrink by the matched volume, and the open asks by at most that
\* (a fill too small to be paid is skipped); without a history item the block
\* leaves the orders as the time-outs left them.  A restart does not lose the
\* latest item of a market.
HistoryTellsTheTrades ==
    [][/\ height' < height => LatestTradeSurvives
       /\ now' > now =>
        LET live == RevokeExpired(store, now)
        IN  \A m \in DOMAIN markets :
                LET bought == Open(live, m, Bid) - Open(store', m, Bid)
                    sold   == Open(live, m, Ask) - Open(store', m, Ask)
                IN  IF <<m, height>> \in DOMAIN history'
                    THEN /\ bought = history'[<<m, height>>].matchedBidVolume
                         /\ sold <= history'[<<m, height>>].matchedAskVolume
                         /\ sold >= 0
                    ELSE bought = 0 /\ sold = 0]_vars

\* MatcherPool.Process ranges over a Go map, whose order differs from node to
\* node (matcher_pool.go:36): whatever the order in which the cleared markets'
\* fills are executed, the block leaves the same orders and balances.
MarketOrderIsIrrelevant ==
    [][now' > now =>
        \A live \in {RevokeExpired(store, now)} : \A results \in {Results(live)} :
            \A order \in SetToSeqs(DOMAIN results) :
                store' = FoldLeft(LAMBDA s, m : ExecuteOrderFills(s, results[m].orderFills, now),
                                  live, order)]_vars

\* "Order is auto-revoked by TTL timeout." (docs/dex.md)
TtlRevokes ==
    [][now' > now =>
        \A i \in DOMAIN store'.orders :
            now - store'.orders[i].createdAt < store'.orders[i].ttl]_vars

\* "ExecuteOrderFills processes orderFills transfers fund on full / partial
\* order execution." (x/orders/internal/keeper/funds.go): a transfer creates no
\* coins, so no more of a denom is held than there was at first.
FillsAreTransfers ==
    \A d \in Denom :
        Sum(Account, LAMBDA a : store.balance[a][d]) <= InitBalance * Cardinality(Owner)
============================================================================
