------------------------------ MODULE Matcher ------------------------------
(***************************************************************************)
(* How one market is cleared (x/orderbook/internal/keeper): the orders of  *)
(* the block are sorted and summed into supply and demand curves, the      *)
(* point where the curves cross gives the clearance price, and orders are  *)
(* filled pro rata up to the volume that both sides can give.              *)
(*                                                                         *)
(* An order is a record with at least the fields id, direction, price and  *)
(* quantity.  Match returns a record whose field err is "none", "nomatch"  *)
(* (an error that MatcherPool.Process only logs), "internal" (an error on  *)
(* which it panics) or "zerodiv" (the division by zero of Dec.Quo, which   *)
(* panics by itself).                                                      *)
(***************************************************************************)
EXTENDS Dec, Sequences, SequencesExt, FiniteSetsExt

Bid == "bid"
Ask == "ask"

Fail(kind) == [err |-> kind]

----------------------------------------------------------------------------
(* Sorting and aggregating *)

ByPriceAscIDAsc(a, b) ==
    a.price < b.price \/ (a.price = b.price /\ a.id < b.id)

\* A plausible slip: the time priority of bids forgotten.
IDAscForBids(a, b) == ByPriceAscIDAsc(a, b)

ByPriceAscIDDesc(a, b) ==
    a.price < b.price \/ (a.price = b.price /\ a.id > b.id)

\* From the lowest ask up; an order at the price of the last aggregate is
\* summed into it.
NewAskOrderAggregates(orders) ==
    LET Add(aggs, o) ==
            LET top == [price    |-> o.price,
                        quantity |-> o.quantity + IF aggs = <<>> THEN 0 ELSE Last(aggs).quantity]
            IN  IF aggs # <<>> /\ Last(aggs).price = o.price THEN Append(Front(aggs), top)
                ELSE Append(aggs, top)
        upto[k \in 0 .. Len(orders)] ==
            IF k = 0 THEN <<>> ELSE Add(upto[k - 1], orders[k])
    IN  upto[Len(orders)]

\* From the highest bid down, aggregates prepended.
NewBidOrderAggregates(orders) ==
    LET Add(aggs, o) ==
            LET top == [price    |-> o.price,
                        quantity |-> o.quantity + IF aggs = <<>> THEN 0 ELSE Head(aggs).quantity]
            IN  IF aggs # <<>> /\ Head(aggs).price = o.price THEN <<top>> \o Tail(aggs)
                ELSE <<top>> \o aggs
        after[k \in 1 .. Len(orders) + 1] ==
            IF k > Len(orders) THEN <<>> ELSE Add(after[k + 1], orders[k])
    IN  after[1]

----------------------------------------------------------------------------
(* Supply and demand curves *)

SupplyDemandBalance(i) ==
    IF i.supply > i.demand THEN 1 ELSE IF i.supply = i.demand THEN 0 ELSE -1

HasVolumes(i) == i.supply # 0 /\ i.demand # 0

addAskOrders(aggs) ==
    [k \in DOMAIN aggs |->
        [price |-> aggs[k].price, supply |-> aggs[k].quantity, demand |-> 0]]

addBidOrders(curves, aggs) ==
    LET Add(c, agg) ==
            LET gtePriceIdx == Min({k \in DOMAIN c : c[k].price >= agg.price}
                                        \cup {Len(c) + 1})
                found == gtePriceIdx <= Len(c) /\ c[gtePriceIdx].price = agg.price
            IN  SubSeq(c, 1, gtePriceIdx - 1)
                    \o <<[price  |-> agg.price,
                          supply |-> IF found THEN c[gtePriceIdx].supply ELSE 0,
                          demand |-> agg.quantity]>>
                    \o SubSeq(c, IF found THEN gtePriceIdx + 1 ELSE gtePriceIdx, Len(c))
        upto[k \in 0 .. Len(aggs)] ==
            IF k = 0 THEN curves ELSE Add(upto[k - 1], aggs[k])
    IN  upto[Len(aggs)]

\* An inserted row takes the supply of the nearest row below that has one and
\* the demand of the nearest row above.
fixZeroSupplyDemand(c) ==
    LET left(k)  == {j \in 1 .. k : c[j].supply # 0}
        right(k) == {j \in k .. Len(c) : c[j].demand # 0}
    IN  [k \in DOMAIN c |->
            [price  |-> c[k].price,
             supply |-> IF left(k) = {} THEN 0 ELSE c[Max(left(k))].supply,
             demand |-> IF right(k) = {} THEN 0 ELSE c[Min(right(k))].demand]]

\* sort.SliceIsSorted with the two "less" functions of NewSDCurves: no element
\* is less than the one before it.
AsksSorted(aggs) ==
    \A k \in 2 .. Len(aggs) :
        ~ (aggs[k].price < aggs[k - 1].price /\ aggs[k].quantity <= aggs[k - 1].quantity)

BidsSorted(aggs) ==
    \A k \in 2 .. Len(aggs) :
        ~ (aggs[k].price < aggs[k - 1].price /\ aggs[k].quantity >= aggs[k - 1].quantity)

NewSDCurves(askAggs, bidAggs) ==
    IF askAggs = <<>> \/ bidAggs = <<>> THEN Fail("nomatch")
    ELSE IF ~ AsksSorted(askAggs) \/ ~ BidsSorted(bidAggs) THEN Fail("internal")
    ELSE IF Last(bidAggs).price < Head(askAggs).price THEN Fail("nomatch")
    ELSE [err    |-> "none",
          curves |-> fixZeroSupplyDemand(addBidOrders(addAskOrders(askAggs), bidAggs))]

----------------------------------------------------------------------------
(* The crossing point *)

\* The price of the crossing point i: averaged over the points to the right
\* that have the same volumes (the "corridor").
corridorPrice(c, i) ==
    LET same == {j \in i + 1 .. Len(c) :
                    \A k \in i + 1 .. j : /\ c[k].supply = c[i].supply
                                          /\ c[k].demand = c[i].demand}
    IN  IF same = {} THEN c[i].price ELSE (c[i].price + c[Max(same)].price) \div 2

\* The first point with volumes and a minimal |supply - demand|.  sort.Slice
\* is an insertion sort, hence stable, for up to 6 points: the instances that
\* use this definition have at most 4 prices.
closestPoint(c) ==
    LET diff(k) == IF c[k].supply > c[k].demand THEN c[k].supply - c[k].demand
                   ELSE c[k].demand - c[k].supply
        filled  == {k \in DOMAIN c : HasVolumes(c[k])}
        best    == {k \in filled : \A j \in filled : diff(k) <= diff(j)}
    IN  IF filled = {} THEN [price |-> 0, supply |-> 0, demand |-> 0]
        ELSE c[Min(best)]

atPrice(i, price) == [price |-> price, supply |-> i.supply, demand |-> i.demand]

\* A plausible slip: the crossing point taken whether it has volumes or not.
CrossPointUnchecked(c) ==
    LET cross == {i \in 2 .. Len(c) :
                    SupplyDemandBalance(c[i - 1]) # SupplyDemandBalance(c[i])}
    IN  IF c[1].supply = c[1].demand /\ HasVolumes(c[1]) THEN c[1]
        ELSE IF cross # {} THEN atPrice(c[Min(cross)], corridorPrice(c, Min(cross)))
        ELSE closestPoint(c)

getCrossPoint(c) ==
    LET cross == {i \in 2 .. Len(c) :
                    SupplyDemandBalance(c[i - 1]) # SupplyDemandBalance(c[i])}
        i     == Min(cross)
    IN  IF c[1].supply = c[1].demand /\ HasVolumes(c[1]) THEN c[1]
        ELSE IF cross # {} /\ HasVolumes(c[i])
             THEN atPrice(c[i], corridorPrice(c, i))
        ELSE IF cross # {} /\ HasVolumes(c[i - 1]) THEN c[i - 1]
        ELSE closestPoint(c)

GetClearanceState(c) ==
    LET cross   == getCrossPoint(c)
        demand  == NewDec(cross.demand)
        supply  == NewDec(cross.supply)
        proRata == Quo(supply, demand)
        invert  == Quo(NewDec(1), proRata)
    IN  IF cross.price = 0 \/ ~ HasVolumes(cross) THEN Fail("internal")
        ELSE IF proRata = 0 THEN Fail("zerodiv")
        ELSE [err           |-> "none",
              price         |-> cross.price,
              proRata       |-> proRata,
              proRataInvert |-> invert,
              maxBidVolume  |-> NewDec(RoundInt(Mul(demand, proRata))),
              maxAskVolume  |-> NewDec(RoundInt(Mul(supply, invert)))]

----------------------------------------------------------------------------
(* Filling *)

\* A plausible slip: the rounded-up shares are not capped by the volume.
ShareUncapped(quantity, rate, matched, max) == RoundInt(Ceil(Mul(NewDec(quantity), rate)))

\* The part of an order's quantity that is filled at the given pro rata rate:
\* rounded up, and capped by what is left of the maximal volume.
share(quantity, rate, matched, max) ==
    LET part == Ceil(Mul(NewDec(quantity), rate))
    IN  RoundInt(IF matched + part > max THEN max - matched ELSE part)

\* The rate of the side that is filled without pro rata adjustment.
Full == -1

\* One turn of a fill loop.  A turn that finds the volume reached or an order
\* that cannot be filled breaks the loop.
FillOne(acc, o, price, crosses, rate, max) ==
    LET quantity == IF rate = Full THEN o.quantity
                    ELSE share(o.quantity, rate, acc.matched, max)
    IN  IF acc.stop \/ ~ crosses \/ acc.matched = max THEN [acc EXCEPT !.stop = TRUE]
        ELSE IF quantity = 0 THEN acc
        ELSE [stop    |-> FALSE,
              matched |-> acc.matched + NewDec(quantity),
              fills   |-> Append(acc.fills, [order            |-> o,
                                             clearancePrice   |-> price,
                                             quantityFilled   |-> quantity,
                                             quantityUnfilled |-> o.quantity - quantity])]

NoFills == [fills |-> <<>>, matched |-> 0, stop |-> FALSE]

\* From the highest price down.
getBidOrderFills(bids, state) ==
    LET after[k \in 1 .. Len(bids) + 1] ==
            IF k > Len(bids) THEN NoFills
            ELSE FillOne(after[k + 1], bids[k], state.price, bids[k].price >= state.price,
                         IF state.proRata > NewDec(1) THEN Full ELSE state.proRata,
                         state.maxBidVolume)
    IN  after[1]

\* From the lowest price up.
getAskOrderFills(asks, state) ==
    LET upto[k \in 0 .. Len(asks)] ==
            IF k = 0 THEN NoFills
            ELSE FillOne(upto[k - 1], asks[k], state.price, asks[k].price <= state.price,
                         IF state.proRata > NewDec(1) THEN state.proRataInvert ELSE Full,
                         state.maxAskVolume)
    IN  upto[Len(asks)]

\* bids and asks in the order they were added.
Match(bids, asks) ==
    LET sortedBids == SortSeq(bids, ByPriceAscIDDesc)
        sortedAsks == SortSeq(asks, ByPriceAscIDAsc)
        sd         == NewSDCurves(NewAskOrderAggregates(sortedAsks),
                                  NewBidOrderAggregates(sortedBids))
        state      == GetClearanceState(sd.curves)
        bidFills   == getBidOrderFills(sortedBids, state)
        askFills   == getAskOrderFills(sortedAsks, state)
    IN  IF sd.err # "none" THEN Fail(sd.err)
        ELSE IF state.err # "none" THEN Fail(state.err)
        ELSE [err              |-> "none",
              clearanceState   |-> state,
              matchedBidVolume |-> bidFills.matched,
              matchedAskVolume |-> askFills.matched,
              orderFills       |-> bidFills.fills \o askFills.fills]
============================================================================
