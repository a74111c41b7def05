---------------------------- MODULE MatcherPool ----------------------------
(***************************************************************************)
(* The matcher pool that orderbook's EndBlocker builds in every block      *)
(* (x/orderbook/internal/keeper/matcher_pool.go): the orders are added one *)
(* by one, in the order of their ids, each to the matcher of its market,   *)
(* and Process then clears every market.                                   *)
(***************************************************************************)
EXTENDS Matcher, FiniteSets

CONSTANTS Market,       \* market ids
          Price,        \* prices of the orders, in quote units per base unit
          Quantity,     \* quantities, in base units
          MaxOrders     \* bound: orders added in a block

VARIABLES
    pool,       \* market -> the bid and the ask queue of its matcher
    results     \* market -> the result of Match; empty until Process

vars == <<pool, results>>

Order == [id : 0 .. MaxOrders - 1, market : Market, direction : {Bid, Ask},
          price : Price, quantity : Quantity]

NewMatcher == [bid |-> <<>>, ask |-> <<>>]

NoResults == [m \in {} |-> Fail("nomatch")]

Count == LET len(m) == Len(pool[m].bid) + Len(pool[m].ask)
         IN  MapThenSumSet(len, DOMAIN pool)

Init == pool = <<>> /\ results = NoResults

\* MatcherPool.AddOrder and Matcher.AddOrder; the refusals of the latter (zero
\* price or quantity, a foreign market) do not happen to stored orders, which
\* PostOrder has validated.
AddOrder(order) ==
    /\ results = NoResults
    /\ pool' = LET old == IF order.market \in DOMAIN pool THEN pool[order.market]
                          ELSE NewMatcher
               IN  (order.market :> [old EXCEPT ![order.direction] = Append(@, order)]) @@ pool
    /\ UNCHANGED results

\* Every matcher is run.  The markets are visited in an arbitrary order (Go map
\* iteration); matchers share nothing, so the function of results is the same.
Process ==
    /\ results = NoResults
    /\ pool # <<>>
    /\ results' = [m \in DOMAIN pool |-> Match(pool[m].bid, pool[m].ask)]
    /\ UNCHANGED pool

Next ==
    \/ \E m \in Market, d \in {Bid, Ask}, p \in Price, q \in Quantity :
            /\ Count < MaxOrders
            /\ AddOrder([id |-> Count, market |-> m, direction |-> d,
                         price |-> p, quantity |-> q])
    \/ Process

Spec == Init /\ [][Next]_vars

----------------------------------------------------------------------------
(* Properties *)

Bids(m) == ToSet(pool[m].bid)
Asks(m) == ToSet(pool[m].ask)
Fills(m) == ToSet(results[m].orderFills)
Done == {m \in DOMAIN results : results[m].err = "none"}

SumOf(S) == MapThenSumSet(LAMBDA o : o.quantity, S)

Supply(m, p) == SumOf({o \in Asks(m) : o.price <= p})
Demand(m, p) == SumOf({o \in Bids(m) : o.price >= p})

\* A book that asks for 2 * Precision times what is offered at one price: the
\* quotient of supply and demand rounds to zero.
Lopsided(m) ==
    \E p \in Price : Supply(m, p) > 0 /\ Demand(m, p) >= 2 * Precision * Supply(m, p)

\* A market is cleared exactly when some bid is at least as high as some ask,
\* and Process panics only on a book whose demand is at least 2 * 10^18 times
\* its supply at some price: there ProRata rounds to zero and OneDec().Quo
\* divides by it (pq_curves.go:127).  The internal errors of NewSDCurves and
\* GetClearanceState on which it panics by intent (matcher_pool.go:41), an
\* unsorted aggregate or a crossing point without price or volumes, happen to
\* no book.
CrossingBooksClear ==
    \A m \in DOMAIN results :
        LET crossing == \E b \in Bids(m), a \in Asks(m) : b.price >= a.price
        IN  /\ results[m].err # "internal"
            /\ results[m].err = "zerodiv" => Lopsided(m)
            /\ crossing <=> results[m].err # "nomatch"

\* The books whose volumes are at most half of Precision (10^18 in the code):
\* a volume times a rounded quotient is then rounded to the exact product.
Exact == {m \in Done : 2 * SumOf(Bids(m) \cup Asks(m)) <= Precision}

\* What is bought is what is sold, in a book of less than 10^18 / 2 base units:
\* both sides are filled up to the smaller of the supply and the demand at the
\* clearance price, no order at a worse price than its own nor for more than
\* its quantity (getBidOrderFills, getAskOrderFills), and the volumes that go
\* into the history are those of the fills.
BoughtIsSold ==
    \A m \in Exact :
        LET r      == results[m]
            p      == r.clearanceState.price
            filled(d) == MapThenSumSet(LAMBDA f : f.quantityFilled,
                                       {f \in Fills(m) : f.order.direction = d})
        IN  /\ filled(Bid) = filled(Ask)
            /\ filled(Bid) = Min({Supply(m, p), Demand(m, p)})
            /\ r.matchedBidVolume = NewDec(filled(Bid))
            /\ r.matchedAskVolume = NewDec(filled(Ask))
            /\ \A f \in Fills(m) :
                    /\ f.clearancePrice = p
                    /\ f.order.direction = Bid => f.order.price >= p
                    /\ f.order.direction = Ask => f.order.price <= p
                    /\ f.quantityFilled \in 1 .. f.order.quantity
                    /\ f.quantityUnfilled = f.order.quantity - f.quantityFilled

\* "orders came first (lower ID) should be executed firstly" (matcher.go): when
\* an order is filled, so is every order of its side with a better price, or
\* with the same price and a lower id, and, unless the volumes are too large
\* for the rounding of Dec, no less than its pro rata share.
Before(a, b) ==
    \/ a.direction = Bid /\ a.price > b.price
    \/ a.direction = Ask /\ a.price < b.price
    \/ a.price = b.price /\ a.id < b.id

PriorityIsKept ==
    \A m \in Done : \A f \in Fills(m) : \A o \in Bids(m) \cup Asks(m) :
        (o.direction = f.order.direction /\ Before(o, f.order)) =>
            LET p     == f.clearancePrice
                total == IF o.direction = Bid THEN Demand(m, p) ELSE Supply(m, p)
            IN  \E g \in Fills(m) :
                    /\ g.order = o
                    /\ m \in Exact => NewDec(g.quantityFilled) * total
                                        >= o.quantity * results[m].matchedBidVolume
============================================================================
