------------------------------- MODULE MCGenesis ------------------------------
EXTENDS Genesis

MCDenoms == {"xfi", "sxfi", "eth"}
MCDefaultCurrencies == <<"xfi", "sxfi">>
MCAddrs == <<"b", "pool", "a", "fake">>
MCGenBalances == [a \in {"a"} |-> 1]
MCWriteSets ==
  {<<[text |-> "AB", key |-> "ab", form |-> "ok"], [text |-> "ab", key |-> "ab", form |-> "one byte path"]>>,
   <<[text |-> "zz", key |-> "zz", form |-> "not hex"]>>,
   <<[text |-> "a", key |-> "a", form |-> "short address"]>>,
   <<[text |-> "ab", key |-> "ab", form |-> "empty path"]>>}
Row(a, n) == [parsed |-> TRUE, addr |-> a, amount |-> n]
MCStakerReports ==
  {<<>>, <<Row("b", 2)>>, <<Row("b", 2), Row("a", 1)>>, <<Row("a", 1), Row("a", 1)>>,
   <<[parsed |-> FALSE, addr |-> "a", amount |-> 0]>>}

\* Testnets that bond sxfi; "a" joined before its pool was opened.  One has an
\* entry of every kind that carries a time or a height, the other lost its newest
\* order.
Coins(x, s, e) == [d \in MCDenoms |-> CASE d = "xfi" -> x [] d = "sxfi" -> s [] d = "eth" -> e]
Bare == [prices |-> {}, orders |-> {}, lastOrder |-> 0, history |-> {}, withdraws |-> {}, calls |-> {}]
MCDated ==
  {[prices |-> {[code |-> "xfi_eth", young |-> TRUE]},
    orders |-> {[id |-> 1, market |-> 1, young |-> TRUE]}, lastOrder |-> 1,
    history |-> {[market |-> 1, height |-> h, young |-> TRUE] : h \in {1, 2}},
    withdraws |-> {[denom |-> "sxfi", young |-> TRUE]},
    calls |-> {[id |-> 0, height |-> 1, open |-> FALSE], [id |-> 1, height |-> 2, open |-> TRUE]}],
   [Bare EXCEPT !.lastOrder = 2]}
Testnet(dated) ==
  [acc |-> [x \in {"a", "pool"} |-> IF x = "a" THEN [num |-> 0, coins |-> Coins(1, 2, 1)]
                                   ELSE [num |-> 1, coins |-> Coins(0, 1, 0)]],
   next |-> 2, total |-> Coins(1, 3, 1), ccs |-> [d \in {"xfi", "sxfi", "eth"} |-> Coins(1, 3, 1)[d]],
   bond |-> "sxfi", val |-> [tokens |-> 1, shares |-> Unit],
   shares |-> [x \in Range(MCAddrs) |-> IF x = "a" THEN Unit ELSE 0],
   rewards |-> [x \in Range(MCAddrs) |-> 0],
   issues |-> <<>>, markets |-> <<[id |-> 1, base |-> "xfi", quote |-> "sxfi"]>>, lastMarket |-> 1,
   nominees |-> <<>>, assets |-> <<[code |-> "xfi_eth", oracles |-> <<"a">>]>>,
   poa |-> <<"a">>, min |-> 1, max |-> PoaMax, vm |-> [k \in {"ab"} |-> "ok"], dated |-> dated]
MCTestnets == {Testnet(dated) : dated \in MCDated}
===============================================================================
