------------------------------- MODULE MCOracle -------------------------------
(* A small instance of Oracle. *)
EXTENDS Oracle

CONSTANTS o1, o2, o3, n

xy == <<"x", "y">>
yx == <<"y", "x">>

MCGenesisAssets == <<[code |-> xy, oracles |-> <<o1, o2, o3>>]>>

Post(from, code, ask, bid, at) ==
  [type |-> "post_price", from |-> from, code |-> code, ask |-> ask, bid |-> bid,
   at |-> IF at = ZeroTime THEN at ELSE GenesisTime + at - 1]

MCMsgs ==
  {Post(o1, xy, 4, 3, at) : at \in {1, 2}} \cup
  {Post(o2, xy, 7, 3, 3), Post(o2, xy, 7, 0, 1), Post(o3, xy, 30, 150, 2), Post(o3, xy, -1, 1, 1), Post(o1, xy, 5, 200, 1),
   Post(o1, xy, 4, 2, ZeroTime), Post(o1, yx, 6, 6, 2), Post(n, xy, 9, 9, 1), Post(NoAddress, xy, 9, 9, 1)} \cup
  {[type |-> "add_oracle", nominee |-> x, oracle |-> o2, code |-> yx] : x \in {n, o1}} \cup
  {[type |-> "set_oracles", nominee |-> n, oracles |-> <<o1, o3>>, code |-> xy],
   [type |-> "set_oracles", nominee |-> n, oracles |-> <<>>, code |-> xy],
   [type |-> "add_asset", nominee |-> n, asset |-> [code |-> yx, oracles |-> <<o1>>]],
   [type |-> "set_asset", nominee |-> n, asset |-> [code |-> yx, oracles |-> <<o3, o1>>]]}
===============================================================================
