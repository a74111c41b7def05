---------------------------- MODULE MCCurrencies ----------------------------
(* An instance of Currencies for TLC: a module account, a genesis account  *)
(* and an account that does not exist yet; as on the main net one currency *)
(* is both minted and staked, and governance may register a second one.    *)
EXTENDS Currencies, TLC

CONSTANTS pool, alice, bob, xfi, lpt

MCDenom == {xfi, lpt}
MCGenesisCoins ==
    pool :> [d \in MCDenom |-> 0] @@ alice :> [d \in MCDenom |-> IF d = lpt THEN 0 ELSE 1]
=============================================================================
