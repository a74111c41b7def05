------------------------------- MODULE MCDex -------------------------------
(* Values for Dex: the base currency has a unit of 2, so that half a unit of
   quote is met; see the .cfg files. *)
EXTENDS Dex

CONSTANTS btc, xfi, alice, bob

MCUnit == (btc :> 2) @@ (xfi :> 1)

OnePair == {<<btc, xfi>>}
TwoPairs == {<<btc, xfi>>, <<xfi, btc>>}

\* The two owners start alike and are treated alike.
Symmetry == Permutations({alice, bob})
============================================================================
