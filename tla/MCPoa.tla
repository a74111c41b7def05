-------------------------------- MODULE MCPoa --------------------------------
(* Four addresses, of which a genesis lists up to three, possibly twice.   *)
(* The counter has two bits: a fourth validator makes it wrap.             *)
EXTENDS Poa

CONSTANTS a1, a2, a3, a4

MCAddress == {a1, a2, a3, a4}
MCGenesis == {<<>>, <<a1>>, <<a1, a2>>, <<a1, a2, a3>>, <<a1, a2, a1>>}
=============================================================================
