------------------------------- MODULE PegZone -------------------------------
(***************************************************************************)
(* x/multisig composed with x/poa, whose messages it routes and whose      *)
(* validators may vote: the calls change the set of voters and the number  *)
(* of votes needed while other calls are being voted on.                   *)
(***************************************************************************)
EXTENDS Multisig, PoaKeeper

RouteHandle(p, m) == PoaMsHandler(p, m)

=============================================================================
