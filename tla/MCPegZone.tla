------------------------------ MODULE MCPegZone ------------------------------
(* Three accounts, of which one or two are validators at the start.  The     *)
(* limits on their number decide which of the messages can be submitted: a   *)
(* call that raises the majority for the next one, a call that lowers it, a  *)
(* third voter, and a replacement that fails half way after an addition.     *)
EXTENDS PegZone

CONSTANTS v1, v2, v3, u1, u2

MCAccount == {v1, v2, v3}
MCUniqueID == {u1, u2}

MCMsg == {[type |-> "add_validator",     address |-> v2],
          [type |-> "add_validator",     address |-> v3],
          [type |-> "remove_validator",  address |-> v2],
          [type |-> "replace_validator", old |-> v1, new |-> v2]}

MCMsgAddOnly == {[type |-> "add_validator", address |-> v3]}

MCPoa(list, max, min) ==
  [store |-> ToSet(list), list |-> list, amount |-> Len(list), max |-> max, min |-> min]

MCApps == {MCPoa(<<v1>>, 2, 1), MCPoa(<<v1, v2>>, 2, 1), MCPoa(<<v1, v2>>, 3, 2)}
=============================================================================
