-------------------------------- MODULE MCNode --------------------------------
(***************************************************************************)
(* Node for TLC: two accounts, one of which has the account number 0, and  *)
(* transactions that conflict, pay no fee, fail half way, ask for the VM   *)
(* or have two signers.                                                    *)
(***************************************************************************)
EXTENDS Node

CONSTANTS alice, bob

MCAcc == {alice, bob}
MCAccNum == [x \in MCAcc |-> IF x = alice THEN 0 ELSE 1]

Sig(x, n) == [key |-> x, seq |-> n, num |-> MCAccNum[x], chain |-> ChainID]

Msg(type, from, to, amount, denom) ==
  [type |-> type, from |-> from, to |-> to, amount |-> amount, denom |-> denom,
   gas |-> 2, panics |-> FALSE, valid |-> TRUE]

SignedBy(x, n, fee, msgs) ==
  [signers |-> <<x>>, keys |-> <<x>>, sigs |-> <<Sig(x, n)>>,
   fee |-> fee, denom |-> "xfi", gas |-> 6, msgs |-> msgs]

Pay     == SignedBy(alice, 0, 1, <<Msg("send", alice, bob, 1, "xfi")>>)
Script  == SignedBy(bob, 0, 1, <<Msg("script", bob, bob, 0, "xfi")>>)
Free    == SignedBy(alice, 0, 0, <<Msg("send", alice, bob, 1, "xfi")>>)
HalfWay == SignedBy(alice, 1, 1, <<Msg("send", alice, bob, 1, "xfi"), Msg("send", alice, bob, 1, "lpt")>>)
Joint   == [signers |-> <<bob, alice>>, keys |-> <<bob, alice>>, sigs |-> <<Sig(bob, 0), Sig(alice, 1)>>,
            fee |-> 1, denom |-> "xfi", gas |-> 7,
            msgs |-> <<Msg("send", bob, alice, 1, "xfi"), Msg("send", alice, bob, 2, "xfi")>>]
Invalid == SignedBy(bob, 0, 1, <<[Msg("send", bob, alice, 0, "xfi") EXCEPT !.valid = FALSE]>>)

MCTxBytes == {"pay", "script", "free", "halfway", "joint", "invalid", "garbage"}

MCDecode == [t \in MCTxBytes |->
  CASE t = "pay" -> Pay [] t = "script" -> Script [] t = "free" -> Free
    [] t = "halfway" -> HalfWay [] t = "joint" -> Joint [] t = "invalid" -> Invalid
    [] t = "garbage" -> NoTx]

MCMaxBlockTxs == <<2, 1, 0>>

MCBlank == [accs |-> {}, coins |-> [x \in MCAcc |-> 0], keys |-> [x \in MCAcc |-> NoKey],
            seq |-> [x \in MCAcc |-> 0], collected |-> 0, done |-> [t \in MCTxBytes |-> 0],
            begun |-> 0, ended |-> 0]

MCGenesis == [MCBlank EXCEPT !.accs = MCAcc, !.coins = [x \in MCAcc |-> 3]]

===============================================================================
