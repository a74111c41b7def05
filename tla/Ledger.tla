-------------------------------- MODULE Ledger --------------------------------
(***************************************************************************)
(* What a node promises to whoever reads its committed states: a history   *)
(* that only grows, one state per block, each obtained from the one before *)
(* by opening a block, letting whole transactions take effect and closing  *)
(* it.  Work on a block may be thrown away at any moment, and leaves no    *)
(* trace when it is.                                                       *)
(***************************************************************************)
EXTENDS Sequences, Naturals

CONSTANTS Genesis,        \* state after InitChain
          Open(_),        \* effect of the begin blockers
          Outcomes(_, _), \* states that may follow a state when a transaction is delivered
          Close(_),       \* effect of the end blockers
          Tx,             \* transactions
          NoWork          \* no block is open

VARIABLES history, \* committed states, oldest first
          stage,   \* stage of the current block: "none", "open", "closed"
          work     \* state of the current block, or NoWork

lvars == <<history, stage, work>>

\* The state that a new block starts from.
Last == IF history = <<>> THEN Genesis ELSE history[Len(history)]

Init == history = <<>> /\ stage = "none" /\ work = NoWork

Begin == /\ stage = "none" /\ stage' = "open"
         /\ work' = Open(Last) /\ UNCHANGED history

Deliver(tx) == stage = "open" /\ UNCHANGED <<history, stage>> /\ work' \in Outcomes(work, tx)

End == /\ stage = "open" /\ stage' = "closed"
       /\ work' = Close(work) /\ UNCHANGED history

Commit == /\ stage = "closed" /\ stage' = "none"
          /\ history' = Append(history, work) /\ work' = NoWork

Abort == stage' = "none" /\ work' = NoWork /\ UNCHANGED history

Next == Begin \/ (\E tx \in Tx : Deliver(tx)) \/ End \/ Commit \/ Abort

Spec == Init /\ [][Next]_lvars
===============================================================================
