------------------------------ MODULE PoaKeeper ------------------------------
(***************************************************************************)
(* The keeper of x/poa as operators on its store.  The store is a record:  *)
(*   store   the addresses that have a validator entry,                    *)
(*   list    the validator list kept under ValidatorsListKey,              *)
(*   amount  the uint16 counter kept under ValidatorsCountKey,             *)
(*   max,min the module parameters.                                        *)
(* The three copies of the validator set are written one after another by  *)
(* every operation; an absent list is the empty one, an absent counter 0.  *)
(* An operation returns [ok, st]: st is the store as the operation leaves  *)
(* it, which after a failure may be half-written; whoever called it        *)
(* decides whether st is kept.  Ethereum addresses are left out: the       *)
(* messages' ValidateBasic has already refused a malformed one.            *)
(***************************************************************************)
EXTENDS Naturals, Sequences, SequencesExt, Uint16

HasValidator(p, a) == a \in p.store

GetValidators(p) == p.list

GetValidatorAmount(p) == p.amount

\* Defect: half of the validators is enough.
EnoughIsHalf(p) == GetValidatorAmount(p) \div 2

GetEnoughConfirmations(p) == GetValidatorAmount(p) \div 2 + 1

addValidatorToList(list, a) == Append(list, a)

\* Defect: the list is not written back.
listNotStored(list, a) == list

removeValidatorFromList(list, a) == RemoveFirst(list, a)

increaseValidatorsAmount(n) == Inc(n)

decreaseValidatorsAmount(n) == Dec(n)

addValidator(p, a, checkLimits) ==
  IF \/ HasValidator(p, a)
     \/ checkLimits /\ Inc(GetValidatorAmount(p)) > p.max
  THEN [ok |-> FALSE, st |-> p]
  ELSE [ok |-> TRUE,
        st |-> [p EXCEPT !.store  = @ \cup {a},
                         !.list   = addValidatorToList(@, a),
                         !.amount = increaseValidatorsAmount(@)]]

removeValidator(p, a, checkLimits) ==
  IF \/ ~HasValidator(p, a)
     \/ checkLimits /\ Dec(GetValidatorAmount(p)) < p.min
  THEN [ok |-> FALSE, st |-> p]
  ELSE [ok |-> TRUE,
        st |-> [p EXCEPT !.store  = @ \ {a},
                         !.list   = removeValidatorFromList(@, a),
                         !.amount = decreaseValidatorsAmount(@)]]

AddValidator(p, a) == addValidator(p, a, TRUE)

\* Defect: the minimum is not checked.
RemoveUnchecked(p, a) == removeValidator(p, a, FALSE)

RemoveValidator(p, a) == removeValidator(p, a, TRUE)

\* When the new validator cannot be added the old one is already gone.
ReplaceValidator(p, old, new) ==
  LET removed == removeValidator(p, old, FALSE)
  IN  IF removed.ok THEN addValidator(removed.st, new, FALSE) ELSE removed

-----------------------------------------------------------------------------
(* The multisig messages of x/poa; ValidateBasic refuses a replacement of  *)
(* a validator by itself.                                                  *)

PoaMsg(Address) ==
  [type : {"add_validator", "remove_validator"}, address : Address]
  \cup {m \in [type : {"replace_validator"}, old : Address, new : Address] :
            m.old # m.new}

PoaMsHandler(p, m) ==
  CASE m.type = "add_validator"     -> AddValidator(p, m.address)
    [] m.type = "remove_validator"  -> RemoveValidator(p, m.address)
    [] m.type = "replace_validator" -> ReplaceValidator(p, m.old, m.new)

-----------------------------------------------------------------------------
(* Genesis: InitGenesis starts from an empty store and adds the listed     *)
(* validators one by one, limits checked; ExportGenesis writes the list.   *)

EmptyPoa(max, min) ==
  [store |-> {}, list |-> <<>>, amount |-> 0, max |-> max, min |-> min]

PoaExportGenesis(p) == [validators |-> GetValidators(p), max |-> p.max, min |-> p.min]

=============================================================================
