--------------------------------- MODULE Poa ---------------------------------
(***************************************************************************)
(* x/poa as a state machine.  Validators change only through multisig      *)
(* calls, and a call whose handler fails leaves no trace (its cache        *)
(* context is dropped).  Governance may set the two limits to any value:   *)
(* the parameter store has no validators of its own.  With the largest     *)
(* uint16 as the maximum the check of addValidator passes at a full        *)
(* counter, which then wraps.  The chain may be                            *)
(* stopped, exported and started again from the exported genesis, whose    *)
(* validators InitGenesis adds one by one and panics on the first refusal. *)
(***************************************************************************)
EXTENDS PoaKeeper

CONSTANTS Address,     \* account addresses
          Limits,      \* values governance may give to MaxValidators and MinValidators
          Genesis      \* validator lists a chain may be started with

ASSUME LimitsAssumption  == Limits \subseteq 0..MaxUint16
ASSUME GenesisAssumption == Genesis \subseteq Seq(Address)

VARIABLES poa,         \* the module's store
          mode,        \* "importing" while InitGenesis runs, then "running"; or "panicked"
          exported,    \* the genesis the running chain was started from
          pending      \* validators of it InitGenesis has still to add

vars == <<poa, mode, exported, pending>>

Import(vals, max, min) ==
  /\ poa'      = EmptyPoa(max, min)
  /\ mode'     = "importing"
  /\ exported' = vals
  /\ pending'  = vals

Init ==
  \E vals \in Genesis, max, min \in Limits :
     /\ poa      = EmptyPoa(max, min)
     /\ mode     = "importing"
     /\ exported = vals
     /\ pending  = vals

\* One turn of InitGenesis' loop over state.Validators.
InitGenesisAdd ==
  /\ mode = "importing" /\ pending # <<>>
  /\ LET added == AddValidator(poa, Head(pending))
     IN  IF added.ok
         THEN poa' = added.st /\ pending' = Tail(pending) /\ UNCHANGED mode
         ELSE mode' = "panicked" /\ UNCHANGED <<poa, pending>>
  /\ UNCHANGED exported

InitGenesisDone ==
  /\ mode = "importing" /\ pending = <<>>
  /\ mode' = "running"
  /\ UNCHANGED <<poa, exported, pending>>

\* A multisig call executed by the multisig EndBlocker: the store a failed
\* handler leaves behind is dropped.
ExecuteMsMsg(m) ==
  /\ mode = "running"
  /\ PoaMsHandler(poa, m).ok
  /\ poa' = PoaMsHandler(poa, m).st
  /\ UNCHANGED <<mode, exported, pending>>

\* A parameter change proposal passed by governance.
ChangeParams(max, min) ==
  /\ mode = "running"
  /\ poa' = [poa EXCEPT !.max = max, !.min = min]
  /\ UNCHANGED <<mode, exported, pending>>

\* The chain is stopped, exported and started from the export.
Restart ==
  /\ mode = "running"
  /\ LET g == PoaExportGenesis(poa) IN Import(g.validators, g.max, g.min)

Next ==
  \/ InitGenesisAdd
  \/ InitGenesisDone
  \/ \E m \in PoaMsg(Address) : ExecuteMsMsg(m)
  \/ \E max, min \in Limits : ChangeParams(max, min)
  \/ Restart

Spec == Init /\ [][Next]_vars

-----------------------------------------------------------------------------

PoaState ==
  [store : SUBSET Address, list : Seq(Address), amount : 0..MaxUint16,
   max : Limits, min : Limits]

\* Type invariant: the store holds addresses, a list of addresses and uint16s.
TypeOK ==
  /\ poa \in PoaState
  /\ mode \in {"importing", "running", "panicked"}
  /\ exported \in Seq(Address)
  /\ pending \in Seq(Address)

\* The three copies of one validator set agree, as far as a uint16 can tell.
Agree(p) ==
  /\ ToSet(p.list) = p.store
  /\ IsInjective(p.list)
  /\ p.amount = Uint16(Len(p.list))

\* The three copies of the validator set that addValidator and
\* removeValidator write in turn (the entries, the list, the counter) always
\* describe the same set: the list has no duplicates and the counter is its
\* length, modulo 2^16 once the list has outgrown the counter.
\* GetEnoughConfirmations reads only the counter, SubmitCall and ConfirmCall
\* only the entries, ExportGenesis only the list, so a disagreement would
\* change who may vote or how many must.
CopiesAgree == Agree(poa)

\* The number of confirmations GetEnoughConfirmations asks for can always be
\* given by the validators there are, and no two disjoint groups of them can
\* both give it, unless there are more validators than a uint16 counts: the
\* counter has then wrapped and asks for too few.
MajorityReachableAndUnique ==
  Cardinality(poa.store) \in 1..MaxUint16 =>
     LET enough == GetEnoughConfirmations(poa)
     IN  enough <= Cardinality(poa.store) /\ 2 * enough > Cardinality(poa.store)

\* Import of a genesis written by ExportGenesis rebuilds the exported list,
\* in its order.
ImportRestoresList == mode = "importing" => poa.list \o pending = exported

\* InitGenesis panics only on a genesis that names a validator twice or more
\* validators than its own limit allows: never because of what an earlier
\* turn of the loop left behind.
PanicOnlyOnBadGenesis ==
  mode = "panicked" => ~IsInjective(exported) \/ Len(exported) > poa.max

\* The counter wraps only on a chain whose governance sets a limit to the
\* largest uint16 (params.go has no upper bound for a proposal): with any
\* smaller limits the list is never as long as the counter can count.
WrapNeedsLargestLimit == MaxUint16 \in Limits \/ Len(poa.list) < MaxUint16

\* A multisig call never takes the validator count under the minimum in
\* force, and over the maximum only from a full counter on, where the
\* curValidators+1 of addValidator wraps to 0 and passes any maximum;
\* although ReplaceValidator checks neither limit and governance may have
\* moved the limits past the present count.
LimitsHoldOnChange ==
  [][mode = "running" /\ mode' = "running" =>
       /\ Len(poa'.list) > Len(poa.list) =>
             Len(poa'.list) <= poa.max \/ Len(poa.list) >= MaxUint16
       /\ Len(poa'.list) < Len(poa.list) => Len(poa'.list) >= poa.min]_vars
=============================================================================
