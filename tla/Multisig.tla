------------------------------- MODULE Multisig -------------------------------
(***************************************************************************)
(* x/multisig: calls submitted by one validator, confirmed by the others   *)
(* and executed, failed or rejected by the EndBlocker.                     *)
(*                                                                         *)
(* The modules behind the multisig router (x/poa, x/currencies) are one    *)
(* variable, app, that the router's handlers change; PegZone gives the     *)
(* handlers their definition.  Transactions of a block are atomic and      *)
(* sequential; a failed one changes nothing and is a stuttering step.      *)
(* The two loops of the EndBlocker are taken one turn at a time, with      *)
(* nothing else enabled between the turns.                                 *)
(***************************************************************************)
EXTENDS Integers, Sequences, SequencesExt, Uint16

CONSTANTS Account,               \* account addresses
          UniqueID,              \* unique ids that clients give to calls
          Msg,                   \* multisig messages (MsMsg)
          Apps,                  \* initial states of the modules behind the router
          Handle(_, _),          \* router: app state, message -> [ok, st]
          IsValidator(_, _),     \* poaKeeper.HasValidator: app state, account
          EnoughConfirmations(_),\* poaKeeper.GetEnoughConfirmations: app state
          IntervalToExecute,     \* module parameter, in blocks
          MaxCalls,              \* bound on the number of calls
          MaxSubmitHeight,       \* bound on the height of a new call
          MaxHeight,             \* bound on the block height
          Restarts               \* may the chain be exported and restarted?

ASSUME IntervalAssumption == IntervalToExecute \in Nat \ {0}
ASSUME BoundsAssumption ==
  /\ MaxCalls \in Nat /\ MaxSubmitHeight \in Nat /\ MaxHeight \in Nat
  /\ Restarts \in BOOLEAN

VARIABLES height,      \* height of the current block
          phase,       \* "deliver" transactions, EndBlocker loops "active" and "reject", "committed"
          iterator,    \* queue entries the running loop has still to visit
          calls,       \* call id -> Call
          callIDs,     \* unique id -> call id
          votes,       \* call id -> sequence of voters; an absent key is <<>>
          queue,       \* set of [height, id]
          lastCallID,  \* last used call id; nil is -1
          app

msVars == <<calls, callIDs, votes, queue, lastCallID>>
vars == <<height, phase, iterator, msVars, app>>

-----------------------------------------------------------------------------
(* Calls and keeper operations.                                            *)

Put(f, k, v) == [x \in DOMAIN f \cup {k} |-> IF x = k THEN v ELSE f[x]]

NewCall(uid, msg, sender) ==
  [uid |-> uid, creator |-> sender, msg |-> msg, height |-> height,
   approved |-> FALSE, executed |-> FALSE, failed |-> FALSE, rejected |-> FALSE]

CanBeVoted(call) == ~call.approved /\ ~call.rejected

HasCall(id) == id \in DOMAIN calls

HasVote(id, a) == a \in ToSet(votes[id])

GetConfirmationsCount(id) == Len(votes[id])

nextCallID == lastCallID + 1

QueueEntry(id) == [height |-> calls[id].height, id |-> id]

\* RemoveCallFromQueue finds the entry by the height stored in the call.
RemoveCallFromQueue(id) == queue' = queue \ {QueueEntry(id)}

\* Defect: a decided call still takes votes.
storeVoteLate(id, a) ==
  /\ ~HasVote(id, a)
  /\ votes' = [votes EXCEPT ![id] = Append(@, a)]

storeVote(id, a) ==
  /\ CanBeVoted(calls[id])
  /\ ~HasVote(id, a)
  /\ votes' = [votes EXCEPT ![id] = Append(@, a)]

\* The revoked last vote takes the call out of the queue; the call stays.
revokeVote(id, a) ==
  /\ CanBeVoted(calls[id])
  /\ HasVote(id, a)
  /\ votes' = [votes EXCEPT ![id] = RemoveFirst(@, a)]
  /\ IF Len(votes[id]) = 1 THEN RemoveCallFromQueue(id) ELSE UNCHANGED queue

ConfirmCall(id, a) == HasCall(id) /\ storeVote(id, a)

\* createCall followed by the creator's vote.
createCall(uid, call) ==
  /\ lastCallID' = nextCallID
  /\ callIDs' = Put(callIDs, uid, nextCallID)
  /\ calls'   = Put(calls, nextCallID, call)
  /\ queue'   = queue \cup {[height |-> call.height, id |-> nextCallID]}
  /\ votes'   = Put(votes, nextCallID, <<call.creator>>)

\* A known unique id makes the submission a confirmation of the stored call,
\* whatever the submitted message; a new one is dry-run on a dropped context.
SubmitCall(uid, msg, a) ==
  IF uid \in DOMAIN callIDs
  THEN ConfirmCall(callIDs[uid], a) /\ UNCHANGED <<calls, callIDs, queue, lastCallID>>
  ELSE /\ Handle(app, msg).ok
       /\ nextCallID < MaxCalls /\ height <= MaxSubmitHeight
       /\ createCall(uid, NewCall(uid, msg, a))

-----------------------------------------------------------------------------
(* Transactions.                                                           *)

handleMsgSubmitCall(uid, msg, a) ==
  /\ phase = "deliver"
  /\ IsValidator(app, a)
  /\ SubmitCall(uid, msg, a)
  /\ UNCHANGED <<height, phase, iterator, app>>

handleMsgConfirmCall(id, a) ==
  /\ phase = "deliver"
  /\ IsValidator(app, a)
  /\ ConfirmCall(id, a)
  /\ UNCHANGED <<height, phase, iterator, calls, callIDs, queue, lastCallID, app>>

\* Any account that has voted may revoke, validator or not.
handleMsgRevokeConfirm(id, a) ==
  /\ phase = "deliver"
  /\ HasCall(id) /\ revokeVote(id, a)
  /\ UNCHANGED <<height, phase, iterator, calls, callIDs, lastCallID, app>>

-----------------------------------------------------------------------------
(* EndBlocker.                                                             *)

start == IF height < IntervalToExecute THEN 0 ELSE height - IntervalToExecute

GetQueueIteratorStartEnd(from, to) == {e \in queue : from <= e.height /\ e.height <= to}

GetQueueIteratorTill(to) == {e \in queue : e.height <= to}

\* Store order of queue keys: big-endian height, then the id as a decimal
\* string ("10" before "2"); ids below 10^8.
Digits(n) == 1 + Cardinality({k \in 1..7 : 10^k <= n})

DecimalBefore(m, n) ==
  LET scaled(i) == i * 10^(8 - Digits(i))
  IN  \/ scaled(m) < scaled(n)
      \/ scaled(m) = scaled(n) /\ Digits(m) < Digits(n)

KeyBefore(e, f) ==
  \/ e.height < f.height
  \/ e.height = f.height /\ DecimalBefore(e.id, f.id)

IteratorAt(e) == e \in iterator /\ \A f \in iterator \ {e} : KeyBefore(e, f)

EndBlockerStart ==
  /\ phase = "deliver"
  /\ phase' = "active"
  /\ iterator' = GetQueueIteratorStartEnd(start, height)
  /\ UNCHANGED <<height, msVars, app>>

\* Defect: the executed call stays in the queue.
ExecuteCallQueued(id) ==
  LET result == Handle(app, calls[id].msg)
  IN  /\ calls' = [calls EXCEPT ![id] =
                      IF result.ok THEN [@ EXCEPT !.approved = TRUE, !.executed = TRUE]
                                   ELSE [@ EXCEPT !.approved = TRUE, !.failed = TRUE]]
      /\ app' = IF result.ok THEN result.st ELSE app
      /\ UNCHANGED queue

\* Defect: no cache context, a failed handler's half-written store is kept.
ExecuteCallNoCache(id) ==
  LET result == Handle(app, calls[id].msg)
  IN  /\ calls' = [calls EXCEPT ![id] =
                      IF result.ok THEN [@ EXCEPT !.approved = TRUE, !.executed = TRUE]
                                   ELSE [@ EXCEPT !.approved = TRUE, !.failed = TRUE]]
      /\ app' = result.st
      /\ RemoveCallFromQueue(id)

\* The handler runs on a cache context: its store is written back only when
\* it succeeds.
ExecuteCall(id) ==
  LET result == Handle(app, calls[id].msg)
  IN  /\ calls' = [calls EXCEPT ![id] =
                      IF result.ok THEN [@ EXCEPT !.approved = TRUE, !.executed = TRUE]
                                   ELSE [@ EXCEPT !.approved = TRUE, !.failed = TRUE]]
      /\ app' = IF result.ok THEN result.st ELSE app
      /\ RemoveCallFromQueue(id)

\* Defect: the iterator is advanced only behind an executed call.
ActiveTurnStalls(e) ==
  /\ phase = "active" /\ IteratorAt(e)
  /\ IF Uint16(GetConfirmationsCount(e.id)) >= EnoughConfirmations(app)
     THEN ExecuteCall(e.id) /\ iterator' = iterator \ {e}
     ELSE UNCHANGED <<calls, queue, app, iterator>>
  /\ UNCHANGED <<height, phase, callIDs, votes, lastCallID>>

\* One turn of the loop over the active calls.  The confirmations needed
\* are those of the validator set as the turns before have left it; votes of
\* accounts that are no longer validators count.
ActiveTurn(e) ==
  /\ phase = "active" /\ IteratorAt(e)
  /\ IF Uint16(GetConfirmationsCount(e.id)) >= EnoughConfirmations(app)
     THEN ExecuteCall(e.id)
     ELSE UNCHANGED <<calls, queue, app>>
  /\ iterator' = iterator \ {e}
  /\ UNCHANGED <<height, phase, callIDs, votes, lastCallID>>

\* Defect: rejection starts an interval later still.
RejectStartLate ==
  /\ phase = "active" /\ iterator = {}
  /\ phase' = "reject"
  /\ iterator' = IF start > 2 * IntervalToExecute THEN GetQueueIteratorTill(start) ELSE {}
  /\ UNCHANGED <<height, msVars, app>>

RejectStart ==
  /\ phase = "active" /\ iterator = {}
  /\ phase' = "reject"
  /\ iterator' = IF start > IntervalToExecute THEN GetQueueIteratorTill(start) ELSE {}
  /\ UNCHANGED <<height, msVars, app>>

\* One turn of the loop over the calls that ran out of time.
RejectTurn(e) ==
  /\ phase = "reject" /\ IteratorAt(e)
  /\ calls' = [calls EXCEPT ![e.id].rejected = TRUE]
  /\ RemoveCallFromQueue(e.id)
  /\ iterator' = iterator \ {e}
  /\ UNCHANGED <<height, phase, callIDs, votes, lastCallID, app>>

Commit ==
  /\ phase = "reject" /\ iterator = {}
  /\ phase' = "committed"
  /\ UNCHANGED <<height, iterator, msVars, app>>

NextBlock ==
  /\ phase = "committed"
  /\ height < MaxHeight
  /\ height' = height + 1
  /\ phase' = "deliver"
  /\ UNCHANGED <<iterator, msVars, app>>

-----------------------------------------------------------------------------
(* Export for height zero and restart from the export.                     *)

\* Defect: only calls that accept votes get the new height.
SquashedVotable ==
  [id \in DOMAIN calls |->
     IF CanBeVoted(calls[id]) THEN [calls[id] EXCEPT !.height = 0] ELSE calls[id]]

\* PrepareForZeroHeight: every call that accepts votes is queued again at
\* height 0, whether it was queued or not; every call's height becomes 0.
SquashedCalls == [id \in DOMAIN calls |-> [calls[id] EXCEPT !.height = 0]]

SquashedQueue ==
  LET votable == {id \in DOMAIN calls : CanBeVoted(calls[id])}
  IN  (queue \ {QueueEntry(id) : id \in votable})
      \cup {[height |-> 0, id |-> id] : id \in votable}

\* Call.Valid(0) and GenesisState.Validate(0), on the squashed state.
CallValid(call) ==
  /\ call.approved => call.executed \/ call.failed
  /\ call.rejected => ~call.approved /\ ~call.executed /\ ~call.failed
  /\ call.height = 0

ExportValid ==
  /\ \A id \in DOMAIN calls : CallValid(SquashedCalls[id])
  /\ \A e \in SquashedQueue : e.height = 0 /\ e.id \in DOMAIN calls
  /\ lastCallID = -1 <=> DOMAIN calls = {}
  /\ lastCallID # -1 => lastCallID = Max({0} \cup DOMAIN calls)

\* InitGenesis panics on an invalid genesis; a valid one rebuilds the unique
\* id index from the calls.  The new chain's first block is block 1.
RestartAtZeroHeight ==
  /\ Restarts
  /\ phase = "committed"
  /\ ExportValid
  /\ calls' = SquashedCalls
  /\ queue' = SquashedQueue
  /\ callIDs' = [u \in {calls[id].uid : id \in DOMAIN calls} |->
                   CHOOSE id \in DOMAIN calls : calls[id].uid = u]
  /\ height' = 1
  /\ phase' = "deliver"
  /\ UNCHANGED <<iterator, votes, lastCallID, app>>

-----------------------------------------------------------------------------

Init ==
  /\ height = 1
  /\ phase = "deliver"
  /\ iterator = {}
  /\ calls = <<>> /\ callIDs = <<>> /\ votes = <<>>
  /\ queue = {}
  /\ lastCallID = -1
  /\ app \in Apps

EndBlockSteps ==
  \/ EndBlockerStart
  \/ \E e \in iterator : ActiveTurn(e)
  \/ RejectStart
  \/ \E e \in iterator : RejectTurn(e)
  \/ Commit
  \/ NextBlock

Next ==
  \/ \E uid \in UniqueID, msg \in Msg, a \in Account : handleMsgSubmitCall(uid, msg, a)
  \/ \E id \in DOMAIN calls, a \in Account : handleMsgConfirmCall(id, a)
  \/ \E id \in DOMAIN calls, a \in Account : handleMsgRevokeConfirm(id, a)
  \/ EndBlockSteps
  \/ RestartAtZeroHeight

Spec == Init /\ [][Next]_vars

\* Consensus keeps producing blocks and runs every block to its commit.
FairSpec == Spec /\ WF_vars(EndBlockSteps)

-----------------------------------------------------------------------------
(* Properties.                                                             *)

Call ==
  [uid : UniqueID, creator : Account, msg : Msg, height : Nat,
   approved : BOOLEAN, executed : BOOLEAN, failed : BOOLEAN, rejected : BOOLEAN]

Entry == [height : Nat, id : Nat]

\* Type invariant.
TypeOK ==
  /\ height \in Nat
  /\ phase \in {"deliver", "active", "reject", "committed"}
  /\ iterator \subseteq Entry
  /\ lastCallID \in Nat \cup {-1}
  /\ calls \in [0..lastCallID -> Call]
  /\ votes \in [0..lastCallID -> Seq(Account)]
  /\ DOMAIN callIDs \subseteq UniqueID
  /\ queue \subseteq Entry

\* SubmitCall decides by the unique id index whether a submission is a new
\* call or a vote: the index and the stored calls must be inverse to each
\* other, so that one unique id never stands for two calls, across
\* submissions and across the rebuilding of the index by InitGenesis.
UniqueIDIndex ==
  /\ \A id \in DOMAIN calls : calls[id].uid \in DOMAIN callIDs /\ callIDs[calls[id].uid] = id
  /\ \A u \in DOMAIN callIDs : callIDs[u] \in DOMAIN calls /\ calls[callIDs[u]].uid = u

\* The queue and the calls agree: an entry names a stored call that still
\* accepts votes, at the height stored in the call (by which alone
\* RemoveCallFromQueue can find it), and a queued call without a vote can
\* only be one the export has put there.  So the EndBlocker never panics
\* on an entry, and never decides a call twice.
QueueMatchesCalls ==
  \A e \in queue :
     /\ HasCall(e.id)
     /\ CanBeVoted(calls[e.id])
     /\ calls[e.id].height = e.height
     /\ votes[e.id] = <<>> => e.height = 0

\* The flags of a stored call only ever describe one outcome: pending, or
\* approved and exactly one of executed and failed, or rejected.
OneOutcome ==
  \A id \in DOMAIN calls :
     LET c == calls[id]
     IN  /\ c.approved <=> c.executed \/ c.failed
         /\ ~(c.executed /\ c.failed)
         /\ ~(c.approved /\ c.rejected)

\* No account is counted twice among the confirmations of a call, however
\* votes, revocations and repeated submissions are mixed.
OneVotePerAccount == \A id \in DOMAIN calls : IsInjective(votes[id])

\* No entry stays in the queue for more than 2 * IntervalToExecute + 1
\* blocks: EndBlocker starts rejecting only once the chain is more than two
\* intervals high, and from then on misses no entry.  (docs/peg_zone.md:43
\* promises the rejection after one interval.)
QueueAgeBound == \A e \in queue : height - e.height <= 2 * IntervalToExecute + 1

\* The genesis exported for height zero after any committed block passes
\* the validation InitGenesis repeats before it accepts it.
ExportAlwaysValid == phase = "committed" => ExportValid

\* A decided call is never decided again and its votes are frozen: apart
\* from the height, which a restart sets to 0, nothing of it ever changes.
DecidedIsFinal ==
  [][\A id \in DOMAIN calls :
        ~CanBeVoted(calls[id]) =>
           /\ id \in DOMAIN calls'
           /\ [calls'[id] EXCEPT !.height = 0] = [calls[id] EXCEPT !.height = 0]
           /\ votes'[id] = votes[id]]_vars

\* The modules behind the router change only when a pending call that
\* enough distinct accounts have confirmed (counted in a uint16), no more
\* than an interval after it was submitted, is executed, and then exactly as
\* its handler says:
\* neither the dry run of SubmitCall nor a failed execution leaves a trace,
\* and since a decided call is final a message is applied at most once.
AppChangesOnlyByExecution ==
  [][app' # app =>
       \E id \in DOMAIN calls :
          /\ CanBeVoted(calls[id]) /\ calls'[id].executed
          /\ Uint16(Cardinality(ToSet(votes[id]))) >= EnoughConfirmations(app)
          /\ height - calls[id].height <= IntervalToExecute
          /\ app' = Handle(app, calls[id].msg).st]_vars

\* Every queued call leaves the queue: it is executed, fails, is rejected or
\* its last vote is revoked (EndBlocker), also after restarts from a squashed
\* genesis, provided the chain is not restarted for ever.
QueuedIsResolved ==
  <>[][phase = "committed" => height' > height]_vars =>
     \A id \in 0..(MaxCalls - 1) :
        (\E e \in queue : e.id = id) ~> ~(\E e \in queue : e.id = id)

\* docs/peg_zone.md:50 says "Once call reaches N/2+1 amount of confirmations,
\* message inside call will be executed".  A call whose last vote was revoked
\* is out of the queue for good, and still takes confirmations.
ConfirmedIsExecuted ==
  phase = "committed" =>
     \A id \in DOMAIN calls :
        CanBeVoted(calls[id]) => GetConfirmationsCount(id) < EnoughConfirmations(app)
=============================================================================
