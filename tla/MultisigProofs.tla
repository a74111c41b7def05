---------------------------- MODULE MultisigProofs ----------------------------
(***************************************************************************)
(* Proofs about x/multisig, for any handlers behind the router, any number *)
(* of accounts, calls and blocks and any positive interval.                *)
(***************************************************************************)
EXTENDS Multisig, SeqLemmas

\* After the EndBlocker of block h no queue entry at or before h - interval
\* is left, once h is more than two intervals.
Fresh(e, h) == h <= 2 * IntervalToExecute \/ e.height > h - IntervalToExecute

\* Where the queue's entries stand in time, phase by phase.
QueueTiming ==
  /\ height >= 1
  /\ iterator \subseteq queue
  /\ \A e \in queue :
       /\ e.height <= height
       /\ phase \in {"deliver", "active", "reject"} => Fresh(e, height - 1)
       /\ phase = "reject" => e \in iterator \/ Fresh(e, height)
       /\ phase = "committed" => Fresh(e, height)
  /\ phase = "active" => \A e \in iterator : e.height >= start
  /\ phase \in {"deliver", "committed"} => iterator = {}

\* The inductive invariant.
MsInv ==
  /\ TypeOK
  /\ UniqueIDIndex
  /\ QueueMatchesCalls
  /\ OneOutcome
  /\ OneVotePerAccount
  /\ QueueTiming

-----------------------------------------------------------------------------
(* Transactions.                                                           *)

\* Appending to a call's votes or removing one of several leaves the rest
\* of the invariant alone.
LEMMA VotesStep ==
  ASSUME MsInv, NEW id \in DOMAIN calls, NEW s \in Seq(Account),
         IsInjective(s),
         s = <<>> => QueueEntry(id) \notin queue' /\ queue' \subseteq queue,
         s # <<>> => queue' = queue,
         phase = "deliver",
         votes' = [votes EXCEPT ![id] = s],
         UNCHANGED <<height, phase, iterator, calls, callIDs, lastCallID>>
  PROVE  MsInv'
<1>0. calls \in [0..lastCallID -> Call] /\ votes \in [0..lastCallID -> Seq(Account)]
  BY DEF MsInv, TypeOK
<1>1. votes' \in [0..lastCallID -> Seq(Account)] /\ votes'[id] = s
  BY <1>0
<1>2. \A j \in DOMAIN calls : j # id => votes'[j] = votes[j]
  BY <1>0
<1>3. queue' \subseteq queue
  OBVIOUS
<1>4. TypeOK'
  BY <1>1, <1>3 DEF MsInv, TypeOK
<1>5. UniqueIDIndex' /\ OneOutcome'
  BY DEF MsInv, UniqueIDIndex, OneOutcome
<1>6. QueueMatchesCalls'
  <2> SUFFICES ASSUME NEW e \in queue'
               PROVE  /\ HasCall(e.id)' /\ CanBeVoted(calls[e.id])'
                      /\ (calls[e.id].height = e.height)'
                      /\ votes'[e.id] = <<>> => e.height = 0
    BY DEF QueueMatchesCalls
  <2>1. /\ e \in queue /\ HasCall(e.id) /\ CanBeVoted(calls[e.id])
        /\ calls[e.id].height = e.height /\ (votes[e.id] = <<>> => e.height = 0)
    BY <1>3 DEF MsInv, QueueMatchesCalls
  <2>2. ASSUME e.id = id, s = <<>> PROVE FALSE
    <3>1. e = QueueEntry(id)
      BY <2>1, <2>2 DEF QueueEntry, MsInv, TypeOK, Entry
    <3> QED
      BY <3>1, <2>2
  <2> QED
    BY <2>1, <2>2, <1>1, <1>2 DEF HasCall, CanBeVoted
<1>7. OneVotePerAccount'
  BY <1>1, <1>2 DEF MsInv, OneVotePerAccount
<1>8. QueueTiming'
  BY <1>3 DEF MsInv, QueueTiming, Fresh, start
<1> QED
  BY <1>4, <1>5, <1>6, <1>7, <1>8 DEF MsInv

\* A confirmation keeps the invariant.
LEMMA ConfirmKeepsInv ==
  ASSUME MsInv, NEW id \in DOMAIN calls, NEW a \in Account, storeVote(id, a),
         phase = "deliver",
         UNCHANGED <<height, phase, iterator, calls, callIDs, queue, lastCallID>>
  PROVE  MsInv'
<1>1. votes[id] \in Seq(Account) /\ IsInjective(votes[id])
  BY DEF MsInv, TypeOK, OneVotePerAccount
<1>2. a \notin ToSet(votes[id]) /\ votes' = [votes EXCEPT ![id] = Append(votes[id], a)]
  BY DEF storeVote, HasVote
<1>3. /\ Append(votes[id], a) \in Seq(Account) /\ IsInjective(Append(votes[id], a))
      /\ Append(votes[id], a) # <<>>
  BY <1>1, <1>2, AppendDistinct, AppendProperties
<1> QED
  BY <1>2, <1>3, VotesStep

\* A revocation keeps the invariant: the last one also unqueues the call.
LEMMA RevokeKeepsInv ==
  ASSUME MsInv, NEW id \in DOMAIN calls, NEW a \in Account, revokeVote(id, a),
         phase = "deliver",
         UNCHANGED <<height, phase, iterator, calls, callIDs, lastCallID>>
  PROVE  MsInv'
<1> DEFINE s == RemoveFirst(votes[id], a)
<1>1. votes[id] \in Seq(Account) /\ IsInjective(votes[id])
  BY DEF MsInv, TypeOK, OneVotePerAccount
<1>2. /\ a \in ToSet(votes[id]) /\ votes' = [votes EXCEPT ![id] = s]
      /\ IF Len(votes[id]) = 1 THEN queue' = queue \ {QueueEntry(id)} ELSE queue' = queue
  BY DEF revokeVote, HasVote, RemoveCallFromQueue
<1>3. s \in Seq(Account) /\ IsInjective(s) /\ Len(s) = Len(votes[id]) - 1
  BY <1>1, <1>2, RemoveFirstDistinct
<1> HIDE DEF s
<1>4. s = <<>> <=> Len(votes[id]) = 1
  <2>1. s = <<>> <=> Len(s) = 0
    BY <1>3, EmptySeq
  <2> QED
    BY <1>1, <1>3, <2>1
<1> QED
  BY <1>2, <1>3, <1>4, VotesStep
\* A new call gets a new id and a new unique id, and is queued with its
\* creator's vote.
LEMMA CreateKeepsInv ==
  ASSUME MsInv, NEW uid \in UniqueID, NEW msg \in Msg, NEW a \in Account,
         uid \notin DOMAIN callIDs,
         phase = "deliver",
         createCall(uid, NewCall(uid, msg, a)),
         UNCHANGED <<height, phase, iterator>>
  PROVE  MsInv'
<1> DEFINE n == lastCallID + 1
           c == NewCall(uid, msg, a)
           e == [height |-> c.height, id |-> n]
<1>0. /\ lastCallID \in Nat \cup {-1} /\ height \in Nat /\ n \in Nat
      /\ calls \in [0..lastCallID -> Call] /\ votes \in [0..lastCallID -> Seq(Account)]
      /\ queue \subseteq Entry
  BY DEF MsInv, TypeOK
<1>1. /\ c \in Call /\ c.uid = uid /\ c.creator = a /\ c.height = height
      /\ CanBeVoted(c) /\ c.executed = FALSE /\ c.failed = FALSE
  BY <1>0 DEF NewCall, Call, CanBeVoted
<1> HIDE DEF c
<1>2. /\ lastCallID' = n
      /\ calls' = Put(calls, n, c)
      /\ callIDs' = Put(callIDs, uid, n)
      /\ votes' = Put(votes, n, <<a>>)
      /\ queue' = queue \cup {e}
  BY <1>1 DEF createCall, nextCallID, c
<1>3. n \notin 0..lastCallID /\ 0..n = (0..lastCallID) \cup {n}
  BY <1>0
<1>4. /\ DOMAIN calls' = DOMAIN calls \cup {n} /\ calls'[n] = c
      /\ \A x \in DOMAIN calls : calls'[x] = calls[x]
  BY <1>0, <1>2, <1>3 DEF Put
<1>5. /\ DOMAIN votes' = DOMAIN votes \cup {n} /\ votes'[n] = <<a>>
      /\ \A x \in DOMAIN votes : votes'[x] = votes[x]
  BY <1>0, <1>2, <1>3 DEF Put
<1>6. /\ DOMAIN callIDs' = DOMAIN callIDs \cup {uid} /\ callIDs'[uid] = n
      /\ \A x \in DOMAIN callIDs : callIDs'[x] = callIDs[x]
  BY <1>2 DEF Put
<1>7. TypeOK'
  <2>1. calls' \in [0..n -> Call]
    BY <1>0, <1>1, <1>2, <1>3 DEF Put
  <2>2. votes' \in [0..n -> Seq(Account)]
    BY <1>0, <1>2, <1>3 DEF Put
  <2>3. queue' \subseteq Entry
    BY <1>0, <1>1, <1>2 DEF Entry
  <2> QED
    BY <1>0, <1>2, <1>6, <2>1, <2>2, <2>3 DEF MsInv, TypeOK
<1>8. UniqueIDIndex'
  <2>1. \A id \in DOMAIN calls' :
           calls'[id].uid \in DOMAIN callIDs' /\ callIDs'[calls'[id].uid] = id
    BY <1>1, <1>4, <1>6 DEF MsInv, UniqueIDIndex
  <2>2. \A u \in DOMAIN callIDs' : callIDs'[u] \in DOMAIN calls' /\ calls'[callIDs'[u]].uid = u
    BY <1>1, <1>4, <1>6 DEF MsInv, UniqueIDIndex
  <2> QED
    BY <2>1, <2>2 DEF UniqueIDIndex
<1>9. QueueMatchesCalls'
  <2> SUFFICES ASSUME NEW f \in queue'
               PROVE  /\ f.id \in DOMAIN calls' /\ CanBeVoted(calls'[f.id])
                      /\ calls'[f.id].height = f.height
                      /\ votes'[f.id] = <<>> => f.height = 0
    BY DEF QueueMatchesCalls, HasCall, CanBeVoted
  <2>1. CASE f = e
    BY <2>1, <1>1, <1>4, <1>5
  <2>2. CASE f \in queue
    <3>1. /\ f.id \in DOMAIN calls /\ CanBeVoted(calls[f.id])
          /\ calls[f.id].height = f.height /\ (votes[f.id] = <<>> => f.height = 0)
      BY <2>2 DEF MsInv, QueueMatchesCalls, HasCall
    <3> QED
      BY <3>1, <1>0, <1>4, <1>5
  <2> QED
    BY <2>1, <2>2, <1>2
<1>10. OneOutcome'
  BY <1>1, <1>4 DEF MsInv, OneOutcome, CanBeVoted
<1>11. OneVotePerAccount'
  <2>1. IsInjective(<<a>>)
    BY DEF IsInjective
  <2> QED
    BY <2>1, <1>0, <1>4, <1>5 DEF MsInv, OneVotePerAccount
<1>12. QueueTiming'
  <2>1. height >= 1 /\ iterator = {} /\ e.height = height
    BY <1>1 DEF MsInv, QueueTiming
  <2>2. \A f \in queue : f.height <= height /\ Fresh(f, height - 1)
    BY DEF MsInv, QueueTiming
  <2>3. Fresh(e, height - 1)
    BY <2>1, <1>0, IntervalAssumption DEF Fresh
  <2>4. \A f \in queue' : f.height <= height /\ Fresh(f, height - 1)
    BY <2>1, <2>2, <2>3, <1>0, <1>2
  <2> QED
    BY <2>1, <2>4 DEF QueueTiming, Fresh
<1> QED
  BY <1>7, <1>8, <1>9, <1>10, <1>11, <1>12 DEF MsInv
-----------------------------------------------------------------------------
(* EndBlocker.                                                             *)

\* An entry of the queue is the entry of its call.
LEMMA EntryOfCall ==
  ASSUME MsInv, NEW e \in queue
  PROVE  /\ e.id \in DOMAIN calls /\ calls[e.id] \in Call
         /\ CanBeVoted(calls[e.id]) /\ e = QueueEntry(e.id)
<1>1. e \in Entry /\ e.id \in DOMAIN calls /\ CanBeVoted(calls[e.id])
      /\ calls[e.id].height = e.height /\ calls \in [0..lastCallID -> Call]
  BY DEF MsInv, TypeOK, QueueMatchesCalls, HasCall
<1>2. e = [height |-> e.height, id |-> e.id]
  BY <1>1 DEF Entry
<1> QED
  BY <1>1, <1>2 DEF QueueEntry

\* Deciding the call of the entry at hand, one way or the other, and
\* unqueueing it keeps the invariant.
LEMMA DecideKeepsInv ==
  ASSUME MsInv, NEW e \in iterator, NEW c \in Call,
         c.uid = calls[e.id].uid,
         c.approved <=> c.executed \/ c.failed,
         ~(c.executed /\ c.failed),
         ~(c.approved /\ c.rejected),
         phase \in {"active", "reject"},
         calls' = [calls EXCEPT ![e.id] = c],
         queue' = queue \ {QueueEntry(e.id)},
         iterator' = iterator \ {e},
         UNCHANGED <<height, phase, callIDs, votes, lastCallID>>
  PROVE  MsInv'
<1>0. /\ calls \in [0..lastCallID -> Call] /\ iterator \subseteq queue
      /\ iterator \subseteq Entry /\ queue \subseteq Entry
  BY DEF MsInv, TypeOK, QueueTiming
<1>1. e \in queue /\ e.id \in DOMAIN calls /\ e = QueueEntry(e.id)
  BY <1>0, EntryOfCall
<1>2. /\ DOMAIN calls' = DOMAIN calls /\ calls'[e.id] = c
      /\ \A id \in DOMAIN calls : id # e.id => calls'[id] = calls[id]
      /\ calls' \in [0..lastCallID -> Call]
  BY <1>0, <1>1
<1>3. queue' = queue \ {e} /\ queue' \subseteq queue
  BY <1>1
<1>4. TypeOK'
  BY <1>0, <1>2, <1>3 DEF MsInv, TypeOK
<1>5. UniqueIDIndex'
  <2>1. \A id \in DOMAIN calls : calls'[id].uid = calls[id].uid
    BY <1>2
  <2> QED
    BY <1>2, <2>1 DEF MsInv, UniqueIDIndex
<1>6. QueueMatchesCalls'
  <2> SUFFICES ASSUME NEW f \in queue'
               PROVE  /\ f.id \in DOMAIN calls' /\ CanBeVoted(calls'[f.id])
                      /\ calls'[f.id].height = f.height
                      /\ votes'[f.id] = <<>> => f.height = 0
    BY DEF QueueMatchesCalls, HasCall, CanBeVoted
  <2>1. f \in queue /\ f # e
    BY <1>3
  <2>2. f.id # e.id
    BY <1>1, <2>1, EntryOfCall
  <2>3. /\ f.id \in DOMAIN calls /\ CanBeVoted(calls[f.id])
        /\ calls[f.id].height = f.height /\ (votes[f.id] = <<>> => f.height = 0)
    BY <2>1 DEF MsInv, QueueMatchesCalls, HasCall
  <2> QED
    BY <1>2, <2>2, <2>3
<1>7. OneOutcome'
  BY <1>2 DEF MsInv, OneOutcome
<1>8. OneVotePerAccount'
  BY <1>2 DEF MsInv, OneVotePerAccount
<1>9. QueueTiming'
  <2>1. iterator' \subseteq queue'
    BY <1>0, <1>3
  <2>2. \A f \in queue' :
           /\ f.height <= height
           /\ phase \in {"deliver", "active", "reject"} => Fresh(f, height - 1)
           /\ phase = "reject" => f \in iterator' \/ Fresh(f, height)
    BY <1>3 DEF MsInv, QueueTiming
  <2>3. height >= 1 /\ (phase = "active" => \A f \in iterator' : f.height >= start)
    BY DEF MsInv, QueueTiming
  <2> QED
    BY <2>1, <2>2, <2>3 DEF QueueTiming, Fresh, start
<1> QED
  BY <1>4, <1>5, <1>6, <1>7, <1>8, <1>9 DEF MsInv

\* A turn of the loop over the active calls keeps the invariant.
LEMMA ActiveTurnKeepsInv ==
  ASSUME MsInv, NEW e \in iterator, ActiveTurn(e)
  PROVE  MsInv'
<1>0. e \in queue /\ calls \in [0..lastCallID -> Call] /\ phase = "active"
  BY DEF MsInv, TypeOK, QueueTiming, ActiveTurn
<1>1. CASE Uint16(GetConfirmationsCount(e.id)) >= EnoughConfirmations(app)
  <2> DEFINE old == calls[e.id]
             c == IF Handle(app, old.msg).ok
                  THEN [old EXCEPT !.approved = TRUE, !.executed = TRUE]
                  ELSE [old EXCEPT !.approved = TRUE, !.failed = TRUE]
  <2>1. e.id \in DOMAIN calls /\ old \in Call /\ CanBeVoted(old)
    BY <1>0, EntryOfCall
  <2>2. /\ calls' = [calls EXCEPT ![e.id] = c]
        /\ queue' = queue \ {QueueEntry(e.id)}
        /\ iterator' = iterator \ {e}
        /\ UNCHANGED <<height, phase, callIDs, votes, lastCallID>>
    BY <1>1, <2>1 DEF ActiveTurn, ExecuteCall, RemoveCallFromQueue
  <2>3. ~old.executed /\ ~old.failed /\ ~old.rejected
    BY <2>1 DEF MsInv, OneOutcome, CanBeVoted
  <2>4. /\ c \in Call /\ c.uid = old.uid
        /\ c.approved <=> c.executed \/ c.failed
        /\ ~(c.executed /\ c.failed)
        /\ ~(c.approved /\ c.rejected)
    BY <2>1, <2>3 DEF Call
  <2> HIDE DEF c
  <2> QED
    BY <1>0, <2>2, <2>4, DecideKeepsInv
<1>2. CASE ~(Uint16(GetConfirmationsCount(e.id)) >= EnoughConfirmations(app))
  <2>1. /\ iterator' = iterator \ {e}
        /\ UNCHANGED <<height, phase, calls, queue, callIDs, votes, lastCallID>>
    BY <1>2 DEF ActiveTurn
  <2>2. TypeOK' /\ UniqueIDIndex' /\ OneOutcome' /\ OneVotePerAccount'
    BY <2>1 DEF MsInv, TypeOK, UniqueIDIndex, OneOutcome, OneVotePerAccount
  <2>3. QueueMatchesCalls'
    BY <2>1 DEF MsInv, QueueMatchesCalls, HasCall, CanBeVoted
  <2>4. QueueTiming'
    BY <1>0, <2>1 DEF MsInv, QueueTiming, Fresh, start
  <2> QED
    BY <2>2, <2>3, <2>4 DEF MsInv
<1> QED
  BY <1>1, <1>2

\* A turn of the loop over the calls out of time keeps the invariant.
LEMMA RejectTurnKeepsInv ==
  ASSUME MsInv, NEW e \in iterator, RejectTurn(e)
  PROVE  MsInv'
<1> DEFINE old == calls[e.id]
           c == [old EXCEPT !.rejected = TRUE]
<1>0. e \in queue /\ calls \in [0..lastCallID -> Call] /\ phase = "reject"
  BY DEF MsInv, TypeOK, QueueTiming, RejectTurn
<1>1. e.id \in DOMAIN calls /\ old \in Call /\ CanBeVoted(old)
  BY <1>0, EntryOfCall
<1>2. /\ calls' = [calls EXCEPT ![e.id] = c]
      /\ queue' = queue \ {QueueEntry(e.id)}
      /\ iterator' = iterator \ {e}
      /\ UNCHANGED <<height, phase, callIDs, votes, lastCallID>>
  BY <1>1 DEF RejectTurn, RemoveCallFromQueue
<1>3. ~old.executed /\ ~old.failed /\ ~old.approved
  BY <1>1 DEF MsInv, OneOutcome, CanBeVoted
<1>4. /\ c \in Call /\ c.uid = old.uid
      /\ c.approved <=> c.executed \/ c.failed
      /\ ~(c.executed /\ c.failed)
      /\ ~(c.approved /\ c.rejected)
  BY <1>1, <1>3 DEF Call
<1> HIDE DEF c
<1> QED
  BY <1>0, <1>2, <1>4, DecideKeepsInv
\* The start of either loop, the commit and the next block leave the calls
\* alone: only the place of the entries in time has to be looked at.
LEMMA FrameKeepsInv ==
  ASSUME MsInv, UNCHANGED msVars, height' \in Nat,
         phase' \in {"deliver", "active", "reject", "committed"},
         iterator' \subseteq queue, QueueTiming'
  PROVE  MsInv'
<1>1. UNCHANGED <<calls, callIDs, votes, queue, lastCallID>>
  BY DEF msVars
<1>2. TypeOK' /\ UniqueIDIndex' /\ OneOutcome' /\ OneVotePerAccount'
  BY <1>1 DEF MsInv, TypeOK, UniqueIDIndex, OneOutcome, OneVotePerAccount
<1>3. QueueMatchesCalls'
  BY <1>1 DEF MsInv, QueueMatchesCalls, HasCall, CanBeVoted
<1> QED
  BY <1>2, <1>3 DEF MsInv

LEMMA EndBlockerStartKeepsInv == ASSUME MsInv, EndBlockerStart PROVE MsInv'
<1>1. /\ height \in Nat /\ queue \subseteq Entry
      /\ UNCHANGED <<height, queue>> /\ UNCHANGED msVars
      /\ phase = "deliver" /\ phase' = "active"
      /\ iterator' = {e \in queue : start <= e.height /\ e.height <= height}
  BY DEF MsInv, TypeOK, EndBlockerStart, GetQueueIteratorStartEnd, msVars
<1>2. start \in Nat
  BY <1>1, IntervalAssumption DEF start
<1>3. start' = start
  BY <1>1 DEF start
<1>4. QueueTiming'
  BY <1>1, <1>2, <1>3 DEF MsInv, QueueTiming, Fresh, Entry
<1> QED
  BY <1>1, <1>4, FrameKeepsInv

\* What the loop over the calls out of time does not visit is fresh.
LEMMA RejectStartKeepsInv == ASSUME MsInv, RejectStart PROVE MsInv'
<1>1. /\ height \in Nat /\ queue \subseteq Entry
      /\ UNCHANGED <<height, queue>> /\ UNCHANGED msVars
      /\ phase = "active" /\ phase' = "reject"
      /\ iterator' = IF start > IntervalToExecute
                     THEN {e \in queue : e.height <= start} ELSE {}
  BY DEF MsInv, TypeOK, RejectStart, GetQueueIteratorTill, msVars
<1>2. \A e \in queue : e \in iterator' \/ Fresh(e, height)
  BY <1>1, IntervalAssumption DEF start, Fresh, Entry
<1>3. QueueTiming'
  BY <1>1, <1>2 DEF MsInv, QueueTiming, Fresh
<1> QED
  BY <1>1, <1>3, FrameKeepsInv

LEMMA CommitKeepsInv == ASSUME MsInv, Commit PROVE MsInv'
<1>1. /\ UNCHANGED <<height, queue, iterator>> /\ UNCHANGED msVars
      /\ phase = "reject" /\ phase' = "committed" /\ iterator = {}
      /\ height \in Nat
  BY DEF MsInv, TypeOK, Commit, msVars
<1>2. QueueTiming'
  BY <1>1 DEF MsInv, QueueTiming, Fresh
<1> QED
  BY <1>1, <1>2, FrameKeepsInv

LEMMA NextBlockKeepsInv == ASSUME MsInv, NextBlock PROVE MsInv'
<1>1. /\ height \in Nat /\ height' = height + 1 /\ height' - 1 = height
      /\ UNCHANGED <<queue, iterator>> /\ UNCHANGED msVars
      /\ phase = "committed" /\ phase' = "deliver" /\ queue \subseteq Entry
      /\ iterator \subseteq queue /\ height' \in Nat
  BY DEF MsInv, TypeOK, NextBlock, msVars, QueueTiming
<1>2. \A e \in queue : e.height <= height' /\ Fresh(e, height' - 1)
  BY <1>1 DEF MsInv, QueueTiming, Entry
<1>3. QueueTiming'
  BY <1>1, <1>2 DEF MsInv, QueueTiming, Fresh
<1> QED
  BY <1>1, <1>3, FrameKeepsInv

-----------------------------------------------------------------------------
(* Export and restart.                                                     *)

\* Every queue entry is the entry of a votable call, so the squashed queue
\* holds exactly one entry, at height 0, for every votable call.
LEMMA SquashedQueueIsVotable ==
  ASSUME MsInv
  PROVE  SquashedQueue =
           {[height |-> 0, id |-> id] : id \in {j \in DOMAIN calls : CanBeVoted(calls[j])}}
<1>1. \A e \in queue : e \in {QueueEntry(id) : id \in {j \in DOMAIN calls : CanBeVoted(calls[j])}}
  BY EntryOfCall
<1> QED
  BY <1>1 DEF SquashedQueue

\* The export of a state that satisfies the invariant is valid.
LEMMA ExportIsValid == ASSUME MsInv PROVE ExportValid
<1>0. lastCallID \in Nat \cup {-1} /\ calls \in [0..lastCallID -> Call]
  BY DEF MsInv, TypeOK
<1>1. \A id \in DOMAIN calls : CallValid(SquashedCalls[id])
  <2> SUFFICES ASSUME NEW id \in DOMAIN calls PROVE CallValid(SquashedCalls[id])
    OBVIOUS
  <2>1. /\ SquashedCalls[id] = [calls[id] EXCEPT !.height = 0]
        /\ calls[id] \in Call
    BY <1>0 DEF SquashedCalls
  <2>2. /\ SquashedCalls[id].height = 0
        /\ SquashedCalls[id].approved = calls[id].approved
        /\ SquashedCalls[id].executed = calls[id].executed
        /\ SquashedCalls[id].failed = calls[id].failed
        /\ SquashedCalls[id].rejected = calls[id].rejected
    BY <2>1 DEF Call
  <2> QED
    BY <2>2 DEF MsInv, OneOutcome, CallValid
<1>2. \A e \in SquashedQueue : e.height = 0 /\ e.id \in DOMAIN calls
  BY SquashedQueueIsVotable
<1>3. lastCallID = -1 <=> DOMAIN calls = {}
  BY <1>0
<1>4. ASSUME lastCallID # -1 PROVE lastCallID = Max({0} \cup DOMAIN calls)
  <2>1. lastCallID \in Nat /\ {0} \cup DOMAIN calls = 0..lastCallID
    BY <1>0, <1>4
  <2> QED
    BY <2>1 DEF Max
<1> QED
  BY <1>1, <1>2, <1>3, <1>4 DEF ExportValid

LEMMA RestartKeepsInv == ASSUME MsInv, RestartAtZeroHeight PROVE MsInv'
<1>0. /\ lastCallID \in Nat \cup {-1} /\ calls \in [0..lastCallID -> Call]
      /\ votes \in [0..lastCallID -> Seq(Account)] /\ iterator = {}
      /\ UNCHANGED <<iterator, votes, lastCallID>>
      /\ height' = 1 /\ phase' = "deliver"
  BY DEF MsInv, TypeOK, RestartAtZeroHeight, QueueTiming
<1>1. /\ DOMAIN calls' = DOMAIN calls
      /\ \A id \in DOMAIN calls : calls'[id] = [calls[id] EXCEPT !.height = 0]
  BY DEF RestartAtZeroHeight, SquashedCalls
<1>2. \A id \in DOMAIN calls :
         /\ calls'[id] \in Call /\ calls'[id].height = 0
         /\ calls'[id].uid = calls[id].uid
         /\ calls'[id].approved = calls[id].approved
         /\ calls'[id].executed = calls[id].executed
         /\ calls'[id].failed = calls[id].failed
         /\ calls'[id].rejected = calls[id].rejected
  <2> SUFFICES ASSUME NEW c \in Call, NEW d, d = [c EXCEPT !.height = 0]
               PROVE  /\ d \in Call /\ d.height = 0 /\ d.uid = c.uid
                      /\ d.approved = c.approved /\ d.executed = c.executed
                      /\ d.failed = c.failed /\ d.rejected = c.rejected
    BY <1>0, <1>1
  <2> QED
    BY DEF Call
<1>3. queue' = {[height |-> 0, id |-> id] : id \in {j \in DOMAIN calls : CanBeVoted(calls[j])}}
  BY SquashedQueueIsVotable DEF RestartAtZeroHeight
<1>4. /\ queue' \subseteq Entry
      /\ \A e \in queue' : e.height = 0 /\ e.id \in DOMAIN calls /\ CanBeVoted(calls[e.id])
  BY <1>0, <1>3 DEF Entry
<1>5. calls' \in [0..lastCallID -> Call]
  BY <1>0, <1>1, <1>2 DEF RestartAtZeroHeight, SquashedCalls
<1>6. /\ DOMAIN callIDs' = {calls[id].uid : id \in DOMAIN calls}
      /\ \A id \in DOMAIN calls : callIDs'[calls[id].uid] = id
  <2>1. callIDs' = [u \in {calls[id].uid : id \in DOMAIN calls} |->
                      CHOOSE id \in DOMAIN calls : calls[id].uid = u]
    BY DEF RestartAtZeroHeight
  <2>2. \A i, j \in DOMAIN calls : calls[i].uid = calls[j].uid => i = j
    BY DEF MsInv, UniqueIDIndex
  <2> QED
    BY <2>1, <2>2
<1>7. TypeOK'
  BY <1>0, <1>1, <1>2, <1>4, <1>5, <1>6 DEF TypeOK, Call
<1>8. UniqueIDIndex'
  BY <1>1, <1>2, <1>6 DEF UniqueIDIndex
<1>9. QueueMatchesCalls'
  BY <1>1, <1>2, <1>4 DEF QueueMatchesCalls, HasCall, CanBeVoted
<1>10. OneOutcome' /\ OneVotePerAccount'
  BY <1>0, <1>1, <1>2 DEF MsInv, OneOutcome, OneVotePerAccount
<1>11. QueueTiming'
  BY <1>0, <1>4, IntervalAssumption DEF QueueTiming, Fresh
<1> QED
  BY <1>7, <1>8, <1>9, <1>10, <1>11 DEF MsInv
-----------------------------------------------------------------------------
(* The inductive invariant.                                                *)

LEMMA MsInvInit == Init => MsInv
<1> SUFFICES ASSUME Init PROVE MsInv
  OBVIOUS
<1>1. DOMAIN calls = {} /\ DOMAIN callIDs = {} /\ DOMAIN votes = {} /\ 0..lastCallID = {}
  BY DEF Init
<1>2. calls \in [0..lastCallID -> Call] /\ votes \in [0..lastCallID -> Seq(Account)]
  BY <1>1 DEF Init
<1>3. TypeOK
  BY <1>1, <1>2 DEF Init, TypeOK
<1>4. UniqueIDIndex /\ QueueMatchesCalls /\ OneOutcome /\ OneVotePerAccount
  BY <1>1 DEF Init, UniqueIDIndex, QueueMatchesCalls, OneOutcome, OneVotePerAccount
<1>5. QueueTiming
  BY DEF Init, QueueTiming
<1> QED
  BY <1>3, <1>4, <1>5 DEF MsInv

LEMMA MsInvStep == MsInv /\ [Next]_vars => MsInv'
<1> SUFFICES ASSUME MsInv, [Next]_vars PROVE MsInv'
  OBVIOUS
<1>1. ASSUME NEW uid \in UniqueID, NEW msg \in Msg, NEW a \in Account,
             handleMsgSubmitCall(uid, msg, a)
      PROVE  MsInv'
  <2>1. CASE uid \in DOMAIN callIDs
    <3>1. callIDs[uid] \in DOMAIN calls
      BY <2>1 DEF MsInv, UniqueIDIndex
    <3> QED
      BY <1>1, <2>1, <3>1, ConfirmKeepsInv DEF handleMsgSubmitCall, SubmitCall, ConfirmCall
  <2>2. CASE uid \notin DOMAIN callIDs
    BY <1>1, <2>2, CreateKeepsInv DEF handleMsgSubmitCall, SubmitCall
  <2> QED
    BY <2>1, <2>2
<1>2. ASSUME NEW id \in DOMAIN calls, NEW a \in Account, handleMsgConfirmCall(id, a)
      PROVE  MsInv'
  BY <1>2, ConfirmKeepsInv DEF handleMsgConfirmCall, ConfirmCall
<1>3. ASSUME NEW id \in DOMAIN calls, NEW a \in Account, handleMsgRevokeConfirm(id, a)
      PROVE  MsInv'
  BY <1>3, RevokeKeepsInv DEF handleMsgRevokeConfirm
<1>4. CASE EndBlockSteps
  BY <1>4, EndBlockerStartKeepsInv, ActiveTurnKeepsInv, RejectStartKeepsInv,
     RejectTurnKeepsInv, CommitKeepsInv, NextBlockKeepsInv DEF EndBlockSteps
<1>5. CASE RestartAtZeroHeight
  BY <1>5, RestartKeepsInv
<1>6. CASE UNCHANGED vars
  <2>1. UNCHANGED <<height, phase, iterator, calls, callIDs, votes, queue, lastCallID>>
    BY <1>6 DEF vars, msVars
  <2>2. TypeOK' /\ UniqueIDIndex' /\ OneOutcome' /\ OneVotePerAccount'
    BY <2>1 DEF MsInv, TypeOK, UniqueIDIndex, OneOutcome, OneVotePerAccount
  <2>3. QueueMatchesCalls' /\ QueueTiming'
    BY <2>1 DEF MsInv, QueueMatchesCalls, HasCall, CanBeVoted, QueueTiming, Fresh, start
  <2> QED
    BY <2>2, <2>3 DEF MsInv
<1> QED
  BY <1>1, <1>2, <1>3, <1>4, <1>5, <1>6 DEF Next

LEMMA MsInvAlways == Spec => []MsInv
  BY MsInvInit, MsInvStep, PTL DEF Spec

\* The state of x/multisig stays well-typed.
THEOREM TypeCorrect == Spec => []TypeOK
<1>1. MsInv => TypeOK
  BY DEF MsInv
<1> QED
  BY <1>1, MsInvAlways, PTL

\* The unique id index and the calls SubmitCall looks up are inverse to each
\* other in every reachable state.
THEOREM UniqueIDsAlwaysIndexed == Spec => []UniqueIDIndex
<1>1. MsInv => UniqueIDIndex
  BY DEF MsInv
<1> QED
  BY <1>1, MsInvAlways, PTL

\* The EndBlocker only ever meets queue entries of stored calls that are not
\* decided yet, at the height by which RemoveCallFromQueue finds them.
THEOREM QueueAlwaysMatches == Spec => []QueueMatchesCalls
<1>1. MsInv => QueueMatchesCalls
  BY DEF MsInv
<1> QED
  BY <1>1, MsInvAlways, PTL

\* The flags a call carries always describe one outcome, and no account's
\* vote is counted twice.
THEOREM OutcomesAndVotes == Spec => [](OneOutcome /\ OneVotePerAccount)
<1>1. MsInv => OneOutcome /\ OneVotePerAccount
  BY DEF MsInv
<1> QED
  BY <1>1, MsInvAlways, PTL

\* No entry grows older than two intervals and a block, however the rejection
\* loop's late start falls.
THEOREM QueueAgeIsBounded == Spec => []QueueAgeBound
<1>1. MsInv => QueueAgeBound
  <2> SUFFICES ASSUME MsInv, NEW e \in queue
               PROVE  height - e.height <= 2 * IntervalToExecute + 1
    BY DEF QueueAgeBound
  <2>1. e.height \in Nat /\ height \in Nat /\ IntervalToExecute \in Nat
    BY IntervalAssumption DEF MsInv, TypeOK, Entry
  <2>2. Fresh(e, height - 1) \/ Fresh(e, height)
    BY DEF MsInv, TypeOK, QueueTiming
  <2> QED
    BY <2>1, <2>2 DEF Fresh
<1> QED
  BY <1>1, MsInvAlways, PTL

\* After every committed block the chain can be exported for height zero and
\* started again: InitGenesis never refuses the export.
THEOREM ExportAlwaysAccepted == Spec => []ExportAlwaysValid
<1>1. MsInv => ExportAlwaysValid
  BY ExportIsValid DEF ExportAlwaysValid
<1> QED
  BY <1>1, MsInvAlways, PTL
-----------------------------------------------------------------------------
(* What a step may never do.                                               *)

\* A vote given or taken back touches no decided call.
LEMMA VotesOfDecided ==
  ASSUME MsInv, NEW id \in DOMAIN calls, CanBeVoted(calls[id]), NEW s,
         votes' = [votes EXCEPT ![id] = s], UNCHANGED calls,
         NEW j \in DOMAIN calls, ~CanBeVoted(calls[j])
  PROVE  calls'[j] = calls[j] /\ votes'[j] = votes[j] /\ j \in DOMAIN calls'
<1>1. DOMAIN votes = DOMAIN calls
  BY DEF MsInv, TypeOK
<1> QED
  BY <1>1

\* A decided call is never decided again and its votes are frozen.
THEOREM DecidedStaysFinal == Spec => DecidedIsFinal
<1> DEFINE Kept(j) == /\ j \in DOMAIN calls'
                      /\ [calls'[j] EXCEPT !.height = 0] = [calls[j] EXCEPT !.height = 0]
                      /\ votes'[j] = votes[j]
           Final == \A id \in DOMAIN calls :
                       ~CanBeVoted(calls[id]) =>
                          /\ id \in DOMAIN calls'
                          /\ [calls'[id] EXCEPT !.height = 0] = [calls[id] EXCEPT !.height = 0]
                          /\ votes'[id] = votes[id]
<1>1. MsInv /\ [Next]_vars => [Final]_vars
  <2> SUFFICES ASSUME MsInv, Next, NEW j \in DOMAIN calls, ~CanBeVoted(calls[j])
               PROVE  Kept(j)
    OBVIOUS
  <2>0. /\ calls \in [0..lastCallID -> Call] /\ votes \in [0..lastCallID -> Seq(Account)]
        /\ lastCallID \in Nat \cup {-1} /\ iterator \subseteq queue
    BY DEF MsInv, TypeOK, QueueTiming
  <2>a. ASSUME NEW id \in DOMAIN calls, NEW a \in Account, ConfirmCall(id, a), UNCHANGED calls
        PROVE  Kept(j)
    BY <2>a, VotesOfDecided DEF ConfirmCall, storeVote
  <2>b. ASSUME NEW e \in iterator, NEW c, calls' = [calls EXCEPT ![e.id] = c], UNCHANGED votes
        PROVE  Kept(j)
    <3>1. e.id \in DOMAIN calls /\ CanBeVoted(calls[e.id])
      BY <2>0, EntryOfCall
    <3> QED
      BY <2>0, <2>b, <3>1
  <2>c. ASSUME UNCHANGED msVars PROVE Kept(j)
    BY <2>c DEF msVars
  <2>1. ASSUME NEW uid \in UniqueID, NEW msg \in Msg, NEW a \in Account,
               handleMsgSubmitCall(uid, msg, a)
        PROVE  Kept(j)
    <3>1. CASE uid \in DOMAIN callIDs
      <4>1. callIDs[uid] \in DOMAIN calls
        BY <3>1 DEF MsInv, UniqueIDIndex
      <4> QED
        BY <2>1, <3>1, <4>1, <2>a DEF handleMsgSubmitCall, SubmitCall
    <3>2. CASE uid \notin DOMAIN callIDs
      <4>1. /\ calls' = Put(calls, lastCallID + 1, NewCall(uid, msg, a))
            /\ votes' = Put(votes, lastCallID + 1, <<NewCall(uid, msg, a).creator>>)
        BY <2>1, <3>2 DEF handleMsgSubmitCall, SubmitCall, createCall, nextCallID
      <4>2. j # lastCallID + 1 /\ j \in DOMAIN votes
        BY <2>0
      <4>3. j \in DOMAIN calls' /\ calls'[j] = calls[j] /\ votes'[j] = votes[j]
        BY <4>1, <4>2 DEF Put
      <4> QED
        BY <4>3
    <3> QED
      BY <3>1, <3>2
  <2>2. ASSUME NEW id \in DOMAIN calls, NEW a \in Account, handleMsgConfirmCall(id, a)
        PROVE  Kept(j)
    BY <2>2, <2>a DEF handleMsgConfirmCall
  <2>3. ASSUME NEW id \in DOMAIN calls, NEW a \in Account, handleMsgRevokeConfirm(id, a)
        PROVE  Kept(j)
    BY <2>3, VotesOfDecided DEF handleMsgRevokeConfirm, revokeVote
  <2>4. ASSUME NEW e \in iterator, ActiveTurn(e) PROVE Kept(j)
    <3>1. UNCHANGED votes /\ (UNCHANGED calls \/ \E c : calls' = [calls EXCEPT ![e.id] = c])
      BY <2>4, <2>0 DEF ActiveTurn, ExecuteCall
    <3> QED
      BY <3>1, <2>b
  <2>5. ASSUME NEW e \in iterator, RejectTurn(e) PROVE Kept(j)
    <3>1. UNCHANGED votes
          /\ calls' = [calls EXCEPT ![e.id] = [calls[e.id] EXCEPT !.rejected = TRUE]]
      BY <2>5, <2>0 DEF RejectTurn
    <3> QED
      BY <3>1, <2>b
  <2>6. CASE EndBlockerStart \/ RejectStart \/ Commit \/ NextBlock
    BY <2>6, <2>c DEF EndBlockerStart, RejectStart, Commit, NextBlock
  <2>7. CASE RestartAtZeroHeight
    <3>1. /\ j \in DOMAIN calls' /\ votes'[j] = votes[j]
          /\ calls'[j] = [calls[j] EXCEPT !.height = 0] /\ calls[j] \in Call
      BY <2>7, <2>0 DEF RestartAtZeroHeight, SquashedCalls
    <3> QED
      BY <3>1 DEF Call
  <2> HIDE DEF Kept
  <2> QED
    BY <2>1, <2>2, <2>3, <2>4, <2>5, <2>6, <2>7 DEF Next, EndBlockSteps
<1> QED
  BY <1>1, MsInvAlways, PTL DEF Spec, DecidedIsFinal

\* The modules behind the router change only by the execution of a call that
\* is pending, in time and confirmed by enough distinct accounts.
THEOREM AppChangesAreConfirmed == Spec => AppChangesOnlyByExecution
<1> DEFINE Executed(id) ==
             /\ CanBeVoted(calls[id]) /\ calls'[id].executed
             /\ Uint16(Cardinality(ToSet(votes[id]))) >= EnoughConfirmations(app)
             /\ height - calls[id].height <= IntervalToExecute
             /\ app' = Handle(app, calls[id].msg).st
           OnlyExecution == app' # app => \E id \in DOMAIN calls : Executed(id)
<1>1. MsInv /\ [Next]_vars => [OnlyExecution]_vars
  <2> SUFFICES ASSUME MsInv, Next, app' # app
               PROVE  \E id \in DOMAIN calls : Executed(id)
    OBVIOUS
  <2>1. PICK e \in iterator : ActiveTurn(e)
    BY DEF Next, EndBlockSteps, handleMsgSubmitCall, handleMsgConfirmCall,
           handleMsgRevokeConfirm, EndBlockerStart, RejectStart, RejectTurn, Commit,
           NextBlock, RestartAtZeroHeight
  <2>2. e \in queue /\ height \in Nat /\ e.height \in Nat /\ e.height >= start
    BY <2>1 DEF MsInv, TypeOK, QueueTiming, ActiveTurn, Entry
  <2>3. e.id \in DOMAIN calls /\ calls[e.id] \in Call /\ CanBeVoted(calls[e.id])
        /\ calls[e.id].height = e.height
    BY <2>2, EntryOfCall DEF MsInv, QueueMatchesCalls
  <2>4. height - calls[e.id].height <= IntervalToExecute
    BY <2>2, <2>3, IntervalAssumption DEF start
  <2>5. /\ Uint16(Len(votes[e.id])) >= EnoughConfirmations(app)
        /\ Handle(app, calls[e.id].msg).ok
        /\ app' = Handle(app, calls[e.id].msg).st
        /\ calls' = [calls EXCEPT ![e.id] =
                       [@ EXCEPT !.approved = TRUE, !.executed = TRUE]]
    BY <2>1 DEF ActiveTurn, ExecuteCall, GetConfirmationsCount
  <2>6. calls'[e.id].executed
    BY <2>3, <2>5 DEF Call
  <2>7. Cardinality(ToSet(votes[e.id])) = Len(votes[e.id])
    BY <2>3, DistinctCardinality DEF MsInv, TypeOK, OneVotePerAccount
  <2> QED
    BY <2>3, <2>4, <2>5, <2>6, <2>7
<1> QED
  BY <1>1, MsInvAlways, PTL DEF Spec, AppChangesOnlyByExecution
=============================================================================
