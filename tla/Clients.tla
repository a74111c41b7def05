------------------------------- MODULE Clients -------------------------------
(***************************************************************************)
(* The clients of a node at work: users who send transactions through the  *)
(* command line or the REST server, compile Move code into a file and use  *)
(* it, and one who reads a list page after page while blocks of others     *)
(* change it.                                                              *)
(*                                                                         *)
(* A handler of a client changes nothing of the chain: what it makes of a  *)
(* request is a message, and Deliver executes the message with the change  *)
(* it makes to what the queries read.  Whether the chain executes a valid  *)
(* message (balances, votes, gas) is the other modules' matter; here it    *)
(* may, or may not.                                                        *)
(***************************************************************************)
EXTENDS QueryClient

CONSTANTS
    Requests,      \* transaction requests, by operation
    Queries,       \* queries, by operation
    Store0,        \* what the queries read at first
    Outcomes,      \* what the virtual machine may answer for a contract
    Sources,       \* Move sources a user may compile
    Limits,        \* page sizes of the reader
    MaxSent        \* bound on the messages delivered

VARIABLES
    s,             \* what the queriers and the compiler answer from
    file,          \* the file the compile command has written
    walk,          \* the reader of a list
    sent           \* number of messages delivered

vars == <<s, file, walk, sent>>

NoFile == [kind |-> "absent", content |-> <<>>, source |-> ""]

NoWalk == [list |-> "none", limit |-> 0, page |-> 0, got |-> <<>>, first |-> {},
           removed |-> FALSE, done |-> FALSE]

(* The message of a request through a door. *)
Handled(door, q) ==
    IF door = "cli" THEN CliHandle(q, s)
    ELSE IF q.op \in RestOps THEN RestHandle(q, s) ELSE {}

(***************************************************************************)
(* What the chain makes of a message, as far as it can be queried.         *)
(***************************************************************************)
Delivered(door, op) ==
    {m \in UNION {Handled(door, q) : q \in Requests[op]} : ValidateBasic(m)}

DeliverWithdraw(m) ==
    /\ m.coin.denom \in DOMAIN s.currencies
    /\ s' = [s EXCEPT !.withdraws =
                Append(@, [id |-> Len(s.withdraws), coin |-> m.coin, spender |-> m.payer,
                           payee |-> m.pzPayee])]

(* Add: the pair is new and both currencies are registered. *)
DeliverCreateMarket(m) ==
    LET market == [base |-> m.base, quote |-> m.quote]
    IN  /\ market \notin ToSet(s.markets)
        /\ {m.base, m.quote} \subseteq DOMAIN s.currencies
        /\ s' = [s EXCEPT !.markets = Append(@, market)]

(* PostOrder: the market is the first one of the asset code. *)
DeliverPost(m) ==
    /\ \E found \in GetMarketsFiltered(s, MarketsReq(NoWord, NoWord, m.assetCode), 1, 1) :
         /\ found # <<>>
         /\ s' = [s EXCEPT !.nextOrder = @ + 1,
                           !.orders = (s.nextOrder :> [owner |-> m.owner, market |-> found[1].id,
                                                       direction |-> m.direction]) @@ @]
    /\ walk' = walk

DeliverCancel(m) ==
    /\ m.orderID \in DOMAIN s.orders
    /\ s.orders[m.orderID].owner = m.owner
    /\ s' = [s EXCEPT !.orders = [id \in DOMAIN @ \ {m.orderID} |-> @[id]]]
    /\ walk' = IF walk.list = "orders" THEN [walk EXCEPT !.removed = TRUE] ELSE walk

DeliverSubmitCall(m) ==
    LET id == Cardinality(DOMAIN s.calls)
    IN  /\ \A c \in DOMAIN s.calls : s.calls[c].uniqueID # m.uniqueID
        /\ s' = [s EXCEPT !.calls = (id :> [uniqueID |-> m.uniqueID, height |-> s.height,
                                            queued |-> TRUE, votes |-> <<m.creator>>]) @@ @]

(* A script, or every contract of a deployment, has its own outcome. *)
DeliverContracts(contracts) ==
    /\ DOMAIN s.txs = {}
    /\ \E outcomes \in [1 .. contracts -> Outcomes] :
         s' = [s EXCEPT !.txs = ("hash" :> <<<<>>, outcomes>>)]

(* The operations that go through a multisignature call. *)
CalledOps == {"issue", "unstake", "add_validator", "remove_validator", "replace_validator"}

Deliver ==
    /\ sent < MaxSent
    /\ sent' = sent + 1
    /\ UNCHANGED file
    /\ \E door \in {"cli", "rest"} :
         \/ \E m \in Delivered(door, "withdraw") : DeliverWithdraw(m) /\ UNCHANGED walk
         \/ \E m \in Delivered(door, "add_market") : DeliverCreateMarket(m) /\ UNCHANGED walk
         \/ \E m \in Delivered(door, "post_order") : DeliverPost(m)
         \/ \E m \in Delivered(door, "revoke_order") : DeliverCancel(m)
         \/ \E op \in CalledOps : \E m \in Delivered(door, op) : DeliverSubmitCall(m) /\ UNCHANGED walk
         \/ \E m \in Delivered(door, "execute") : DeliverContracts(1) /\ UNCHANGED walk
         \/ \E m \in Delivered(door, "publish") : DeliverContracts(Len(m.module)) /\ UNCHANGED walk

(***************************************************************************)
(* The compiler is a process of its own: it may stop and come back.        *)
(***************************************************************************)
CompilerStops ==
    /\ s.compiler = "up"
    /\ s' = [s EXCEPT !.compiler = "down"]
    /\ UNCHANGED <<file, walk, sent>>

CompilerStarts ==
    /\ s.compiler = "down"
    /\ s' = [s EXCEPT !.compiler = "up"]
    /\ UNCHANGED <<file, walk, sent>>

(* compile --to-file: an error leaves the file as it was. *)
CompileToFile(source, address) ==
    /\ \E items \in Compile([op |-> "compile", file |-> [kind |-> "file", content |-> source],
                             address |-> address], s) :
         file' = [kind |-> "file", content |-> items, source |-> source]
    /\ UNCHANGED <<s, walk, sent>>

(***************************************************************************)
(* A reader asks for page after page until one is not full.                *)
(***************************************************************************)
PageOf(list, page, limit) ==
    [op |-> list, page |-> Number(page), limit |-> Number(limit), base |-> NoWord, quote |-> NoWord,
     owner |-> AddressText("empty", EmptyAddress), direction |-> [word |-> "", upper |-> FALSE],
     marketID |-> NoNumber]

(* The ids of the elements of a list that an answer holds. *)
IdsOf(list, answer) ==
    IF list = "orders" THEN answer ELSE [i \in DOMAIN answer |-> answer[i].id]

Stored(list) ==
    CASE list = "withdraws" -> 0 .. Len(s.withdraws) - 1
      [] list = "markets"   -> 0 .. Len(s.markets) - 1
      [] list = "orders"    -> DOMAIN s.orders

StartWalk(list, limit) ==
    /\ walk = NoWalk
    /\ walk' = [NoWalk EXCEPT !.list = list, !.limit = limit, !.page = 1, !.first = Stored(list)]
    /\ UNCHANGED <<s, file, sent>>

ReadPage ==
    /\ walk.list # "none" /\ ~walk.done
    /\ \E answer \in RestQuery(PageOf(walk.list, walk.page, walk.limit), s) :
         walk' = [walk EXCEPT !.page = @ + 1,
                              !.got = @ \o IdsOf(walk.list, answer),
                              !.done = Len(answer) < walk.limit]
    /\ UNCHANGED <<s, file, sent>>

EndWalk ==
    /\ walk.done
    /\ walk' = NoWalk
    /\ UNCHANGED <<s, file, sent>>

Init ==
    /\ s = Store0
    /\ file = NoFile
    /\ walk = NoWalk
    /\ sent = 0

Next ==
    \/ Deliver
    \/ CompilerStops
    \/ CompilerStarts
    \/ \E source \in Sources, address \in {AddressText("bech32", "alice")} : CompileToFile(source, address)
    \/ \E list \in {"withdraws", "markets", "orders"}, limit \in Limits : StartWalk(list, limit)
    \/ ReadPage
    \/ EndWalk

Spec == Init /\ [][Next]_vars

-----------------------------------------------------------------------------
(* A request both doors can read: the sender in Bech32, as BaseReq wants   *)
(* it, and no look-up of the account.                                      *)
Comparable(q) == q.body /\ q.from.form = "bech32" /\ q.generateOnly

Prefixed(items) == \E i \in DOMAIN items : items[i].code.prefixed

(* The requests the two doors are known to read differently: the REST      *)
(* handler of orders lowers no letters, code in a file has no 0x in front  *)
(* of it, and only a file has several items and their types.               *)
ReadDifferently(q) ==
    CASE q.op = "post_order" -> q.assetCode.upper \/ q.direction.upper
      [] q.op = "execute" -> Prefixed(q.file.content) \/ Len(q.file.content) # 1
      [] q.op = "publish" -> \/ Prefixed(q.file.content)
                             \/ \E i \in DOMAIN q.file.content :
                                   q.file.content[i].codeType # q.file.content[1].codeType
      [] OTHER -> FALSE

(* The queries the two doors are known to answer differently: the REST     *)
(* handler of a call goes on after a bad id (multisig rest.go:83), and the *)
(* command for raw prices swallows the refusal of the querier (oracle      *)
(* queries.go:96).                                                         *)
AnsweredDifferently(q) ==
    CASE q.op = "call" -> ParseDnIDParam(q.number) = {}
      [] q.op = "rawprices" -> CliQuery(q, s) = Ok(CouldNotGet)
      [] OTHER -> FALSE

(***************************************************************************)
(* The command line (x/.../client/cli) and the REST server                 *)
(* (x/.../client/rest) make the same message of the same request, or both  *)
(* none the node would take, whatever the state of the chain and of the    *)
(* compiler, but for the requests ReadDifferently names.  They give the    *)
(* same answer to a query, but for the ones AnsweredDifferently names; of  *)
(* these, one door gives no answer, so that they never contradict each     *)
(* other.  (Handlers look at s alone: every value of s is met with no walk *)
(* and no file.)                                                           *)
(***************************************************************************)
DoorsAgree ==
    walk = NoWalk /\ file = NoFile =>
        /\ \A op \in RestOps : \A q \in Requests[op] :
              Comparable(q) /\ ~ReadDifferently(q) =>
                 RestHandle(q, s) = {m \in CliHandle(q, s) : ValidateBasic(m)}
        /\ \A op \in RestQueries : \A q \in Queries[op] :
              q.body /\ q.height.empty =>
                 IF AnsweredDifferently(q) THEN RestQuery(q, s) = {} \/ CliQuery(q, s) = {}
                 ELSE RestQuery(q, s) = CliQuery(q, s)

(***************************************************************************)
(* A reader who asks for page after page (PaginateSlice, GetListFiltered,  *)
(* GetWithdrawsFiltered) has seen everything that was in the list when it  *)
(* began and was not removed meanwhile, although others go on adding to    *)
(* the list, and has seen every withdraw and order once.  A market may be  *)
(* seen twice: ids are compared as texts in the keys, so a new market may  *)
(* come in front of the page.  Of orders nothing is said once one was      *)
(* removed, which moves the others to the page before.                     *)
(***************************************************************************)
PagesAreComplete ==
    walk.done /\ ~walk.removed =>
        /\ walk.first \subseteq ToSet(walk.got)
        /\ walk.list \in {"withdraws", "orders"} => IsInjective(walk.got)

(***************************************************************************)
(* The VM status of a committed transaction (NewContractEvents, the log of *)
(* the message, NewVMStatusFromABCILogs) says "discard" exactly for the    *)
(* messages with a contract the virtual machine discarded, with the codes  *)
(* of the last such contract, and with a message only if one had it.       *)
(***************************************************************************)
StatusIsTold ==
    \A hash \in DOMAIN s.txs :
        LET logs == SelectSeq(s.txs[hash], LAMBDA outcomes : outcomes # <<>>)
        IN  \A told \in GetTxVMStatus([hash |-> hash], s) :
              /\ Len(told) = Len(logs)
              /\ \A i \in DOMAIN logs :
                   LET failed == {j \in DOMAIN logs[i] : logs[i][j].error # "none"}
                   IN  IF failed = {} THEN told[i] = NewVMStatus("keep", "", "", "")
                       ELSE /\ told[i].status = "discard"
                            /\ <<told[i].majorCode, told[i].subCode>> =
                                   GetStatusCodesFromVMStatus(logs[i][Max(failed)])
                            /\ told[i].message # "" =>
                                   \E j \in failed : logs[i][j].message = told[i].message

Width(type) ==
    CASE type = "u8" -> 1
      [] type = "u64" -> U64Bytes
      [] type = "u128" -> U128Bytes

Capacity(type) ==
    CASE type = "u8" -> MaxUint8
      [] type = "u64" -> MaxUint64
      [] type = "u128" -> ByteBase ^ U128Bytes - 1

Fits(t, type) ==
    t.kind \in {"number", "hash"} /\ t.body.digits /\ t.body.val \in 0 .. Capacity(type)

(* The number that bytes stand for, the least significant first. *)
Decoded(bytes) == MapThenSumSet(LAMBDA i : bytes[i] * ByteBase ^ (i - 1), DOMAIN bytes)

(***************************************************************************)
(* What a user has compiled (Compile, saveOutput) is what the transaction  *)
(* commands send, however the compiler stops and comes back in between.    *)
(* Units of one kind are deployed, with the code the compiler gave, also   *)
(* when it has stopped; execute asks it again (ExtractArguments) and makes *)
(* a message exactly while it answers, for a single script and arguments   *)
(* that fit its types.  In this message every number arrives as the one    *)
(* the user wrote, little-endian and as wide as its type                   *)
(* (ConvertStringScriptArguments).                                         *)
(***************************************************************************)
CompiledIsWhatRuns ==
    file.kind = "file" =>
        LET units == s.compiled[file.source]
            code == [i \in DOMAIN units |-> units[i].code]
            oneKind == \A i \in DOMAIN units : units[i].codeType = units[1].codeType
            script == Len(units) = 1 /\ units[1].codeType = "script"
            FitsAll(args) ==
                LET types == s.meta[code[1]]
                IN  Len(args) = Len(types) /\ \A i \in DOMAIN args : Fits(args[i], types[i])
        IN  /\ \A q \in {[r EXCEPT !.file = file] : r \in Requests["publish"]} :
                  DeployContract(q, s) =
                     {NewMsgDeployModule(from, code) : from \in IF oneKind THEN CliFrom(q, s) ELSE {}}
            /\ \A q \in {[r EXCEPT !.file = file] : r \in Requests["execute"]} :
                  LET made == ExecuteScript(q, s)
                  IN  /\ made # {} <=>
                            CliFrom(q, s) # {} /\ s.compiler = "up" /\ script /\ FitsAll(q.args)
                      /\ \A m \in made :
                            /\ m.script = code[1]
                            /\ \A i \in DOMAIN m.args :
                                  /\ Len(m.args[i].value) = Width(m.args[i].type)
                                  /\ Decoded(m.args[i].value) = q.args[i].body.val
=============================================================================
