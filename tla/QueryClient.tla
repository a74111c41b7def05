----------------------------- MODULE QueryClient -----------------------------
(***************************************************************************)
(* The queries of dncli and of the REST server, and the queriers of the    *)
(* node they reach.  As in module TxClient a query is the set of its       *)
(* answers, empty when an error is returned.  A panic in a querier ends    *)
(* the request as an error too.                                            *)
(*                                                                         *)
(* s is what the queriers read, at the latest height:                      *)
(*   s.currencies, s.issues     functions of denomination and issue id     *)
(*   s.withdraws, s.markets     sequences, element i has the id i - 1      *)
(*   s.orders                   function of order id                       *)
(*   s.validators, s.poaParams  the PoA validators and limits              *)
(*   s.calls, s.height          calls by id, height of the last block      *)
(*   s.prices, s.raw            answers of the oracle, by asset code       *)
(*   s.data                     VM values by <<address, path>>             *)
(*   s.txs                      VM outcomes of the messages of committed   *)
(*                              transactions, by hash                      *)
(***************************************************************************)
EXTENDS TxClient, TLC

CONSTANTS
    DigitBase,        \* base of the digits of a number in a store key
    IntervalToExecute,\* x/multisig parameter
    CouldNotGet,      \* the line a command prints instead of raw prices
    AbortedCode,      \* VMAbortedCode
    KnownCodes        \* VM status codes that have a name

ASSUME QueryAssumption == DigitBase \in Nat \ {0, 1} /\ IntervalToExecute \in Nat

Found(f, k) == IF k \in DOMAIN f THEN Ok(f[k]) ELSE Refused

(***************************************************************************)
(* Lists and their pages.                                                  *)
(***************************************************************************)
(* The decimal digits of an id, most significant first, as in a key. *)
KeyDigits(n) ==
    LET width == CHOOSE w \in 1 .. n + 1 :
                     n < DigitBase ^ w /\ \A v \in 1 .. w - 1 : n >= DigitBase ^ v
    IN  [i \in 1 .. width |-> (n \div DigitBase ^ (width - i)) % DigitBase]

(* Byte order of two keys. *)
KeyBefore(m, n) ==
    LET a == KeyDigits(m)
        b == KeyDigits(n)
    IN  \/ m # n /\ IsPrefix(a, b)
        \/ \E i \in DOMAIN a \cap DOMAIN b :
              /\ a[i] < b[i]
              /\ \A j \in 1 .. i - 1 : a[j] = b[j]

(* The elements [start, end) of a list; Go panics when end < start. *)
Slice(list, range) ==
    When(range.start <= range.end, SubSeq(list, range.start + 1, range.end))

(* The markets in the order of their keys, market:<id>. *)
iterateMarkets(s) ==
    SortSeq([i \in DOMAIN s.markets |-> [id |-> i - 1, market |-> s.markets[i]]],
            LAMBDA m, n : KeyBefore(m.id, n.id))

(* The filters of a request for markets; of the handlers only PostOrder of *)
(* x/orders filters by asset code.                                         *)
MarketsReq(base, quote, assetCode) == [base |-> base, quote |-> quote, assetCode |-> assetCode]

MarketMatches(req, m) ==
    /\ stringNotEmpty(req.base) => m.base = req.base
    /\ stringNotEmpty(req.quote) => m.quote = req.quote
    /\ stringNotEmpty(req.assetCode) => <<m.base.name, m.quote.name>> = req.assetCode.name

(* An error of PaginateSlice gives no markets; its panic ends the request. *)
GetMarketsFiltered(s, req, page, limit) ==
    LET filtered == SelectSeq(iterateMarkets(s), LAMBDA e : MarketMatches(req, e.market))
    IN  IF page = 0 \/ limit = 0 THEN Ok(<<>>)
        ELSE UNION {Slice(filtered, r) : r \in PaginateSlice(Len(filtered), page, limit)}

(* The keys of orders hold the id in eight bytes: they come in id order. *)
GetList(s) == SortSeq(SetToSeq(DOMAIN s.orders), <)

(* An owner and a direction filter when they are given and valid; a market *)
(* id that is not a number is a nil id, and comparing with it panics.      *)
OrderMatches(q, owner, o) ==
    /\ ~Empty(owner) => o.owner = owner
    /\ (DirectionIsValid(q.direction.word) /\ ~q.direction.upper) => o.direction = q.direction.word
    /\ ~q.marketID.empty => o.market = q.marketID.val

GetOrdersFiltered(s, q, owner, page, limit) ==
    LET ids == GetList(s)
        filtered == SelectSeq(ids, LAMBDA id : OrderMatches(q, owner, s.orders[id]))
        nilID == ~q.marketID.empty /\ ParseDnIDParam(q.marketID) = {}
    IN  IF nilID /\ ids # <<>> THEN Refused
        ELSE UNION {Slice(filtered, r) : r \in PaginateSlice(Len(filtered), page, limit)}

(* Withdraws are read one id after the other until one is missing. *)
GetWithdrawsFiltered(s, page, limit) ==
    LET startID == (page - 1) * limit
    IN  SubSeq(s.withdraws, startID + 1,
               IF startID + limit < Len(s.withdraws) THEN startID + limit ELSE Len(s.withdraws))

(***************************************************************************)
(* x/currencies                                                            *)
(***************************************************************************)
queryGetCurrency(s, denom) == Found(s.currencies, denom)
queryGetCurrencies(s) == Ok(s.currencies)
queryGetIssue(s, id) == Found(s.issues, id)
queryGetWithdraw(s, id) == Found(s.withdraws, id + 1)
queryGetWithdraws(s, page, limit) == Ok(GetWithdrawsFiltered(s, page, limit))

GetCurrency(q, s) == queryGetCurrency(s, q.denom)
getCurrency(q, s) == queryGetCurrency(s, q.denom)

GetCurrencies(q, s) == queryGetCurrencies(s)
getCurrencies(q, s) == queryGetCurrencies(s)

GetIssue(q, s) == queryGetIssue(s, q.id)
getIssue(q, s) == queryGetIssue(s, q.id)

GetWithdraws(q, s) ==
    UNION {queryGetWithdraws(s, p[1], p[2]) : p \in ParsePaginationParams(q.page, q.limit)}

getWithdraws(q, s) ==
    UNION {queryGetWithdraws(s, p[1], p[2]) : p \in ParsePaginationParams(q.page, q.limit)}

GetWithdraw(q, s) == UNION {queryGetWithdraw(s, id) : id \in ParseDnIDParam(q.number)}
getWithdraw(q, s) == UNION {queryGetWithdraw(s, id) : id \in ParseDnIDParam(q.number)}

(***************************************************************************)
(* x/markets                                                               *)
(***************************************************************************)
queryMarket(s, id) == Found(s.markets, id + 1)

GetCmdListMarkets(q, s) ==
    UNION {GetMarketsFiltered(s, MarketsReq(q.base, q.quote, NoWord), p[1], p[2]) :
              p \in ParsePaginationParams(q.page, q.limit)}

getMarketsWithParams(q, s) ==
    UNION {GetMarketsFiltered(s, MarketsReq(q.base, q.quote, NoWord), p[1], p[2]) :
              p \in ParsePaginationParams(q.page, q.limit)}

GetCmdMarket(q, s) == UNION {queryMarket(s, id) : id \in ParseDnIDParam(q.number)}
getMarket(q, s) == UNION {queryMarket(s, id) : id \in ParseDnIDParam(q.number)}

(***************************************************************************)
(* x/orders: the owner has to be written in Bech32 in both.                *)
(***************************************************************************)
queryOrder(s, id) == Found(s.orders, id)

GetCmdListOrders(q, s) ==
    UNION {GetOrdersFiltered(s, q, owner, p[1], p[2]) :
              p \in ParsePaginationParams(q.page, q.limit),
              owner \in AccAddressFromBech32(q.owner)}

getOrdersWithParams(q, s) ==
    UNION {GetOrdersFiltered(s, q, owner, p[1], p[2]) :
              p \in ParsePaginationParams(q.page, q.limit),
              owner \in AccAddressFromBech32(q.owner)}

GetCmdOrder(q, s) == UNION {queryOrder(s, id) : id \in ParseDnIDParam(q.number)}
getOrder(q, s) == UNION {queryOrder(s, id) : id \in ParseDnIDParam(q.number)}

(***************************************************************************)
(* x/poa                                                                   *)
(***************************************************************************)
queryGetValidators(s) ==
    Ok([validators |-> s.validators, confirmations |-> Len(s.validators) \div 2 + 1])

queryGetValidator(s, address) ==
    When(address \in ToSet(s.validators), address)

queryGetMinMax(s) == Ok(s.poaParams)

GetValidators(q, s) == queryGetValidators(s)
getValidators(q, s) == queryGetValidators(s)
GetValidator(q, s) == UNION {queryGetValidator(s, a) : a \in ParseSdkAddressParam(q.address)}
GetMinMax(q, s) == queryGetMinMax(s)

(***************************************************************************)
(* x/multisig.  A call is [uniqueID, height, queued, votes].               *)
(***************************************************************************)
queryGetCalls(s) ==
    LET start == IF s.height < IntervalToExecute THEN 0 ELSE s.height - IntervalToExecute
        listed == {id \in DOMAIN s.calls :
                      s.calls[id].queued /\ s.calls[id].height \in start .. s.height}
    IN  Ok([id \in listed |-> s.calls[id]])

queryGetCall(s, id) == Found(s.calls, id)

queryGetUnique(s, uniqueID) ==
    {s.calls[id] : id \in {i \in DOMAIN s.calls : s.calls[i].uniqueID = uniqueID}}

queryGetLastID(s) ==
    Ok(IF DOMAIN s.calls = {} THEN 0 ELSE CHOOSE id \in DOMAIN s.calls : \A i \in DOMAIN s.calls : i <= id)

GetCalls(q, s) == queryGetCalls(s)
getCalls(q, s) == queryGetCalls(s)

GetCall(q, s) == UNION {queryGetCall(s, id) : id \in ParseDnIDParam(q.number)}

(* An answer with the status of an error. *)
ErrorThen(body) == [status |-> "error", body |-> body]

(* After a bad id the REST handler writes an error, and goes on with the   *)
(* nil id, which is sent as zero: call zero follows in the body.           *)
getCall(q, s) ==
    IF ParseDnIDParam(q.number) = {} THEN {ErrorThen(call) : call \in queryGetCall(s, 0)}
    ELSE UNION {queryGetCall(s, id) : id \in ParseDnIDParam(q.number)}

GetCallByUniqueID(q, s) == queryGetUnique(s, q.id)
getCallByUnique(q, s) == queryGetUnique(s, q.id)
GetLastId(q, s) == queryGetLastID(s)

(***************************************************************************)
(* x/oracle.  queryCurrentPrice is modelled in module Oracle; s.prices are *)
(* its answers.  The REST handlers take the height of the state to read,   *)
(* and refuse one that is no number; without it they read the latest.      *)
(***************************************************************************)
ParseQueryHeight(q) == When(q.height.empty, 0)

queryCurrentPrice(s, assetCode) == Found(s.prices, assetCode)

(* An asset without prices at the height has the empty list. *)
queryRawPrices(s, assetCode, blockHeight) ==
    IF assetCode \notin DOMAIN s.prices \/ blockHeight > MaxUint64 \div 2 THEN Refused
    ELSE Ok(IF <<assetCode, blockHeight>> \in DOMAIN s.raw
            THEN s.raw[<<assetCode, blockHeight>>] ELSE <<>>)

queryAssets(s) == Ok(DOMAIN s.prices)

(* The answer is the text itself, in hexadecimal. *)
GetCmdAssetCodeHex(q, s) == ParseAssetCodeParam(q.assetCode)

GetCmdCurrentPrice(q, s) ==
    UNION {queryCurrentPrice(s, code) : code \in ParseAssetCodeParam(q.assetCode)}

getCurrentPriceHandler(q, s) ==
    UNION {queryCurrentPrice(s, code) :
              code \in ParseAssetCodeParam(q.assetCode), h \in ParseQueryHeight(q)}

(* The command prints a line when the querier refuses, and ends without an *)
(* error.                                                                  *)
GetCmdRawPrices(q, s) ==
    UNION {LET res == queryRawPrices(s, code, height)
           IN  IF res = {} THEN Ok(CouldNotGet) ELSE res :
              code \in ParseAssetCodeParam(q.assetCode), height \in ParseUint64Param(q.number)}

getRawPricesHandler(q, s) ==
    UNION {queryRawPrices(s, code, height) :
              code \in ParseAssetCodeParam(q.assetCode), height \in ParseUint64Param(q.number),
              h \in ParseQueryHeight(q)}

GetCmdAssets(q, s) == queryAssets(s)
getAssetsHandler(q, s) == UNION {queryAssets(s) : h \in ParseQueryHeight(q)}

(***************************************************************************)
(* x/vm: values, and their view by a layout the request gives.             *)
(***************************************************************************)
NoData == [type |-> <<"none">>, value |-> ""]

GetValue(s, address, path) ==
    IF <<address, path>> \in DOMAIN s.data THEN s.data[<<address, path>>] ELSE NoData

queryGetValue(s, address, path) == Ok(GetValue(s, address, path))

GetData(q, s) ==
    UNION {queryGetValue(s, address, path) :
              address \in ParseSdkAddressParam(q.address), path \in ParseHexStringParam(q.path)}

getData(q, s) ==
    UNION {queryGetValue(s, address, path) :
              address \in ParseSdkAddressParam(q.address), path \in ParseHexStringParam(q.path),
              h \in ParseQueryHeight(q)}

(* An item of a layout: a field, its type and the items inside of it, in a *)
(* sequence of at most one list (none is the nil inner_item).              *)
ViewerItem(name, type, inner) == [name |-> name, type |-> type, inner |-> inner]

PlainTypes == {"U8", "U64", "U128", "bool", "address"}

RECURSIVE getFieldReflectType(_), getStructReflectType(_)

getFieldReflectType(item) ==
    CASE item.type \in PlainTypes -> Ok(<<item.type>>)
      [] item.type = "struct" /\ item.inner # <<>> -> getStructReflectType(item.inner[1])
      [] item.type = "vector" /\ item.inner # <<>> ->
            IF Len(item.inner[1]) # 1 THEN Refused
            ELSE {<<"vector", type>> : type \in getFieldReflectType(item.inner[1][1])}
      [] OTHER -> Refused

(* Go refuses a struct with two fields of one name. *)
getStructReflectType(request) ==
    LET types == [i \in DOMAIN request |-> getFieldReflectType(request[i])]
        named == \A i \in DOMAIN request : request[i].name # ""
        distinct == \A i, j \in DOMAIN request : request[i].name = request[j].name => i = j
    IN  When(named /\ distinct /\ \A i \in DOMAIN types : types[i] # {},
             <<"struct">> \o [i \in DOMAIN types |-> CHOOSE t \in types[i] : TRUE])

(* lcs.Unmarshal reads a value of the type it was written with. *)
StringifyLCSData(request, data) ==
    {data.value : type \in {t \in getStructReflectType(request) : t = data.type}}

(* The path glav gives to a structure or to a module of an address. *)
AccessVector(module, struct) ==
    IF struct = "" THEN <<"module", module>> ELSE <<"struct", module, struct>>

queryLcsView(s, address, module, struct, request) ==
    LET data == GetValue(s, address, AccessVector(module, struct))
    IN  IF data = NoData THEN Refused ELSE StringifyLCSData(request, data)

(* A Move path: separators counts its "::". *)
MoveSplit(p) ==
    When(p.separators <= 1, <<p.module, IF p.separators = 1 THEN p.struct ELSE "">>)

GetLcsView(q, s) ==
    UNION {queryLcsView(s, address, m[1], m[2], request) :
              address \in ParseSdkAddressParam(q.address), m \in MoveSplit(q.movePath),
              request \in ParseFilePath(q.file)}

lcsView(q, s) ==
    UNION {queryLcsView(s, address, m[1], m[2], request) :
              address \in ParseSdkAddressParam(q.address), m \in MoveSplit(q.movePath),
              request \in When(q.body /\ q.file.kind = "file", q.file.content)}

(***************************************************************************)
(* Compilation: s.compiled gives the units the compiler makes of a source, *)
(* without an entry when it reports errors; s.compiler tells that it       *)
(* answers.                                                                *)
(***************************************************************************)
CompileSource(s, source) ==
    IF s.compiler = "up" /\ source \in DOMAIN s.compiled
    THEN Ok([i \in DOMAIN s.compiled[source] |->
                Item(s.compiled[source][i].codeType, HexText(FALSE, TRUE, s.compiled[source][i].code))])
    ELSE Refused

(* The command writes the items to a file, for the transaction commands. *)
Compile(q, s) ==
    UNION {CompileSource(s, source) :
              source \in ParseFilePath(q.file), address \in ParseSdkAddressParam(q.address)}

compile(q, s) ==
    UNION {CompileSource(s, source) :
              source \in When(q.body /\ q.file.kind = "file", q.file.content),
              address \in ParseSdkAddressParam(q.address)}

(***************************************************************************)
(* The status of a transaction: the outcome of the virtual machine goes    *)
(* into the attributes of an event, the events of one message and type are *)
(* merged in its log, and the query reads the status back from there.      *)
(***************************************************************************)
Attribute(key, value) == [key |-> key, value |-> value]

(* <<major, sub>> of an outcome [error, code, sub, message]. *)
GetStatusCodesFromVMStatus(o) ==
    IF o.error = "abort" THEN <<AbortedCode, o.sub>> ELSE <<o.code, "0">>

NewContractEvents(o) ==
    IF o.error = "none" THEN <<Attribute("status", "keep")>>
    ELSE LET codes == GetStatusCodesFromVMStatus(o)
         IN  <<Attribute("status", "discard"), Attribute("major", codes[1]), Attribute("sub", codes[2])>>
             \o (IF o.message = "" THEN <<>> ELSE <<Attribute("message", o.message)>>)

(* StringifyEvents: the attributes of all events of the type, in order. *)
ContractStatusOfLog(outcomes) ==
    FlattenSeq([i \in DOMAIN outcomes |-> NewContractEvents(outcomes[i])])

LastValue(attributes, key) ==
    LET at == {i \in DOMAIN attributes : attributes[i].key = key}
    IN  IF at = {} THEN "" ELSE attributes[Max(at)].value

GetStrCode(majorCode) == IF majorCode \in KnownCodes THEN majorCode ELSE "UNKNOWN"

NewVMStatus(status, majorCode, subCode, message) ==
    [status |-> status, majorCode |-> majorCode, subCode |-> subCode, message |-> message,
     strCode |-> IF status = "keep" THEN "" ELSE GetStrCode(majorCode)]

\* Defect: the last contract of the message gives the status.
LogStatusOfLast(attributes) ==
    NewVMStatus(LastValue(attributes, "status"), LastValue(attributes, "major"),
                LastValue(attributes, "sub"), LastValue(attributes, "message"))

(* The status of one log: a contract that was discarded decides it. *)
LogStatus(attributes) ==
    IF Attribute("status", "discard") \in ToSet(attributes)
    THEN NewVMStatus("discard", LastValue(attributes, "major"),
                     LastValue(attributes, "sub"), LastValue(attributes, "message"))
    ELSE NewVMStatus("keep", "", "", "")

(* A log without contract events has no status. *)
NewVMStatusFromABCILogs(tx) ==
    LET logs == SelectSeq(tx, LAMBDA outcomes : outcomes # <<>>)
    IN  [i \in DOMAIN logs |-> LogStatus(ContractStatusOfLog(logs[i]))]

GetTxVMStatus(q, s) == {NewVMStatusFromABCILogs(tx) : tx \in Found(s.txs, q.hash)}

getTxVMStatus(q, s) ==
    {NewVMStatusFromABCILogs(tx) : tx \in UNION {Found(s.txs, q.hash) : h \in ParseQueryHeight(q)}}

(***************************************************************************)
(* The commands and the routes, by the name of the query.                  *)
(***************************************************************************)
CliQuery(q, s) ==
    CASE q.op = "currency"   -> GetCurrency(q, s)
      [] q.op = "currencies" -> GetCurrencies(q, s)
      [] q.op = "get_issue"  -> GetIssue(q, s)
      [] q.op = "withdraws"  -> GetWithdraws(q, s)
      [] q.op = "get_withdraw" -> GetWithdraw(q, s)
      [] q.op = "markets"    -> GetCmdListMarkets(q, s)
      [] q.op = "market"     -> GetCmdMarket(q, s)
      [] q.op = "orders"     -> GetCmdListOrders(q, s)
      [] q.op = "order"      -> GetCmdOrder(q, s)
      [] q.op = "validators" -> GetValidators(q, s)
      [] q.op = "validator"  -> GetValidator(q, s)
      [] q.op = "minmax"     -> GetMinMax(q, s)
      [] q.op = "calls"      -> GetCalls(q, s)
      [] q.op = "call"       -> GetCall(q, s)
      [] q.op = "unique"     -> GetCallByUniqueID(q, s)
      [] q.op = "lastId"     -> GetLastId(q, s)
      [] q.op = "hex"        -> GetCmdAssetCodeHex(q, s)
      [] q.op = "price"      -> GetCmdCurrentPrice(q, s)
      [] q.op = "rawprices"  -> GetCmdRawPrices(q, s)
      [] q.op = "assets"     -> GetCmdAssets(q, s)
      [] q.op = "data"       -> GetData(q, s)
      [] q.op = "view"       -> GetLcsView(q, s)
      [] q.op = "compile"    -> Compile(q, s)
      [] q.op = "tx"         -> GetTxVMStatus(q, s)

RestQueries == {"currency", "currencies", "get_issue", "withdraws", "get_withdraw", "markets",
                "market", "orders", "order", "validators", "calls", "call", "unique", "price",
                "rawprices", "assets", "data", "view", "compile", "tx"}

RestQuery(q, s) ==
    CASE q.op = "currency"   -> getCurrency(q, s)
      [] q.op = "currencies" -> getCurrencies(q, s)
      [] q.op = "get_issue"  -> getIssue(q, s)
      [] q.op = "withdraws"  -> getWithdraws(q, s)
      [] q.op = "get_withdraw" -> getWithdraw(q, s)
      [] q.op = "markets"    -> getMarketsWithParams(q, s)
      [] q.op = "market"     -> getMarket(q, s)
      [] q.op = "orders"     -> getOrdersWithParams(q, s)
      [] q.op = "order"      -> getOrder(q, s)
      [] q.op = "validators" -> getValidators(q, s)
      [] q.op = "calls"      -> getCalls(q, s)
      [] q.op = "call"       -> getCall(q, s)
      [] q.op = "unique"     -> getCallByUnique(q, s)
      [] q.op = "price"      -> getCurrentPriceHandler(q, s)
      [] q.op = "rawprices"  -> getRawPricesHandler(q, s)
      [] q.op = "assets"     -> getAssetsHandler(q, s)
      [] q.op = "data"       -> getData(q, s)
      [] q.op = "view"       -> lcsView(q, s)
      [] q.op = "compile"    -> compile(q, s)
      [] q.op = "tx"         -> getTxVMStatus(q, s)
=============================================================================
