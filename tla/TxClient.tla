------------------------------ MODULE TxClient ------------------------------
(***************************************************************************)
(* The transaction commands of dncli (x/*/client/cli) and the PUT handlers *)
(* of its REST server (x/*/client/rest).  Each is the set of the messages  *)
(* it puts into a transaction for a request q: empty when it returns an    *)
(* error, a singleton otherwise.  The CLI signs and broadcasts the         *)
(* transaction, the REST server gives it back to be signed.                *)
(*                                                                         *)
(* q.from is the account that signs, q.generateOnly the CLI's flag, q.body *)
(* tells that the body of a REST request could be decoded; the other       *)
(* fields are the arguments of the request as texts of module Inputs.      *)
(* chain is what the handlers look at outside of the request: the accounts *)
(* on the chain and whether the compiler answers.                          *)
(***************************************************************************)
EXTENDS Messages

(* ReadRESTReq, and BaseReq.ValidateBasic: the chain ID is given and the   *)
(* sender is written in Bech32.                                            *)
ReadRESTReq(q) == When(q.body /\ q.from.form = "bech32", q)

RestFrom(q) == UNION {ParseSdkAddressParam(r.from) : r \in ReadRESTReq(q)}

CliFrom(q, chain) ==
    ParseFromFlag([generateOnly |-> q.generateOnly, from |-> q.from.addr], chain.accounts)

(* A call to the multisignature module around a message. *)
Called(msgs, uniqueID, from) ==
    {m \in {NewMsgSubmitCall(msg, uniqueID, from) : msg \in msgs} : ValidSubmitCall(m)}

(***************************************************************************)
(* x/currencies                                                            *)
(***************************************************************************)
IssueCall(q, from) ==
    LET msgs == {NewMsgIssueCurrency(q.id, coin, payee) :
                    coin \in ParseCoinParam(q.coin), payee \in ParseSdkAddressParam(q.payee)}
    IN  Called({m \in msgs : ValidIssue(m)}, q.id, from)

PostMsIssueCurrency(q, chain) == UNION {IssueCall(q, from) : from \in CliFrom(q, chain)}

submitIssue(q, chain) == UNION {IssueCall(q, from) : from \in RestFrom(q)}

UnstakeCall(q, from) ==
    LET msgs == {NewMsgUnstakeCurrency(q.id, staker) : staker \in ParseSdkAddressParam(q.staker)}
    IN  Called({m \in msgs : ValidUnstake(m)}, q.id, from)

PostMsUnstakeCurrency(q, chain) == UNION {UnstakeCall(q, from) : from \in CliFrom(q, chain)}

submitUnstake(q, chain) == UNION {UnstakeCall(q, from) : from \in RestFrom(q)}

Withdrawal(q, from) ==
    {m \in {NewMsgWithdrawCurrency(coin, from, q.pzPayee, q.pzChainID) :
               coin \in ParseCoinParam(q.coin)} : ValidWithdraw(m)}

PostWithdrawCurrency(q, chain) == UNION {Withdrawal(q, from) : from \in CliFrom(q, chain)}

withdraw(q, chain) == UNION {Withdrawal(q, from) : from \in RestFrom(q)}

(* The contract address is the fifth argument, and optional. *)
ContractArg(q) ==
    IF q.contract.len = 0 THEN Ok(q.contract) ELSE ParseEthereumAddressParam(q.contract)

AddCurrencyProposal(q, chain) ==
    LET contents == {NewAddCurrencyProposal(denom, decimals, balancePath, infoPath, contract) :
                        denom \in ValidateDenomParam(q.denom),
                        decimals \in ParseUint8Param(q.decimals),
                        balancePath \in ParseHexStringParam(q.balancePath),
                        infoPath \in ParseHexStringParam(q.infoPath),
                        contract \in ContractArg(q)}
        msgs == {NewMsgSubmitProposal(content, deposit, from) :
                    content \in {c \in contents : ValidAddCurrencyProposal(c)},
                    deposit \in ParseDepositFlag(q.deposit),
                    from \in CliFrom(q, chain)}
    IN  {m \in msgs : ValidSubmitProposal(m)}

(***************************************************************************)
(* x/poa: only the wrapping call is validated, which validates the message *)
(* inside it.                                                              *)
(***************************************************************************)
PostMsAddValidator(q, chain) ==
    UNION {Called({NewMsgAddValidator(address, eth, from) :
                      address \in ParseSdkAddressParam(q.address),
                      eth \in ParseEthereumAddressParam(q.eth)}, q.id, from) :
           from \in CliFrom(q, chain)}

PostMsRemoveValidator(q, chain) ==
    UNION {Called({NewMsgRemoveValidator(address, from) :
                      address \in ParseSdkAddressParam(q.address)}, q.id, from) :
           from \in CliFrom(q, chain)}

PostMsReplaceValidator(q, chain) ==
    UNION {Called({NewMsgReplaceValidator(old, new, eth, from) :
                      old \in ParseSdkAddressParam(q.old),
                      new \in ParseSdkAddressParam(q.address),
                      eth \in ParseEthereumAddressParam(q.eth)}, q.id, from) :
           from \in CliFrom(q, chain)}

(***************************************************************************)
(* x/multisig: the REST handlers validate the message, the commands do not.*)
(***************************************************************************)
PostConfirmCall(q, chain) ==
    {NewMsgConfirmCall(id, from) : id \in ParseDnIDParam(q.callID), from \in CliFrom(q, chain)}

confirm(q, chain) ==
    {m \in {NewMsgConfirmCall(id, from) : id \in ParseDnIDParam(q.callID), from \in RestFrom(q)} :
        ValidConfirmCall(m)}

PostRevokeConfirm(q, chain) ==
    {NewMsgRevokeConfirm(id, from) : id \in ParseDnIDParam(q.callID), from \in CliFrom(q, chain)}

revoke(q, chain) ==
    {m \in {NewMsgRevokeConfirm(id, from) : id \in ParseDnIDParam(q.callID), from \in RestFrom(q)} :
        ValidRevokeConfirm(m)}

(***************************************************************************)
(* x/markets and x/orders.  The command lowers the letters of the asset    *)
(* code and of the direction, the REST handler takes both as they are.     *)
(* q.direction is a word and its letter case.                              *)
(***************************************************************************)
GetCmdAddMarket(q, chain) ==
    {NewMsgCreateMarket(from, base, quote) :
        from \in CliFrom(q, chain),
        base \in ValidateDenomParam(q.base), quote \in ValidateDenomParam(q.quote)}

CliDirection(d) == When(DirectionIsValid(d.word), d.word)

RestDirection(d) == When(DirectionIsValid(d.word) /\ ~d.upper, d.word)

GetCmdPostOrder(q, chain) ==
    {NewMsgPost(from, assetCode, direction, price, quantity, ttl) :
        from \in CliFrom(q, chain),
        assetCode \in ParseAssetCodeParam(q.assetCode),
        direction \in CliDirection(q.direction),
        price \in ParseSdkUintParam(q.price),
        quantity \in ParseSdkUintParam(q.quantity),
        ttl \in ParseUint64Param(q.ttl)}

\* Defect: the message is not validated.
postOrderUnchecked(q, chain) ==
    {NewMsgPost(from, assetCode, direction, price, quantity, ttl) :
        from \in RestFrom(q),
        assetCode \in When(AssetCodeFilter(q.assetCode), q.assetCode),
        direction \in RestDirection(q.direction),
        price \in ParseSdkUintParam(q.price),
        quantity \in ParseSdkUintParam(q.quantity),
        ttl \in ParseUint64Param(q.ttl)}

postOrder(q, chain) ==
    {m \in {NewMsgPost(from, assetCode, direction, price, quantity, ttl) :
               from \in RestFrom(q),
               assetCode \in When(AssetCodeFilter(q.assetCode), q.assetCode),
               direction \in RestDirection(q.direction),
               price \in ParseSdkUintParam(q.price),
               quantity \in ParseSdkUintParam(q.quantity),
               ttl \in ParseUint64Param(q.ttl)} : ValidPost(m)}

GetCmdRevokeOrder(q, chain) ==
    {NewMsgRevokeOrder(from, id) : id \in ParseDnIDParam(q.orderID), from \in CliFrom(q, chain)}

revokeOrder(q, chain) ==
    {m \in {NewMsgRevokeOrder(from, id) : id \in ParseDnIDParam(q.orderID), from \in RestFrom(q)} :
        ValidRevokeOrder(m)}

(***************************************************************************)
(* x/oracle                                                                *)
(***************************************************************************)
PostedPrice(q, from) ==
    {m \in {NewMsgPostPrice(from, assetCode, ask, bid, receivedAt) :
               assetCode \in ParseAssetCodeParam(q.assetCode),
               ask \in ParseSdkIntParam(q.ask),
               bid \in ParseSdkIntParam(q.bid),
               receivedAt \in ParseUnixTimestamp(q.receivedAt)} : ValidPostPrice(m)}

GetCmdPostPrice(q, chain) == UNION {PostedPrice(q, from) : from \in CliFrom(q, chain)}

postPriceHandler(q, chain) == UNION {PostedPrice(q, from) : from \in RestFrom(q)}

GetCmdAddOracle(q, chain) ==
    {NewMsgAddOracle(from, assetCode, oracle) :
        from \in CliFrom(q, chain), assetCode \in ParseAssetCodeParam(q.assetCode),
        oracle \in ParseSdkAddressParam(q.oracle)}

parseOraclesArg(ts) == ParseSdkAddressesParams(ts)

GetCmdSetOracles(q, chain) ==
    {NewMsgSetOracles(from, assetCode, oracles) :
        from \in CliFrom(q, chain), assetCode \in ParseAssetCodeParam(q.assetCode),
        oracles \in parseOraclesArg(q.oracles)}

GetCmdAddAsset(q, chain) ==
    {NewMsgAddAsset(from, asset) :
        from \in CliFrom(q, chain),
        asset \in {a \in {NewAsset(assetCode, oracles, TRUE) :
                             assetCode \in ParseAssetCodeParam(q.assetCode),
                             oracles \in parseOraclesArg(q.oracles) \ {<<>>}} : ValidAsset(a)}}

GetCmdSetAsset(q, chain) ==
    {NewMsgSetAsset(from, asset) :
        from \in CliFrom(q, chain),
        asset \in {a \in {NewAsset(assetCode, oracles, TRUE) :
                             assetCode \in ParseAssetCodeParam(q.assetCode),
                             oracles \in parseOraclesArg(q.oracles) \ {<<>>}} : ValidAsset(a)}}

(***************************************************************************)
(* x/vm.  Compiled code comes from a file of items for the CLI and in the  *)
(* request for the REST server.  The types of a script's arguments are     *)
(* asked of the compiler, chain.meta[code] is its answer: the types, or    *)
(* nothing for code that is not a script.                                  *)
(***************************************************************************)
Item(codeType, code) == [codeType |-> codeType, code |-> code]

(* A JSON file of one or several items of one type; its code has to be     *)
(* hexadecimal without a prefix.                                           *)
getMoveCodeFromFileArg(file, oneItem) ==
    {[i \in DOMAIN items |-> items[i].code.bytes] :
        items \in {s \in ParseFilePath(file) :
                      /\ s # <<>>
                      /\ oneItem => Len(s) = 1
                      /\ \A i \in DOMAIN s : /\ s[i].codeType = s[1].codeType
                                             /\ DecodeHex(s[i].code) # {}}}

ExtractArguments(chain, code) ==
    IF chain.compiler = "up" /\ code \in DOMAIN chain.meta THEN Ok(chain.meta[code]) ELSE Refused

Executed(from, code, q, chain) ==
    {m \in {NewMsgExecuteScript(from, code, args) :
               args \in UNION {ConvertStringScriptArguments(q.args, types) :
                                  types \in ExtractArguments(chain, code)}} :
        ValidExecuteScript(m)}

ExecuteScript(q, chain) ==
    UNION {Executed(from, codes[1], q, chain) :
              from \in CliFrom(q, chain), codes \in getMoveCodeFromFileArg(q.file, TRUE)}

executeScript(q, chain) ==
    UNION {Executed(from, code, q, chain) :
              from \in RestFrom(q), code \in ParseHexStringParam(q.file.content[1].code)}

DeployContract(q, chain) ==
    {m \in {NewMsgDeployModule(from, codes) :
               from \in CliFrom(q, chain), codes \in getMoveCodeFromFileArg(q.file, FALSE)} :
        ValidDeployModule(m)}

(* The REST request lists the code of the items. *)
deployModule(q, chain) ==
    LET items == q.file.content
        codes == When(\A i \in DOMAIN items : ParseHexStringParam(items[i].code) # {},
                      [i \in DOMAIN items |-> items[i].code.bytes])
    IN  {m \in {NewMsgDeployModule(from, module) : from \in RestFrom(q), module \in codes} :
            ValidDeployModule(m)}

UpdateStdlibProposal(q, chain) ==
    LET contents == {NewStdlibUpdateProposal(height, q.url, q.description, codes[1]) :
                        codes \in getMoveCodeFromFileArg(q.file, TRUE),
                        height \in ParseInt64Param(q.height)}
        msgs == {NewMsgSubmitProposal(content, deposit, from) :
                    content \in {c \in contents : ValidStdlibUpdateProposal(c)},
                    deposit \in ParseDepositFlag(q.deposit),
                    from \in CliFrom(q, chain)}
    IN  {m \in msgs : ValidSubmitProposal(m)}

(***************************************************************************)
(* The commands and the routes, by the operation a request asks for.       *)
(***************************************************************************)
CliHandle(q, chain) ==
    CASE q.op = "issue"             -> PostMsIssueCurrency(q, chain)
      [] q.op = "unstake"           -> PostMsUnstakeCurrency(q, chain)
      [] q.op = "withdraw"          -> PostWithdrawCurrency(q, chain)
      [] q.op = "add_currency"      -> AddCurrencyProposal(q, chain)
      [] q.op = "add_validator"     -> PostMsAddValidator(q, chain)
      [] q.op = "remove_validator"  -> PostMsRemoveValidator(q, chain)
      [] q.op = "replace_validator" -> PostMsReplaceValidator(q, chain)
      [] q.op = "confirm"           -> PostConfirmCall(q, chain)
      [] q.op = "revoke"            -> PostRevokeConfirm(q, chain)
      [] q.op = "add_market"        -> GetCmdAddMarket(q, chain)
      [] q.op = "post_order"        -> GetCmdPostOrder(q, chain)
      [] q.op = "revoke_order"      -> GetCmdRevokeOrder(q, chain)
      [] q.op = "post_price"        -> GetCmdPostPrice(q, chain)
      [] q.op = "add_oracle"        -> GetCmdAddOracle(q, chain)
      [] q.op = "set_oracles"       -> GetCmdSetOracles(q, chain)
      [] q.op = "add_asset"         -> GetCmdAddAsset(q, chain)
      [] q.op = "set_asset"         -> GetCmdSetAsset(q, chain)
      [] q.op = "execute"           -> ExecuteScript(q, chain)
      [] q.op = "publish"           -> DeployContract(q, chain)
      [] q.op = "update_stdlib"     -> UpdateStdlibProposal(q, chain)

RestOps == {"issue", "unstake", "withdraw", "confirm", "revoke", "post_order",
            "revoke_order", "post_price", "execute", "publish"}

RestHandle(q, chain) ==
    CASE q.op = "issue"        -> submitIssue(q, chain)
      [] q.op = "unstake"      -> submitUnstake(q, chain)
      [] q.op = "withdraw"     -> withdraw(q, chain)
      [] q.op = "confirm"      -> confirm(q, chain)
      [] q.op = "revoke"       -> revoke(q, chain)
      [] q.op = "post_order"   -> postOrder(q, chain)
      [] q.op = "revoke_order" -> revokeOrder(q, chain)
      [] q.op = "post_price"   -> postPriceHandler(q, chain)
      [] q.op = "execute"      -> executeScript(q, chain)
      [] q.op = "publish"      -> deployModule(q, chain)
=============================================================================
