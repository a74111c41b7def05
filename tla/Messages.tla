------------------------------ MODULE Messages ------------------------------
(***************************************************************************)
(* The messages of the modules of x/ and the governance proposals of       *)
(* x/currencies and x/vm: their constructors and the checks ValidateBasic  *)
(* makes of them without a store, which the node makes of every message of *)
(* a transaction it receives.                                              *)
(***************************************************************************)
EXTENDS Inputs

CONSTANT
    PriceLimit     \* first price too long for PriceBytesLimit bytes

ASSUME MessagesAssumption == PriceLimit \in Nat \ {0}

Empty(addr) == addr = EmptyAddress

(* x/currencies *)
NewMsgIssueCurrency(id, coin, payee) ==
    [type |-> "issue", id |-> id, coin |-> coin, payee |-> payee]

NewMsgUnstakeCurrency(id, staker) ==
    [type |-> "unstake", id |-> id, staker |-> staker]

NewMsgWithdrawCurrency(coin, payer, pzPayee, pzChainID) ==
    [type |-> "withdraw", coin |-> coin, payer |-> payer,
     pzPayee |-> pzPayee, pzChainID |-> pzChainID]

ValidIssue(m) ==
    m.id # "" /\ DenomFilter(m.coin.denom) /\ m.coin.amount > 0 /\ ~Empty(m.payee)

ValidUnstake(m) == m.id # "" /\ ~Empty(m.staker)

ValidWithdraw(m) ==
    /\ DenomFilter(m.coin.denom)
    /\ m.coin.amount > 0
    /\ ~Empty(m.payer)
    /\ m.pzPayee # ""

(* x/poa *)
NewMsgAddValidator(address, ethAddress, sender) ==
    [type |-> "add_validator", address |-> address, eth |-> ethAddress, sender |-> sender]

NewMsgRemoveValidator(address, sender) ==
    [type |-> "remove_validator", address |-> address, sender |-> sender]

NewMsgReplaceValidator(old, new, ethAddress, sender) ==
    [type |-> "replace_validator", old |-> old, address |-> new, eth |-> ethAddress,
     sender |-> sender]

ValidValidator(address, eth) == ~Empty(address) /\ IsEthereumAddress(eth)

ValidAddValidator(m) == ValidValidator(m.address, m.eth) /\ ~Empty(m.sender)

ValidRemoveValidator(m) == ~Empty(m.address) /\ ~Empty(m.sender)

ValidReplaceValidator(m) ==
    /\ ~Empty(m.old)
    /\ ValidValidator(m.address, m.eth)
    /\ m.old # m.address
    /\ ~Empty(m.sender)

(* x/multisig *)
NewMsgSubmitCall(msg, uniqueID, creator) ==
    [type |-> "submit_call", msg |-> msg, uniqueID |-> uniqueID, creator |-> creator]

NewMsgConfirmCall(callID, sender) ==
    [type |-> "confirm_call", callID |-> callID, sender |-> sender]

NewMsgRevokeConfirm(callID, sender) ==
    [type |-> "revoke_confirm", callID |-> callID, sender |-> sender]

(* The messages that are executed by a call are MsMsgs. *)
ValidMsMsg(m) ==
    CASE m.type = "issue"             -> ValidIssue(m)
      [] m.type = "unstake"           -> ValidUnstake(m)
      [] m.type = "add_validator"     -> ValidAddValidator(m)
      [] m.type = "remove_validator"  -> ValidRemoveValidator(m)
      [] m.type = "replace_validator" -> ValidReplaceValidator(m)

ValidSubmitCall(m) == m.uniqueID # "" /\ ~Empty(m.creator) /\ ValidMsMsg(m.msg)

ValidConfirmCall(m) == m.callID \in Nat /\ ~Empty(m.sender)

ValidRevokeConfirm(m) == m.callID \in Nat /\ ~Empty(m.sender)

(* x/markets, x/orders *)
NewMsgCreateMarket(from, base, quote) ==
    [type |-> "create_market", from |-> from, base |-> base, quote |-> quote]

NewMsgPost(owner, assetCode, direction, price, quantity, ttl) ==
    [type |-> "post", owner |-> owner, assetCode |-> assetCode, direction |-> direction,
     price |-> price, quantity |-> quantity, ttl |-> ttl]

NewMsgRevokeOrder(owner, orderID) ==
    [type |-> "cancel", owner |-> owner, orderID |-> orderID]

DirectionIsValid(d) == d \in {"bid", "ask"}

ValidCreateMarket(m) ==
    ~Empty(m.from) /\ stringNotEmpty(m.base) /\ stringNotEmpty(m.quote)

ValidPost(m) ==
    /\ AssetCodeFilter(m.assetCode)
    /\ ~Empty(m.owner)
    /\ DirectionIsValid(m.direction)
    /\ 0 \notin {m.price, m.quantity, m.ttl}

ValidRevokeOrder(m) == ~Empty(m.owner) /\ m.orderID \in Nat

(* x/oracle *)
NewMsgPostPrice(from, assetCode, ask, bid, receivedAt) ==
    [type |-> "post_price", from |-> from, assetCode |-> assetCode, ask |-> ask,
     bid |-> bid, receivedAt |-> receivedAt]

NewMsgAddOracle(nominee, assetCode, oracle) ==
    [type |-> "add_oracle", nominee |-> nominee, assetCode |-> assetCode, oracle |-> oracle]

NewMsgSetOracles(nominee, assetCode, oracles) ==
    [type |-> "set_oracles", nominee |-> nominee, assetCode |-> assetCode, oracles |-> oracles]

NewAsset(assetCode, oracles, active) ==
    [assetCode |-> assetCode, oracles |-> oracles, active |-> active]

NewMsgAddAsset(nominee, asset) ==
    [type |-> "add_asset", nominee |-> nominee, asset |-> asset]

NewMsgSetAsset(nominee, asset) ==
    [type |-> "set_asset", nominee |-> nominee, asset |-> asset]

ValidPostPrice(m) ==
    /\ ~Empty(m.from)
    /\ AssetCodeFilter(m.assetCode)
    /\ {m.ask, m.bid} \subseteq 0 .. PriceLimit - 1

ValidAddOracle(m) == ~Empty(m.oracle) /\ AssetCodeFilter(m.assetCode) /\ ~Empty(m.nominee)

ValidSetOracles(m) == m.oracles # <<>> /\ AssetCodeFilter(m.assetCode) /\ ~Empty(m.nominee)

ValidAsset(a) == AssetCodeFilter(a.assetCode) /\ a.oracles # <<>>

ValidAddAsset(m) == ValidAsset(m.asset) /\ ~Empty(m.nominee)

ValidSetAsset(m) == ValidAsset(m.asset) /\ ~Empty(m.nominee)

(* x/vm *)
NewMsgExecuteScript(signer, script, args) ==
    [type |-> "execute", signer |-> signer, script |-> script, args |-> args]

NewMsgDeployModule(signer, module) ==
    [type |-> "deploy", signer |-> signer, module |-> module]

ValidExecuteScript(m) ==
    /\ ~Empty(m.signer)
    /\ m.script # <<>>
    /\ \A i \in DOMAIN m.args : m.args[i].type = "address" \/ m.args[i].value # <<>>

ValidDeployModule(m) == ~Empty(m.signer) /\ m.module # <<>>

(* Governance proposals, wrapped into the gov module's message. *)
NewAddCurrencyProposal(denom, decimals, balancePath, infoPath, contract) ==
    [kind |-> "add_currency", denom |-> denom, decimals |-> decimals,
     balancePath |-> balancePath, infoPath |-> infoPath, contract |-> contract]

NewStdlibUpdateProposal(height, url, description, code) ==
    [kind |-> "update_stdlib", height |-> height, url |-> url,
     description |-> description, code |-> code]

(* GetCurrencyParams().Validate() looks at the denomination again. *)
ValidAddCurrencyProposal(p) == DenomFilter(p.denom)

ValidPlan(height) == height > 0

ValidStdlibUpdateProposal(p) ==
    ValidPlan(p.height) /\ p.url # "" /\ p.description # "" /\ p.code # <<>>

NewMsgSubmitProposal(content, deposit, proposer) ==
    [type |-> "submit_proposal", content |-> content, deposit |-> deposit,
     proposer |-> proposer]

ValidSubmitProposal(m) ==
    /\ ~Empty(m.proposer)
    /\ CASE m.content.kind = "add_currency"  -> ValidAddCurrencyProposal(m.content)
         [] m.content.kind = "update_stdlib" -> ValidStdlibUpdateProposal(m.content)

(* The check the node makes of every message (validateBasicTxMsgs). *)
ValidateBasic(m) ==
    CASE m.type = "withdraw"        -> ValidWithdraw(m)
      [] m.type = "submit_call"     -> ValidSubmitCall(m)
      [] m.type = "confirm_call"    -> ValidConfirmCall(m)
      [] m.type = "revoke_confirm"  -> ValidRevokeConfirm(m)
      [] m.type = "create_market"   -> ValidCreateMarket(m)
      [] m.type = "post"            -> ValidPost(m)
      [] m.type = "cancel"          -> ValidRevokeOrder(m)
      [] m.type = "post_price"      -> ValidPostPrice(m)
      [] m.type = "add_oracle"      -> ValidAddOracle(m)
      [] m.type = "set_oracles"     -> ValidSetOracles(m)
      [] m.type = "add_asset"       -> ValidAddAsset(m)
      [] m.type = "set_asset"       -> ValidSetAsset(m)
      [] m.type = "execute"         -> ValidExecuteScript(m)
      [] m.type = "deploy"          -> ValidDeployModule(m)
      [] m.type = "submit_proposal" -> ValidSubmitProposal(m)
=============================================================================
