------------------------------ MODULE MCClients ------------------------------
(***************************************************************************)
(* A small instance of Clients.  Bytes have 16 values, U64 two bytes and   *)
(* U128 three, digits of store keys two values: the fourth market has the  *)
(* key 11 and the fifth the key 100, which comes first.                    *)
(***************************************************************************)
EXTENDS Clients

Plain(name) == Word(name, 3, 0, FALSE, FALSE, FALSE)
Btc == Plain("btc")
Usd == Plain("usd")
Xfi == Plain("xfi")
Upper(w) == [w EXCEPT !.upper = TRUE]

Code(base, quote) == Word(<<base, quote>>, 7, 1, FALSE, FALSE, FALSE)
Codes == {Code("btc", "usd"), Upper(Code("btc", "usd")), Code("usd", "btc"),
          [Code("btc", "usd") EXCEPT !.edge = TRUE], [Code("btc", "usd") EXCEPT !.delims = 2]}

Alice == AddressText("bech32", "alice")
Addresses == {Alice, AddressText("hex", "bob"), AddressText("bad", "bob"),
              AddressText("empty", EmptyAddress)}

Coins == {CoinText(Btc, 0), CoinText(Btc, 2), CoinText(Upper(Btc), 1), CoinText(Word("b7c", 3, 0, FALSE, FALSE, TRUE), 1)}
Eths == {EthText(42, TRUE, "e1"), EthText(41, TRUE, "e1"), EthText(0, FALSE, "")}
Numbers == {Number(0), Number(1), Number(3), Number(256), NotANumber, NoNumber}

Script == <<1, 2>>
Module1 == <<3>>
Module2 == <<4>>
Unit(codeType, code) == [codeType |-> codeType, code |-> code]
Code0x(code) == HexText(TRUE, TRUE, code)
Code00(code) == HexText(FALSE, TRUE, code)

File(content) == [kind |-> "file", content |-> content]
CodeFiles ==
    {File(<<Item("script", Code00(Script))>>), File(<<Item("script", Code0x(Script))>>),
     File(<<Item("module", Code00(Module1))>>), File(<<Item("script", HexText(FALSE, FALSE, <<>>))>>),
     File(<<Item("module", Code00(Module1)), Item("module", Code00(Module2))>>),
     File(<<Item("module", Code00(Module1)), Item("script", Code00(Script))>>)}

Args ==
    {<<ArgText("number", n), ArgText("number", n), ArgText("number", k)>> :
        n \in {Number(0), Number(15), Number(16)}, k \in {Number(0), Number(255), Number(4095), Number(4096)}}
    \cup {<<ArgText("number", Number(7)), ArgText("hash", Number(255)), ArgText("hash", Number(258))>>,
          <<ArgText("number", NotANumber), ArgText("number", Number(1)), ArgText("number", Number(1))>>,
          <<ArgText("number", Number(1))>>}

(* Bob has no account yet and can only have a transaction generated. *)
Base(op) ==
    [op : {op}, from : {AddressText("bech32", "bob")}, generateOnly : {TRUE}, body : {TRUE}]
    \cup [op : {op}, from : {Alice}, generateOnly : {FALSE}, body : {TRUE}]

(* Sets of records that hold the fields of Base and more. *)
With(records, more) == {r @@ m : r \in records, m \in more}

MCRequests ==
    [issue |-> With(Base("issue"), [id : {"", "i1"}, coin : Coins, payee : Addresses]),
     unstake |-> With(Base("unstake"), [id : {"", "i1"}, staker : Addresses]),
     withdraw |-> With(Base("withdraw") \cup [op : {"withdraw"}, from : {AddressText("bech32", "bob"), AddressText("hex", "bob")},
                                               generateOnly : {FALSE}, body : BOOLEAN],
                       [coin : Coins, pzPayee : {"", "eth"}, pzChainID : {"1"}]),
     add_currency |-> With(Base("add_currency"),
           [denom : {Xfi, Upper(Xfi)}, decimals : {Number(8), Number(16)}, contract : Eths,
            balancePath : {Code0x(<<1>>), HexText(FALSE, FALSE, <<>>)}, infoPath : {Code00(<<2>>)},
            deposit : {<<>>, <<CoinText(Xfi, 1)>>, <<CoinText(Upper(Xfi), 1)>>}]),
     add_validator |-> With(Base("add_validator"), [id : {"i1"}, address : Addresses, eth : Eths]),
     remove_validator |-> With(Base("remove_validator"), [id : {"", "i1"}, address : Addresses]),
     replace_validator |-> With(Base("replace_validator"), [id : {"i1"}, old : {Alice}, address : Addresses, eth : Eths]),
     confirm |-> With(Base("confirm"), [callID : Numbers]),
     revoke |-> With(Base("revoke"), [callID : Numbers]),
     add_market |-> With(Base("add_market"), [base : {Btc, Usd, Xfi, Upper(Btc)}, quote : {Usd, Xfi}]),
     post_order |-> With(Base("post_order"),
           [assetCode : Codes, direction : [word : {"bid", "up"}, upper : BOOLEAN],
            price : {Number(0), Number(1)}, quantity : {Number(1), Number(-1)}, ttl : {Number(1), Number(256)}]),
     revoke_order |-> With(Base("revoke_order"), [orderID : Numbers]),
     post_price |-> With(Base("post_price"),
           [assetCode : Codes, ask : {Number(2), Number(9)}, bid : {Number(1), Number(-1)},
            receivedAt : {Number(5), Number(200), NotANumber}]),
     add_oracle |-> With(Base("add_oracle"), [assetCode : Codes, oracle : Addresses]),
     set_oracles |-> With(Base("set_oracles"), [assetCode : Codes, oracles : {<<>>, <<Alice>>, <<Alice, AddressText("bad", "bob")>>}]),
     add_asset |-> With(Base("add_asset"), [assetCode : Codes, oracles : {<<>>, <<Alice>>}]),
     set_asset |-> With(Base("set_asset"), [assetCode : Codes, oracles : {<<>>, <<Alice>>}]),
     execute |-> With(Base("execute"), [file : CodeFiles, args : Args]),
     publish |-> With(Base("publish"), [file : CodeFiles]),
     update_stdlib |-> With(Base("update_stdlib"),
           [file : CodeFiles, height : Numbers, url : {"", "url"}, description : {"text"}, deposit : {<<>>}])]

Ask(op) == [op : {op}, body : {TRUE}, height : {NoNumber}]

Pages == [page : {NoNumber, Number(0), Number(2)}, limit : {NoNumber, Number(1)}]
         \cup [page : {Number(255), Number(256), NotANumber}, limit : {Number(255)}]

Fields ==
    <<ViewerItem("a", "U8", <<>>), ViewerItem("b", "vector", <<<<ViewerItem("", "U64", <<>>)>>>>)>>
Layouts ==
    {File(Fields), File(<<Fields[1]>>), File(<<Fields[1], Fields[1]>>),
     File(<<Fields[1], ViewerItem("b", "vector", <<>>)>>),
     File(<<ViewerItem("s", "struct", <<Fields>>)>>), [kind |-> "directory", content |-> <<>>]}

MCQueries ==
    [currency |-> With(Ask("currency"), [denom : {Btc, Upper(Btc), NoWord}]),
     currencies |-> Ask("currencies"),
     get_issue |-> With(Ask("get_issue"), [id : {"", "i1", "i2"}]),
     withdraws |-> With(Ask("withdraws"), Pages),
     get_withdraw |-> With(Ask("get_withdraw"), [number : Numbers]),
     markets |-> With(With(Ask("markets"), Pages), [base : {NoWord, Btc}, quote : {NoWord, Usd}]),
     market |-> With(Ask("market"), [number : Numbers]),
     orders |-> With(With(Ask("orders"), Pages),
           [owner : Addresses, direction : [word : {"", "bid"}, upper : {FALSE}],
            marketID : {NoNumber, Number(0), NotANumber}]),
     order |-> With(Ask("order"), [number : Numbers]),
     validators |-> Ask("validators"),
     validator |-> With(Ask("validator"), [address : Addresses]),
     minmax |-> Ask("minmax"),
     calls |-> Ask("calls"),
     call |-> With(Ask("call"), [number : Numbers]),
     unique |-> With(Ask("unique"), [id : {"i1", "c0"}]),
     lastId |-> Ask("lastId"),
     hex |-> With(Ask("hex"), [assetCode : Codes]),
     price |-> With(Ask("price"), [assetCode : Codes]),
     rawprices |-> With(Ask("rawprices"), [assetCode : Codes, number : Numbers]),
     assets |-> Ask("assets"),
     data |-> With(Ask("data"), [address : Addresses, path : {Code0x(<<1>>), Code00(<<1>>), HexText(FALSE, FALSE, <<>>)}]),
     view |-> With(Ask("view"),
           [address : Addresses, file : Layouts,
            movePath : [separators : 0 .. 2, module : {"Mod"}, struct : {"Res"}]]),
     compile |-> With(Ask("compile"), [address : Addresses, file : {File("script"), File("wrong")}]),
     tx |-> With(Ask("tx"), [hash : {"hash", "other"}])]

MCStore0 ==
    [accounts |-> {"alice"},
     compiler |-> "up",
     meta |-> (Script :> <<"u8", "u64", "u128">>),
     compiled |-> [script |-> <<Unit("script", Script)>>,
                   modules |-> <<Unit("module", Module1), Unit("module", Module2)>>,
                   mixed |-> <<Unit("module", Module1), Unit("script", Script)>>],
     currencies |-> (Btc :> 10 @@ Usd :> 20 @@ Xfi :> 30),
     issues |-> [i1 |-> 10],
     withdraws |-> <<[id |-> 0, coin |-> CoinText(Btc, 1), spender |-> "alice", payee |-> "eth"],
                     [id |-> 1, coin |-> CoinText(Btc, 2), spender |-> "alice", payee |-> "eth"]>>,
     markets |-> <<[base |-> Btc, quote |-> Usd], [base |-> Usd, quote |-> Btc],
                   [base |-> Xfi, quote |-> Btc], [base |-> Btc, quote |-> Xfi]>>,
     nextOrder |-> 2,
     orders |-> (0 :> [owner |-> "alice", market |-> 0, direction |-> "bid"]
                 @@ 1 :> [owner |-> "bob", market |-> 1, direction |-> "ask"]),
     validators |-> <<"alice", "bob", "carol">>,
     poaParams |-> [min |-> 3, max |-> 11],
     height |-> 4,
     calls |-> (0 :> [uniqueID |-> "c0", height |-> 1, queued |-> TRUE, votes |-> <<"alice">>]),
     prices |-> (Code("btc", "usd") :> 7 @@ Code("usd", "btc") :> 0),
     raw |-> (<<Code("btc", "usd"), 3>> :> <<7>>),
     data |-> (<<"alice", <<1>>>> :> [type |-> <<"U8">>, value |-> "1"]
               @@ <<"alice", <<"struct", "Mod", "Res">>>> :>
                    [type |-> <<"struct", <<"U8">>, <<"vector", <<"U64">>>>>>, value |-> "{a, b}"]),
     txs |-> <<>>]

MCOutcomes ==
    {[error |-> "none", code |-> "", sub |-> "", message |-> ""],
     [error |-> "abort", code |-> "", sub |-> "7", message |-> ""],
     [error |-> "move", code |-> "2000", sub |-> "", message |-> "text"]}
=============================================================================
