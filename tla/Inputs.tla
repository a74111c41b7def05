------------------------------- MODULE Inputs -------------------------------
(***************************************************************************)
(* How dncli and its REST server read what a user gives them: the parsers  *)
(* of helpers/input_parsers.go, the string filters of helpers/types and    *)
(* the script arguments of x/vm/client/vm_client.                          *)
(*                                                                         *)
(* A text is abstracted to what the parsers tell apart (see Word, Number,  *)
(* AddressText ... below).  A parser that may refuse returns the set of    *)
(* its results: empty when the Go function returns an error, a singleton   *)
(* otherwise, so that a handler is a set comprehension over its parsers.   *)
(***************************************************************************)
EXTENDS Integers, Sequences, FiniteSets, SequencesExt

CONSTANTS
    MaxUint8,      \* largest uint8 of the model
    MaxUint64,     \* largest uint64 of the model
    ByteBase,      \* number of values of a byte
    U64Bytes,      \* bytes of an encoded U64 argument
    U128Bytes      \* bytes of an encoded U128 argument

ASSUME InputsAssumption ==
    /\ {MaxUint8, MaxUint64, ByteBase, U64Bytes, U128Bytes} \subseteq Nat \ {0}
    /\ MaxUint8 < ByteBase
    /\ MaxUint64 < ByteBase ^ U64Bytes

(* What a parser that may fail returns. *)
Ok(v) == {v}
Refused == {}
When(condition, v) == IF condition THEN Ok(v) ELSE Refused

(***************************************************************************)
(* Words: denominations and asset codes.  name identifies the word up to   *)
(* letter case, len is its length, delims counts '_' and edge tells that   *)
(* one of them is first or last, upper that some letter is upper case,     *)
(* foreign that some rune is neither a letter nor '_'.                     *)
(***************************************************************************)
Word(name, len, delims, edge, upper, foreign) ==
    [name |-> name, len |-> len, delims |-> delims, edge |-> edge,
     upper |-> upper, foreign |-> foreign]

NoWord == Word("", 0, 0, FALSE, FALSE, FALSE)

ToLower(w) == [w EXCEPT !.upper = FALSE]

stringNotEmpty(w) == w.len > 0

(* sdk.ValidateDenom: 3 to 16 lower-case letters and digits. *)
validCoinDenom(w) == w.len \in 3 .. 16 /\ w.delims = 0 /\ ~w.upper

newDelimiterStrFilterOpt(w) == ~w.edge /\ w.delims = 1

runesAreLowerCasedLetters(w) == ~w.upper /\ ~w.foreign /\ w.delims = 0

runesAreLowerCasedLettersOrDelimiter(w) == ~w.upper /\ ~w.foreign

DenomFilter(w) ==
    stringNotEmpty(w) /\ validCoinDenom(w) /\ runesAreLowerCasedLetters(w)

AssetCodeFilter(w) ==
    /\ stringNotEmpty(w)
    /\ newDelimiterStrFilterOpt(w)
    /\ runesAreLowerCasedLettersOrDelimiter(w)

ValidateDenomParam(w) == When(DenomFilter(w), w)

ParseAssetCodeParam(w) == When(AssetCodeFilter(ToLower(w)), ToLower(w))

(***************************************************************************)
(* Numbers: digits tells that the text is a decimal integer, val is it.    *)
(***************************************************************************)
Number(val) == [digits |-> TRUE, empty |-> FALSE, val |-> val]
NotANumber == [digits |-> FALSE, empty |-> FALSE, val |-> 0]
NoNumber == [digits |-> FALSE, empty |-> TRUE, val |-> 0]

ParseSdkIntParam(t) == When(t.digits, t.val)

ParseSdkUintParam(t) == When(t.digits /\ t.val >= 0, t.val)

ParseUint8Param(t) == When(t.digits /\ t.val \in 0 .. MaxUint8, t.val)

ParseUint64Param(t) == When(t.digits /\ t.val \in 0 .. MaxUint64, t.val)

(* int64 is as wide as uint64, with half of the values on each side of 0. *)
ParseInt64Param(t) ==
    When(t.digits /\ t.val \in -((MaxUint64 + 1) \div 2) .. MaxUint64 \div 2, t.val)

ParseDnIDParam(t) == When(~t.empty /\ t.digits /\ t.val >= 0, t.val)

(* Seconds since the epoch; an RFC 3339 date is not a number.  Int64()     *)
(* panics on a number it cannot hold, which ends the request like an       *)
(* error.                                                                  *)
ParseUnixTimestamp(t) ==
    {ts \in ParseSdkIntParam(t) : ts \in ParseInt64Param(t)}

(* parseUint of ParsePaginationParams. *)
PositiveUint(t) == When(t.digits /\ t.val >= 1, t.val)

ParsePaginationParams(pageStr, limitStr) ==
    {<<page, limit>> :
        page \in PositiveUint(IF pageStr.empty THEN Number(1) ELSE pageStr),
        limit \in PositiveUint(IF limitStr.empty THEN Number(100) ELSE limitStr)}

(***************************************************************************)
(* Addresses: form is how the text is written.                             *)
(***************************************************************************)
AddressText(form, addr) == [form |-> form, addr |-> addr]

EmptyAddress == "no address"

(* AccAddressFromBech32 takes an empty text for the empty address. *)
AccAddressFromBech32(t) ==
    IF t.form = "empty" THEN Ok(EmptyAddress) ELSE When(t.form = "bech32", t.addr)

AccAddressFromHex(t) == When(t.form \in {"hex", "0xhex"}, t.addr)

ParseSdkAddressParam(t) ==
    (AccAddressFromBech32(t) \cup AccAddressFromHex(t)) \ {EmptyAddress}

(* A comma separated list; the first text that is refused refuses it. *)
ParseSdkAddressesParams(ts) ==
    When(\A i \in DOMAIN ts : ParseSdkAddressParam(ts[i]) # {},
         [i \in DOMAIN ts |-> ts[i].addr])

(* The two characters before the digits are not looked at. *)
EthText(len, hex, addr) == [len |-> len, hex |-> hex, addr |-> addr]

IsEthereumAddress(t) == t.len = 42 /\ t.hex

ParseEthereumAddressParam(t) == When(IsEthereumAddress(t), t)

(***************************************************************************)
(* Hexadecimal texts, coins, files and the account that signs.             *)
(***************************************************************************)
HexText(prefixed, hex, bytes) == [prefixed |-> prefixed, hex |-> hex, bytes |-> bytes]

(* hex.DecodeString, which knows nothing of a 0x prefix. *)
DecodeHex(t) == When(t.hex /\ ~t.prefixed, t.bytes)

TrimPrefix(t) == [t EXCEPT !.prefixed = FALSE]

ParseHexStringParam(t) == DecodeHex(TrimPrefix(t))

CoinText(denom, amount) == [denom |-> denom, amount |-> amount]

(* sdk.ParseCoin reads digits followed by a denomination. *)
ParseCoin(t) == When(t.amount >= 0 /\ validCoinDenom(t.denom), t)

ParseCoinParam(t) ==
    {coin \in ParseCoin(t) : DenomFilter(coin.denom) /\ coin.amount >= 0}

(* sdk.ParseCoins: no text at all is no coins. *)
ParseDepositFlag(ts) == When(\A i \in DOMAIN ts : ParseCoin(ts[i]) # {}, ts)

(* A file: absent, a directory, or its content. *)
ParseFilePath(file) == When(file.kind = "file", file.content)

(* The signing account has to be on the chain unless the transaction is    *)
(* only generated.                                                         *)
ParseFromFlag(flags, accounts) ==
    When(flags.generateOnly \/ flags.from \in accounts, flags.from)

(***************************************************************************)
(* Script arguments: a text becomes the bytes the virtual machine reads.   *)
(* An argument text is an address, a number, a '#' and a word (the body is *)
(* then the number its xxHash makes of the word), a Boolean or a hex text. *)
(* Its kind is the one reading of the text the model uses.                 *)
(***************************************************************************)
ArgText(kind, body) == [kind |-> kind, body |-> body]
ScriptArg(type, value) == [type |-> type, value |-> value]

(* The number a text stands for: a hash of 64 bits after a '#'. *)
parseXxHashUint(t) ==
    When(t.kind \in {"number", "hash"} /\ ~t.body.empty, t.body)

(* binary.LittleEndian.PutUint64. *)
LittleEndian(n, width) == [i \in 1 .. width |-> (n \div ByteBase ^ (i - 1)) % ByteBase]

(* big.Int.Bytes: most significant byte first and no leading zero. *)
BigEndianBytes(n) ==
    LET width == CHOOSE w \in 0 .. U128Bytes + 1 :
                     /\ n < ByteBase ^ w
                     /\ \A v \in 0 .. w - 1 : n >= ByteBase ^ v
    IN  Reverse(LittleEndian(n, width))

NewAddressScriptArg(t) ==
    {ScriptArg("address", a) :
        a \in IF t.kind = "address" /\ t.body.form # "empty"
              THEN AccAddressFromBech32(t.body) ELSE Refused}

NewU8ScriptArg(t) ==
    {ScriptArg("u8", <<n>>) : n \in UNION {ParseUint8Param(b) : b \in parseXxHashUint(t)}}

NewU64ScriptArg(t) ==
    {ScriptArg("u64", LittleEndian(n, U64Bytes)) :
        n \in UNION {ParseUint64Param(b) : b \in parseXxHashUint(t)}}

Padded(bytes) == bytes \o [i \in 1 .. U128Bytes - Len(bytes) |-> 0]

\* Defect: the bytes stay in the order of big.Int.Bytes.
NewU128BigEndian(t) ==
    {ScriptArg("u128", Padded(BigEndianBytes(n))) :
        n \in {m \in UNION {ParseSdkUintParam(b) : b \in parseXxHashUint(t)} :
                  m < ByteBase ^ U128Bytes}}

NewU128ScriptArg(t) ==
    {ScriptArg("u128", Padded(Reverse(BigEndianBytes(n)))) :
        n \in {m \in UNION {ParseSdkUintParam(b) : b \in parseXxHashUint(t)} :
                  m < ByteBase ^ U128Bytes}}

NewVectorScriptArg(t) ==
    {ScriptArg("vector", bytes) :
        bytes \in IF t.kind = "hex" THEN DecodeHex(TrimPrefix(t.body)) ELSE Refused}

(* strconv.ParseBool also reads 1 and 0. *)
NewBoolScriptArg(t) ==
    CASE t.kind = "bool" -> Ok(ScriptArg("bool", <<IF t.body THEN 1 ELSE 0>>))
      [] t.kind = "number" -> {ScriptArg("bool", <<n>>) : n \in ParseSdkIntParam(t.body) \cap {0, 1}}
      [] OTHER -> Refused

(* One argument, read by the type the compiler gives for its position. *)
ConvertArgument(t, type) ==
    CASE type = "address" -> NewAddressScriptArg(t)
      [] type = "u8"      -> NewU8ScriptArg(t)
      [] type = "u64"     -> NewU64ScriptArg(t)
      [] type = "u128"    -> NewU128ScriptArg(t)
      [] type = "bool"    -> NewBoolScriptArg(t)
      [] type = "vector"  -> NewVectorScriptArg(t)
      [] OTHER            -> Refused

ConvertStringScriptArguments(texts, types) ==
    IF Len(texts) # Len(types) THEN Refused
    ELSE LET converted == [i \in DOMAIN texts |-> ConvertArgument(texts[i], types[i])]
         IN  When(\A i \in DOMAIN texts : converted[i] # {},
                  [i \in DOMAIN texts |-> CHOOSE a \in converted[i] : TRUE])

(***************************************************************************)
(* Pages of a list.  PaginateSlice computes in uint64 and returns the      *)
(* half-open range [start, end) of a slice.  It refuses page 0 and limit   *)
(* 0.  Uint64() panics on a number it cannot hold, but is not asked for    *)
(* the pages of an empty slice.                                            *)
(***************************************************************************)
TooLarge(page, limit) == page > MaxUint64 \/ limit > MaxUint64

\* Defect: the end of the range is taken for its last element.
PaginateSliceInclusive(sliceLen, page, limit) ==
    LET start == ((page - 1) * limit) % (MaxUint64 + 1)
        end == (limit + start - 1) % (MaxUint64 + 1)
        empty == Ok([start |-> 0, end |-> 0])
    IN  IF page = 0 \/ limit = 0 THEN Refused
        ELSE IF sliceLen = 0 THEN empty
        ELSE IF TooLarge(page, limit) THEN Refused
        ELSE IF start >= sliceLen THEN empty
        ELSE Ok([start |-> start, end |-> IF end >= sliceLen THEN sliceLen ELSE end])

PaginateSlice(sliceLen, page, limit) ==
    LET start == ((page - 1) * limit) % (MaxUint64 + 1)
        end == (limit + start) % (MaxUint64 + 1)
        empty == Ok([start |-> 0, end |-> 0])
    IN  IF page = 0 \/ limit = 0 THEN Refused
        ELSE IF sliceLen = 0 THEN empty
        ELSE IF TooLarge(page, limit) THEN Refused
        ELSE IF start >= sliceLen THEN empty
        ELSE Ok([start |-> start, end |-> IF end >= sliceLen THEN sliceLen ELSE end])

=============================================================================
