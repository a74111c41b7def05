-------------------------------- MODULE Oracle --------------------------------
(***************************************************************************)
(* x/oracle: oracles post ask and bid prices for an asset, EndBlocker sets *)
(* the asset's current price to their medians and tells the virtual        *)
(* machine the price of the asset and of the reversed asset.               *)
(*                                                                         *)
(* An asset code is a pair of denominations.  A price list of an earlier   *)
(* height is kept in the store under a key of its own that only the query  *)
(* reads; raw is the list of the open block.                               *)
(***************************************************************************)
EXTENDS Integers, Sequences, FiniteSets, SequencesExt, TLC

CONSTANTS
  Denoms,        \* denominations that AssetCodeFilter accepts
  Addresses,     \* accounts
  NoAddress,     \* the empty address
  Msgs,          \* messages that clients send
  GenesisAssets, \* assets of the genesis file
  Nominees,      \* accounts that may change the assets
  Diffs,         \* values of received_at_diff_in_s a genesis file may have
  Unit,          \* 10^PricePrecision
  PriceLimit,    \* 2^(8 * PriceBytesLimit)
  ZeroTime,      \* the zero time.Time
  GenesisTime,   \* time of the first block, long after it
  MaxHeight, MaxMsgs, MaxDelay, MaxRestarts  \* bounds of the model

ASSUME UnitAssumption == Unit \in Nat \ {0} /\ PriceLimit \in Nat
ASSUME TimeAssumption ==
  /\ ZeroTime \in Int /\ GenesisTime \in Int /\ MaxDelay \in Nat
  /\ \A d \in Diffs : d \in Nat /\ ZeroTime + d < GenesisTime

VARIABLES
  assets,     \* params.Assets: sequence of [code, oracles]
  diff,       \* params.PostPrice.ReceivedAtDiffInS
  raw,        \* code -> prices posted in this block
  current,    \* code -> current price, or NoPrice
  vmres,      \* code -> price resource in the storage of the VM, 0 if none
  height, now, sent,
  exportedAt, \* block time of the last export, 0 if none
  panicked,   \* InitGenesis panicked: the new chain does not start
  restarts

vars == <<assets, diff, raw, current, vmres, height, now, sent, exportedAt, panicked, restarts>>

NoPrice == [ask |-> 0, bid |-> 0, at |-> ZeroTime]
Codes == Denoms \X Denoms
ReverseCode(code) == <<code[2], code[1]>>
ValidCode(code) == code \in Codes

Asset == [code : Codes, oracles : Seq(Addresses)]

\* Params.Validate looks at the codes of the assets in a genesis file.
ASSUME GenesisAssumption == GenesisAssets \in Seq(Asset)

\* What the decoder makes of a message; ValidateBasic has still to look at it.
ASSUME MsgAssumption ==
  \A msg \in Msgs :
    /\ msg.type = "post_price" => /\ msg.from \in Addresses \cup {NoAddress}
                                 /\ msg.ask \in Int /\ msg.bid \in Int /\ msg.at \in Int
    /\ msg.type = "add_oracle" => msg.oracle \in Addresses \cup {NoAddress}
    /\ msg.type = "set_oracles" => msg.oracles \in Seq(Addresses)
    /\ msg.type \in {"set_asset", "add_asset"} =>
         /\ msg.asset = [code |-> msg.asset.code, oracles |-> msg.asset.oracles]
         /\ msg.asset.oracles \in Seq(Addresses)

-------------------------------------------------------------------------------
(* The keeper's readers *)

Registered == {assets[i].code : i \in DOMAIN assets}

\* GetOracles: the first asset with the code counts.
GetOracles(code) == assets[SelectInSeq(assets, LAMBDA x : x.code = code)].oracles

HasOracle(code, address) ==
  code \in Registered /\ address \in ToSet(GetOracles(code))

IsNominee(address) == address \in Nominees

\* The assets with every entry of the code changed.
Updated(code, Change(_)) ==
  [i \in DOMAIN assets |-> IF assets[i].code = code THEN Change(assets[i]) ELSE assets[i]]

-------------------------------------------------------------------------------
(* Messages.  A message that is refused changes nothing. *)

ValidPrice(p) == p >= 0 /\ p < PriceLimit

MsgPostPriceValid(msg) ==
  msg.from # NoAddress /\ ValidCode(msg.code) /\ ValidPrice(msg.ask) /\ ValidPrice(msg.bid)

AssetValid(asset) == ValidCode(asset.code) /\ asset.oracles # <<>>

MsgAssetValid(msg) == AssetValid(msg.asset) /\ msg.nominee # NoAddress

MsgAddOracleValid(msg) == msg.oracle # NoAddress /\ ValidCode(msg.code) /\ msg.nominee # NoAddress

MsgSetOraclesValid(msg) == msg.oracles # <<>> /\ ValidCode(msg.code) /\ msg.nominee # NoAddress

Deliver(msg) == ~panicked /\ sent < MaxMsgs /\ sent' = sent + 1 /\ msg \in Msgs
             /\ UNCHANGED <<diff, current, vmres, height, now, exportedAt, panicked, restarts>>

\* Defect: only prices from the past are compared.
CheckPricePast(receivedAt) == diff > 0 => now - receivedAt <= diff

\* checkPriceReceivedAtTimestamp
CheckPriceReceivedAt(receivedAt) ==
  diff > 0 => now - receivedAt <= diff /\ receivedAt - now <= diff

\* Defect: a second price of an oracle is appended.
SetPriceAppends(list, price) == Append(list, price)

\* SetPrice: an oracle's second price in a block replaces its first.
SetPrice(list, price) ==
  IF \E i \in DOMAIN list : list[i].oracle = price.oracle
  THEN [list EXCEPT ![SelectInSeq(list, LAMBDA x : x.oracle = price.oracle)] = price]
  ELSE Append(list, price)

PostPrice(msg) ==
  /\ Deliver(msg) /\ msg.type = "post_price" /\ MsgPostPriceValid(msg)
  /\ HasOracle(msg.code, msg.from)
  /\ CheckPriceReceivedAt(msg.at)
  /\ raw' = [raw EXCEPT ![msg.code] =
               SetPrice(@, [oracle |-> msg.from, ask |-> msg.ask, bid |-> msg.bid, at |-> msg.at])]
  /\ UNCHANGED assets

AddOracle(msg) ==
  /\ Deliver(msg) /\ msg.type = "add_oracle" /\ MsgAddOracleValid(msg)
  /\ IsNominee(msg.nominee) /\ msg.code \in Registered /\ ~HasOracle(msg.code, msg.oracle)
  /\ assets' = Updated(msg.code, LAMBDA a : [a EXCEPT !.oracles = Append(@, msg.oracle)])
  /\ UNCHANGED raw

SetOracles(msg) ==
  /\ Deliver(msg) /\ msg.type = "set_oracles" /\ MsgSetOraclesValid(msg)
  /\ msg.code \in Registered /\ IsNominee(msg.nominee)
  /\ assets' = Updated(msg.code, LAMBDA a : [a EXCEPT !.oracles = msg.oracles])
  /\ UNCHANGED raw

SetAsset(msg) ==
  /\ Deliver(msg) /\ msg.type = "set_asset" /\ MsgAssetValid(msg)
  /\ msg.asset.code \in Registered /\ IsNominee(msg.nominee)
  /\ assets' = Updated(msg.asset.code, LAMBDA a : msg.asset)
  /\ UNCHANGED raw

AddAsset(msg) ==
  /\ Deliver(msg) /\ msg.type = "add_asset" /\ MsgAssetValid(msg)
  /\ msg.asset.code \notin Registered /\ IsNominee(msg.nominee)
  /\ assets' = Append(assets, msg.asset)
  /\ UNCHANGED raw

-------------------------------------------------------------------------------
(* EndBlocker: SetCurrentPrices *)

\* reverseInt: 1 / p rounded to twice the precision, then cut to the precision.
ReverseInt(p) == ((2 * Unit * Unit * Unit + p) \div (2 * p)) \div Unit

\* GetReversedAssetCurrentPrice
Reversed(price) == [ask |-> ReverseInt(price.bid), bid |-> ReverseInt(price.ask), at |-> price.at]

\* sort.Slice, which sorts a dozen or fewer by insertion: an element moves down
\* to the last one that is not greater, so equal ones keep their order.
InsertByAsk(list, price) ==
  InsertAt(list, SelectLastInSeq(list, LAMBDA x : x.ask <= price.ask) + 1, price)

InsertByBid(list, price) ==
  InsertAt(list, SelectLastInSeq(list, LAMBDA x : x.bid <= price.bid) + 1, price)

ByAsk(list) == FoldLeft(InsertByAsk, <<>>, list)

ByBid(list) == FoldLeft(InsertByBid, <<>>, list)

\* The median of a block's prices; of an even number the mean of the middle two.
MedianPrice(list) ==
  LET l == Len(list)
      m == l \div 2 + 1   \* index l/2 of a slice
      asks == ByAsk(list)
      bids == ByBid(list)
  IN  IF l = 0 THEN NoPrice
      ELSE IF l % 2 = 0
           THEN [ask |-> (asks[m - 1].ask + asks[m].ask) \div 2,
                 bid |-> (bids[m - 1].bid + bids[m].bid) \div 2,
                 at  |-> now]
           ELSE [ask |-> asks[m].ask, bid |-> bids[m].bid, at |-> asks[m].at]

\* Defect: the reversed price is made of the ask price.
UpdatePriceAsk(acc, code) ==
  LET new == MedianPrice(raw[code])
      old == acc.current[code]
  IN  IF new.ask = 0 \/ new.bid = 0 \/ (old # NoPrice /\ old.ask = new.ask /\ old.bid = new.bid)
      THEN acc
      ELSE [current |-> [acc.current EXCEPT ![code] = new],
            vmres   |-> [acc.vmres EXCEPT ![code] = new.ask, ![ReverseCode(code)] = Reversed(new).bid]]

\* One turn of the loop: zero medians and unchanged prices are passed over;
\* the resource of the asset is written before that of the reversed one.
UpdatePrice(acc, code) ==
  LET new == MedianPrice(raw[code])
      old == acc.current[code]
  IN  IF new.ask = 0 \/ new.bid = 0 \/ (old # NoPrice /\ old.ask = new.ask /\ old.bid = new.bid)
      THEN acc
      ELSE [current |-> [acc.current EXCEPT ![code] = new],
            vmres   |-> [acc.vmres EXCEPT ![code] = new.ask, ![ReverseCode(code)] = Reversed(new).ask]]

UpdateAsset(acc, asset) == UpdatePrice(acc, asset.code)

SetCurrentPrices == FoldLeft(UpdateAsset, [current |-> current, vmres |-> vmres], assets)

EndBlock ==
  /\ ~panicked /\ height < MaxHeight
  /\ \E s \in {SetCurrentPrices} : current' = s.current /\ vmres' = s.vmres
  /\ raw' = [code \in Codes |-> <<>>]
  /\ height' = height + 1
  /\ \E d \in 0..MaxDelay : now' = now + d
  /\ UNCHANGED <<assets, diff, sent, exportedAt, panicked, restarts>>

-------------------------------------------------------------------------------
(* Genesis *)

CurrentPriceValid(price) == price.ask > 0 /\ price.bid > 0 /\ price.at # ZeroTime

\* GenesisState.Validate (a function has no duplicates)
GenesisValid(prices, time) ==
  \A code \in DOMAIN prices : CurrentPriceValid(prices[code]) /\ prices[code].at <= time

\* ExportGenesis: the stored current prices.
Exported == [code \in {c \in Codes : current[c] # NoPrice} |-> current[code]]

\* A new chain is started from the exported state; the resources are part of
\* the VM's exported write set.  InitGenesis panics when a price is not valid.
Restart ==
  /\ restarts < MaxRestarts
  /\ \A code \in Codes : raw[code] = <<>>   \* between blocks
  /\ exportedAt' = IF panicked THEN exportedAt ELSE now
  /\ \E d \in 0..MaxDelay : now' = now + d
  /\ panicked' = ~(GenesisValid(Exported, now') /\ DOMAIN Exported \subseteq Registered)
  /\ raw' = [code \in Codes |-> <<>>]
  /\ height' = 0 /\ restarts' = restarts + 1
  /\ UNCHANGED <<assets, diff, current, vmres, sent>>

Init ==
  /\ assets = GenesisAssets
  /\ diff \in Diffs
  /\ raw = [code \in Codes |-> <<>>]
  /\ current = [code \in Codes |-> NoPrice]
  /\ vmres = [code \in Codes |-> 0]
  /\ height = 0 /\ now = GenesisTime /\ sent = 0
  /\ exportedAt = 0 /\ panicked = FALSE /\ restarts = 0

Next ==
  \/ \E msg \in Msgs : PostPrice(msg) \/ AddOracle(msg) \/ SetOracles(msg) \/ SetAsset(msg) \/ AddAsset(msg)
  \/ EndBlock
  \/ Restart

Spec == Init /\ [][Next]_vars

-------------------------------------------------------------------------------
(* Queries *)

\* queryCurrentPrice: the price of an asset that is not registered is made from
\* the price of the reversed one.
QueryCurrentPrice(code) ==
  IF code \in Registered THEN current[code]
  ELSE IF ReverseCode(code) \in Registered /\ current[ReverseCode(code)] # NoPrice
       THEN Reversed(current[ReverseCode(code)])
       ELSE NoPrice

-------------------------------------------------------------------------------
(* Properties *)

\* What a client is told the price of an asset is, queryCurrentPrice makes from
\* the current prices; what a Move contract reads, SetCurrentPrices wrote.  They
\* are the same price, also for reversed assets, unless both an asset and its
\* reverse are registered and overwrite each other's resources.
QueryAgreesWithVM ==
  \A code \in Codes :
    ~({code, ReverseCode(code)} \subseteq Registered) => QueryCurrentPrice(code).ask = vmres[code]

\* Of the oracles that posted a price at least half asked at most this one and
\* at least half at least this one, and so for the bids; and nobody posted
\* twice.  (The mean of the middle two is cut, so it may be the lower one.)
HalfOnEachSide(list, price) ==
  LET voters == {p.oracle : p \in ToSet(list)}
      Half(S) == 2 * Cardinality({p.oracle : p \in S}) >= Cardinality(voters)
  IN  /\ Half({p \in ToSet(list) : p.ask <= price.ask}) /\ Half({p \in ToSet(list) : p.ask >= price.ask})
      /\ Half({p \in ToSet(list) : p.bid <= price.bid}) /\ Half({p \in ToSet(list) : p.bid >= price.bid})
      /\ Len(list) = Cardinality(voters)

\* A price changes only in EndBlock, to one whose ask, and whose bid, at least
\* half of the oracles that posted in the block are not above, and at least half
\* not below: fewer than half of them cannot move a median past the others'
\* prices, however often they post.
MedianIsBounded ==
  [][\A code \in Codes :
       current'[code] # current[code] => HalfOnEachSide(raw[code], current'[code])]_vars

\* The exported state is one InitGenesis accepts, once the chain starts late
\* enough that no price is from its future: oracles may be ahead of the block
\* time by received_at_diff_in_s, so an import at the export's time may panic.
PanicOnlyOnFreshPrice == panicked /\ diff > 0 => now < exportedAt + diff

===============================================================================
