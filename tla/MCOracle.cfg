SPECIFICATION Spec
CONSTANTS
  o1 = o1
  o2 = o2
  o3 = o3
  n = n
  Denoms = {"x", "y"}
  Addresses = {o1, o2, o3, n}
  NoAddress = NoAddress
  Msgs <- MCMsgs
  GenesisAssets <- MCGenesisAssets
  Nominees = {n}
  Diffs = {0, 1}
  Unit = 10
  PriceLimit = 160
  ZeroTime = 0
  GenesisTime = 9
  MaxHeight = 2
  MaxMsgs = 4
  MaxDelay = 1
  MaxRestarts = 2
INVARIANTS QueryAgreesWithVM PanicOnlyOnFreshPrice
PROPERTIES MedianIsBounded
CHECK_DEADLOCK FALSE
