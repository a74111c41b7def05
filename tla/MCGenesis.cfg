SPECIFICATION Spec
CONSTANTS
  Denoms <- MCDenoms
  Pool = "pool"
  GenBalances <- MCGenBalances
  FakeVal = "fake"
  FakeAmount = 3
  Unit = 10
  Addrs <- MCAddrs
  DefaultCurrencies <- MCDefaultCurrencies
  Codes = {"xfi_eth"}
  WriteSets <- MCWriteSets
  StakerReports <- MCStakerReports
  PoaMax = 2
  Testnets <- MCTestnets
  NoFile = NoFile
  NoChain = NoChain
  MaxSteps = 4
INVARIANTS
  ValidFileLives
  NumbersSurvive
  SquashKeepsSupply
  StakersAreWhole
CHECK_DEADLOCK FALSE
