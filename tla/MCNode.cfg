SPECIFICATION FairSpec
CONSTANTS
  alice = alice
  bob = bob
  Acc <- MCAcc
  TxBytes <- MCTxBytes
  Decode <- MCDecode
  NoTx = NoTx
  AccNum <- MCAccNum
  GenesisStore <- MCGenesis
  BlankStore <- MCBlank
  MainDenom = "xfi"
  ChainID = "dn"
  NoChainID = "none"
  NoKey = NoKey
  MinGasPrice = 0
  TxSizeGas = 1
  SigGas = 1
  MaxBlockGas = 5
  GenesisGas = 3
  BeginGas = 1
  HaltHeight = 3
  MaxBlockTxs <- MCMaxBlockTxs
  MaxPool = 1
  MaxCrashes = 1
INVARIANTS CommittedIsDetermined NoReplay PooledPays
PROPERTIES ImplementsLedger DecidedIsCommitted
CHECK_DEADLOCK FALSE
