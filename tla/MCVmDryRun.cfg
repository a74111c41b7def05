SPECIFICATION Spec
CONSTANTS
  Paths = {"p", "q"}
  HeightPath = "h"
  NoValue = 99
  GenesisValues <- MCGenesisValues
  Txs <- MCTxs
  Proposals <- MCProposals
  MaxAttempts = 2
  Word = 64
  VMMaxGasLimit = 10
  TxGas = 1
  BlockGas = 1
  WriteGas = 1
  EventTypeProcessingGas = 1
  EventTypeNoGasLevels = 2
  MaxHeight = 3
  MaxBlockTxs = 1
  MaxSimulations = 1
  MaxCrashes = 1
  MaxProposals = 2
INVARIANT DryRunReadsTheBlock
CHECK_DEADLOCK FALSE
