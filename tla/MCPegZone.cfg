SPECIFICATION FairSpec
CONSTANTS
  MaxUint16 = 65535
  v1 = v1
  v2 = v2
  v3 = v3
  u1 = u1
  u2 = u2
  Account <- MCAccount
  UniqueID <- MCUniqueID
  Msg <- MCMsg
  Apps <- MCApps
  Handle <- RouteHandle
  IsValidator <- HasValidator
  EnoughConfirmations <- GetEnoughConfirmations
  IntervalToExecute = 1
  MaxCalls = 2
  MaxSubmitHeight = 2
  MaxHeight = 4
  Restarts = TRUE
INVARIANTS
  QueueMatchesCalls
  QueueAgeBound
  ExportAlwaysValid
PROPERTIES
  DecidedIsFinal
  AppChangesOnlyByExecution
  QueuedIsResolved
