SPECIFICATION Spec
CONSTANTS
  MaxUint16 = 65535
  v1 = v1
  v2 = v2
  v3 = v3
  u1 = u1
  u2 = u2
  Account <- MCAccount
  UniqueID <- MCUniqueID
  Msg <- MCMsgAddOnly
  Apps <- MCApps
  Handle <- RouteHandle
  IsValidator <- HasValidator
  EnoughConfirmations <- GetEnoughConfirmations
  IntervalToExecute = 1
  MaxCalls = 2
  MaxSubmitHeight = 5
  MaxHeight = 7
  Restarts = FALSE
INVARIANT
  ConfirmedIsExecuted
CHECK_DEADLOCK FALSE
