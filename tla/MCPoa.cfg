SPECIFICATION Spec
CONSTANTS
  MaxUint16 = 3
  a1 = a1
  a2 = a2
  a3 = a3
  a4 = a4
  Address <- MCAddress
  Genesis <- MCGenesis
  Limits = {0, 1, 2, 3}
INVARIANTS
  CopiesAgree
  MajorityReachableAndUnique
PROPERTY
  LimitsHoldOnChange
CHECK_DEADLOCK FALSE
