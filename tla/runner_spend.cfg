SPECIFICATION Spec
CONSTANTS
  NSteps = 1
  Family <- MCOneFamily
  Rows <- MCOneRows
  MaxRows = 2
  NeedsApproval <- MCOneNeeds
  Value <- MCOneValue
  GasCap <- MCDearGas
  RecoveryGas = 2
  StepReserve <- MCDearWorst
  Cap = 6
  MaxTx = 4
  SolCap = 1
  SolMaxTx = 1
  SolQuotes = {1}
  AuthExpiry = 9
  MaxRuntime = 3
  MinAction = 2
  MinSubmit = 1
  Ttl = 2
  MaxTime = 1
  MaxActions = 1
  MaxRuns = 2
  MaxKeys = 2
INVARIANTS SpendWithinCap
CHECK_DEADLOCK FALSE
