SPECIFICATION Spec
CONSTANTS
  NSteps = 1
  Family <- MCOneFamily
  Rows <- MCOneRows
  MaxRows = 2
  NeedsApproval <- MCOneNeeds
  Value <- MCOneValue
  GasCap <- MCGasCap
  RecoveryGas = 1
  StepReserve <- MCOneWorst
  Cap = 7
  MaxTx = 4
  SolCap = 1
  SolMaxTx = 1
  SolQuotes = {1}
  AuthExpiry = 9
  MaxRuntime = 3
  MinAction = 2
  MinSubmit = 1
  Ttl = 2
  MaxTime = 4
  MaxActions = 2
  MaxRuns = 2
  MaxKeys = 2
INVARIANTS ObservationCarriesEveryHash
CHECK_DEADLOCK FALSE
