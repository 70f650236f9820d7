SPECIFICATION Spec
CONSTANTS
  NSteps = 2
  Family <- MCTwoFamily
  Rows <- MCTwoRows
  MaxRows = 2
  NeedsApproval <- MCTwoNeeds
  Value <- MCTwoValue
  GasCap <- MCGasCap
  RecoveryGas = 1
  StepReserve <- MCTwoWorst
  Cap = 4
  MaxTx = 4
  SolCap = 1
  SolMaxTx = 1
  SolQuotes = {1}
  AuthExpiry = 9
  MaxRuntime = 2
  MinAction = 2
  MinSubmit = 1
  Ttl = 2
  MaxTime = 2
  MaxActions = 2
  MaxRuns = 3
  MaxKeys = 2
INVARIANTS SpendHappened ConfirmedLanded RecoveryIsExactZero
PROPERTIES OverspendIsRecovery BroadcastIsAnnounced RuntimeIsAnchored
CHECK_DEADLOCK FALSE
