SPECIFICATION Spec
CONSTANTS
  None = None
  wa = wa
  wb = wb
  p1 = p1
  p2 = p2
  Procs = {p1, p2}
  Drivers = {p1}
  Quotes <- MCQuotes
  WalletMaps <- MCWallets
  Stricter = {1}
  MaxTtl = 3
  Skew = 0
  PlanMin = 0
  ActionTtl = 3
  ReadyMin = 2
  Unsaved = {"one_shot"}
  MaxTime = 4
  MaxTokens = 2
  MaxHandoffs = 2
INVARIANTS TypeOK SavedIsRecoverable ApprovedBounds NextSpendsOutput HonestIsAccepted
PROPERTIES BoundBeforeHandoff FreshWhenHandedOff
CHECK_DEADLOCK FALSE
SYMMETRY MCSymmetry
