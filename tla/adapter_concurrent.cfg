SPECIFICATION Spec
CONSTANTS
  e1 = e1
  s1 = s1
  w1 = w1
  w2 = w2
  c1 = c1
  c2 = c2
  Ops = {e1}
  Family <- MCOneEvm
  Callers = {c1, c2}
  Windows = {w1, w2}
  MayClose = {w1}
  Durable = TRUE
  Depth = 2
  ReorgDepth = 1
  MaxHeight = 3
  MaxReorgs = 0
  MaxHashes = 1
  MaxForeign = 0
  MaxCrashes = 0
INVARIANTS OneTransaction
CHECK_DEADLOCK FALSE
