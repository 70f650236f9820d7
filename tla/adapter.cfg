SPECIFICATION ConfirmSpec
CONSTANTS
  e1 = e1
  s1 = s1
  w1 = w1
  w2 = w2
  c1 = c1
  c2 = c2
  Ops = {e1, s1}
  Family <- MCBoth
  Callers = {c1}
  Windows = {w1, w2}
  MayClose = {w1}
  Durable = TRUE
  Depth = 2
  ReorgDepth = 1
  MaxHeight = 4
  MaxReorgs = 2
  MaxHashes = 4
  MaxForeign = 1
  MaxCrashes = 1
INVARIANTS TypeOK OneTransaction ConfirmedIsFinal
PROPERTIES Idempotent ConfirmationEnds
CHECK_DEADLOCK FALSE
CONSTRAINTS OneFamily
