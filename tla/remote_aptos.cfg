SPECIFICATION Spec
CONSTANTS
  None = None
  wa = wa
  t1 = t1
  c1 = c1
  c2 = c2
  Slots = {c1}
  Asks <- AptosAsks
  MaxTtl = 2
  Skew = 0
  PlanMin = 0
  Ttl = 1
  Timeout = 1
  MaxCalls = 2
  MaxTime = 3

PROPERTIES DoorsAgree
CHECK_DEADLOCK FALSE
