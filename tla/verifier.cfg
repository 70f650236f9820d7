SPECIFICATION Spec
CONSTANTS
  None = None
  k1 = k1
  k2 = k2
  Kept = {"base", "sei", "injective"}
  Releases <- MCReleases
  Keys = {k1, k2}
  PinnedKey = k1
  Timeout = 1
  MaxFaulty = 1
  MaxPublish = 1
  MaxTime = 8
INVARIANTS TypeOK LiveIsAttested OneRelease StaleByOneRun AcceptedIsVerified
PROPERTIES RunEnds
CHECK_DEADLOCK FALSE
