SPECIFICATION FairSpec
CONSTANTS
  MaxTtl = 3 Skew = 0 PlanMin = 1
  None = None r1 = r1 r2 = r2
  Readers = {r1, r2}
  Jobs <- MCJobs
  Releases = {65, 98, 100}
  Timeout = 1 Ttl = 2 MaxTime = 3
  MaxLies = 1 MaxKills = 1 MaxRollouts = 1
CONSTRAINT Contest
CHECK_DEADLOCK FALSE
INVARIANTS TypeOK ClaimedIsKept HonestQuoteTold ToldIsTrue VerifiedIsOfOneRelease
PROPERTY ReadingEnds
