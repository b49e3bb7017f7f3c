SPECIFICATION FairSpec
CONSTANTS
  remind = remind
  poll = poll
  r1 = r1
  r2 = r2
  Jobs <- OneJob
  OneShots <- OneShotOnly
  Runtimes <- TwoRuntimes
  MaxRetries = 2
  ClaimTTL = 2
  RetryDelay = 1
  Interval = 1
  Delays <- Soon
  MaxConcurrent = 1
  Horizon = 2
  MaxStall = 0
  MaxClaims = 2
  MaxRev = 3
  MaxCalls = 1
  MaxFaults = 2
PROPERTIES
  AttemptsClose
  OneShotSettles
