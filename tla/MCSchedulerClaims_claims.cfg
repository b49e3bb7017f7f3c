SPECIFICATION Spec
CONSTANTS
  remind = remind
  poll = poll
  r1 = r1
  r2 = r2
  Jobs <- TwoJobs
  OneShots <- OneShotOnly
  Runtimes <- TwoRuntimes
  MaxRetries = 2
  ClaimTTL = 2
  RetryDelay = 1
  Interval = 1
  Delays <- Soon
  MaxConcurrent = 1
  Horizon = 2
  MaxStall = 1
  MaxClaims = 3
  MaxRev = 5
  MaxCalls = 2
  MaxFaults = 2
SYMMETRY RuntimeSymmetry
CONSTRAINT Focus
INVARIANTS
  ClaimsHold
  ConcurrencyLimit
  LeaseExclusive
  AttemptsNumbered
  RetryBudget
PROPERTIES
  CompletedIsFinal
  ImplementsLedger
  ImplementsJobTable
