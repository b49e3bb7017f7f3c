SPECIFICATION FairSpec
CONSTANTS
  c1 = c1
  c2 = c2
  h1 = h1
  h2 = h2
  Callers = {c1, c2}
  Hosts = {h1, h2}
  Host <- TwoHosts
  Items = {i1}
  Kinds = {"user_task", "reminder", "work_log", "dismissed"}
  Intents = {n1, n2}
  MaxFaults = 1
INVARIANT NoOrphanTarget
INVARIANT ResolutionCoherent
INVARIANT AnswersHold
PROPERTY ClaimsAdvance
PROPERTY RetryFinishes
