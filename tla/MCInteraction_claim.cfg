CONSTANTS
  Interactions = {i1}
  c1 = c1
  c2 = c2
  Callers = {c1, c2}
  MaxKeys = 2
  Calls <- ClaimCalls
  Kinds <- CommitKind
  PortStatuses = {"ACKNOWLEDGED"}
  ConsentTtl = 1
  MaxTime = 0
  MaxRevision = 8
  MaxFaults = 0
SPECIFICATION Spec
INVARIANT RecoveryExclusive
