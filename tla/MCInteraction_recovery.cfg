CONSTANTS
  Interactions = {i1}
  c1 = c1
  c2 = c2
  Callers = {c1, c2}
  MaxKeys = 2
  Calls <- RecoveryCalls
  Kinds <- CommitKind
  PortStatuses = {"ACKNOWLEDGED", "REJECTED", "UNCERTAIN"}
  ConsentTtl = 1
  MaxTime = 0
  MaxRevision = 8
  MaxFaults = 1
SPECIFICATION RecoverySpec
INVARIANTS EvidenceTrue AnswersHold
PROPERTIES ImplementsContract RecoveryFinishes
