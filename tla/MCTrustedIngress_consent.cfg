CONSTANTS
  Interactions = {i1, i2}
  c1 = c1
  c2 = c2
  Callers = {c1, c2}
  MaxKeys = 2
  Calls <- ConsentCalls
  Kinds <- ConfirmedKinds
  PortStatuses = {"ACKNOWLEDGED"}
  ConsentTtl = 1
  MaxTime = 2
  MaxRevision = 6
  MaxFaults = 1
  Messages = {m1, m2}
  Texts = {"t1", "t2"}
  PilotTtl = 3
  EvidenceTtl = 2
  MaxSigningKey = 2
  Loads <- AllLoads
SYMMETRY Symmetry
SPECIFICATION IngressSpec
INVARIANTS ExecutionAuthorized OwnerConfirmed AcceptedVerifiable
