SPECIFICATION EntrySpec
CONSTANTS
  t1 = t1
  t2 = t2
  t3 = t3
  t4 = t4
  t5 = t5
  f1 = f1
  f2 = f2
  f3 = f3
  c1 = c1
  c2 = c2
  v1 = v1
  v2 = v2
  Starter = Starter
  Nobody = Nobody
  Tasks = {t1, t2, t3, t4, t5}
  Flows = {f1, f2, f3}
  Plan <- TaskPlan
  Steps <- FlowSteps
  StepType <- FlowStepTypes
  Retries <- TaskRetries
  KnowledgeOn = TRUE
  Callers = {c1, c2}
  Jobs = {1, 2}
  Loads <- AgentLoads
  Environments <- AllEnvironments
  Visits = {v1, v2}
INVARIANTS NoFakeSuccess
