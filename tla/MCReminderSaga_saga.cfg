SPECIFICATION FairSpec
CONSTANTS
  p1 = p1
  p2 = p2
  a = a
  b = b
  errand = errand
  Procs = {p1, p2}
  Reminders = {a}
  Owners = {a}
  Tasks = {errand}
  TaskOf <- OneTask
  Jobs = {1,2,3}
  Tickers = {p1, p2}
  Deployments <- Deployed
  MaxTime = 2
  Keys <- Instants
  MaxRetries = 2
  MaxTaskRev = 2
  MaxClaims = 6
  MaxCalls = 3
  MaxFaults = 1
CHECK_DEADLOCK FALSE
INVARIANTS OneOccurrence ScheduledHasJob
PROPERTIES SettledIsFinal SuccessDisarms FiresWithinBudget PendingRepaired
