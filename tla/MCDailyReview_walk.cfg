SPECIFICATION AssistantSpec
CONSTANTS
  c1 = c1
  c2 = c2
  Callers = {c1, c2}
  Assistant = c2
  Items = {1, 2, 3}
  Tasks = {1, 2, 3}
  Logs = {1, 2, 3, 4, 5}
  Derived <- FromInbox
  Reminders = {1, 2, 3}
  Captures = {1, 2, 3}
  MaxRevision = 5
  MaxTaskRev = 3
  Texts <- Asks
  Loads <- AllLoads
  PageSize = 2
CHECK_DEADLOCK FALSE
INVARIANTS HistoryReplays ReviewHolds LogsHold
PROPERTY EffectHolds
