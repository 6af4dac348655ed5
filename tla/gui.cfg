SPECIFICATION WindowSpec
CONSTANTS
  MaxTasks = 2
  MaxClicked = 2
  Threads = {t1, t2}
  NoRefresh = NoRefresh
  Scenarios = {n1}
  NoName = NoName
  MaxAttempts = 2
  MaxEvents = 3
  t1 = t1
  t2 = t2
  n1 = n1
  MaxRequests = 4
  MaxNotes = 1
  MaxConnections = 2
INVARIANTS  ShownIsLatest AnswersKept
PROPERTIES TasksEnd
CHECK_DEADLOCK FALSE
