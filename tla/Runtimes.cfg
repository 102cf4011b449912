SPECIFICATION RuntimesSpec
CHECK_DEADLOCK FALSE
CONSTANTS
  Shards = {1}
  MaxCo = 2
  QueueCap = 1
  Submitters = {u1}
  Statuses = {ok}
  MaxTasks = 2
  MaxGen = 2
  MaxOps = 2
  None = None
  Producers = {f1}
  Waiters = {a1}
  MaxSends = 1
  MaxRejections = 2
  StopsEarly = FALSE
INVARIANTS
  FramesAccounted
  WakesExact
  Drained
  EndAgreed
PROPERTIES
  FirstCompletionWins
  RunsToEnd
  
