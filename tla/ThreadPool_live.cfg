SPECIFICATION LiveSpec
CHECK_DEADLOCK FALSE
CONSTANTS
  Workers = {w1}
  Submitters = {s1}
  Waiters = {a1}
  Stoppers = {p1}
  Tasks = {1, 2}
  NoTask = NoTask
  QueueCapacity = 1
  RingCapacity <- MCRingCapacity
ACTION_CONSTRAINTS
  QuietShutdown
  InOrder
INVARIANT WaitSeesSettled
PROPERTIES
  SubmissionSettles
  ThreadsReturn
