SPECIFICATION Spec
CHECK_DEADLOCK FALSE
CONSTANTS
  Workers = {w1}
  Submitters = {s1}
  Waiters = {}
  Stoppers = {p1}
  Tasks = {k1}
  NoTask = NoTask
  QueueCapacity = 1
  RingCapacity <- MCRingCapacity
INVARIANT NoneLeftBehind
