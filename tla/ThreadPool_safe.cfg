SPECIFICATION Spec
CHECK_DEADLOCK FALSE
CONSTANTS
  Workers = {w1, w2}
  Submitters = {s1, w1}
  Waiters = {}
  Stoppers = {p1}
  Tasks = {k1, k2, k3}
  NoTask = NoTask
  QueueCapacity = 2
  RingCapacity <- MCRingCapacity
SYMMETRY TaskSymmetry
INVARIANTS
  TypeOK
  DepthAccounts
  QueueBounded
  CallbackProtocol
  NoWakeupLost
PROPERTY ImplementsQueue
