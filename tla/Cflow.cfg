SPECIFICATION CflowSpec
CHECK_DEADLOCK FALSE
CONSTANTS
  TimerCapacity = 2
  ReadyCapacity = 1
  Workers = 2
  Delays = {0, 1}
  MaxTasks = 2
  MaxTime = 1
  Senders = {s1}
  Closers = {c1}
  Cancellers = {k1}
  Capacity = 2
  Quantum = 2
  MaxEvents = 2
INVARIANTS
  CalledOnce
  IdleMeansIdle
  EventsAccounted
PROPERTIES
  CallsReturn
  CommitsLinearized
  MachineProgresses
