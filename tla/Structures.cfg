SPECIFICATION Spec
CHECK_DEADLOCK FALSE
CONSTANTS
  Capacity = 6
  Deadlines = {1, 2}
  MaxGeneration = 2
  MaxOrder = 6
  SlotCount = 3
  MaxGroups = 1
  MaxArguments = 1
  Size = 8
  MaxPosition = 24
  Workers = {w1}
  Clients = {u1}
  Closers = {x1}
  Drivers = {d1}
  Quantum = 2
  MaxDemand = 2
  MaxValues = 1
  MaxWaits = 1
  MaxRefusals = 1
CONSTRAINT StagesInTurn
VIEW Fields
INVARIANTS
  SlotsAccounted
  NoCircularWait
  ViewInOrder
  RefsAccounted
  
  
PROPERTIES
  QueueImplementsTimers
  PollsSeeAll
