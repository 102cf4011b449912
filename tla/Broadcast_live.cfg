SPECIFICATION FairSpec
CHECK_DEADLOCK FALSE
CONSTANTS
  c1 = c1
  c2 = c2
  Publishers = {p1}
  Consumers = {c1, c2}
  Early = {c1, c2}
  Upstream <- Chain
  SlotCount = 2
  Capacity = 1
  MaxSequence = 2
INVARIANT DependenciesFirst
PROPERTIES
  WaitersServed
