SPECIFICATION Spec
CHECK_DEADLOCK FALSE
CONSTANTS
  c1 = c1
  c2 = c2
  Publishers = {p1}
  Consumers = {c1, c2}
  Early = {c1}
  Upstream <- Independent
  SlotCount = 2
  Capacity = 2
  MaxSequence = 4
INVARIANT SlowestGatesReuse
