SPECIFICATION Spec
CONSTANTS
  Publishers = {p1, p2}
  Workers = {w1}
  Parkers = {}
  Stoppers = {}
  Capacity = 2
  Counts = {1}
  MaxSequence = 4
  Buffered = TRUE
SYMMETRY PublisherSymmetry
INVARIANTS
  CursorsCover
PROPERTY ImplementsQueue
