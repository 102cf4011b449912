SPECIFICATION FairSpec
CONSTANTS
  Publishers = {p1, p2}
  Workers = {w1}
  Parkers = {}
  Stoppers = {}
  Capacity = 2
  Counts = {1}
  MaxSequence = 2
  Buffered = TRUE
PROPERTIES
  PublishedClaimed
