SPECIFICATION FairSpec
CHECK_DEADLOCK FALSE
CONSTANTS
  Publishers = {p1}
  Workers = {w1, w2}
  Parkers = {w1, w2}
  Stoppers = {o1}
  Capacity = 2
  Counts = {1, 2}
  MaxSequence = 2
  Buffered = TRUE
INVARIANTS
  EntryExclusive
  SleepersWoken
 
