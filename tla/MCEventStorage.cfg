\* Chunks of two events, three events in each of two captures.
SPECIFICATION Spec
CONSTANTS
  Size = 2
  BatchLimit = 1
  MaxTime = 5
  MaxEvents = 3
  MaxCaptures = 2
CONSTANT Garbage <- GarbageTimes
INVARIANTS PoolKeepsEvents SentOnce ScopesNest
CHECK_DEADLOCK FALSE
