\* Two captures, two system calls, two events on their way.
SPECIFICATION Spec
CONSTANTS
  c1 = c1
  c2 = c2
  t1 = t1
  t2 = t2
  x = x
  Invalid = Invalid
  MaxCaptures = 2
  MaxCalls = 2
  MaxBuffer = 2
  MaxOthers = 1
CONSTANT Cores <- CoreSet
CONSTANT Registered <- RegisteredSet
CONSTANT Strangers <- StrangerSet
SYMMETRY Alike
INVARIANTS SyscallsMatched NothingLeft
CHECK_DEADLOCK FALSE
