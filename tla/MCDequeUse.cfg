\* One LocklessDeque with HTL_EXTRA_LOCKS, its owner, the main thread, two thieves.
SPECIFICATION Spec
CONSTANTS
  Jobs = {j1, j2, j3}
  NoJob = NoJob
  Unwritten = Unwritten
  Owner = owner
  Main = main
  Thieves = {thief1, thief2}
  Deques = {0}
  Capacity = 5
  ExtraLocks = TRUE
CONSTANT Threads <- MCThreads
SYMMETRY Symmetry
INVARIANTS TypeOK ReadsWritten SwapsSucceed
PROPERTY AbstractSpec
