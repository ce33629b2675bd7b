\* Every dependency graph over four jobs, three threads.
SPECIFICATION Spec
CONSTANTS
  Jobs = {j1, j2, j3, j4}
  Threads = {t1, t2, t3}
  NoJob = NoJob
SYMMETRY Symmetry
INVARIANTS
  TypeOK
  CountersExact
  DependencyOrder
  NeverStuck
PROPERTY
  FinishedForever
