SPECIFICATION Spec
CONSTANTS
  Job = {j1, j2}
  NoJob = NoJob
  Client = {c1, c2}
  Free = Free
  MaxWorkers = 4
  MinWorkers = 1
  MaxInt = 5
  InitArgs = {3}
  AddArgs <- AddsOfAnySign
  RemoveArgs = {1, 3}
  Outcome = {"returns", "throws"}
  MaxThreads = 5
  MaxCalls = 1
INVARIANTS
  TypeOK
  JobsConserved
  NoLostWakeup
  NoOrphan
  AtMostOneLateJob
  ShutdownMissesFew
  PoolBounded
CHECK_DEADLOCK FALSE
SYMMETRY Symmetry
