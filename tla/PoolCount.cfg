SPECIFICATION Spec
CONSTANTS
  Job = {j1}
  NoJob = NoJob
  Client = {c1}
  Free = Free
  MaxWorkers = 4
  MinWorkers = 2
  MaxInt = 7
  InitArgs = {4}
  AddArgs = {}
  RemoveArgs = {1, 3}
  Outcome = {"returns"}
  MaxThreads = 4
  MaxCalls = 1
INVARIANT WorkerNumberExact
CHECK_DEADLOCK FALSE
