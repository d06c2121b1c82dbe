SPECIFICATION FairSpec
CONSTANTS
  Job = {j1, j2}
  NoJob = NoJob
  Client = {c1}
  Free = Free
  MaxWorkers = 3
  MinWorkers = 1
  MaxInt = 15
  InitArgs = {0, 2, 9}
  AddArgs = {1}
  RemoveArgs = {1, 2}
  Outcome = {"throws", "interrupts"}
  MaxThreads = 4
  MaxCalls = 2
PROPERTIES
  ServiceSpec
  EveryJobRuns
CHECK_DEADLOCK FALSE
