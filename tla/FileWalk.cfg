SPECIFICATION Spec
CONSTANTS
  Node = {"dir", "sub", "deep", "a", "b", "c"}
  Root = "dir"
  Trees <- SomeTrees
  PoolSize = 2
  Capacity = 1
INVARIANTS
  NoFileTwice
  SequentialRight
  AnswerRight
  LatchOpensLast
  LateNullCostsNothing
  DeadlockNeedsDirectories
  AllOrNothing
PROPERTIES
  EndsByItself
CHECK_DEADLOCK FALSE
