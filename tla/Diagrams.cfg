SPECIFICATION Spec
CONSTANTS
  Item = {1, 2, 3, 4}
  Actors = 2
  MaxSignals = 4
  Branch = {"master", "dev"}
  MaxCommits = 5
  Id = {"a", "task1"}
  AutoId <- AutoIds
  MaxDepth = 1
  MaxTasks = 3
  MaxDrawn = 1
  Vertex = {"a", "subGraph0", "subGraph2"}
  Links <- TwoLinks
  SubGraphIds <- SubGraphs
  MaxStatements = 3
  MaxSections = 3
INVARIANTS
  TicksInOrder
  SequenceRight
  MergeLosesNothing
  DrawsEveryLine
  ScheduleRight
  FlowRight
PROPERTIES
  EveryTickBegins
CHECK_DEADLOCK FALSE
