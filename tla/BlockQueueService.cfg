SPECIFICATION FairSpec
CONSTANTS
  Item = {a, b}
  Null = Null
  Thread = {t1, t2, t3}
  Capacity = 2
PROPERTIES
  DequeSpec
  RoomIsUsed
CHECK_DEADLOCK FALSE
