SPECIFICATION Spec
CONSTANTS
  Item = {a}
  Null = Null
  Thread = {t1, t2, t3, t4, t5}
  Capacity = 2
INVARIANTS
  TypeOK
  QueuesExact
  NoLostSignal
  NoGhosts
SYMMETRY Symmetry
CHECK_DEADLOCK FALSE
