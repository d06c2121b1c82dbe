SPECIFICATION Spec
CONSTANTS
  Thread = {t1, t2, t3}
  Method = {"lock", "tryLock", "tryLockTimed"}
  NoThread = NoThread
  Payment = {p1, p2}
  Lists <- SomeLists
  Loop = {t1, t2, t3}
  Value = {1, 2, 3, 4, 5, 6, 7}
INVARIANTS
  MutualExclusion
  PaymentRight
  OneInstance
  AvlRight
PROPERTIES
  Progress
CHECK_DEADLOCK FALSE
