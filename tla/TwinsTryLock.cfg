SPECIFICATION Spec
CONSTANTS
  Thread = {t1, t2}
  Permits = 2
  Method = {"lock", "tryLock"}
INVARIANT TryLockTakesNothing
CHECK_DEADLOCK FALSE
