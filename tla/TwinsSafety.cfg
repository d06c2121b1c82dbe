SPECIFICATION Spec
CONSTANTS
  Thread = {t1, t2, t3, t4}
  Permits = 2
  Method = {"lock", "tryLock", "tryLockTimed"}
INVARIANTS
  PermitsConserved
  AtMostTwo
  NoLostRelease
SYMMETRY Symmetry
CHECK_DEADLOCK FALSE
