SPECIFICATION FairSpec
CONSTANTS
  Thread = {t1, t2, t3}
  Permits = 2
  Method = {"lock", "lockInterruptibly", "tryLock"}
PROPERTIES
  SemaphoreSpec
  FreePermitIsTaken
CHECK_DEADLOCK FALSE
