SPECIFICATION FairSpec
CONSTANTS
  t1 = t1
  t2 = t2
  t3 = t3
  Threads = {t1, t2, t3}
  Shared = FALSE
  ProcessOf <- OneProcess
  SEM_MAX = 2
  NoUnits = NoUnits
  MaxGiven = 3
INVARIANTS
  Conservation
  SleepersHaveRescuer
PROPERTIES
  NoSleeperMissesAUnit
  ImplementsSemaphore
