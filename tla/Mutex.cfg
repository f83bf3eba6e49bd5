SPECIFICATION FairSpec
CONSTANTS
  t1 = t1
  t2 = t2
  t3 = t3
  Threads = {t1, t2, t3}
  Shared = FALSE
  ProcessOf <- OneProcess
  Tid <- MCTid
  Types = {"normal", "recursive", "errorcheck"}
  MaxCount = 2
  NoOwner = NoOwner
INVARIANTS
  TypeOK
  MutualExclusion
  WordMatchesHolder
  SleepersHaveRescuer
PROPERTIES
  NobodyStranded
  DestroyIsFinal
  ImplementsLock
