SPECIFICATION Spec
CONSTANTS
  t1 = t1
  t2 = t2
  t3 = t3
  Threads = {t1, t2}
  Shared = TRUE
  ProcessOf <- TwoProcesses
  Tid <- MCTid2
  Types = {"normal"}
  MaxCount = 1
  NoOwner = NoOwner
INVARIANTS
  SleepersHaveRescuer
