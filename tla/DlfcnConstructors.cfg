SPECIFICATION DlSpec
CONSTANTS
  dl = dl
  libc = libc
  a = a
  b = b
  t1 = t1
  t2 = t2
  Threads = {t1, t2}
  NoThread = NoThread
  Libraries = {dl, libc, a, b}
  LibDL = dl
  Stubs = {libc}
  Opened = {b}
  Reentrant = {a}
  Needed <- Pair
  SO_MAX = 3
  MaxHandles = 1
INVARIANTS
  ConstructorsMayDlopen
