SPECIFICATION FairSpec
CONSTANTS
  dl = dl
  libc = libc
  a = a
  b = b
  c = c
  Libraries = {dl, libc, a, b, c}
  LibDL = dl
  Stubs = {libc}
  Opened = {a, b}
  Needed <- Cycle
  SO_MAX = 4
  MaxHandles = 2
PROPERTIES
  ImplementsLoader
  CallsReturn
