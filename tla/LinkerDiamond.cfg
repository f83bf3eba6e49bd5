SPECIFICATION Spec
CONSTANTS
  dl = dl
  libc = libc
  a = a
  b = b
  c = c
  Libraries = {dl, libc, a, b, c}
  LibDL = dl
  Stubs = {libc}
  Opened = {a, c}
  Needed <- Diamond
  SO_MAX = 4
  MaxHandles = 2
INVARIANTS
  ListsWellFormed
  RefcountExact
  NeededPresent
  HandlesUsable
  FiniAfterInit
  DebugListExact
