SPECIFICATION Spec
CONSTANTS
  dl = dl
  libc = libc
  a = a
  b = b
  c = c
  Libraries = {dl, libc, a, b, c}
  LibDL = dl
  Stubs = {libc}
  Opened = {c}
  Needed <- Diamond
  SO_MAX = 3
  MaxHandles = 1
INVARIANTS
  DladdrFindsMapped
