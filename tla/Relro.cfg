SPECIFICATION ImageSpec
CONSTANTS
  Threads = {t1, t2, t3}
  FewThreads = {t1, t2}
  Entries = {e1, e2}
  HostFuncs = {f1, f2}
  NoOwner = NoOwner
  Width = 4
  DeadCond = 99
  MaxPulses = 2
  MaxId = 3
  WordBits = 4
  Tries = 2
  Addrs = {"a", "b"}
  SemMax = 3
  MaxWaits = 2
  Dsos = {"d1", "d2"}
  AnyDso = "NULL"
  MaxHandlers = 3
  Indexes = {1, 2}
  MaxKeys = 3
  Symbols = {"malloc", "wmemset", "mine", "other"}
  NotHooked = NotHooked
  Unset = Unset
  FirstSize = 2
  MaxHooks = 6
  Idle = Idle
  t1 = t1
  h1 = h1
  Created = {t1}
  Foreign = {h1}
  Failing = {"EAGAIN", "EDEADLK", "ENOTSUP", "EOTHER"}
  NoCell = NoCell
  Nothing = Nothing
  l1 = l1
  l2 = l2
  l3 = l3
  l4 = l4
  Libs = {l1, l2, l3, l4}
  List <- MCList
  Wanted = {"x", "y"}
  SymbolTables <- MCTables
  Buckets = {1, 2}
  ImageSize = 8
  NoLib = NoLib
  Page = 4
  AddressBits = 6
  Files <- MCFiles
  Bases = {16, 40}
  Hooked <- MCHooked
  Defined <- MCDefined
  Weak = {"weak"}
  SymSize <- MCSymSize
  Outside <- MCOutside
  MaxCopy = 2
  Missing = {2, 99}
  ByteBits = 2
  PadSize = 3
  Calls <- MCCalls
  Sizes = {0, 1, 4, 6, 16}
  Nul = Nul
  Junk = Junk
CHECK_DEADLOCK FALSE
INVARIANT RelroProtected
