SPECIFICATION Spec
CONSTANTS
  i1 = i1
  i2 = i2
  i3 = i3
  Arch = "aarch64"
  Image = {i1, i2, i3}
  Uid <- MCUid
  Funcs <- MCFuncs
  HFuncs <- MCHFuncs
  Grt = {i3}
  QlibsSize = 3
  MaxLoads = 4
INVARIANTS TypeOK CallServedByOwn NeverStale ReadyServed FullWhenUsed CallbackEntryMapped
SYMMETRY Copies
