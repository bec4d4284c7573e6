SPECIFICATION FairSpec
CONSTANTS
  Arch = "aarch64"
  Qlib = {q1, q2}
  StackSize = 10
  MaxSyscalls = 4
  MaxCallbacks = 2
  MaxSignals = 1
INVARIANT LoopInv
PROPERTY ImplementsOffloadStack
