SPECIFICATION Spec
CONSTANTS
  Arch = "aarch64"
  Qlib = {q1}
  StackSize = 8
  MaxSyscalls = 2
  MaxCallbacks = 1
  MaxSignals = 1
INVARIANT ContextAtReturn
