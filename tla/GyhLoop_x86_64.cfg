SPECIFICATION FairSpec
CONSTANTS
  Arch = "x86_64"
  Qlib = {q1, q2}
  StackSize = 11
  MaxSyscalls = 4
  MaxCallbacks = 2
  MaxSignals = 1
INVARIANTS TypeOK NeverAstray HostServesCaller SwitchSlotFree GuestMaskInForce CallbacksAccounted
PROPERTIES LiveFramesKept SignalDelivered ImplementsOffloadStack
