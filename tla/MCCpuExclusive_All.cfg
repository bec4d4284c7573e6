SPECIFICATION Spec
CONSTANTS
  Cpu = {c1, c2, c3}
  First = c1
  None = None
  MaxWork = 1
INVARIANTS TypeOK ExclusiveAlone WaitersCounted NoLostWakeup ExclInv
PROPERTY SectionEnds
