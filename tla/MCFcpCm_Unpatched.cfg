CONSTANTS
  Module = {"a", "b"}
  Table <- MCTable
  PageSize = 4
  Programs <- Plain
SPECIFICATION Spec
INVARIANT UnpatchedCallsBack
