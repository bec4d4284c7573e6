CONSTANTS
  Module = {"a", "b"}
  Table <- MCTable
  PageSize = 4
  Programs <- MCPrograms
SPECIFICATION Spec
INVARIANT TypeOK
INVARIANT PatchNeverFaults
INVARIANT FastCallsOwn
INVARIANT AbortExplained
