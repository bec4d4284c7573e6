CONSTANTS
  Func <- MCFunc
  Callees <- MCCallees
  Confs <- Annotated
  Uids = {0, 1}
  Dirs = {1}
SPECIFICATION Spec
INVARIANT NoTakeOutRuns
