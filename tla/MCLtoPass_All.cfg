CONSTANTS
  Func <- MCFunc
  Callees <- MCCallees
  Confs <- MCConfs
  Uids = {0, 1}
  Dirs = {1}
SPECIFICATION Spec
INVARIANT TypeOK
INVARIANT CallReachesBody
INVARIANT OffStaysOff
INVARIANT RequestsMet
INVARIANT DiesOnlyOnLists
INVARIANT AbortExplained
