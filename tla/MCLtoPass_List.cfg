CONSTANTS
  Func <- MCFunc
  Callees <- MCCallees
  Confs <- Listed
  Uids = {0, 1}
  Dirs = {1}
SPECIFICATION Spec
INVARIANT ListedKeepBody
