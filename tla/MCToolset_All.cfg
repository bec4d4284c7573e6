SPECIFICATION Spec
CONSTANTS
  Link = {l1, l2}
  Uid = {u1, u2}
  MaxRuns = 2
  MaxBuilds = 1
SYMMETRY Symmetry
CONSTRAINT SecondRunAlone
INVARIANTS TypeOK HalvesMatch GivesUpLate HollowExplained BuildComplete
