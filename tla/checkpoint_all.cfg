SPECIFICATION Spec
CONSTANTS
  Calls = {c1, c2, c3}
  Ids = {k1, k2}
  MaxRuns = 2
  Index = Index
CHECK_DEADLOCK FALSE
SYMMETRY Symmetry
INVARIANT TypeOK
INVARIANT Restorable
PROPERTY IndexFollows
