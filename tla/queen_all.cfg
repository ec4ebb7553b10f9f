SPECIFICATION Spec
CONSTANTS
  MaxLoads = 2
  MaxRuns = 1
  MaxQueens = 2
  MaxCalls = 2
CHECK_DEADLOCK FALSE
VIEW View
INVARIANT TypeOK
INVARIANT RunningHasRun
INVARIANT Owned
PROPERTY LoadNeverOverwrites
