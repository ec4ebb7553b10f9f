SPECIFICATION Spec
CONSTANTS
  Tasks = {t1, t2, t3}
  Sessions = {s1, s2}
  Clients = {c1, c2}
  Starters = {c1, c2}
  Cancellers = {c2}
  Waiters = {}
  Stoppers = {c2}
  MaxConcurrent = 1
  MaxResurrections = 1
  RetentionMax = 1
  NoTask = NoTask
  NoSession = NoSession
CHECK_DEADLOCK FALSE
SYMMETRY MCSymmetry
INVARIANT TypeOK
INVARIANT SlotsConserved
INVARIANT CompletedIsFirst
PROPERTY CancelledNotResurrected
INVARIANT EndsCleanly
INVARIANT ExclusiveAndTracked
