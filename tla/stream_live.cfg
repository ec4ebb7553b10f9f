SPECIFICATION CallerSpec
CONSTANTS
  Tasks = {t1, t2}
  Sessions = {s1}
  Clients = {c1, c2}
  Starters = {c1}
  Cancellers = {}
  Waiters = {c2}
  Stoppers = {c2}
  MaxConcurrent = 1
  MaxResurrections = 0
  RetentionMax = 1
  NoTask = NoTask
  NoSession = NoSession
CHECK_DEADLOCK FALSE
PROPERTY CallsReturn
PROPERTY ExecutionsEnd
