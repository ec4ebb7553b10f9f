SPECIFICATION FairSpec
CONSTANTS
  Nodes <- FullNodes
  EntryNode = "a"
  TerminalNodes = {}
  PauseNodes = {"b"}
  EventLoopNodes = {"d"}
  RouterTargets <- FullRouters
  Edges <- FullEdges
  MaxSteps = 6
  MaxVisits <- FullVisits
  MaxRetries <- FullRetries
  Parallel = TRUE
  FailAll = TRUE
  Continuous = TRUE
  CheckpointStore = TRUE
  CheckpointStart = FALSE
  CheckpointComplete = TRUE
  CanPause = TRUE
  CancelAt = {"pausing", "skipping", "node", "backoff", "failing", "routing", "branches", "handover", "closing"}
  MaxWork = 12
  NoNode = NoNode
CHECK_DEADLOCK FALSE
INVARIANT TypeOK
INVARIANT WorkBounded
INVARIANT VisitsWithinLimit
PROPERTY RunEnds
