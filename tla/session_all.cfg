SPECIFICATION SessionSpec
CONSTANTS
  Nodes <- PairNodes
  EntryNode = "a"
  TerminalNodes = {}
  PauseNodes = {"b"}
  EventLoopNodes = {}
  RouterTargets <- PairRouters
  Edges <- PairEdges
  MaxSteps = 3
  MaxVisits <- PairVisits
  MaxRetries <- PairRetries
  Parallel = TRUE
  FailAll = TRUE
  Continuous = TRUE
  CheckpointStore = TRUE
  CheckpointStart = FALSE
  CheckpointComplete = FALSE
  CanPause = TRUE
  CancelAt = {"pausing", "skipping", "node", "backoff", "failing", "routing",
              "branches", "handover", "closing"}
  MaxWork = 1
  NoNode = NoNode
  MaxResurrections = 1
  MaxRuns = 3
  CanCrash = TRUE
  CanRestore = TRUE
CHECK_DEADLOCK FALSE
INVARIANT ResumedAsLeft
INVARIANT SessionWithinLimit
