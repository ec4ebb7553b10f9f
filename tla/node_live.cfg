SPECIFICATION FairSpec
CONSTANTS
  Specs <- LiveSpecs
  Responses <- LiveResponses
  OutputKeys = {"x"}
  MaxIterations = 2
  JudgeEvery = 1
  StallThreshold = 2
  DoomThreshold = 2
  GraceTurns = 1
  MaxStreamRetries = 1
  Disturbances = {"shutdown", "turn"}
  HardLimit = 2
  MaxMessages = 1
  MaxVisits = 2
CHECK_DEADLOCK FALSE
PROPERTY MessagesRead
PROPERTY TurnEnds
PROPERTY ShutdownReleases
