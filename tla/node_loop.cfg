SPECIFICATION Spec
CONSTANTS
  Specs <- AllSpecs
  Responses <- AllResponses
  OutputKeys = {"x", "y"}
  MaxIterations = 3
  JudgeEvery = 2
  StallThreshold = 2
  DoomThreshold = 2
  GraceTurns = 1
  MaxStreamRetries = 1
  Disturbances = {"shutdown", "turn", "execution", "pause"}
  HardLimit = 2
  MaxMessages = 2
  MaxVisits = 1
CHECK_DEADLOCK FALSE
INVARIANT TypeOK
INVARIANT AcceptedIsComplete
INVARIANT QuestionAnswered
INVARIANT ToolsBounded
INVARIANT ForeverAlive
PROPERTY MailboxImplemented
