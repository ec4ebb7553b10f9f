SPECIFICATION Spec
CONSTANTS
  OutputKeys = {"x"}
  Keeps = {1, 2}
  MaxCalls = 2
  MaxMessages = 4
  MaxCompacts = 1
  MaxStops = 2
  MaxNodes = 2
  NoCall = NoCall
CHECK_DEADLOCK FALSE
INVARIANT OutputsSurvive
