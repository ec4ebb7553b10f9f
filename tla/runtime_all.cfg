SPECIFICATION Spec
CONSTANTS
  Primary = "agent"
  Secondaries = {"judge"}
  Points <- AgentAndJudge
  MaxCalls = 2
  MaxLoads = 2
  MaxSessions = 2
  MaxLive = 2
  MaxEvents = 1
CHECK_DEADLOCK FALSE
INVARIANT TypeOK
INVARIANT Owned
INVARIANT SessionsApart
