-------------------------- MODULE MCAgentRuntime ---------------------------
(***************************************************************************)
(* A primary agent that a timer runs in a session of its own, and a graph  *)
(* loaded beside it whose timer and event handler share one.               *)
(***************************************************************************)
EXTENDS AgentRuntime

Point(t, i) == [trigger |-> t, isolated |-> i]

AgentAndJudge ==
  [g \in {"agent", "judge"} |->
    IF g = "agent" THEN [poll |-> Point("timer", TRUE)]
    ELSE [sweep |-> Point("timer", FALSE), watch |-> Point("event", FALSE)]]
=============================================================================
