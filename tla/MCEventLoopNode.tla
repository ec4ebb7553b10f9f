-------------------------- MODULE MCEventLoopNode --------------------------
(***************************************************************************)
(* Kinds of nodes and answers of the LLM for TLC.                          *)
(***************************************************************************)
EXTENDS EventLoopNode

Call(t, a) == [tool |-> t, arg |-> a]
Answer(t, cs) == [text |-> t, calls |-> cs]

Declared(cf, st, j, out, nul) ==
  [clientFacing |-> cf, eventTriggered |-> FALSE, subagent |-> FALSE, bus |-> TRUE,
   stream |-> st, judge |-> j, outputs |-> out, nullable |-> nul]

Worker    == Declared(TRUE, "worker", "implicit", {"x"}, {})
Collector == Declared(FALSE, "worker", "criteria", {"x", "y"}, {"x", "y"})
Judged    == Declared(FALSE, "worker", "custom", {"x", "y"}, {"y"})
Queen     == Declared(TRUE, "queen", "skip", {}, {})
Guide     == Declared(TRUE, "queen", "implicit", {"x"}, {})
Companion == Declared(TRUE, "worker", "implicit", {}, {})
Embedded  == [Companion EXCEPT !.bus = FALSE]
Triggered == [Worker EXCEPT !.eventTriggered = TRUE]
SubAgent  == [Declared(FALSE, "worker", "subagent", {"x"}, {}) EXCEPT !.subagent = TRUE, !.bus = FALSE]

AllSpecs  == {Worker, Collector, Judged, Queen, Guide, Companion, Embedded, Triggered, SubAgent}
LiveSpecs == {Worker, Guide}

Talk    == Answer("a", <<>>)
Silence == Answer("", <<>>)
Set     == Answer("", <<Call("set_output", "x")>>)
Ask     == Answer("b", <<Call("ask_user", "options")>>)
AskBare == Answer("", <<Call("ask_user", "none")>>)
Work    == Answer("", <<Call("real", "t")>>)
Much    == Answer("", <<Call("real", "t"), Call("delegate", "s"), Call("real", "t")>>)
Help    == Answer("", <<Call("real", "t"), Call("escalate", "")>>)
Both    == Answer("", <<Call("ask_user", "options"), Call("escalate", "")>>)
Report  == Answer("", <<Call("report", "complete")>>)

\* The tools a node is offered, as far as they make a difference for it.
AllResponses == [s \in AllSpecs |->
  CASE s = Worker    -> {Talk, Silence, Set, Ask, AskBare, Much, Both}
    [] s = Collector -> {Talk, Set, Work, Help}
    [] s = Judged    -> {Talk, Silence, Set, Help}
    [] s = Queen     -> {Talk, Silence, Ask, Work, Much}
    [] s = Guide     -> {Talk, Set, Ask, Silence}
    [] s = Companion -> {Talk, Silence, Much, Ask}
    [] s = Embedded  -> {Talk, Much, Ask}
    [] s = Triggered -> {Talk, Set, Ask}
    [] s = SubAgent  -> {Talk, Set, Help, Report}]

LiveResponses == [s \in LiveSpecs |-> IF s = Worker THEN {Talk, AskBare, Ask, Help} ELSE {Talk, Silence, Set, Ask}]
=============================================================================
