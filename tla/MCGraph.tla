------------------------------ MODULE MCGraph ------------------------------
(***************************************************************************)
(* Graphs for TLC.  Nodes are strings; an edge has priority 0 unless it is *)
(* an urgent one.                                                          *)
(***************************************************************************)
EXTENDS GraphExecutor, TLC

Edge(s, c, t)   == [source |-> s, target |-> t, condition |-> c, priority |-> 0]
Urgent(s, c, t) == [source |-> s, target |-> t, condition |-> c, priority |-> 1]

Limits(S, default, special) == [n \in S |-> IF n \in DOMAIN special THEN special[n] ELSE default]

\* A fan-out that meets in d, feedback to one branch or to the start, and a
\* failure handler that leads back to the start or, as a router, straight to d.
FullNodes == {"a", "b", "c", "d", "h"}
FullEdges ==
  << Edge("a", "on_success", "b"),
     Edge("a", "on_success", "c"),
     Edge("a", "on_failure", "h"),
     Edge("b", "on_success", "d"),
     Edge("c", "always", "d"),
     Edge("d", "llm_decide", "b"),
     Urgent("d", "conditional", "a"),
     Edge("h", "always", "a") >>
FullVisits  == Limits(FullNodes, 1, [a |-> 2, d |-> 2])
FullRetries == Limits(FullNodes, 2, [h |-> 0])
FullRouters == Limits(FullNodes, {}, [h |-> {"d"}])

\* Two nodes in a loop: a may repeat itself before or besides going on to b, where
\* the run pauses, and whose failure leads back to a.
PairNodes == {"a", "b"}
PairEdges ==
  << Edge("a", "on_success", "b"),
     Urgent("a", "conditional", "a"),
     Edge("b", "on_failure", "a") >>
PairVisits  == Limits(PairNodes, 2, [b |-> 1])
PairRetries == Limits(PairNodes, 2, [b |-> 1])
PairRouters == Limits(PairNodes, {}, <<>>)
=============================================================================
