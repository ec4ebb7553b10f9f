------------------------- MODULE AgentRuntimeProofs -------------------------
(***************************************************************************)
(* Proofs about AgentRuntime: types; what runs, listens or ticks although  *)
(* no later call can reach it; and the sessions of isolated entry points   *)
(* stay apart.                                                             *)
(***************************************************************************)
EXTENDS AgentRuntime, TLAPS

----------------------------------------------------------------------------
(* Streams, calls and their types.                                         *)

LEMMA StreamFields ==
  \A s \in Streams : s.graph \in GraphIds /\ s.load \in Loads
                     /\ s = [graph |-> s.graph, load |-> s.load, ep |-> s.ep]
BY DEF Streams

LEMMA MembersOf ==
  ASSUME NEW g, NEW l
  PROVE  StreamsOf(g, l) \subseteq Streams
         /\ \A s \in Streams : s \in StreamsOf(g, l) <=> s.graph = g /\ s.load = l
BY DEF StreamsOf

LEMMA GraphConstants ==
  Primary \in GraphIds /\ Primary \notin Secondaries /\ Secondaries \subseteq GraphIds /\ MaxLoads \in Nat
BY RuntimeAssumption DEF GraphIds

GraphTypes ==
  /\ running \in BOOLEAN /\ active \in GraphIds
  /\ graphs \in [GraphIds -> 0..MaxLoads]
  /\ own \subseteq {s \in Streams : s.graph = Primary}
  /\ up \subseteq Streams /\ subs \subseteq Streams /\ timers \subseteq Streams
  /\ \A c \in calls : c \in Call
  /\ loads \in 0..MaxLoads

Starting(c) == c.op \in {"start", "add"}

\* What a call of start() or add_graph() has to do with is new.
CallInv ==
  \A c \in calls :
    /\ Starting(c) => c.todo \cup c.cur \subseteq StreamsOf(c.graph, c.load)
    /\ Starting(c) => c.load \in Loads
    /\ c.op = "start" => c.graph = Primary
    /\ c.op = "add" => c.graph \in Secondaries
    /\ c.at = "lock" => c.op \in {"start", "stop"}

\* The runtime's lock is held by one call at most.
Holds(c) == c.op \in {"start", "stop"} /\ c.at # "lock"

LockInv ==
  /\ locked = \E c \in calls : Holds(c)
  /\ \A c, d \in calls : Holds(c) /\ Holds(d) => c = d

GraphInv == GraphTypes /\ CallInv /\ LockInv

\* Steps that are not those of start, add, remove and stop, or of their callers.
Elsewhere ==
  \/ \E ep \in EntryPoints : Trigger(ep) \/ (\E g \in Secondaries : StartAgent(g, ep))
  \/ \E s \in Streams : Handle(s) \/ Tick(s)
  \/ Publish \/ Resume \/ End

LEMMA ElsewhereQuiet == ASSUME Elsewhere PROVE UNCHANGED graphVars
BY DEF Elsewhere, Trigger, StartAgent, Handle, Tick, Publish, Resume, End, graphVars

\* A call that goes on: it is the same call, somewhere else.
Becomes(c, d) ==
  /\ c \in calls /\ calls' = (calls \ {c}) \cup {d}
  /\ d \in Call /\ d.op = c.op
  /\ d.at \in {c.at, "streams", "primary", "storage"}

\* What is new in a call is typed and of the call's own graph.
LEMMA BecomesTyped ==
  ASSUME CallInv, \A c \in calls : c \in Call, NEW c, NEW d, Becomes(c, d),
         Starting(c) => d.graph = c.graph /\ d.load = c.load /\ d.todo \cup d.cur \subseteq c.todo \cup c.cur
  PROVE  CallInv' /\ \A e \in calls' : e \in Call
<1>1. ASSUME NEW e \in calls'
      PROVE  e \in calls \/ e = d
  BY DEF Becomes
<1>2. (\A e \in calls' : e \in Call)
  BY <1>1 DEF Becomes
<1>3. /\ Starting(d) => d.todo \cup d.cur \subseteq StreamsOf(d.graph, d.load) /\ d.load \in Loads
      /\ d.op = "start" => d.graph = Primary
      /\ d.op = "add" => d.graph \in Secondaries
      /\ d.at = "lock" => d.op \in {"start", "stop"}
  BY DEF Becomes, CallInv, Starting
<1>. QED
  BY <1>1, <1>2, <1>3 DEF CallInv

LEMMA BecomesLocked ==
  ASSUME LockInv, NEW c, NEW d, Becomes(c, d), Holds(d) = Holds(c), locked' = locked
  PROVE  LockInv'
BY DEF Becomes, LockInv, Holds

\* A call that ends, and leaves the lock if it has it.
LEMMA EndsTyped ==
  ASSUME CallInv, \A e \in calls : e \in Call, NEW c \in calls, calls' = calls \ {c}
  PROVE  CallInv' /\ \A e \in calls' : e \in Call
BY DEF CallInv

LEMMA EndsLocked ==
  ASSUME LockInv, NEW c \in calls, calls' = calls \ {c},
         locked' = (locked /\ ~Holds(c))
  PROVE  LockInv'
BY DEF LockInv

\* A call that begins.
LEMMA BeginsTyped ==
  ASSUME CallInv, \A e \in calls : e \in Call, NEW d \in Call, calls' = calls \cup {d},
         Starting(d) => d.todo \cup d.cur \subseteq StreamsOf(d.graph, d.load) /\ d.load \in Loads,
         d.op = "start" => d.graph = Primary, d.op = "add" => d.graph \in Secondaries,
         d.at = "lock" => d.op \in {"start", "stop"}
  PROVE  CallInv' /\ \A e \in calls' : e \in Call
<1>1. ASSUME NEW e \in calls'
      PROVE  e \in calls \/ e = d
  OBVIOUS
<1>. QED
  BY <1>1 DEF CallInv

LEMMA BeginsLocked ==
  ASSUME LockInv, NEW d, calls' = calls \cup {d}, ~Holds(d), locked' = locked
  PROVE  LockInv'
BY DEF LockInv, Holds

\* A call that has begun.
LEMMA NewCallFields ==
  ASSUME NEW op, NEW g, NEW l, NEW at, NEW todo, NEW gids
  PROVE  LET d == NewCall(op, g, l, at, todo, gids)
         IN  /\ d.op = op /\ d.graph = g /\ d.load = l /\ d.at = at
             /\ d.todo = todo /\ d.cur = {} /\ d.gids = gids
             /\ op \in {"start", "add", "remove", "stop"} /\ g \in GraphIds /\ l \in 0..MaxLoads
                /\ at \in {"lock", "streams", "primary"} /\ todo \subseteq Streams /\ gids \subseteq Secondaries
                => d \in Call
BY DEF NewCall, Call

LEMMA CallStartTypes == ASSUME GraphInv, CallStart PROVE GraphInv'
<1>. DEFINE d == NewCall("start", Primary, loads + 1, "lock", StreamsOf(Primary, loads + 1), {})
<1>1. calls' = calls \cup {d} /\ locked' = locked /\ loads' \in 0..MaxLoads
      /\ UNCHANGED <<running, active, graphs, own, up, subs, timers>>
      /\ loads + 1 \in 0..MaxLoads /\ loads + 1 \in Loads
  BY GraphConstants DEF CallStart, GraphInv, GraphTypes, Loads
<1>2. /\ d \in Call /\ d.op = "start" /\ d.graph = Primary /\ d.at = "lock"
      /\ d.todo \cup d.cur = StreamsOf(d.graph, d.load) /\ d.load \in Loads
  BY <1>1, NewCallFields, MembersOf, GraphConstants
<1>. HIDE DEF d
<1>3. CallInv' /\ \A e \in calls' : e \in Call
  BY <1>1, <1>2, BeginsTyped DEF GraphInv, GraphTypes
<1>4. LockInv'
  BY <1>1, <1>2, BeginsLocked DEF GraphInv, Holds
<1>. QED
  BY <1>1, <1>3, <1>4 DEF GraphInv, GraphTypes

LEMMA CallAddTypes == ASSUME GraphInv, NEW g \in Secondaries, CallAdd(g) PROVE GraphInv'
<1>. DEFINE d == NewCall("add", g, loads + 1, "streams", StreamsOf(g, loads + 1), {})
<1>1. calls' = calls \cup {d} /\ locked' = locked /\ loads' \in 0..MaxLoads
      /\ UNCHANGED <<running, active, graphs, own, up, subs, timers>>
      /\ loads + 1 \in 0..MaxLoads /\ loads + 1 \in Loads
  BY GraphConstants DEF CallAdd, GraphInv, GraphTypes, Loads
<1>2. /\ d \in Call /\ d.op = "add" /\ d.graph = g /\ d.at = "streams"
      /\ d.todo \cup d.cur = StreamsOf(d.graph, d.load) /\ d.load \in Loads
  BY <1>1, NewCallFields, MembersOf, GraphConstants
<1>. HIDE DEF d
<1>3. CallInv' /\ \A e \in calls' : e \in Call
  BY <1>1, <1>2, BeginsTyped DEF GraphInv, GraphTypes
<1>4. LockInv'
  BY <1>1, <1>2, BeginsLocked DEF GraphInv, Holds
<1>. QED
  BY <1>1, <1>3, <1>4 DEF GraphInv, GraphTypes

LEMMA CallStopTypes == ASSUME GraphInv, CallStop PROVE GraphInv'
<1>. DEFINE d == NewCall("stop", Primary, 0, "lock", {}, {})
<1>1. calls' = calls \cup {d} /\ UNCHANGED <<running, active, graphs, own, locked, up, subs, timers, loads>>
  BY DEF CallStop
<1>2. d \in Call /\ d.op = "stop" /\ d.at = "lock"
  BY NewCallFields, GraphConstants
<1>. HIDE DEF d
<1>3. CallInv' /\ \A e \in calls' : e \in Call
  BY <1>1, <1>2, BeginsTyped DEF GraphInv, GraphTypes, Starting
<1>4. LockInv'
  BY <1>1, <1>2, BeginsLocked DEF GraphInv, Holds
<1>. QED
  BY <1>1, <1>3, <1>4 DEF GraphInv, GraphTypes

\* What Detach does to the graphs, the timers and the subscriptions.
LEMMA DetachFacts ==
  ASSUME GraphTypes, NEW g \in GraphIds, Detach(g)
  PROVE  /\ graphs' \in [GraphIds -> 0..MaxLoads] /\ graphs'[g] = 0
         /\ \A h \in GraphIds \ {g} : graphs'[h] = graphs[h]
         /\ timers' = timers \ StreamsOf(g, graphs[g]) /\ subs' = subs \ StreamsOf(g, graphs[g])
BY GraphConstants DEF Detach, CancelTimers, GraphTypes

LEMMA CallRemoveTypes == ASSUME GraphInv, NEW g \in Secondaries, CallRemove(g) PROVE GraphInv'
<1>. DEFINE d == NewCall("remove", g, graphs[g], "streams", StreamsOf(g, graphs[g]), {})
<1>0. g \in GraphIds /\ graphs[g] \in 0..MaxLoads
  BY GraphConstants DEF GraphInv, GraphTypes
<1>1. calls' = calls \cup {d} /\ UNCHANGED <<running, active, own, locked, up, loads>> /\ Detach(g)
  BY DEF CallRemove
<1>2. d \in Call /\ d.op = "remove" /\ d.at = "streams"
  BY <1>0, NewCallFields, MembersOf
<1>. HIDE DEF d
<1>3. CallInv' /\ \A e \in calls' : e \in Call
  BY <1>1, <1>2, BeginsTyped DEF GraphInv, GraphTypes, Starting
<1>4. LockInv'
  BY <1>1, <1>2, BeginsLocked DEF GraphInv, Holds
<1>. QED
  BY <1>0, <1>1, <1>3, <1>4, DetachFacts DEF GraphInv, GraphTypes

----------------------------------------------------------------------------
(* The steps of a call.                                                    *)

\* The fields of a call after a step.
LEMMA AcquireFacts ==
  ASSUME GraphInv, NEW c \in calls, Acquire(c)
  PROVE  \E d : /\ Becomes(c, d) /\ d.at = "streams" /\ d.graph = c.graph /\ d.load = c.load
                /\ d.todo = c.todo /\ d.cur = c.cur
                /\ d.gids = IF c.op = "stop" THEN {g \in Secondaries : graphs[g] # 0} ELSE {}
<1>. DEFINE d == [c EXCEPT !.at = "streams",
                           !.gids = IF c.op = "stop" THEN {g \in Secondaries : graphs[g] # 0} ELSE {}]
<1>1. c \in Call
  BY DEF GraphInv, GraphTypes
<1>2. /\ d \in Call /\ d.op = c.op /\ d.at = "streams" /\ d.graph = c.graph /\ d.load = c.load
      /\ d.todo = c.todo /\ d.cur = c.cur
      /\ d.gids = IF c.op = "stop" THEN {g \in Secondaries : graphs[g] # 0} ELSE {}
  BY <1>1 DEF Call
<1>3. calls' = (calls \ {c}) \cup {d}
  BY DEF Acquire, Replace
<1>. HIDE DEF d
<1>. QED
  BY <1>2, <1>3 DEF Becomes

\* A stream is taken in hand, or no longer.
LEMMA HandEmptied ==
  ASSUME GraphInv, NEW c \in calls, Replace(c, [c EXCEPT !.cur = {}])
  PROVE  \E d : /\ Becomes(c, d) /\ d.at = c.at /\ d.graph = c.graph /\ d.load = c.load
                /\ d.todo = c.todo /\ d.cur = {} /\ d.gids = c.gids
<1>. DEFINE d == [c EXCEPT !.cur = {}]
<1>1. c \in Call
  BY DEF GraphInv, GraphTypes
<1>2. /\ d \in Call /\ d.op = c.op /\ d.at = c.at /\ d.graph = c.graph /\ d.load = c.load
      /\ d.todo = c.todo /\ d.cur = {} /\ d.gids = c.gids
  BY <1>1 DEF Call
<1>3. calls' = (calls \ {c}) \cup {d}
  BY DEF Replace
<1>. HIDE DEF d
<1>. QED
  BY <1>2, <1>3 DEF Becomes

LEMMA StopNextFacts ==
  ASSUME GraphInv, NEW c \in calls, NEW g \in c.gids, StopNext(c, g)
  PROVE  /\ g \in Secondaries /\ g \in GraphIds
         /\ \E d : /\ Becomes(c, d) /\ d.at = "streams"
                   /\ d.todo = StreamsOf(g, graphs[g]) /\ d.cur = {} /\ d.gids = c.gids \ {g}
<1>. DEFINE d == [c EXCEPT !.graph = IF graphs[g] = 0 THEN Primary ELSE g, !.gids = c.gids \ {g},
                           !.todo = StreamsOf(g, graphs[g])]
<1>1. c \in Call /\ c.op = "stop" /\ c.at = "streams" /\ c.cur = {}
  BY DEF GraphInv, GraphTypes, StopNext
<1>2. g \in Secondaries /\ g \in GraphIds
  BY <1>1, GraphConstants DEF Call
<1>3. /\ d \in Call /\ d.op = c.op /\ d.at = "streams"
      /\ d.todo = StreamsOf(g, graphs[g]) /\ d.cur = {} /\ d.gids = c.gids \ {g}
  BY <1>1, <1>2, MembersOf, GraphConstants DEF Call
<1>4. calls' = (calls \ {c}) \cup {d}
  BY DEF StopNext, Replace
<1>. HIDE DEF d
<1>. QED
  BY <1>2, <1>3, <1>4 DEF Becomes

LEMMA StopPrimaryFacts ==
  ASSUME GraphInv, NEW c \in calls, StopPrimary(c)
  PROVE  \E d : /\ Becomes(c, d) /\ d.at = "primary" /\ d.graph = Primary
                /\ d.todo = own /\ d.cur = {} /\ d.gids = {}
<1>. DEFINE d == [c EXCEPT !.at = "primary", !.graph = Primary, !.todo = own]
<1>1. c \in Call /\ c.op = "stop" /\ c.cur = {} /\ c.gids = {}
  BY DEF GraphInv, GraphTypes, StopPrimary
<1>2. own \subseteq Streams
  BY DEF GraphInv, GraphTypes
<1>3. /\ d \in Call /\ d.op = c.op /\ d.at = "primary" /\ d.graph = Primary
      /\ d.todo = own /\ d.cur = {} /\ d.gids = {}
  BY <1>1, <1>2, GraphConstants DEF Call
<1>4. calls' = (calls \ {c}) \cup {d}
  BY DEF StopPrimary, Replace
<1>. HIDE DEF d
<1>. QED
  BY <1>3, <1>4 DEF Becomes

\* The steps between which a start or an add has a stream in hand, or a remove or stop.
LEMMA StartStreamFacts ==
  ASSUME GraphInv, NEW c \in calls, NEW s \in c.todo, StartStream(c, s)
  PROVE  /\ Starting(c) /\ s \in Streams /\ up' \in {up, up \cup {s}}
         /\ UNCHANGED <<running, active, graphs, own, locked, subs, timers, loads>>
         /\ \E d : /\ Becomes(c, d) /\ d.at = c.at /\ d.graph = c.graph /\ d.load = c.load
                   /\ d.todo = c.todo \ {s} /\ d.cur = {s} /\ d.gids = c.gids
<1>. DEFINE d == [c EXCEPT !.todo = c.todo \ {s}, !.cur = {s}]
<1>1. c \in Call
  BY DEF GraphInv, GraphTypes
<1>2. /\ s \in Streams /\ d \in Call /\ d.op = c.op /\ d.at = c.at /\ d.graph = c.graph
      /\ d.load = c.load /\ d.todo = c.todo \ {s} /\ d.cur = {s} /\ d.gids = c.gids
  BY <1>1 DEF Call
<1>3. /\ calls' = (calls \ {c}) \cup {d} /\ Starting(c) /\ up' \in {up, up \cup {s}}
      /\ UNCHANGED <<running, active, graphs, own, locked, subs, timers, loads>>
  BY DEF StartStream, Starting, Replace
<1>. HIDE DEF d
<1>. QED
  BY <1>2, <1>3 DEF Becomes

LEMMA StopStreamFacts ==
  ASSUME GraphInv, NEW c \in calls, NEW s \in c.todo, StopStream(c, s)
  PROVE  /\ c.op \in {"remove", "stop"} /\ s \in Streams /\ up' = up \ {s}
         /\ UNCHANGED <<running, active, graphs, own, locked, subs, timers, loads>>
         /\ \E d : /\ Becomes(c, d) /\ d.at = c.at /\ d.graph = c.graph /\ d.load = c.load
                   /\ d.todo = c.todo \ {s} /\ d.cur \subseteq {s} /\ d.gids = c.gids
<1>. DEFINE hand == {t \in {s} : s \in up}
            d == [c EXCEPT !.todo = c.todo \ {s}, !.cur = hand]
<1>1. c \in Call
  BY DEF GraphInv, GraphTypes
<1>2. s \in Streams /\ hand \subseteq {s} /\ hand \subseteq Streams
  BY <1>1 DEF Call
<1>3. /\ calls' = (calls \ {c}) \cup {d} /\ c.op \in {"remove", "stop"} /\ up' = up \ {s}
      /\ UNCHANGED <<running, active, graphs, own, locked, subs, timers, loads>>
  BY DEF StopStream, Replace
<1>. HIDE DEF hand
<1>4. /\ d \in Call /\ d.op = c.op /\ d.at = c.at /\ d.graph = c.graph
      /\ d.load = c.load /\ d.todo = c.todo \ {s} /\ d.cur = hand /\ d.gids = c.gids
  BY <1>1, <1>2 DEF Call
<1>. HIDE DEF d
<1>. QED
  BY <1>2, <1>3, <1>4 DEF Becomes

LEMMA StreamStartedFacts ==
  ASSUME GraphInv, NEW c \in calls, StreamStarted(c)
  PROVE  /\ Starting(c) /\ UNCHANGED <<running, active, graphs, locked, up, subs, timers, loads>>
         /\ own' = IF c.op = "start" THEN {s \in own : \A t \in c.cur : s.ep # t.ep} \cup c.cur ELSE own
         /\ \E d : /\ Becomes(c, d) /\ d.at = c.at /\ d.graph = c.graph /\ d.load = c.load
                   /\ d.todo = c.todo /\ d.cur = {} /\ d.gids = c.gids
<1>1. Replace(c, [c EXCEPT !.cur = {}]) /\ Starting(c)
      /\ own' = (IF c.op = "start" THEN {s \in own : \A t \in c.cur : s.ep # t.ep} \cup c.cur ELSE own)
      /\ UNCHANGED <<running, active, graphs, locked, up, subs, timers, loads>>
  BY DEF StreamStarted, Starting
<1>. QED
  BY <1>1, HandEmptied

LEMMA StreamStoppedFacts ==
  ASSUME GraphInv, NEW c \in calls, StreamStopped(c)
  PROVE  /\ c.op \in {"remove", "stop"}
         /\ UNCHANGED <<running, active, graphs, own, locked, up, subs, timers, loads>>
         /\ \E d : /\ Becomes(c, d) /\ d.at = c.at /\ d.graph = c.graph /\ d.load = c.load
                   /\ d.todo = c.todo /\ d.cur = {} /\ d.gids = c.gids
<1>1. Replace(c, [c EXCEPT !.cur = {}]) /\ c.op \in {"remove", "stop"}
      /\ UNCHANGED <<running, active, graphs, own, locked, up, subs, timers, loads>>
  BY DEF StreamStopped
<1>. QED
  BY <1>1, HandEmptied

LEMMA ForgetFacts ==
  ASSUME GraphInv, NEW c \in calls, Forget(c)
  PROVE  \E d : Becomes(c, d) /\ d.at = "storage" /\ d.todo = {} /\ d.cur = {}
<1>. DEFINE d == [c EXCEPT !.at = "storage"]
<1>1. c \in Call /\ c.todo = {} /\ c.cur = {}
  BY DEF GraphInv, GraphTypes, Forget
<1>2. d \in Call /\ d.op = c.op /\ d.at = "storage" /\ d.todo = {} /\ d.cur = {}
  BY <1>1 DEF Call
<1>3. calls' = (calls \ {c}) \cup {d}
  BY DEF Forget, Replace
<1>. HIDE DEF d
<1>. QED
  BY <1>2, <1>3 DEF Becomes

\* A call that is broken off leaves what it has done.
LEMMA BreaksOffFacts ==
  ASSUME NEW c \in calls, BreaksOff(c)
  PROVE  /\ calls' = calls \ {c} /\ locked' = (locked /\ ~Holds(c))
         /\ UNCHANGED <<running, active, graphs, own, up, loads, displaced, execVars>>
         /\ Starting(c) => unfinished' = unfinished \cup {c.load} /\ halfway' = halfway
         /\ ~Starting(c) => /\ unfinished' = unfinished
                            /\ halfway' = halfway \cup {s.load : s \in {t \in c.todo \cup c.cur : t.graph # Primary}}
                            /\ subs' = subs /\ timers' = timers
         /\ subs' \subseteq subs \cup {s \in StreamsOf(c.graph, c.load) : Trig(s) = "event"}
         /\ timers' \subseteq timers \cup {s \in StreamsOf(c.graph, c.load) : Trig(s) = "timer"}
<1>1. /\ calls' = calls \ {c} /\ locked' = (locked /\ ~Holds(c))
      /\ UNCHANGED <<running, active, graphs, own, up, loads, displaced, execVars>>
  BY DEF BreaksOff, Holds
<1>2. CASE Starting(c)
  <2>1. unfinished' = unfinished \cup {c.load} /\ halfway' = halfway
    BY <1>2 DEF BreaksOff, Starting
  <2>2. CASE UNCHANGED <<subs, timers>>
    BY <1>1, <1>2, <2>1, <2>2
  <2>3. CASE ~UNCHANGED <<subs, timers>>
    <3>1. PICK l \in SUBSET {s \in StreamsOf(c.graph, c.load) : Trig(s) = "event"},
               k \in SUBSET {s \in StreamsOf(c.graph, c.load) : Trig(s) = "timer" /\ (c.op = "start" \/ running)} :
            subs' = subs \cup l /\ timers' = timers \cup k
      BY <2>3 DEF BreaksOff
    <3>. QED
      BY <1>1, <1>2, <2>1, <3>1
  <2>. QED
    BY <2>2, <2>3
<1>3. CASE ~Starting(c)
  BY <1>1, <1>3 DEF BreaksOff, Starting
<1>. QED
  BY <1>2, <1>3

LEMMA FirstOf == ASSUME NEW S, S # {} PROVE First(S) \in S
BY DEF First

\* A call that goes on with the graph it is at leaves the types and the lock as they are.
LEMMA GoesOn ==
  ASSUME GraphInv, NEW c, NEW d, Becomes(c, d), d.at = c.at, locked' = locked,
         Starting(c) => d.graph = c.graph /\ d.load = c.load /\ d.todo \cup d.cur \subseteq c.todo \cup c.cur
  PROVE  CallInv' /\ LockInv' /\ \A e \in calls' : e \in Call
<1>1. Holds(d) = Holds(c)
  BY DEF Becomes, Holds
<1>. QED
  BY <1>1, BecomesTyped, BecomesLocked DEF GraphInv, GraphTypes

LEMMA ResetType == ASSUME GraphTypes, NEW g, ResetFocus(g) \/ UNCHANGED active PROVE active' \in GraphIds
BY GraphConstants DEF ResetFocus, GraphTypes

LEMMA CallStepTypes == ASSUME GraphInv, NEW c \in calls, CallStep(c) PROVE GraphInv'
<1>1. CASE Acquire(c)
  <2>1. PICK d : Becomes(c, d) /\ d.at = "streams" /\ d.graph = c.graph /\ d.load = c.load
                 /\ d.todo = c.todo /\ d.cur = c.cur
    BY <1>1, AcquireFacts
  <2>2. ~locked /\ locked' = TRUE /\ c.at = "lock"
        /\ UNCHANGED <<running, active, graphs, own, up, subs, timers, loads>>
    BY <1>1 DEF Acquire
  <2>3. CallInv' /\ \A e \in calls' : e \in Call
    BY <2>1, BecomesTyped DEF GraphInv, GraphTypes
  <2>4. LockInv'
    <3>1. c.op \in {"start", "stop"}
      BY <2>2 DEF GraphInv, CallInv
    <3>2. Holds(d) /\ \A e \in calls : ~Holds(e)
      BY <2>1, <2>2, <3>1 DEF GraphInv, LockInv, Holds, Becomes
    <3>. QED
      BY <2>1, <2>2, <3>2 DEF LockInv, Holds, Becomes
  <2>. QED
    BY <2>2, <2>3, <2>4 DEF GraphInv, GraphTypes
<1>2. CASE StreamStarted(c)
  <2>1. PICK d : Becomes(c, d) /\ d.at = c.at /\ d.graph = c.graph /\ d.load = c.load
                 /\ d.todo = c.todo /\ d.cur = {}
    BY <1>2, StreamStartedFacts
  <2>2. UNCHANGED <<running, active, graphs, locked, up, subs, timers, loads>>
        /\ own' = IF c.op = "start" THEN {s \in own : \A t \in c.cur : s.ep # t.ep} \cup c.cur ELSE own
    BY <1>2, StreamStartedFacts
  <2>3. c.op = "start" => c.cur \subseteq {s \in Streams : s.graph = Primary}
    BY MembersOf DEF GraphInv, CallInv, Starting
  <2>4. own' \subseteq {s \in Streams : s.graph = Primary}
    BY <2>2, <2>3 DEF GraphInv, GraphTypes
  <2>. QED
    BY <2>1, <2>2, <2>4, GoesOn DEF GraphInv, GraphTypes
<1>3. CASE Register(c)
  <2>1. /\ Starting(c) /\ c.at = "streams" /\ calls' = calls \ {c} /\ UNCHANGED <<active, own, up, loads>>
        /\ subs' \subseteq subs \cup StreamsOf(c.graph, c.load)
        /\ timers' \subseteq timers \cup StreamsOf(c.graph, c.load)
        /\ graphs' = [graphs EXCEPT ![c.graph] = c.load] /\ running' \in BOOLEAN
        /\ locked' = (locked /\ c.op # "start")
    BY <1>3 DEF Register, LeaveLock, Starting
  <2>2. c \in Call /\ c.load \in 0..MaxLoads
    BY DEF GraphInv, GraphTypes, Call
  <2>3. locked' = (locked /\ ~Holds(c))
    BY <2>1 DEF Holds, Starting
  <2>4. LockInv'
    BY <2>1, <2>3, EndsLocked DEF GraphInv
  <2>5. CallInv' /\ \A e \in calls' : e \in Call
    BY <2>1, EndsTyped DEF GraphInv, GraphTypes
  <2>6. subs' \subseteq Streams /\ timers' \subseteq Streams
    BY <2>1, MembersOf DEF GraphInv, GraphTypes
  <2>7. graphs' \in [GraphIds -> 0..MaxLoads]
    BY <2>1, <2>2 DEF GraphInv, GraphTypes
  <2>. QED
    BY <2>1, <2>4, <2>5, <2>6, <2>7 DEF GraphInv, GraphTypes
<1>4. CASE StreamStopped(c)
  BY <1>4, StreamStoppedFacts, GoesOn DEF GraphInv, GraphTypes, Starting
<1>5. CASE TornDown(c)
  <2>1. /\ c.op = "remove" /\ calls' = calls \ {c} /\ ResetFocus(c.graph)
        /\ UNCHANGED <<running, graphs, own, locked, up, subs, timers, loads>>
    BY <1>5 DEF TornDown
  <2>2. active' \in GraphIds
    BY <2>1, ResetType DEF GraphInv
  <2>3. LockInv'
    BY <2>1 DEF GraphInv, LockInv, Holds
  <2>4. CallInv' /\ \A e \in calls' : e \in Call
    BY <2>1, EndsTyped DEF GraphInv, GraphTypes
  <2>. QED
    BY <2>1, <2>2, <2>3, <2>4 DEF GraphInv, GraphTypes
<1>6. CASE StopPrimary(c)
  <2>1. PICK d : Becomes(c, d) /\ d.at = "primary" /\ d.graph = Primary
    BY <1>6, StopPrimaryFacts
  <2>2. /\ c.op = "stop" /\ c.at = "streams" /\ (ResetFocus(c.graph) \/ UNCHANGED active)
        /\ timers' \subseteq timers /\ subs' \subseteq subs
        /\ UNCHANGED <<running, graphs, own, locked, up, loads>>
    BY <1>6 DEF StopPrimary, CancelTimers
  <2>3. active' \in GraphIds
    BY <2>2, ResetType DEF GraphInv
  <2>4. CallInv' /\ \A e \in calls' : e \in Call
    BY <1>6, <2>1, BecomesTyped DEF GraphInv, GraphTypes, Starting, StopPrimary
  <2>5. LockInv'
    BY <1>6, <2>1, <2>2, BecomesLocked DEF GraphInv, Holds, Becomes, StopPrimary
  <2>. QED
    BY <2>2, <2>3, <2>4, <2>5 DEF GraphInv, GraphTypes
<1>7. CASE Forget(c)
  <2>1. /\ c.op = "stop" /\ c.at = "primary" /\ own' = {} /\ graphs' = [g \in GraphIds |-> 0]
        /\ UNCHANGED <<running, active, locked, up, subs, timers, loads>>
    BY <1>7 DEF Forget
  <2>2. PICK d : Becomes(c, d) /\ d.at = "storage"
    BY <1>7, ForgetFacts
  <2>3. CallInv' /\ \A e \in calls' : e \in Call
    BY <2>1, <2>2, BecomesTyped DEF GraphInv, GraphTypes, Starting
  <2>4. LockInv'
    BY <2>1, <2>2, BecomesLocked DEF GraphInv, Holds, Becomes
  <2>5. graphs' \in [GraphIds -> 0..MaxLoads]
    BY <2>1, GraphConstants
  <2>. QED
    BY <2>1, <2>3, <2>4, <2>5 DEF GraphInv, GraphTypes
<1>11. CASE Stopped(c)
  <2>1. /\ c.op = "stop" /\ c.at = "storage" /\ calls' = calls \ {c} /\ running' = FALSE /\ locked' = FALSE
        /\ UNCHANGED <<active, graphs, own, up, subs, timers, loads>>
    BY <1>11 DEF Stopped
  <2>2. locked' = (locked /\ ~Holds(c))
    BY <2>1 DEF Holds
  <2>3. LockInv'
    BY <2>1, <2>2, EndsLocked DEF GraphInv
  <2>4. CallInv' /\ \A e \in calls' : e \in Call
    BY <2>1, EndsTyped DEF GraphInv, GraphTypes
  <2>. QED
    BY <2>1, <2>3, <2>4 DEF GraphInv, GraphTypes
<1>12. CASE BreaksOff(c)
  <2>1. /\ calls' = calls \ {c} /\ locked' = (locked /\ ~Holds(c))
        /\ UNCHANGED <<running, active, graphs, own, up, loads>>
        /\ subs' \subseteq subs \cup StreamsOf(c.graph, c.load)
        /\ timers' \subseteq timers \cup StreamsOf(c.graph, c.load)
    BY <1>12, BreaksOffFacts
  <2>2. LockInv'
    BY <2>1, EndsLocked DEF GraphInv
  <2>3. CallInv' /\ \A e \in calls' : e \in Call
    BY <2>1, EndsTyped DEF GraphInv, GraphTypes
  <2>4. subs' \subseteq Streams /\ timers' \subseteq Streams
    BY <2>1, MembersOf DEF GraphInv, GraphTypes
  <2>. QED
    BY <2>1, <2>2, <2>3, <2>4 DEF GraphInv, GraphTypes
<1>8. ASSUME NEW s \in c.todo, StartStream(c, s) PROVE GraphInv'
  <2>1. PICK d : Becomes(c, d) /\ d.at = c.at /\ d.graph = c.graph /\ d.load = c.load
                 /\ d.todo = c.todo \ {s} /\ d.cur = {s}
    BY <1>8, StartStreamFacts
  <2>2. /\ s \in Streams /\ up' \in {up, up \cup {s}}
        /\ UNCHANGED <<running, active, graphs, own, locked, subs, timers, loads>>
    BY <1>8, StartStreamFacts
  <2>. QED
    BY <2>1, <2>2, GoesOn DEF GraphInv, GraphTypes
<1>9. ASSUME NEW s \in c.todo, StopStream(c, s) PROVE GraphInv'
  <2>1. PICK d : Becomes(c, d) /\ d.at = c.at
    BY <1>9, StopStreamFacts
  <2>2. /\ c.op \in {"remove", "stop"} /\ up' = up \ {s}
        /\ UNCHANGED <<running, active, graphs, own, locked, subs, timers, loads>>
    BY <1>9, StopStreamFacts
  <2>. QED
    BY <2>1, <2>2, GoesOn DEF GraphInv, GraphTypes, Starting
<1>10. ASSUME NEW g \in c.gids, StopNext(c, g) PROVE GraphInv'
  <2>1. PICK d : Becomes(c, d) /\ d.at = "streams"
    BY <1>10, StopNextFacts
  <2>2. g \in GraphIds
    BY <1>10, StopNextFacts
  <2>3. /\ c.op = "stop" /\ c.at = "streams" /\ (ResetFocus(c.graph) \/ UNCHANGED active)
        /\ Detach(g) /\ UNCHANGED <<running, own, locked, up, loads>>
    BY <1>10 DEF StopNext
  <2>4. active' \in GraphIds
    BY <2>3, ResetType DEF GraphInv
  <2>5. CallInv' /\ LockInv' /\ \A e \in calls' : e \in Call
    BY <2>1, <2>3, GoesOn DEF GraphInv, Starting
  <2>6. graphs' \in [GraphIds -> 0..MaxLoads] /\ timers' \subseteq timers /\ subs' \subseteq subs
    BY <2>2, <2>3, DetachFacts DEF GraphInv
  <2>. QED
    BY <2>3, <2>4, <2>5, <2>6 DEF GraphInv, GraphTypes
<1>. QED
  BY <1>1, <1>2, <1>3, <1>4, <1>5, <1>6, <1>7, <1>8, <1>9, <1>10, <1>11, <1>12, FirstOf DEF CallStep

LEMMA StepGraph == ASSUME GraphInv, [Next]_vars PROVE GraphInv'
<1>1. ASSUME UNCHANGED graphVars PROVE GraphInv'
  BY <1>1 DEF graphVars, GraphInv, GraphTypes, CallInv, LockInv
<1>2. ASSUME NEW g \in GraphIds, SetActive(g) PROVE GraphInv'
  BY <1>2 DEF SetActive, GraphInv, GraphTypes, CallInv, LockInv
<1>3. UNCHANGED vars => UNCHANGED graphVars
  BY DEF vars
<1>4. ASSUME NEW s \in Streams, TimerEnds(s) PROVE GraphInv'
  BY <1>4 DEF TimerEnds, GraphInv, GraphTypes, CallInv, LockInv
<1>. QED
  BY <1>1, <1>2, <1>3, <1>4, ElsewhereQuiet, CallStartTypes, CallStopTypes, CallStepTypes, CallAddTypes,
     CallRemoveTypes DEF Next, Elsewhere

LEMMA InitGraph == Init => GraphInv
<1>. SUFFICES ASSUME Init PROVE GraphInv
  OBVIOUS
<1>1. graphs \in [GraphIds -> 0..MaxLoads] /\ loads \in 0..MaxLoads /\ active \in GraphIds
  BY GraphConstants DEF Init
<1>2. calls = {} /\ locked = FALSE /\ running = FALSE /\ own = {} /\ up = {} /\ subs = {} /\ timers = {}
  BY DEF Init
<1>3. LockInv
  BY <1>2 DEF LockInv
<1>. QED
  BY <1>1, <1>2, <1>3 DEF GraphInv, GraphTypes, CallInv

----------------------------------------------------------------------------
(* What runs, listens or ticks: of a registered graph, of a call, or one   *)
(* of those that are excused.                                              *)

Kept(s) == graphs[s.graph] = s.load

Brought(s) == \E c \in calls : Starting(c) /\ c.graph = s.graph /\ c.load = s.load
Tears(c)   == c.op \in {"remove", "stop"} /\ c.at # "storage"
Falling(s) == s.graph # Primary /\ \E c \in calls : Tears(c) /\ s \in c.todo
Driven(s)  == \E c \in calls : c.op = "start" /\ c.at = "streams" /\ s \in c.cur

Excused(s) == s.load \in unfinished \cup displaced

\* The timers and subscriptions of a graph go before its streams do, those of the
\* primary graph with what stop() finds in _streams.
UpInv    == \A s \in up : Kept(s) \/ Brought(s) \/ Falling(s) \/ Excused(s) \/ s.load \in halfway
HeardInv == \A s \in subs \cup timers : Kept(s) \/ Brought(s) \/ Excused(s)
OwnInv   == \A s \in up : s.graph = Primary => s \in own \/ Driven(s) \/ Excused(s)
StopsPrimary(c) == c.op = "stop" /\ c.at = "primary"
StopInv  == \A c \in calls : StopsPrimary(c) =>
              /\ \A s \in up : s.graph = Primary => s \in c.todo \/ Excused(s)
              /\ \A s \in subs \cup timers : s.graph = Primary => Excused(s)

OwnedInv == UpInv /\ HeardInv /\ OwnInv /\ StopInv

LEMMA InitOwned == Init => OwnedInv
BY DEF Init, OwnedInv, UpInv, HeardInv, OwnInv, StopInv

\* Who is excused stays so.
Grow == /\ unfinished \subseteq unfinished' /\ displaced \subseteq displaced' /\ halfway \subseteq halfway'

LEMMA ExcusedStays == ASSUME Grow, NEW s, Excused(s) PROVE Excused(s)'
BY DEF Grow, Excused

\* What each part of the invariant asks of a step.
LEMMA UpCarried ==
  ASSUME UpInv, Grow,
         \A s \in up' : s \in up \/ Brought(s)',
         \A s \in up' : Kept(s) => Kept(s)' \/ Brought(s)' \/ Falling(s)' \/ Excused(s)',
         \A s \in up' : Brought(s) => Kept(s)' \/ Brought(s)' \/ Excused(s)',
         \A s \in up' : Falling(s) => Falling(s)' \/ s.load \in halfway'
  PROVE  UpInv'
<1>1. ASSUME NEW s \in up' PROVE Kept(s)' \/ Brought(s)' \/ Falling(s)' \/ Excused(s)' \/ s.load \in halfway'
  <2>1. CASE s \in up
    <3>1. Kept(s) \/ Brought(s) \/ Falling(s) \/ Excused(s) \/ s.load \in halfway
      BY <2>1 DEF UpInv
    <3>2. (Excused(s) => Excused(s)') /\ (s.load \in halfway => s.load \in halfway')
      BY ExcusedStays DEF Grow
    <3>. QED
      BY <1>1, <3>1, <3>2
  <2>. QED
    BY <1>1, <2>1
<1>. QED
  BY <1>1 DEF UpInv

LEMMA HeardCarried ==
  ASSUME HeardInv, Grow,
         \A s \in subs' \cup timers' : s \in subs \cup timers \/ Kept(s)' \/ Excused(s)',
         \A s \in subs' \cup timers' : Kept(s) => Kept(s)' \/ Brought(s)' \/ Excused(s)',
         \A s \in subs' \cup timers' : Brought(s) => Kept(s)' \/ Brought(s)' \/ Excused(s)'
  PROVE  HeardInv'
<1>1. ASSUME NEW s \in subs' \cup timers' PROVE Kept(s)' \/ Brought(s)' \/ Excused(s)'
  <2>1. CASE s \in subs \cup timers
    <3>1. Kept(s) \/ Brought(s) \/ Excused(s)
      BY <2>1 DEF HeardInv
    <3>. QED
      BY <1>1, <3>1, ExcusedStays
  <2>. QED
    BY <1>1, <2>1
<1>. QED
  BY <1>1 DEF HeardInv

LEMMA OwnCarried ==
  ASSUME OwnInv, Grow,
         \A s \in up' : s.graph = Primary => s \in up \/ Driven(s)',
         \A s \in up' : s.graph = Primary /\ s \in own => s \in own' \/ Excused(s)',
         \A s \in up' : s.graph = Primary /\ Driven(s) => Driven(s)' \/ s \in own' \/ Excused(s)'
  PROVE  OwnInv'
<1>1. ASSUME NEW s \in up', s.graph = Primary PROVE s \in own' \/ Driven(s)' \/ Excused(s)'
  <2>1. CASE s \in up
    <3>1. s \in own \/ Driven(s) \/ Excused(s)
      BY <1>1, <2>1 DEF OwnInv
    <3>. QED
      BY <1>1, <3>1, ExcusedStays
  <2>. QED
    BY <1>1, <2>1
<1>. QED
  BY <1>1 DEF OwnInv

LEMMA StopCarried ==
  ASSUME StopInv, Grow,
         \A s \in up' : s.graph = Primary => s \in up,
         \A s \in subs' \cup timers' : s.graph = Primary => s \in subs \cup timers \/ Excused(s)',
         \A d \in calls' : StopsPrimary(d) =>
           \E c \in calls : StopsPrimary(c) /\ \A s \in c.todo : s \in d.todo \/ s \notin up'
  PROVE  StopInv'
<1>1. ASSUME NEW d \in calls', StopsPrimary(d)
      PROVE  /\ \A s \in up' : s.graph = Primary => s \in d.todo \/ Excused(s)'
             /\ \A s \in subs' \cup timers' : s.graph = Primary => Excused(s)'
  <2>1. PICK c \in calls : StopsPrimary(c) /\ \A s \in c.todo : s \in d.todo \/ s \notin up'
    BY <1>1
  <2>2. /\ \A s \in up : s.graph = Primary => s \in c.todo \/ Excused(s)
        /\ \A s \in subs \cup timers : s.graph = Primary => Excused(s)
    BY <2>1 DEF StopInv
  <2>. QED
    BY <2>1, <2>2, ExcusedStays
<1>. QED
  BY <1>1 DEF StopInv, StopsPrimary

\* The calls that are there stay, but for one that goes on.
LEMMA CallsGrow ==
  ASSUME calls \subseteq calls'
  PROVE  \A s : (Brought(s) => Brought(s)') /\ (Falling(s) => Falling(s)') /\ (Driven(s) => Driven(s)')
BY DEF Brought, Falling, Driven, Starting, Tears

LEMMA CallTurns ==
  ASSUME NEW c, NEW d, Becomes(c, d), Starting(c) => d.graph = c.graph /\ d.load = c.load
  PROVE  /\ \A s : Brought(s) => Brought(s)'
         /\ \A s : Falling(s) => Falling(s)' \/ (Tears(c) /\ s \in c.todo /\ (s \notin d.todo \/ ~Tears(d)))
         /\ \A s : Driven(s) => Driven(s)' \/ (c.op = "start" /\ c.at = "streams" /\ ~(d.at = "streams" /\ s \in d.cur) /\ s \in c.cur)
<1>1. d \in calls' /\ d.op = c.op /\ \A e \in calls : e = c \/ e \in calls'
  BY DEF Becomes
<1>2. Starting(d) <=> Starting(c)
  BY <1>1 DEF Starting
<1>3. ASSUME NEW s, Brought(s) PROVE Brought(s)'
  <2>1. PICK e \in calls : Starting(e) /\ e.graph = s.graph /\ e.load = s.load
    BY <1>3 DEF Brought
  <2>2. CASE e = c
    BY <1>1, <1>2, <2>1, <2>2 DEF Brought, Starting
  <2>3. CASE e \in calls'
    BY <2>1, <2>3 DEF Brought, Starting
  <2>. QED
    BY <1>1, <2>2, <2>3
<1>4. ASSUME NEW s, Falling(s) PROVE Falling(s)' \/ (Tears(c) /\ s \in c.todo /\ (s \notin d.todo \/ ~Tears(d)))
  <2>1. PICK e \in calls : Tears(e) /\ s \in e.todo
    BY <1>4 DEF Falling
  <2>2. CASE e = c
    BY <1>1, <1>4, <2>1, <2>2 DEF Falling, Tears
  <2>3. CASE e \in calls'
    BY <1>4, <2>1, <2>3 DEF Falling, Tears
  <2>. QED
    BY <1>1, <2>2, <2>3
<1>5. ASSUME NEW s, Driven(s)
      PROVE  Driven(s)' \/ (c.op = "start" /\ c.at = "streams" /\ ~(d.at = "streams" /\ s \in d.cur) /\ s \in c.cur)
  <2>1. PICK e \in calls : e.op = "start" /\ e.at = "streams" /\ s \in e.cur
    BY <1>5 DEF Driven
  <2>2. CASE e = c
    BY <1>1, <2>1, <2>2 DEF Driven
  <2>3. CASE e \in calls'
    BY <2>1, <2>3 DEF Driven
  <2>. QED
    BY <1>1, <2>2, <2>3
<1>. QED
  BY <1>3, <1>4, <1>5

LEMMA CallEnds ==
  ASSUME NEW c \in calls, calls' = calls \ {c}
  PROVE  /\ \A s : Brought(s) => Brought(s)' \/ (Starting(c) /\ s.graph = c.graph /\ s.load = c.load)
         /\ \A s : Falling(s) => Falling(s)' \/ (Tears(c) /\ s.graph # Primary /\ s \in c.todo)
         /\ \A s : Driven(s) => Driven(s)' \/ (c.op = "start" /\ s \in c.cur)
BY DEF Brought, Falling, Driven, Starting, Tears

\* No step of stop() for the primary graph, but by a call that was there already.
LEMMA StopsAsBefore ==
  ASSUME NEW c, NEW d, Becomes(c, d), StopsPrimary(d) => StopsPrimary(c) /\ \A s \in c.todo : s \in d.todo \/ s \notin up'
  PROVE  \A e \in calls' : StopsPrimary(e) =>
           \E f \in calls : StopsPrimary(f) /\ \A s \in f.todo : s \in e.todo \/ s \notin up'
BY DEF Becomes, StopsPrimary

\* A step of a call by which nothing starts or is forgotten.
LEMMA Passes ==
  ASSUME OwnedInv, NEW c, NEW d, Becomes(c, d), Starting(c) => d.graph = c.graph /\ d.load = c.load,
         UNCHANGED <<graphs, own, subs, timers, lossVars>>, up' \subseteq up,
         \A s \in c.todo : s \in d.todo \/ s \notin up',
         Starting(c) \/ d.at \in {c.at, "streams"},
         c.op = "start" /\ c.at = "streams" => d.at = "streams" /\ c.cur \subseteq d.cur,
         StopsPrimary(d) => StopsPrimary(c)
  PROVE  OwnedInv'
<1>1. Grow /\ \A s : (Kept(s) => Kept(s)')
  BY DEF Grow, lossVars, Kept
<1>2. /\ \A s : Brought(s) => Brought(s)'
      /\ \A s \in up' : Falling(s) => Falling(s)'
      /\ \A s : Driven(s) => Driven(s)'
  BY CallTurns DEF Tears, Becomes, Starting
<1>3. UpInv'
  BY <1>1, <1>2, UpCarried DEF OwnedInv
<1>4. HeardInv'
  BY <1>1, <1>2, HeardCarried DEF OwnedInv
<1>5. OwnInv'
  BY <1>1, <1>2, OwnCarried DEF OwnedInv
<1>6. \A e \in calls' : StopsPrimary(e) =>
        \E f \in calls : StopsPrimary(f) /\ \A s \in f.todo : s \in e.todo \/ s \notin up'
  BY StopsAsBefore
<1>7. StopInv'
  BY <1>1, <1>6, StopCarried DEF OwnedInv
<1>. QED
  BY <1>3, <1>4, <1>5, <1>7 DEF OwnedInv

LEMMA CallsOwned ==
  ASSUME OwnedInv, NEW g, CallStart \/ CallStop \/ CallAdd(g)
  PROVE  OwnedInv'
<1>1. /\ UNCHANGED <<graphs, own, up, subs, timers, lossVars>> /\ calls \subseteq calls'
      /\ \A d \in calls' : d \in calls \/ d.at \in {"lock", "streams"}
  <2>1. CASE CallStart
    BY <2>1, NewCallFields DEF CallStart
  <2>2. CASE CallStop
    BY <2>2, NewCallFields DEF CallStop
  <2>3. CASE CallAdd(g)
    BY <2>3, NewCallFields DEF CallAdd
  <2>. QED
    BY <2>1, <2>2, <2>3
<1>2. Grow /\ \A s : (Kept(s) => Kept(s)')
  BY <1>1 DEF Grow, lossVars, Kept
<1>3. \A s : (Brought(s) => Brought(s)') /\ (Falling(s) => Falling(s)') /\ (Driven(s) => Driven(s)')
  BY <1>1, CallsGrow
<1>4. \A e \in calls' : StopsPrimary(e) =>
        \E f \in calls : StopsPrimary(f) /\ \A s \in f.todo : s \in e.todo \/ s \notin up'
  BY <1>1 DEF StopsPrimary
<1>5. UpInv' /\ HeardInv'
  BY <1>1, <1>2, <1>3, UpCarried, HeardCarried DEF OwnedInv
<1>6. OwnInv' /\ StopInv'
  BY <1>1, <1>2, <1>3, <1>4, OwnCarried, StopCarried DEF OwnedInv
<1>. QED
  BY <1>5, <1>6 DEF OwnedInv

\* What is known of streams.
LEMMA Known ==
  ASSUME GraphInv
  PROVE  /\ \A s \in up \cup subs \cup timers : s \in Streams
         /\ \A s \in Streams : s.graph \in GraphIds /\ s.load \in Loads /\ s.load # 0
BY StreamFields DEF GraphInv, GraphTypes, Loads

\* A graph that is detached is in the hands of the call that detached it.
LEMMA DetachOwned ==
  ASSUME GraphInv, OwnedInv, NEW g \in Secondaries, Detach(g), UNCHANGED <<own, up, lossVars>>,
         \A s : Brought(s) => Brought(s)',
         \A s : Falling(s) => Falling(s)', \A s : Driven(s) => Driven(s)',
         NEW d \in calls', Tears(d), StreamsOf(g, graphs[g]) \subseteq d.todo,
         \A e \in calls' : StopsPrimary(e) =>
           \E f \in calls : StopsPrimary(f) /\ \A s \in f.todo : s \in e.todo \/ s \notin up'
  PROVE  OwnedInv'
<1>1. g \in GraphIds /\ Primary # g
  BY GraphConstants
<1>2. /\ graphs'[g] = 0 /\ \A h \in GraphIds \ {g} : graphs'[h] = graphs[h]
      /\ timers' = timers \ StreamsOf(g, graphs[g]) /\ subs' = subs \ StreamsOf(g, graphs[g])
  BY <1>1, DetachFacts DEF GraphInv
<1>3. Grow
  BY DEF Grow, lossVars
<1>4. ASSUME NEW s \in Streams, Kept(s), ~Kept(s)' PROVE s \in StreamsOf(g, graphs[g]) /\ s.graph # Primary
  BY <1>1, <1>2, <1>4, Known, MembersOf DEF Kept
<1>5. \A s \in StreamsOf(g, graphs[g]) : s.graph # Primary => Falling(s)'
  BY DEF Falling, Tears
<1>6. \A s \in up' : Kept(s) => Kept(s)' \/ Falling(s)'
  BY <1>4, <1>5, Known
<1>7. \A s \in subs' \cup timers' : Kept(s) => Kept(s)'
  BY <1>2, <1>4, Known
<1>8. UpInv'
  BY <1>3, <1>6, UpCarried DEF OwnedInv
<1>9. HeardInv'
  BY <1>2, <1>3, <1>7, HeardCarried DEF OwnedInv
<1>10. OwnInv'
  BY <1>3, OwnCarried DEF OwnedInv
<1>11. StopInv'
  BY <1>2, <1>3, StopCarried DEF OwnedInv
<1>. QED
  BY <1>8, <1>9, <1>10, <1>11 DEF OwnedInv

LEMMA RemoveOwned ==
  ASSUME GraphInv, OwnedInv, NEW g \in Secondaries, CallRemove(g)
  PROVE  OwnedInv'
<1>0. PICK d : d = NewCall("remove", g, graphs[g], "streams", StreamsOf(g, graphs[g]), {})
  OBVIOUS
<1>1. calls' = calls \cup {d} /\ Detach(g) /\ UNCHANGED <<own, up, lossVars>>
  BY <1>0 DEF CallRemove
<1>2. d.op = "remove" /\ d.at = "streams" /\ d.todo = StreamsOf(g, graphs[g])
  BY <1>0, NewCallFields
<1>3. \A s : (Brought(s) => Brought(s)') /\ (Falling(s) => Falling(s)') /\ (Driven(s) => Driven(s)')
  BY <1>1, CallsGrow
<1>4. \A e \in calls' : StopsPrimary(e) =>
        \E f \in calls : StopsPrimary(f) /\ \A s \in f.todo : s \in e.todo \/ s \notin up'
  BY <1>1, <1>2 DEF StopsPrimary
<1>5. d \in calls' /\ Tears(d) /\ StreamsOf(g, graphs[g]) \subseteq d.todo
  BY <1>1, <1>2 DEF Tears
<1>. QED
  BY <1>1, <1>3, <1>4, <1>5, DetachOwned

LEMMA StreamStartedOwned ==
  ASSUME GraphInv, OwnedInv, NEW c \in calls, StreamStarted(c)
  PROVE  OwnedInv'
<1>1. PICK d : Becomes(c, d) /\ d.at = c.at /\ d.graph = c.graph /\ d.load = c.load
               /\ d.todo = c.todo /\ d.cur = {}
  BY StreamStartedFacts
<1>2. /\ Starting(c) /\ UNCHANGED <<graphs, up, subs, timers, unfinished, halfway>>
      /\ displaced \subseteq displaced'
      /\ \A s \in own : s \in own' \/ s.load \in displaced'
      /\ c.op = "start" => c.cur \subseteq own'
  BY DEF StreamStarted, Starting
<1>3. Grow /\ (\A s : (Kept(s) => Kept(s)')) /\ \A s \in own : s \in own' \/ Excused(s)'
  BY <1>2 DEF Grow, Kept, Excused
<1>4. /\ \A s : Brought(s) => Brought(s)'
      /\ \A s : Falling(s) => Falling(s)'
      /\ \A s : Driven(s) => Driven(s)' \/ s \in own'
  BY <1>1, <1>2, CallTurns DEF Tears, Starting
<1>5. \A e \in calls' : StopsPrimary(e) =>
        \E f \in calls : StopsPrimary(f) /\ \A s \in f.todo : s \in e.todo \/ s \notin up'
  BY <1>1, <1>2, StopsAsBefore DEF Becomes, StopsPrimary, Starting
<1>6. UpInv'
  BY <1>2, <1>3, <1>4, UpCarried DEF OwnedInv
<1>7. HeardInv'
  BY <1>2, <1>3, <1>4, HeardCarried DEF OwnedInv
<1>8. OwnInv'
  BY <1>2, <1>3, <1>4, OwnCarried DEF OwnedInv
<1>9. StopInv'
  BY <1>2, <1>3, <1>5, StopCarried DEF OwnedInv
<1>. QED
  BY <1>6, <1>7, <1>8, <1>9 DEF OwnedInv

\* While stop() is at the primary graph, no call of start() has the lock.
LEMMA NoStart ==
  ASSUME GraphInv, NEW c \in calls, StopsPrimary(c), NEW e \in calls, e.op = "start"
  PROVE  e.at = "lock"
BY DEF GraphInv, LockInv, Holds, StopsPrimary

LEMMA RegisterOwned ==
  ASSUME GraphInv, OwnedInv, NEW c \in calls, Register(c)
  PROVE  OwnedInv'
<1>1. /\ Starting(c) /\ c.at = "streams" /\ calls' = calls \ {c} /\ c.cur = {}
      /\ UNCHANGED <<own, up, unfinished, halfway>>
      /\ subs' \subseteq subs \cup StreamsOf(c.graph, c.load)
      /\ timers' \subseteq timers \cup StreamsOf(c.graph, c.load)
      /\ graphs' = [graphs EXCEPT ![c.graph] = c.load]
      /\ displaced' = displaced \cup ({graphs[c.graph]} \ {0})
  BY DEF Register, Starting
<1>2. c.graph \in GraphIds
  BY DEF GraphInv, GraphTypes, Call
<1>3. graphs'[c.graph] = c.load /\ \A g \in GraphIds \ {c.graph} : graphs'[g] = graphs[g]
  BY <1>1, <1>2 DEF GraphInv, GraphTypes
<1>4. Grow
  BY <1>1 DEF Grow
<1>5. ASSUME NEW s \in Streams, Kept(s) PROVE Kept(s)' \/ Excused(s)'
  <2>1. CASE s.graph = c.graph
    BY <1>1, <1>5, <2>1, Known DEF Kept, Excused
  <2>2. CASE s.graph # c.graph
    BY <1>3, <1>5, <2>2, Known DEF Kept
  <2>. QED
    BY <2>1, <2>2
<1>6. \A s : s.graph = c.graph /\ s.load = c.load => Kept(s)'
  BY <1>3 DEF Kept
<1>7. /\ \A s : Brought(s) => Brought(s)' \/ Kept(s)'
      /\ \A s : Falling(s) => Falling(s)'
      /\ \A s : Driven(s) => Driven(s)'
  BY <1>1, <1>6, CallEnds DEF Tears, Starting
<1>8. \A s \in subs' \cup timers' : s \in subs \cup timers \/ Kept(s)'
  BY <1>1, <1>6, MembersOf DEF StreamsOf
<1>9. \A s \in subs' \cup timers' : s \in Streams
  BY <1>1, Known, MembersOf
<1>10. UpInv'
  BY <1>1, <1>4, <1>5, <1>7, Known, UpCarried DEF OwnedInv
<1>11. HeardInv'
  BY <1>4, <1>5, <1>7, <1>8, <1>9, HeardCarried DEF OwnedInv
<1>12. OwnInv'
  BY <1>1, <1>4, <1>7, OwnCarried DEF OwnedInv
<1>13. StopInv'
  <2>1. CASE \E e \in calls' : StopsPrimary(e)
    <3>1. c.op = "add" /\ c.graph # Primary
      BY <1>1, <2>1, NoStart, GraphConstants DEF Starting, GraphInv, CallInv
    <3>2. \A s \in subs' \cup timers' : s.graph = Primary => s \in subs \cup timers
      BY <1>1, <3>1, MembersOf DEF StreamsOf
    <3>3. \A e \in calls' : StopsPrimary(e) =>
            \E f \in calls : StopsPrimary(f) /\ \A s \in f.todo : s \in e.todo \/ s \notin up'
      BY <1>1
    <3>. QED
      BY <1>1, <1>4, <3>2, <3>3, StopCarried DEF OwnedInv
  <2>2. CASE ~\E e \in calls' : StopsPrimary(e)
    BY <2>2 DEF StopInv, StopsPrimary
  <2>. QED
    BY <2>1, <2>2
<1>. QED
  BY <1>10, <1>11, <1>12, <1>13 DEF OwnedInv

LEMMA StopPrimaryOwned ==
  ASSUME GraphInv, OwnedInv, NEW c \in calls, StopPrimary(c)
  PROVE  OwnedInv'
<1>1. PICK d : Becomes(c, d) /\ d.at = "primary" /\ d.graph = Primary /\ d.todo = own
  BY StopPrimaryFacts
<1>2. /\ c.op = "stop" /\ c.at = "streams" /\ c.todo = {}
      /\ timers' = timers \ {s \in timers : s.graph = Primary}
      /\ subs' = {s \in subs : s.graph # Primary}
      /\ UNCHANGED <<graphs, own, up, lossVars>>
  BY DEF StopPrimary, CancelTimers
<1>3. Grow /\ \A s : (Kept(s) => Kept(s)')
  BY <1>2 DEF Grow, lossVars, Kept
<1>4. /\ \A s : Brought(s) => Brought(s)'
      /\ \A s : Falling(s) => Falling(s)'
      /\ \A s : Driven(s) => Driven(s)'
  BY <1>1, <1>2, CallTurns DEF Starting
<1>5. \A s : ~Driven(s)
  BY <1>2 DEF GraphInv, LockInv, Holds, Driven
<1>6. UpInv' /\ HeardInv'
  BY <1>2, <1>3, <1>4, UpCarried, HeardCarried DEF OwnedInv
<1>7. OwnInv'
  BY <1>2, <1>3, <1>4, OwnCarried DEF OwnedInv
<1>8. ASSUME NEW e \in calls', StopsPrimary(e)
      PROVE  /\ \A s \in up' : s.graph = Primary => s \in e.todo \/ Excused(s)'
             /\ \A s \in subs' \cup timers' : s.graph = Primary => Excused(s)'
  <2>1. e = d
    BY <1>1, <1>2, <1>8 DEF Becomes, GraphInv, LockInv, Holds, StopsPrimary
  <2>2. \A s \in up : s.graph = Primary => s \in own \/ Excused(s)
    BY <1>5 DEF OwnedInv, OwnInv
  <2>. QED
    BY <1>1, <1>2, <1>3, <2>1, <2>2, ExcusedStays
<1>9. StopInv'
  BY <1>8 DEF StopInv, StopsPrimary
<1>. QED
  BY <1>6, <1>7, <1>9 DEF OwnedInv

LEMMA ForgetOwned ==
  ASSUME GraphInv, OwnedInv, NEW c \in calls, Forget(c)
  PROVE  OwnedInv'
<1>1. PICK d : Becomes(c, d) /\ d.at = "storage" /\ d.todo = {} /\ d.cur = {}
  BY ForgetFacts
<1>2. /\ StopsPrimary(c) /\ c.todo = {} /\ UNCHANGED <<up, subs, timers, unfinished, halfway>>
      /\ displaced' = displaced \cup ({graphs[g] : g \in Secondaries} \ {0})
  BY DEF Forget, StopsPrimary
<1>3. Grow
  BY <1>2 DEF Grow
<1>4. /\ \A s : Brought(s) => Brought(s)'
      /\ \A s : Falling(s) => Falling(s)'
      /\ \A s : Driven(s) => Driven(s)'
  BY <1>1, <1>2, CallTurns DEF Starting, StopsPrimary
<1>5. ASSUME NEW s \in up \cup subs \cup timers, s.graph = Primary PROVE Excused(s)'
  BY <1>2, <1>3, <1>5, ExcusedStays DEF OwnedInv, StopInv
<1>6. ASSUME NEW s \in up \cup subs \cup timers, s.graph # Primary, Kept(s) PROVE Excused(s)'
  <2>1. s.graph \in Secondaries /\ s.load # 0
    BY <1>6, Known DEF GraphIds
  <2>. QED
    BY <1>2, <1>6, <2>1 DEF Kept, Excused
<1>7. \A s \in up \cup subs \cup timers : Kept(s) => Excused(s)'
  BY <1>5, <1>6
<1>8. UpInv' /\ HeardInv'
  BY <1>2, <1>3, <1>4, <1>7, UpCarried, HeardCarried DEF OwnedInv
<1>9. OwnInv'
  BY <1>2, <1>5 DEF OwnInv
<1>10. \A e \in calls' : StopsPrimary(e) =>
         \E f \in calls : StopsPrimary(f) /\ \A s \in f.todo : s \in e.todo \/ s \notin up'
  BY <1>1, StopsAsBefore DEF StopsPrimary
<1>11. StopInv'
  BY <1>2, <1>3, <1>10, StopCarried DEF OwnedInv
<1>. QED
  BY <1>8, <1>9, <1>11 DEF OwnedInv

LEMMA StartStreamOwned ==
  ASSUME GraphInv, OwnedInv, NEW c \in calls, NEW s \in c.todo, StartStream(c, s)
  PROVE  OwnedInv'
<1>1. PICK d : Becomes(c, d) /\ d.at = c.at /\ d.graph = c.graph /\ d.load = c.load
               /\ d.todo = c.todo \ {s} /\ d.cur = {s}
  BY StartStreamFacts
<1>2. /\ Starting(c) /\ s \in Streams /\ up' \in {up, up \cup {s}} /\ c.at = "streams" /\ c.cur = {}
      /\ UNCHANGED <<graphs, own, subs, timers, lossVars>>
  BY StartStreamFacts DEF StartStream
<1>3. s.graph = c.graph /\ s.load = c.load /\ d \in calls' /\ d.op = c.op
  BY <1>1, <1>2, MembersOf DEF GraphInv, CallInv, Becomes
<1>4. Grow /\ \A t : (Kept(t) => Kept(t)')
  BY <1>2 DEF Grow, lossVars, Kept
<1>5. /\ \A t : Brought(t) => Brought(t)'
      /\ \A t : Falling(t) => Falling(t)'
      /\ \A t : Driven(t) => Driven(t)'
  BY <1>1, <1>2, CallTurns DEF Tears, Starting
<1>6. Brought(s)' /\ (s.graph = Primary => Driven(s)')
  <2>1. Brought(s)'
    BY <1>1, <1>2, <1>3 DEF Brought, Starting
  <2>2. s.graph = Primary => c.op = "start"
    BY <1>2, <1>3, GraphConstants DEF GraphInv, CallInv, Starting
  <2>. QED
    BY <1>1, <1>2, <1>3, <2>1, <2>2 DEF Driven
<1>7. UpInv' /\ HeardInv'
  BY <1>2, <1>4, <1>5, <1>6, UpCarried, HeardCarried DEF OwnedInv
<1>8. OwnInv'
  BY <1>2, <1>4, <1>5, <1>6, OwnCarried DEF OwnedInv
<1>9. StopInv'
  <2>1. \A e \in calls' : StopsPrimary(e) => e \in calls
    BY <1>1, <1>2 DEF Becomes, StopsPrimary
  <2>2. CASE \E e \in calls' : StopsPrimary(e)
    <3>1. c.op = "add" /\ s.graph # Primary
      BY <1>2, <1>3, <2>1, <2>2, NoStart, GraphConstants DEF Starting, GraphInv, CallInv
    <3>. QED
      BY <1>2, <1>4, <2>1, <3>1, StopCarried DEF OwnedInv
  <2>3. CASE ~\E e \in calls' : StopsPrimary(e)
    BY <2>3 DEF StopInv, StopsPrimary
  <2>. QED
    BY <2>2, <2>3
<1>. QED
  BY <1>7, <1>8, <1>9 DEF OwnedInv

\* What belongs to the call that is broken off is excused from then on.
LEMMA BreaksOffOwned ==
  ASSUME GraphInv, OwnedInv, NEW c \in calls, BreaksOff(c)
  PROVE  OwnedInv'
<1>1. /\ calls' = calls \ {c} /\ UNCHANGED <<graphs, own, up, displaced>>
      /\ Starting(c) => unfinished' = unfinished \cup {c.load} /\ halfway' = halfway
      /\ ~Starting(c) => /\ unfinished' = unfinished
                         /\ halfway' = halfway \cup {s.load : s \in {t \in c.todo \cup c.cur : t.graph # Primary}}
                         /\ subs' = subs /\ timers' = timers
      /\ subs' \subseteq subs \cup {s \in StreamsOf(c.graph, c.load) : Trig(s) = "event"}
      /\ timers' \subseteq timers \cup {s \in StreamsOf(c.graph, c.load) : Trig(s) = "timer"}
  BY BreaksOffFacts
<1>2. Grow /\ \A s : (Kept(s) => Kept(s)')
  BY <1>1 DEF Grow, Kept
<1>3. \A s : Starting(c) /\ s.load = c.load => Excused(s)'
  BY <1>1 DEF Excused
<1>4. \A s : Starting(c) /\ s \in c.cur \cup StreamsOf(c.graph, c.load) => s.load = c.load
  BY DEF GraphInv, CallInv, StreamsOf
<1>5. /\ \A s : Brought(s) => Brought(s)' \/ Excused(s)'
      /\ \A s : Falling(s) => Falling(s)' \/ s.load \in halfway'
      /\ \A s : Driven(s) => Driven(s)' \/ Excused(s)'
  BY <1>1, <1>3, <1>4, CallEnds DEF Starting, Tears
<1>6. \A s \in subs' \cup timers' : s \in subs \cup timers \/ Excused(s)'
  BY <1>1, <1>3, <1>4
<1>7. UpInv' /\ HeardInv'
  BY <1>1, <1>2, <1>5, <1>6, UpCarried, HeardCarried DEF OwnedInv
<1>8. OwnInv'
  BY <1>1, <1>2, <1>5, OwnCarried DEF OwnedInv
<1>9. StopInv'
  BY <1>1, <1>2, <1>6, StopCarried DEF OwnedInv
<1>. QED
  BY <1>7, <1>8, <1>9 DEF OwnedInv

LEMMA CallStepOwned ==
  ASSUME GraphInv, OwnedInv, NEW c \in calls, CallStep(c)
  PROVE  OwnedInv'
<1>1. CASE Acquire(c)
  <2>1. PICK d : Becomes(c, d) /\ d.at = "streams" /\ d.graph = c.graph /\ d.load = c.load
                 /\ d.todo = c.todo /\ d.cur = c.cur
    BY <1>1, AcquireFacts
  <2>2. c.at = "lock" /\ UNCHANGED <<graphs, own, up, subs, timers, lossVars>>
    BY <1>1 DEF Acquire
  <2>. QED
    BY <2>1, <2>2, Passes DEF StopsPrimary
<1>2. CASE StreamStopped(c)
  <2>1. PICK d : Becomes(c, d) /\ d.at = c.at /\ d.todo = c.todo
    BY <1>2, StreamStoppedFacts
  <2>2. c.op \in {"remove", "stop"} /\ UNCHANGED <<graphs, own, up, subs, timers, lossVars>>
    BY <1>2 DEF StreamStopped
  <2>. QED
    BY <2>1, <2>2, Passes DEF StopsPrimary, Starting, Becomes
<1>3. CASE TornDown(c) \/ Stopped(c)
  <2>1. /\ c.op \in {"remove", "stop"} /\ calls' = calls \ {c}
        /\ UNCHANGED <<up, subs, timers, lossVars, own, graphs>>
    BY <1>3 DEF TornDown, Stopped
  <2>2. c.todo = {} \/ ~Tears(c)
    BY <1>3 DEF TornDown, Stopped, Tears
  <2>3. Grow /\ (\A s : (Kept(s) => Kept(s)')) /\ ~Starting(c) /\ c.op # "start"
    BY <2>1 DEF Grow, lossVars, Kept, Starting
  <2>5. \A s : (Brought(s) => Brought(s)') /\ (Falling(s) => Falling(s)') /\ (Driven(s) => Driven(s)')
    BY <2>1, <2>2, <2>3, CallEnds
  <2>6. UpInv' /\ HeardInv'
    BY <2>1, <2>3, <2>5, UpCarried, HeardCarried DEF OwnedInv
  <2>7. OwnInv' /\ StopInv'
    BY <2>1, <2>3, <2>5, OwnCarried, StopCarried DEF OwnedInv
  <2>. QED
    BY <2>6, <2>7 DEF OwnedInv
<1>4. ASSUME NEW s \in c.todo, StopStream(c, s) PROVE OwnedInv'
  <2>1. PICK d : Becomes(c, d) /\ d.at = c.at /\ d.todo = c.todo \ {s}
    BY <1>4, StopStreamFacts
  <2>2. c.op \in {"remove", "stop"} /\ up' = up \ {s} /\ UNCHANGED <<graphs, own, subs, timers, lossVars>>
    BY <1>4 DEF StopStream
  <2>. QED
    BY <2>1, <2>2, Passes DEF StopsPrimary, Starting, Becomes
<1>5. ASSUME NEW g \in c.gids, StopNext(c, g) PROVE OwnedInv'
  <2>1. PICK d : Becomes(c, d) /\ d.at = "streams" /\ d.todo = StreamsOf(g, graphs[g])
    BY <1>5, StopNextFacts
  <2>2. g \in Secondaries
    BY <1>5, StopNextFacts
  <2>3. c.op = "stop" /\ c.todo = {} /\ Detach(g) /\ UNCHANGED <<own, up, lossVars>>
    BY <1>5 DEF StopNext
  <2>4. /\ \A s : Brought(s) => Brought(s)'
        /\ \A s : Falling(s) => Falling(s)'
        /\ \A s : Driven(s) => Driven(s)'
    BY <2>1, <2>3, CallTurns DEF Starting
  <2>5. d \in calls' /\ Tears(d) /\ StreamsOf(g, graphs[g]) \subseteq d.todo
    BY <2>1, <2>3 DEF Becomes, Tears
  <2>6. \A e \in calls' : StopsPrimary(e) =>
          \E f \in calls : StopsPrimary(f) /\ \A s \in f.todo : s \in e.todo \/ s \notin up'
    BY <2>1, StopsAsBefore DEF StopsPrimary
  <2>. QED
    BY <2>2, <2>3, <2>4, <2>5, <2>6, DetachOwned
<1>. QED
  BY <1>1, <1>2, <1>3, <1>4, <1>5, FirstOf, StreamStartedOwned, RegisterOwned, StopPrimaryOwned,
     ForgetOwned, StartStreamOwned, BreaksOffOwned DEF CallStep

LEMMA StepOwned == ASSUME GraphInv, OwnedInv, [Next]_vars PROVE OwnedInv'
<1>1. ASSUME UNCHANGED <<graphs, own, up, subs, calls, lossVars>>, timers' \subseteq timers PROVE OwnedInv'
  <2>1. Grow /\ \A s : (Kept(s) => Kept(s)')
    BY <1>1 DEF Grow, lossVars, Kept
  <2>2. \A s : (Brought(s) => Brought(s)') /\ (Falling(s) => Falling(s)') /\ (Driven(s) => Driven(s)')
    BY <1>1, CallsGrow
  <2>3. UpInv' /\ HeardInv'
    BY <1>1, <2>1, <2>2, UpCarried, HeardCarried DEF OwnedInv
  <2>4. OwnInv' /\ StopInv'
    BY <1>1, <2>1, <2>2, OwnCarried, StopCarried DEF OwnedInv
  <2>. QED
    BY <2>3, <2>4 DEF OwnedInv
<1>2. ASSUME UNCHANGED graphVars PROVE OwnedInv'
  BY <1>1, <1>2 DEF graphVars
<1>3. ASSUME NEW g \in GraphIds, SetActive(g) PROVE OwnedInv'
  BY <1>1, <1>3 DEF SetActive
<1>4. ASSUME NEW s \in Streams, TimerEnds(s) PROVE OwnedInv'
  BY <1>1, <1>4 DEF TimerEnds
<1>5. UNCHANGED vars => UNCHANGED graphVars
  BY DEF vars
<1>6. CASE CallStart \/ CallStop
  BY <1>6, CallsOwned
<1>. QED
  BY <1>2, <1>3, <1>4, <1>5, <1>6, ElsewhereQuiet, CallsOwned, RemoveOwned, CallStepOwned DEF Next, Elsewhere

\* What runs, listens or ticks belongs to a registered graph or to a call that is bringing
\* it up or down, however calls overlap and wherever they fail or are cancelled; what else
\* there is belongs to a start() or add_graph() that was broken off, to a graph another one
\* was registered over or that was added while stop() was at work, or, if it is a stream,
\* to a secondary graph whose teardown was broken off.
THEOREM NothingLeftBehind == Spec => []Owned
<1>1. Init => GraphInv /\ OwnedInv
  BY InitGraph, InitOwned
<1>2. GraphInv /\ OwnedInv /\ [Next]_vars => (GraphInv /\ OwnedInv)'
  BY StepGraph, StepOwned
<1>3. ASSUME OwnedInv PROVE Owned
  <2>1. \A s : Kept(s) \/ Brought(s) \/ Falling(s) => Handled(s)
    BY DEF Kept, Brought, Falling, Handled
  <2>. QED
    BY <1>3, <2>1 DEF OwnedInv, UpInv, HeardInv, Excused, Owned
<1>. QED
  BY <1>1, <1>2, <1>3, PTL DEF Spec

----------------------------------------------------------------------------
(* The histories are of loads that were made.                              *)

LossInv == {unfinished, halfway, displaced} \subseteq SUBSET Loads

LEMMA StepLoss == ASSUME GraphInv, LossInv, [Next]_vars PROVE LossInv'
<1>1. ASSUME UNCHANGED lossVars PROVE LossInv'
  BY <1>1 DEF lossVars, LossInv
<1>2. \A l \in 0..MaxLoads : l # 0 => l \in Loads
  BY GraphConstants DEF Loads
<1>3. ASSUME NEW c \in calls, StreamStarted(c) PROVE LossInv'
  BY <1>3, StreamFields DEF StreamStarted, LossInv, GraphInv, GraphTypes
<1>4. ASSUME NEW c \in calls, Register(c) PROVE LossInv'
  <2>1. graphs[c.graph] \in 0..MaxLoads
    BY DEF GraphInv, GraphTypes, Call
  <2>. QED
    BY <1>2, <1>4, <2>1 DEF Register, LossInv
<1>5. ASSUME NEW c \in calls, Forget(c) PROVE LossInv'
  <2>1. \A g \in Secondaries : graphs[g] \in 0..MaxLoads
    BY GraphConstants DEF GraphInv, GraphTypes
  <2>. QED
    BY <1>2, <1>5, <2>1 DEF Forget, LossInv
<1>6. ASSUME NEW c \in calls, BreaksOff(c) PROVE LossInv'
  <2>1. Starting(c) => c.load \in Loads
    BY DEF GraphInv, CallInv
  <2>2. c.todo \cup c.cur \subseteq Streams
    BY DEF GraphInv, GraphTypes, Call
  <2>. QED
    BY <1>6, <2>1, <2>2, BreaksOffFacts, StreamFields DEF LossInv
<1>7. ASSUME NEW c \in calls, CallStep(c) PROVE LossInv'
  <2>1. ASSUME Acquire(c) \/ StreamStopped(c) \/ TornDown(c) \/ StopPrimary(c) \/ Stopped(c)
        PROVE  UNCHANGED lossVars
    BY <2>1 DEF Acquire, StreamStopped, TornDown, StopPrimary, Stopped
  <2>2. ASSUME NEW s, StartStream(c, s) \/ StopStream(c, s) PROVE UNCHANGED lossVars
    BY <2>2 DEF StartStream, StopStream
  <2>3. ASSUME NEW g, StopNext(c, g) PROVE UNCHANGED lossVars
    BY <2>3 DEF StopNext
  <2>. QED
    BY <1>1, <1>3, <1>4, <1>5, <1>6, <1>7, <2>1, <2>2, <2>3 DEF CallStep
<1>8. ASSUME NEW g, CallStart \/ CallStop \/ CallAdd(g) \/ CallRemove(g) \/ SetActive(g) PROVE UNCHANGED lossVars
  BY <1>8 DEF CallStart, CallStop, CallAdd, CallRemove, SetActive
<1>9. ASSUME NEW s, TimerEnds(s) PROVE UNCHANGED lossVars
  BY <1>9 DEF TimerEnds
<1>10. UNCHANGED vars \/ Elsewhere => UNCHANGED lossVars
  BY ElsewhereQuiet DEF vars, graphVars
<1>. QED
  BY <1>1, <1>7, <1>8, <1>9, <1>10 DEF Next, Elsewhere

LEMMA InitLoss == Init => LossInv
BY DEF Init, LossInv

----------------------------------------------------------------------------
(* Sessions.                                                               *)

\* Entry points of one name are alike in whether they are isolated: triggers find a
\* stream by that name, in the active graph first.
Consistent == \A s, t \in Streams : s.ep = t.ep => (Isolated(s) <=> Isolated(t))

\* The timers that remember a session.
Private(u) == Trig(u) = "timer" /\ Isolated(u)

\* An execution may join this session.
Askable(by, on, session) ==
  /\ by \subseteq Streams /\ on \in Streams /\ session \in 0..sessions
  /\ Consistent /\ ~Isolated(on) => session \notin apart
  /\ \A u \in by : Private(u) => session = remembered[u]

SessionInv ==
  /\ sessions \in Session /\ apart \subseteq 1..sessions
  /\ remembered \in [Streams -> 0..sessions]
  /\ \A x \in execs : /\ x \in Exec /\ x.session \in 1..sessions
                      /\ Consistent /\ ~Isolated(x.on) => x.session \notin apart
                      /\ \A u \in x.by : Private(u) /\ x.session = remembered[u]

\* A timer that waits in execute() does not tick.
StartInv ==
  /\ \A x \in starts : x \in Start /\ Askable(x.by, x.on, x.session)
  /\ \A x, y \in starts : \A u \in x.by \cap y.by : Trig(u) = "timer" => x = y

KindInv ==
  /\ events \subseteq Streams /\ published \in 0..MaxEvents
  /\ \A u \in subs \cup events : Trig(u) = "event"
  /\ \A u \in timers : Trig(u) = "timer"

LEMMA MaxOfTwo ==
  ASSUME NEW a \in Int, NEW b \in Int
  PROVE  Max({a, b}) = IF a >= b THEN a ELSE b
<1>1. \E x \in {a, b} : \A y \in {a, b} : x >= y
  OBVIOUS
<1>2. Max({a, b}) \in {a, b} /\ \A y \in {a, b} : Max({a, b}) >= y
  BY <1>1 DEF Max
<1>. QED
  BY <1>2

\* Two states of one execution.
Alike(x, y) == x \in Exec /\ x.by = y.by /\ x.on = y.on /\ x.session = y.session

LEMMA AlikeKeeps ==
  ASSUME SessionInv, UNCHANGED <<sessions, apart, remembered>>,
         \A x \in execs' : \E y \in execs : Alike(x, y)
  PROVE  SessionInv'
<1>1. ASSUME NEW x \in execs'
      PROVE  /\ x \in Exec /\ x.session \in 1..sessions
             /\ Consistent /\ ~Isolated(x.on) => x.session \notin apart
             /\ \A u \in x.by : Private(u) /\ x.session = remembered[u]
  <2>1. PICK y \in execs : Alike(x, y)
    BY <1>1
  <2>. QED
    BY <2>1 DEF SessionInv, Alike
<1>. QED
  BY <1>1 DEF SessionInv

\* A session never used before, or the one that was asked for.
LEMMA BeginFacts ==
  ASSUME SessionInv, NEW by, NEW s, NEW session, NEW others, Askable(by, s, session),
         Begin(by, s, session, others)
  PROVE  \E id \in 1..MaxSessions :
           /\ id = IF session = 0 THEN sessions + 1 ELSE session
           /\ sessions' = IF session = 0 THEN id ELSE sessions
           /\ apart' = IF session = 0 /\ Isolated(s) THEN apart \cup {id} ELSE apart
           /\ execs' = others \cup {[by |-> {t \in by : Trig(t) = "timer" /\ Isolated(t)}, on |-> s,
                                     session |-> id, cancelled |-> FALSE, tracked |-> TRUE]}
           /\ remembered' = [t \in Streams |-> IF t \in by /\ Isolated(t) /\ remembered[t] = 0
                                                THEN id ELSE remembered[t]]
<1>. DEFINE id == IF session = 0 THEN sessions + 1 ELSE session
<1>1. sessions \in Nat /\ session \in 0..sessions
  BY RuntimeAssumption DEF SessionInv, Session, Askable
<1>2. id \in 1..MaxSessions /\ id \in Int /\ sessions' = Max({sessions, id})
  BY <1>1 DEF Begin
<1>3. sessions' = IF session = 0 THEN id ELSE sessions
  BY <1>1, <1>2, MaxOfTwo
<1>4. /\ apart' = IF session = 0 /\ Isolated(s) THEN apart \cup {id} ELSE apart
      /\ execs' = others \cup {[by |-> {t \in by : Trig(t) = "timer" /\ Isolated(t)}, on |-> s,
                                session |-> id, cancelled |-> FALSE, tracked |-> TRUE]}
      /\ remembered' = [t \in Streams |-> IF t \in by /\ Isolated(t) /\ remembered[t] = 0
                                           THEN id ELSE remembered[t]]
  BY DEF Begin, Remember
<1>. HIDE DEF id
<1>5. id = IF session = 0 THEN sessions + 1 ELSE session
  BY DEF id
<1>. QED
  BY <1>2, <1>3, <1>4, <1>5

\* What was asked for earlier can still be had.
LEMMA AskableStays ==
  ASSUME NEW by, NEW on, NEW session, Askable(by, on, session),
         sessions \in Nat, sessions' \in Nat, sessions <= sessions',
         \A k \in 0..sessions : k \in apart' => k \in apart,
         \A u \in by : Private(u) => remembered'[u] = remembered[u]
  PROVE  Askable(by, on, session)'
BY DEF Askable, Private

LEMMA BeginKeeps ==
  ASSUME SessionInv, NEW by, NEW s, NEW session, NEW others, Askable(by, s, session),
         \A x \in others : \E y \in execs : Alike(x, y),
         Begin(by, s, session, others)
  PROVE  /\ SessionInv' /\ sessions \in Nat /\ sessions' \in Nat /\ sessions <= sessions'
         /\ \A k \in 0..sessions : k \in apart' => k \in apart
         /\ \A u \in Streams \ by : remembered'[u] = remembered[u]
<1>1. PICK id \in 1..MaxSessions :
         /\ id = IF session = 0 THEN sessions + 1 ELSE session
         /\ sessions' = IF session = 0 THEN id ELSE sessions
         /\ apart' = IF session = 0 /\ Isolated(s) THEN apart \cup {id} ELSE apart
         /\ execs' = others \cup {[by |-> {t \in by : Trig(t) = "timer" /\ Isolated(t)}, on |-> s,
                                   session |-> id, cancelled |-> FALSE, tracked |-> TRUE]}
         /\ remembered' = [t \in Streams |-> IF t \in by /\ Isolated(t) /\ remembered[t] = 0
                                              THEN id ELSE remembered[t]]
  BY BeginFacts
<1>2. sessions \in Nat /\ session \in 0..sessions /\ MaxSessions \in Nat /\ sessions <= MaxSessions
      /\ s \in Streams /\ by \subseteq Streams
  BY RuntimeAssumption DEF SessionInv, Session, Askable
<1>3. sessions' \in Session /\ sessions' \in Nat /\ sessions <= sessions' /\ id \in 1..sessions'
  BY <1>1, <1>2 DEF Session
<1>4. apart' \subseteq 1..sessions' /\ \A k \in 0..sessions : k \in apart' => k \in apart
  <2>1. apart \subseteq 1..sessions
    BY DEF SessionInv
  <2>2. apart' \subseteq apart \cup {id} /\ (session # 0 => apart' = apart)
    BY <1>1
  <2>3. session = 0 => id = sessions + 1
    BY <1>1
  <2>. QED
    BY <1>2, <1>3, <2>1, <2>2, <2>3
<1>5. remembered' \in [Streams -> 0..sessions'] /\ \A u \in Streams \ by : remembered'[u] = remembered[u]
  BY <1>1, <1>2, <1>3 DEF SessionInv
<1>6. \A u \in Streams : remembered[u] # 0 => remembered'[u] = remembered[u]
  BY <1>1, <1>2
<1>7. ASSUME NEW x \in others
      PROVE  /\ x \in Exec /\ x.session \in 1..sessions'
             /\ Consistent /\ ~Isolated(x.on) => x.session \notin apart'
             /\ \A u \in x.by : Private(u) /\ x.session = remembered'[u]
  <2>1. PICK y \in execs : Alike(x, y)
    BY <1>7
  <2>2. /\ y.session \in 1..sessions /\ (Consistent /\ ~Isolated(y.on) => y.session \notin apart)
        /\ (\A u \in y.by : Private(u) /\ y.session = remembered[u])
        /\ y.by \subseteq Streams
    BY DEF SessionInv, Exec
  <2>3. x \in Exec /\ x.by = y.by /\ x.on = y.on /\ x.session = y.session
    BY <2>1 DEF Alike
  <2>4. x.session \in 1..sessions' /\ (Consistent /\ ~Isolated(x.on) => x.session \notin apart')
    BY <1>2, <1>3, <1>4, <2>2, <2>3
  <2>5. ASSUME NEW u \in x.by PROVE Private(u) /\ x.session = remembered'[u]
    BY <1>6, <2>2, <2>3, <2>5
  <2>. QED
    BY <2>3, <2>4, <2>5
<1>. DEFINE x == [by |-> {t \in by : Trig(t) = "timer" /\ Isolated(t)}, on |-> s,
                  session |-> id, cancelled |-> FALSE, tracked |-> TRUE]
<1>8. /\ x \in Exec /\ x.session = id /\ x.on = s
      /\ x.by = {t \in by : Trig(t) = "timer" /\ Isolated(t)}
  BY <1>2 DEF Exec, Session
<1>9. execs' = others \cup {x}
  BY <1>1
<1>. HIDE DEF x
<1>10. Consistent /\ ~Isolated(s) => id \notin apart'
  <2>1. CASE session = 0
    BY <1>1, <1>2, <2>1 DEF SessionInv
  <2>2. CASE session # 0
    BY <1>1, <2>2 DEF Askable
  <2>. QED
    BY <2>1, <2>2
<1>11. ASSUME NEW u \in x.by PROVE Private(u) /\ id = remembered'[u]
  <2>1. u \in by /\ Private(u) /\ Isolated(u) /\ u \in Streams
    BY <1>2, <1>8, <1>11 DEF Private
  <2>2. session = remembered[u]
    BY <2>1 DEF Askable
  <2>. QED
    BY <1>1, <2>1, <2>2
<1>12. \A z \in execs' : /\ z \in Exec /\ z.session \in 1..sessions'
                         /\ Consistent /\ ~Isolated(z.on) => z.session \notin apart'
                         /\ \A u \in z.by : Private(u) /\ z.session = remembered'[u]
  BY <1>3, <1>7, <1>8, <1>9, <1>10, <1>11
<1>13. SessionInv'
  BY <1>3, <1>4, <1>5, <1>12 DEF SessionInv, Private
<1>. QED
  BY <1>2, <1>3, <1>4, <1>5, <1>13

LEMMA SelfAlike == ASSUME SessionInv PROVE \A x \in execs : Alike(x, x)
BY DEF SessionInv, Alike

LEMMA CancelledAlike ==
  ASSUME SessionInv, NEW x \in execs, NEW b \in BOOLEAN
  PROVE  Alike([x EXCEPT !.cancelled = b], x) /\ Alike([x EXCEPT !.tracked = b], x)
<1>1. x \in Exec
  BY DEF SessionInv
<1>. QED
  BY <1>1 DEF Alike, Exec

\* stream.execute(), however far it comes.
LEMMA ExecuteKeeps ==
  ASSUME SessionInv, StartInv, NEW by, NEW s, NEW session, Askable(by, s, session),
         \A u \in by : Trig(u) = "timer" => ~Busy(u),
         Execute(by, s, session)
  PROVE  SessionInv' /\ StartInv'
<1>1. CASE UNCHANGED <<execs, starts, sessions, remembered, apart>>
  BY <1>1 DEF SessionInv, StartInv, Askable, Private
<1>2. CASE Begin(by, s, session, execs) /\ UNCHANGED starts
  <2>1. /\ SessionInv' /\ sessions \in Nat /\ sessions' \in Nat /\ sessions <= sessions'
        /\ \A k \in 0..sessions : k \in apart' => k \in apart
        /\ \A u \in Streams \ by : remembered'[u] = remembered[u]
    BY <1>2, SelfAlike, BeginKeeps
  <2>2. ASSUME NEW x \in starts PROVE Askable(x.by, x.on, x.session)'
    <3>1. Askable(x.by, x.on, x.session) /\ x.by \subseteq Streams
      BY DEF StartInv, Start
    <3>2. \A u \in x.by : Private(u) => u \notin by
      BY DEF Busy, Private
    <3>3. \A u \in x.by : Private(u) => remembered'[u] = remembered[u]
      BY <2>1, <3>1, <3>2
    <3>. QED
      BY <2>1, <3>1, <3>3, AskableStays
  <2>. QED
    BY <1>2, <2>1, <2>2 DEF StartInv
<1>3. CASE /\ execs' = {[x EXCEPT !.cancelled = x.cancelled \/ x \in ActiveOn(s)] : x \in execs}
           /\ starts' = starts \cup {[by |-> by, on |-> s, session |-> session]}
           /\ UNCHANGED <<sessions, remembered, apart>>
  <2>1. \A x \in execs' : \E y \in execs : Alike(x, y)
    <3>1. \A y \in execs : (y.cancelled \/ y \in ActiveOn(s)) \in BOOLEAN
      BY DEF SessionInv, Exec
    <3>. QED
      BY <1>3, <3>1, CancelledAlike
  <2>2. SessionInv'
    BY <1>3, <2>1, AlikeKeeps
  <2>. DEFINE z == [by |-> by, on |-> s, session |-> session]
  <2>0. by \subseteq Streams /\ s \in Streams /\ session \in Session
    BY RuntimeAssumption DEF Askable, SessionInv, Session
  <2>3. z.by = by /\ z.on = s /\ z.session = session /\ z \in Start
    BY <2>0 DEF Start
  <2>4. starts' = starts \cup {z}
    BY <1>3
  <2>. HIDE DEF z
  <2>5. ASSUME NEW x \in starts' PROVE x \in Start /\ Askable(x.by, x.on, x.session)'
    <3>1. x \in Start /\ Askable(x.by, x.on, x.session)
      BY <2>3, <2>4, <2>5 DEF StartInv
    <3>. QED
      BY <1>3, <3>1 DEF Askable, Private
  <2>6. ASSUME NEW x \in starts', NEW y \in starts', NEW u \in x.by \cap y.by, Trig(u) = "timer"
        PROVE  x = y
    <3>1. CASE x \in starts /\ y \in starts
      BY <2>6, <3>1 DEF StartInv
    <3>2. CASE x = z /\ y \in starts
      BY <2>3, <2>6, <3>2 DEF Busy
    <3>3. CASE y = z /\ x \in starts
      BY <2>3, <2>6, <3>3 DEF Busy
    <3>. QED
      BY <2>4, <3>1, <3>2, <3>3
  <2>. QED
    BY <2>2, <2>5, <2>6 DEF StartInv
<1>. QED
  BY <1>1, <1>2, <1>3 DEF Execute

\* The session of a shared execution, or none, suits any stream.
LEMMA SharedSession ==
  ASSUME SessionInv, NEW ep, NEW p \in PrimarySession(ep), NEW s \in Streams
  PROVE  Askable({}, s, p)
<1>1. sessions \in Nat /\ apart \subseteq 1..sessions
  BY RuntimeAssumption DEF SessionInv, Session
<1>2. CASE p = 0
  BY <1>1, <1>2 DEF Askable
<1>3. CASE \E y \in execs : ~Isolated(y.on) /\ p = y.session
  BY <1>1, <1>3 DEF Askable, SessionInv
<1>. QED
  BY <1>2, <1>3 DEF PrimarySession

\* A timer or handler asks for the session it remembers, or for a shared one.
LEMMA OwnSession ==
  ASSUME SessionInv, NEW s \in Streams, NEW t \in Streams, t.ep = s.ep,
         NEW p \in SessionsFor(s)
  PROVE  Askable({s}, t, p)
<1>1. sessions \in Nat /\ remembered[s] \in 0..sessions
  BY RuntimeAssumption DEF SessionInv, Session
<1>2. CASE Isolated(s)
  <2>1. p = remembered[s] /\ (Consistent => Isolated(t))
    BY <1>2 DEF SessionsFor, Consistent
  <2>. QED
    BY <1>1, <2>1 DEF Askable
<1>3. CASE ~Isolated(s)
  <2>1. Askable({}, t, p)
    BY <1>3, SharedSession DEF SessionsFor
  <2>. QED
    BY <1>3, <2>1 DEF Askable, Private
<1>. QED
  BY <1>2, <1>3

\* The streams that are aimed at have the name of the one that aims.
LEMMA ResolveFacts == ASSUME GraphInv, NEW ep, NEW s \in Resolve(ep) PROVE s \in Streams /\ s.ep = ep
BY MembersOf DEF Resolve, GraphInv, GraphTypes

LEMMA AimFacts == ASSUME GraphInv, NEW s \in Streams, NEW t \in Aim(s) PROVE t \in Streams /\ t.ep = s.ep
BY ResolveFacts, MembersOf DEF Aim

\* The steps of start, add, remove and stop begin no execution: they cancel some, let
\* go of some, and cancel timers together with what these wait for.
Cancels ==
  /\ UNCHANGED <<remembered, events, sessions, published, apart>>
  /\ starts' \subseteq starts
  /\ \A x \in execs' : \E y \in execs : Alike(x, y)
  /\ \A u \in subs' : u \in subs \/ Trig(u) = "event"
  /\ \A u \in timers' : u \in timers \/ Trig(u) = "timer"

LEMMA CancelsKeeps ==
  ASSUME SessionInv, StartInv, KindInv, Cancels
  PROVE  SessionInv' /\ StartInv' /\ KindInv'
<1>1. SessionInv'
  BY AlikeKeeps DEF Cancels
<1>2. StartInv'
  BY DEF Cancels, StartInv, Askable, Private
<1>3. KindInv'
  BY DEF Cancels, KindInv
<1>. QED
  BY <1>1, <1>2, <1>3

LEMMA SameExecs ==
  ASSUME SessionInv, UNCHANGED execVars,
         \A u \in subs' : u \in subs \/ Trig(u) = "event",
         \A u \in timers' : u \in timers \/ Trig(u) = "timer"
  PROVE  Cancels
BY SelfAlike DEF Cancels, execVars

LEMMA DetachCancels ==
  ASSUME SessionInv, NEW g, Detach(g),
         UNCHANGED <<remembered, events, execs, sessions, published, apart>>
  PROVE  Cancels
BY SelfAlike DEF Cancels, Detach, CancelTimers

LEMMA CallStepCancels == ASSUME SessionInv, NEW c \in calls, CallStep(c) PROVE Cancels
<1>1. CASE Acquire(c) \/ StreamStarted(c) \/ TornDown(c) \/ Forget(c) \/ Stopped(c)
  <2>1. UNCHANGED execVars /\ UNCHANGED <<subs, timers>>
    BY <1>1 DEF Acquire, StreamStarted, TornDown, Forget, Stopped
  <2>. QED
    BY <2>1, SameExecs
<1>2. CASE Register(c)
  <2>1. /\ UNCHANGED execVars /\ \A u \in subs' : u \in subs \/ Trig(u) = "event"
        /\ \A u \in timers' : u \in timers \/ Trig(u) = "timer"
    BY <1>2 DEF Register
  <2>. QED
    BY <2>1, SameExecs
<1>3. CASE StreamStopped(c)
  <2>1. /\ execs' = {[x EXCEPT !.tracked = x.tracked /\ x.on \notin c.cur] :
                       x \in {y \in execs : ~(y.cancelled /\ y.on \in c.cur)}}
        /\ UNCHANGED <<subs, timers, remembered, events, starts, sessions, published, apart>>
    BY <1>3 DEF StreamStopped
  <2>2. \A y \in execs : (y.tracked /\ y.on \notin c.cur) \in BOOLEAN
    BY DEF SessionInv, Exec
  <2>3. \A x \in execs' : \E y \in execs : Alike(x, y)
    BY <2>1, <2>2, CancelledAlike
  <2>. QED
    BY <2>1, <2>3 DEF Cancels
<1>4. CASE StopPrimary(c)
  BY <1>4, SelfAlike DEF StopPrimary, Cancels, CancelTimers
<1>5. ASSUME NEW s \in c.todo, StartStream(c, s) PROVE Cancels
  <2>1. UNCHANGED execVars /\ UNCHANGED <<subs, timers>>
    BY <1>5 DEF StartStream
  <2>. QED
    BY <2>1, SameExecs
<1>6. ASSUME NEW s \in c.todo, StopStream(c, s) PROVE Cancels
  <2>1. /\ execs' = IF s \in up THEN {[x EXCEPT !.cancelled = x.cancelled \/ x \in ActiveOn(s)] : x \in execs}
                    ELSE execs
        /\ UNCHANGED <<subs, timers, remembered, events, starts, sessions, published, apart>>
    BY <1>6 DEF StopStream
  <2>2. \A y \in execs : (y.cancelled \/ y \in ActiveOn(s)) \in BOOLEAN
    BY DEF SessionInv, Exec
  <2>3. \A x \in execs' : \E y \in execs : Alike(x, y)
    BY <2>1, <2>2, CancelledAlike, SelfAlike
  <2>. QED
    BY <2>1, <2>3 DEF Cancels
<1>7. ASSUME NEW g \in c.gids, StopNext(c, g) PROVE Cancels
  BY <1>7, DetachCancels DEF StopNext
<1>8. CASE BreaksOff(c)
  <2>1. /\ UNCHANGED execVars /\ \A u \in subs' : u \in subs \/ Trig(u) = "event"
        /\ \A u \in timers' : u \in timers \/ Trig(u) = "timer"
    BY <1>8, BreaksOffFacts
  <2>. QED
    BY <2>1, SameExecs
<1>. QED
  BY <1>1, <1>2, <1>3, <1>4, <1>5, <1>6, <1>7, <1>8, FirstOf DEF CallStep

LEMMA CallersCancel ==
  ASSUME SessionInv, NEW g, CallStart \/ CallStop \/ CallAdd(g) \/ CallRemove(g) \/ SetActive(g)
  PROVE  Cancels
<1>1. CASE CallRemove(g)
  <2>1. starts' \subseteq starts /\ timers' \subseteq timers /\ subs' \subseteq subs
        /\ UNCHANGED <<remembered, events, execs, sessions, published, apart>>
    BY <1>1 DEF CallRemove, Detach, CancelTimers
  <2>. QED
    BY <2>1, SelfAlike DEF Cancels
<1>2. CASE CallStart \/ CallStop \/ CallAdd(g) \/ SetActive(g)
  <2>1. UNCHANGED execVars /\ UNCHANGED <<subs, timers>>
    BY <1>2 DEF CallStart, CallStop, CallAdd, SetActive
  <2>. QED
    BY <2>1, SameExecs
<1>. QED
  BY <1>1, <1>2

LEMMA ElsewhereKeeps ==
  ASSUME GraphInv, SessionInv, StartInv, KindInv, Elsewhere
  PROVE  SessionInv' /\ StartInv' /\ KindInv'
<1>1. ASSUME UNCHANGED <<subs, timers, events, published>> PROVE KindInv'
  BY <1>1 DEF KindInv
<1>2. UNCHANGED <<subs, timers>>
  BY ElsewhereQuiet DEF graphVars
<1>3. ASSUME NEW ep, Trigger(ep) PROVE SessionInv' /\ StartInv' /\ KindInv'
  <2>1. PICK s \in Resolve(ep) : Execute({}, s, 0)
    BY <1>3 DEF Trigger
  <2>2. s \in Streams /\ 0 \in PrimarySession(ep)
    BY <2>1, ResolveFacts DEF PrimarySession
  <2>3. SessionInv' /\ StartInv'
    BY <2>1, <2>2, SharedSession, ExecuteKeeps
  <2>. QED
    BY <1>1, <1>2, <1>3, <2>3 DEF Trigger
<1>4. ASSUME NEW g, NEW ep, StartAgent(g, ep) PROVE SessionInv' /\ StartInv' /\ KindInv'
  <2>1. PICK s \in StreamsOf(g, graphs[g]), p \in PrimarySession(ep) : Execute({}, s, p)
    BY <1>4 DEF StartAgent
  <2>2. SessionInv' /\ StartInv'
    BY <2>1, MembersOf, SharedSession, ExecuteKeeps
  <2>. QED
    BY <1>1, <1>2, <1>4, <2>2 DEF StartAgent
<1>5. ASSUME NEW s \in Streams, Handle(s) PROVE SessionInv' /\ StartInv' /\ KindInv'
  <2>1. s \in events /\ Trig(s) = "event" /\ events' = events \ {s} /\ published' = published
    BY <1>5 DEF Handle, KindInv
  <2>2. KindInv'
    BY <1>2, <2>1 DEF KindInv
  <2>3. CASE UNCHANGED <<remembered, starts, execs, sessions, apart>>
    <3>1. SessionInv' /\ StartInv'
      BY <2>3 DEF SessionInv, StartInv, Askable, Private
    <3>. QED
      BY <2>2, <3>1
  <2>4. CASE \E t \in Aim(s), p \in SessionsFor(s) : Execute({s}, t, p)
    <3>1. PICK t \in Aim(s), p \in SessionsFor(s) : Execute({s}, t, p)
      BY <2>4
    <3>2. Askable({s}, t, p)
      BY <3>1, AimFacts, OwnSession
    <3>3. \A u \in {s} : Trig(u) = "timer" => ~Busy(u)
      BY <2>1
    <3>. QED
      BY <2>2, <3>1, <3>2, <3>3, ExecuteKeeps
  <2>. QED
    BY <1>5, <2>3, <2>4 DEF Handle
<1>6. ASSUME NEW s \in Streams, Tick(s) PROVE SessionInv' /\ StartInv' /\ KindInv'
  <2>1. PICK t \in Aim(s), p \in SessionsFor(s) : Execute({s}, t, p)
    BY <1>6 DEF Tick
  <2>2. Askable({s}, t, p) /\ ~Busy(s)
    BY <1>6, <2>1, AimFacts, OwnSession DEF Tick
  <2>3. SessionInv' /\ StartInv'
    BY <2>1, <2>2, ExecuteKeeps
  <2>. QED
    BY <1>1, <1>2, <1>6, <2>3 DEF Tick
<1>7. ASSUME Publish PROVE SessionInv' /\ StartInv' /\ KindInv'
  <2>1. SessionInv' /\ StartInv'
    BY <1>7 DEF Publish, SessionInv, StartInv, Askable, Private
  <2>2. published' \in 0..MaxEvents
    BY <1>7, RuntimeAssumption DEF Publish, KindInv
  <2>3. events' = events \cup subs /\ UNCHANGED <<subs, timers>>
    BY <1>2, <1>7 DEF Publish
  <2>4. subs \subseteq Streams
    BY DEF GraphInv, GraphTypes
  <2>. QED
    BY <2>1, <2>2, <2>3, <2>4 DEF KindInv
<1>8. ASSUME Resume PROVE SessionInv' /\ StartInv' /\ KindInv'
  <2>1. PICK z \in starts : Begin(z.by, z.on, z.session, execs) /\ starts' = starts \ {z}
    BY <1>8 DEF Resume
  <2>2. Askable(z.by, z.on, z.session)
    BY DEF StartInv
  <2>3. /\ SessionInv' /\ sessions \in Nat /\ sessions' \in Nat /\ sessions <= sessions'
        /\ \A k \in 0..sessions : k \in apart' => k \in apart
        /\ \A u \in Streams \ z.by : remembered'[u] = remembered[u]
    BY <2>1, <2>2, SelfAlike, BeginKeeps
  <2>4. ASSUME NEW x \in starts' PROVE Askable(x.by, x.on, x.session)'
    <3>1. Askable(x.by, x.on, x.session) /\ x.by \subseteq Streams /\ x \in starts /\ x # z
      BY <2>1, <2>4 DEF StartInv, Start
    <3>2. \A u \in x.by : Private(u) => u \notin z.by
      BY <2>1, <3>1 DEF StartInv, Private
    <3>3. \A u \in x.by : Private(u) => remembered'[u] = remembered[u]
      BY <2>3, <3>1, <3>2
    <3>. QED
      BY <2>3, <3>1, <3>3, AskableStays
  <2>5. StartInv'
    BY <2>1, <2>4 DEF StartInv
  <2>. QED
    BY <1>1, <1>2, <1>8, <2>3, <2>5 DEF Resume
<1>9. ASSUME End PROVE SessionInv' /\ StartInv' /\ KindInv'
  <2>1. execs' \subseteq execs /\ UNCHANGED <<remembered, events, starts, sessions, published, apart>>
    BY <1>9 DEF End
  <2>2. Cancels
    BY <1>2, <2>1, SelfAlike DEF Cancels
  <2>. QED
    BY <2>2, CancelsKeeps
<1>. QED
  BY <1>3, <1>4, <1>5, <1>6, <1>7, <1>8, <1>9 DEF Elsewhere

LEMMA StepSession ==
  ASSUME GraphInv, SessionInv, StartInv, KindInv, [Next]_vars
  PROVE  SessionInv' /\ StartInv' /\ KindInv'
<1>1. CASE UNCHANGED vars
  <2>1. UNCHANGED execVars /\ UNCHANGED <<subs, timers>>
    BY <1>1 DEF vars, graphVars
  <2>. QED
    BY <2>1, SameExecs, CancelsKeeps
<1>2. ASSUME NEW s \in Streams, TimerEnds(s) PROVE Cancels
  <2>1. UNCHANGED execVars /\ subs' = subs /\ timers' \subseteq timers
    BY <1>2 DEF TimerEnds
  <2>. QED
    BY <2>1, SameExecs
<1>. QED
  BY <1>1, <1>2, CallersCancel, CallStepCancels, CancelsKeeps, ElsewhereKeeps DEF Next, Elsewhere

LEMMA InitSession == Init => SessionInv /\ StartInv /\ KindInv
<1>. SUFFICES ASSUME Init PROVE SessionInv /\ StartInv /\ KindInv
  OBVIOUS
<1>1. sessions = 0 /\ apart = {} /\ execs = {} /\ remembered = [s \in Streams |-> 0]
  BY DEF Init
<1>2. SessionInv
  BY <1>1, RuntimeAssumption DEF SessionInv, Session
<1>3. StartInv
  BY DEF Init, StartInv
<1>4. KindInv
  BY RuntimeAssumption DEF Init, KindInv
<1>. QED
  BY <1>2, <1>3, <1>4

\* Every reachable state is well typed; the runtime's lock is held just while a call of
\* start() or stop() is past it.
THEOREM TypeCorrect == Spec => []TypeOK
<1>1. Init => GraphInv /\ SessionInv /\ StartInv /\ KindInv /\ LossInv
  BY InitGraph, InitSession, InitLoss
<1>2. GraphInv /\ SessionInv /\ StartInv /\ KindInv /\ LossInv /\ [Next]_vars
      => (GraphInv /\ SessionInv /\ StartInv /\ KindInv /\ LossInv)'
  BY StepGraph, StepSession, StepLoss
<1>3. ASSUME GraphInv, SessionInv, StartInv, KindInv, LossInv PROVE TypeOK
  <2>1. remembered \in [Streams -> Session] /\ apart \subseteq 1..MaxSessions
    BY <1>3, RuntimeAssumption DEF SessionInv, Session
  <2>2. locked = \E c \in calls : c.op \in {"start", "stop"} /\ c.at # "lock"
    BY <1>3 DEF GraphInv, LockInv, Holds
  <2>. QED
    BY <1>3, <2>1, <2>2 DEF GraphInv, GraphTypes, SessionInv, StartInv, KindInv, LossInv, TypeOK
<1>. QED
  BY <1>1, <1>2, <1>3, PTL DEF Spec

\* If entry points of one name are isolated in every graph or in none, a session that was
\* begun on an isolated stream is never joined from a shared one, and an isolated timer
\* stays in its own, whatever is triggered, added, removed, cancelled or replaced
\* meanwhile, also by callers that overlap.
THEOREM PrivateStaysPrivate == ASSUME Consistent PROVE Spec => []SessionsApart
<1>1. Init => GraphInv /\ SessionInv /\ StartInv /\ KindInv
  BY InitGraph, InitSession
<1>2. GraphInv /\ SessionInv /\ StartInv /\ KindInv /\ [Next]_vars
      => (GraphInv /\ SessionInv /\ StartInv /\ KindInv)'
  BY StepGraph, StepSession
<1>3. SessionInv => SessionsApart
  BY DEF SessionInv, SessionsApart, IsolatedApart, OneSessionPerTimer
<1>. QED
  BY <1>1, <1>2, <1>3, PTL DEF Spec
=============================================================================
