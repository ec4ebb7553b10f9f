---------------------------- MODULE AgentRuntime ----------------------------
(***************************************************************************)
(* AgentRuntime (core/framework/runtime/agent_runtime.py): the graphs of   *)
(* an agent, each with its streams, timers and event subscriptions; how    *)
(* they are started, added, removed and stopped while triggers, timers and *)
(* event handlers start executions.                                        *)
(*                                                                         *)
(* An action runs from one await to the next.  A load is one call of       *)
(* start() or add_graph(); it makes a stream for each entry point.  What   *)
(* happens inside a stream is module ExecutionStream: here an execution is *)
(* live until its task has ended, whenever that is, and tracked while its  *)
(* stream's dictionaries hold it; one that was cancelled and forgotten is  *)
(* dropped.  The calls overlap, and any of them may be broken off where it *)
(* stands, by an exception or a cancellation.  Left out: pause_timers(),   *)
(* for a tick may be passed over anyway; cancel_execution() and            *)
(* cancel_all_tasks(), for an execution may end anyway; the memory a       *)
(* shared execution is given.                                              *)
(***************************************************************************)
EXTENDS Integers, FiniteSets, FiniteSetsExt

CONSTANTS
  Primary, Secondaries,  \* graph ids
  Points,                \* graph id -> entry point -> [trigger, isolated]
  MaxCalls,              \* bound: calls of start(), stop(), add_ and remove_graph() at a time
  MaxLoads,              \* bound: calls of start() and add_graph()
  MaxSessions,           \* bound: sessions ever begun
  MaxLive,               \* bound: executions live or waited for at a time
  MaxEvents              \* bound: events published for the entry points

GraphIds == {Primary} \cup Secondaries

ASSUME RuntimeAssumption ==
  /\ Primary \notin Secondaries
  /\ \A g \in GraphIds : \A e \in DOMAIN Points[g] :
       /\ Points[g][e].trigger \in {"manual", "event", "timer"}
       /\ Points[g][e].isolated \in BOOLEAN
  /\ {MaxCalls, MaxLoads, MaxSessions, MaxLive, MaxEvents} \subseteq Nat

Loads == 1..MaxLoads
Streams == UNION {{[graph |-> g, load |-> l, ep |-> e] : e \in DOMAIN Points[g]} : g \in GraphIds, l \in Loads}
StreamsOf(g, l) == {s \in Streams : s.graph = g /\ s.load = l}
Trig(s)     == Points[s.graph][s.ep].trigger
Isolated(s) == Points[s.graph][s.ep].isolated

VARIABLES
  running,     \* _running
  active,      \* _active_graph_id
  graphs,      \* _graphs: graph id -> load it is registered with, or 0
  own,         \* _streams: the primary streams
  locked,      \* _lock is held
  up,          \* streams that are _running
  subs,        \* event entry points subscribed to the bus
  timers,      \* timer tasks
  remembered,  \* _persistent_session_id of a timer or handler, or 0
  calls,       \* calls of start(), add_graph(), remove_graph() and stop() under way
  events,      \* handler calls the bus has still to make
  starts,      \* calls of stream.execute() that wait for what they cancelled
  execs,       \* executions whose task has not ended
  loads, sessions, published, \* counters for the bounds
  apart,       \* history: sessions begun on an isolated stream
  unfinished,  \* history: loads whose start() or add_graph() was broken off
  halfway,     \* history: loads whose streams were being stopped by a call that was broken off
  displaced    \* history: loads another one was registered over, or stop() has forgotten

lossVars  == <<unfinished, halfway, displaced>>
graphVars == <<running, active, graphs, own, locked, up, subs, timers, calls, loads, lossVars>>
execVars  == <<remembered, events, starts, execs, sessions, published, apart>>
vars == <<graphVars, execVars>>

Session == 0..MaxSessions
\* "by" is the timer or handler that waits for execute(), or nothing for a caller;
\* of an execution it is the isolated timer it was started by.
Start   == [by : SUBSET Streams, on : Streams, session : Session]
Exec    == [by : SUBSET Streams, on : Streams, session : Session, cancelled : BOOLEAN, tracked : BOOLEAN]
\* A call: the streams it has still to start or stop, the one it is awaiting,
\* the secondary graphs it has still to tear down.
Call    == [op : {"start", "add", "remove", "stop"}, graph : GraphIds, load : 0..MaxLoads,
            at : {"lock", "streams", "primary", "storage"}, todo : SUBSET Streams, cur : SUBSET Streams,
            gids : SUBSET Secondaries]

TypeOK ==
  /\ running \in BOOLEAN /\ active \in GraphIds
  /\ graphs \in [GraphIds -> 0..MaxLoads]
  /\ own \subseteq {s \in Streams : s.graph = Primary}
  /\ locked = \E c \in calls : c.op \in {"start", "stop"} /\ c.at # "lock"
  /\ up \subseteq Streams /\ subs \subseteq Streams /\ timers \subseteq Streams
  /\ remembered \in [Streams -> Session]
  /\ \A c \in calls : c \in Call
  /\ events \subseteq Streams
  /\ \A x \in starts : x \in Start
  /\ \A x \in execs : x \in Exec
  /\ loads \in 0..MaxLoads /\ sessions \in Session /\ published \in 0..MaxEvents
  /\ apart \subseteq 1..MaxSessions
  /\ {unfinished, halfway, displaced} \subseteq SUBSET Loads

Init ==
  /\ running = FALSE /\ active = Primary /\ graphs = [g \in GraphIds |-> 0] /\ own = {}
  /\ locked = FALSE /\ up = {} /\ subs = {} /\ timers = {} /\ calls = {} /\ loads = 0
  /\ remembered = [s \in Streams |-> 0] /\ events = {} /\ starts = {} /\ execs = {}
  /\ sessions = 0 /\ published = 0 /\ apart = {}
  /\ unfinished = {} /\ halfway = {} /\ displaced = {}

----------------------------------------------------------------------------
(* Starting an execution.                                                  *)

Registered == UNION {StreamsOf(g, graphs[g]) : g \in GraphIds}

\* _resolve_stream(): the active graph first, then the primary one.
Resolve(ep) ==
  LET inActive == {s \in StreamsOf(active, graphs[active]) : active # Primary /\ s.ep = ep}
  IN IF inActive # {} THEN inActive ELSE {s \in own : s.ep = ep}

\* active_execution_ids of a stream
ActiveOn(s) == {x \in execs : x.on = s /\ x.tracked}

\* _get_primary_session_state(): a live session of another entry point that is not
\* isolated, or none (its state.json may hold nothing yet).  Faulty variant:
\* isolated streams are not skipped.
AnySession(ep) == {0} \cup {x.session : x \in {y \in execs : y.tracked /\ y.on \in Registered /\ y.on.ep # ep}}

PrimarySession(ep) ==
  {0} \cup {x.session : x \in {y \in execs : /\ y.tracked /\ y.on \in Registered
                                             /\ ~Isolated(y.on) /\ y.on.ep # ep}}

\* What a timer or a handler remembers when execute() has returned.  Faulty
\* variant: nothing.
RememberNothing(by, id) == remembered' = remembered

Remember(by, id) ==
  remembered' = [s \in Streams |-> IF s \in by /\ Isolated(s) /\ remembered[s] = 0 THEN id ELSE remembered[s]]

\* execute() registers the execution and its task.
Begin(by, s, session, others) ==
  LET id == IF session = 0 THEN sessions + 1 ELSE session
  IN /\ id \in 1..MaxSessions
     /\ sessions' = Max({sessions, id})
     /\ apart' = IF session = 0 /\ Isolated(s) THEN apart \cup {id} ELSE apart
     /\ execs' = others \cup {[by |-> {t \in by : Trig(t) = "timer" /\ Isolated(t)}, on |-> s, session |-> id,
                               cancelled |-> FALSE, tracked |-> TRUE]}
     /\ Remember(by, id)

\* stream.execute(): a stream that is not running refuses; one that has an
\* execution cancels it and waits for at most 5 s.
Execute(by, s, session) ==
  \/ s \notin up /\ UNCHANGED <<execs, starts, sessions, remembered, apart>>
  \/ /\ s \in up /\ ActiveOn(s) = {}
     /\ Cardinality(execs) + Cardinality(starts) < MaxLive
     /\ Begin(by, s, session, execs)
     /\ UNCHANGED starts
  \/ /\ s \in up /\ ActiveOn(s) # {}
     /\ Cardinality(execs) + Cardinality(starts) < MaxLive
     /\ execs' = {[x EXCEPT !.cancelled = x.cancelled \/ x \in ActiveOn(s)] : x \in execs}
     /\ starts' = starts \cup {[by |-> by, on |-> s, session |-> session]}
     /\ UNCHANGED <<sessions, remembered, apart>>

Resume ==
  /\ \E x \in starts :
       /\ Begin(x.by, x.on, x.session, execs)
       /\ starts' = starts \ {x}
  /\ UNCHANGED <<graphVars, events, published>>

\* An execution ends by itself, or some time after it was cancelled.
End ==
  /\ \E x \in execs : execs' = execs \ {x}
  /\ UNCHANGED <<graphVars, remembered, events, starts, sessions, published, apart>>

\* trigger() by the API: in the caller's own session.
Trigger(ep) ==
  /\ running
  /\ \E s \in Resolve(ep) : Execute({}, s, 0)
  /\ UNCHANGED <<graphVars, events, published>>

\* The tool start_agent.
StartAgent(g, ep) ==
  /\ \E s \in StreamsOf(g, graphs[g]), p \in PrimarySession(ep) :
       s.ep = ep /\ Execute({}, s, p)
  /\ UNCHANGED <<graphVars, events, published>>

\* An event every subscription matches; the handlers found are called later.
Publish ==
  /\ published < MaxEvents
  /\ published' = published + 1
  /\ events' = events \cup subs
  /\ UNCHANGED <<graphVars, remembered, starts, execs, sessions, apart>>

\* The stream a timer or handler of s starts an execution on: by name through
\* trigger() for the primary graph, in the registration for another one.
Aim(s) ==
  IF s.graph = Primary
  THEN IF running /\ (Trig(s) = "timer" \/ \E o \in own : o.ep = s.ep) THEN Resolve(s.ep) ELSE {}
  ELSE IF running THEN {t \in StreamsOf(s.graph, graphs[s.graph]) : t.ep = s.ep} ELSE {}

SessionsFor(s) == IF Isolated(s) THEN {remembered[s]} ELSE PrimarySession(s.ep)

\* _on_event()
Handle(s) ==
  /\ s \in events
  /\ events' = events \ {s}
  /\ \/ Aim(s) = {} /\ UNCHANGED <<remembered, starts, execs, sessions, apart>>
     \/ \E t \in Aim(s), p \in SessionsFor(s) : Execute({s}, t, p)
  /\ UNCHANGED <<graphVars, published>>

Busy(s) == \E x \in starts : s \in x.by

\* A tick passes over a shared entry point without a session to join, and may while
\* an execution is active.
Tick(s) ==
  /\ s \in timers /\ ~Busy(s)
  /\ \E t \in Aim(s), p \in SessionsFor(s) :
       /\ Isolated(s) \/ p # 0
       /\ Execute({s}, t, p)
  /\ UNCHANGED <<graphVars, events, published>>

\* A loop that was left behind ends when it finds the runtime stopped or its graph gone.
TimerEnds(s) ==
  /\ s \in timers /\ ~Busy(s)
  /\ ~running \/ (s.graph # Primary /\ graphs[s.graph] = 0)
  /\ timers' = timers \ {s}
  /\ UNCHANGED <<running, active, graphs, own, locked, up, subs, calls, loads, lossVars, execVars>>

----------------------------------------------------------------------------
(* Start, add, remove, stop.                                               *)

Room == Cardinality(calls) < MaxCalls
NewCall(op, g, l, at, todo, gids) ==
  [op |-> op, graph |-> g, load |-> l, at |-> at, todo |-> todo, cur |-> {}, gids |-> gids]
Replace(c, d) == calls' = (calls \ {c}) \cup {d}

CallStart ==
  /\ ~running /\ Room
  /\ loads < MaxLoads /\ loads' = loads + 1
  /\ calls' = calls \cup {NewCall("start", Primary, loads + 1, "lock", StreamsOf(Primary, loads + 1), {})}
  /\ UNCHANGED <<running, active, graphs, own, locked, up, subs, timers, lossVars, execVars>>

CallAdd(g) ==
  /\ graphs[g] = 0 /\ Room
  /\ loads < MaxLoads /\ loads' = loads + 1
  /\ calls' = calls \cup {NewCall("add", g, loads + 1, "streams", StreamsOf(g, loads + 1), {})}
  /\ UNCHANGED <<running, active, graphs, own, locked, up, subs, timers, lossVars, execVars>>

CallStop ==
  /\ running /\ Room
  /\ calls' = calls \cup {NewCall("stop", Primary, 0, "lock", {}, {})}
  /\ UNCHANGED <<running, active, graphs, own, locked, up, subs, timers, loads, lossVars, execVars>>

Acquire(c) ==
  /\ c.at = "lock" /\ ~locked
  /\ locked' = TRUE
  /\ Replace(c, [c EXCEPT !.at = "streams",
                          !.gids = IF c.op = "stop" THEN {g \in Secondaries : graphs[g] # 0} ELSE {}])
  /\ UNCHANGED <<running, active, graphs, own, up, subs, timers, loads, lossVars, execVars>>

\* A stream is made and, if the runtime runs or is started, started: it publishes
\* STREAM_STARTED, which suspends.
StartStream(c, s) ==
  /\ c.op \in {"start", "add"} /\ c.at = "streams" /\ c.cur = {} /\ s \in c.todo
  /\ up' = IF c.op = "start" \/ running THEN up \cup {s} ELSE up
  /\ Replace(c, [c EXCEPT !.todo = c.todo \ {s}, !.cur = {s}])
  /\ UNCHANGED <<running, active, graphs, own, locked, subs, timers, loads, lossVars, execVars>>

StreamStarted(c) ==
  /\ c.op \in {"start", "add"} /\ c.cur # {}
  /\ IF c.op = "start"
     THEN LET replaced == {s \in own : \E t \in c.cur : s.ep = t.ep}
          IN /\ own' = (own \ replaced) \cup c.cur
             /\ displaced' = displaced \cup {s.load : s \in replaced}
     ELSE UNCHANGED <<own, displaced>>
  /\ Replace(c, [c EXCEPT !.cur = {}])
  /\ UNCHANGED <<running, active, graphs, locked, up, subs, timers, loads, unfinished, halfway, execVars>>

\* Leaving "async with self._lock" at the end of start().  Faulty variant: without
\* leaving it.
KeepLock(c) == locked' = locked

LeaveLock(c) == locked' = (locked /\ c.op # "start")

\* Subscriptions, timers and the registration, without an await.
Register(c) ==
  /\ c.op \in {"start", "add"} /\ c.at = "streams" /\ c.todo = {} /\ c.cur = {}
  /\ LET new == StreamsOf(c.graph, c.load)
     IN /\ subs' = subs \cup {s \in new : Trig(s) = "event"}
        /\ timers' = timers \cup {s \in new : Trig(s) = "timer" /\ (c.op = "start" \/ running)}
  /\ graphs' = [graphs EXCEPT ![c.graph] = c.load]
  /\ displaced' = displaced \cup ({graphs[c.graph]} \ {0})
  /\ running' = (running \/ c.op = "start")
  /\ LeaveLock(c)
  /\ calls' = calls \ {c}
  /\ UNCHANGED <<active, own, up, loads, unfinished, halfway, execVars>>

\* Timers are cancelled, with the execute() they may be waiting in.
CancelTimers(gone) ==
  /\ timers' = timers \ gone
  /\ starts' = {x \in starts : \A s \in x.by : Trig(s) = "event" \/ s \notin gone}

\* _teardown_graph() up to its first await.  Faulty variant: the subscriptions
\* stay.
DetachSubscribed(g) ==
  /\ graphs' = [graphs EXCEPT ![g] = 0]
  /\ CancelTimers(StreamsOf(g, graphs[g]))
  /\ subs' = subs

Detach(g) ==
  /\ graphs' = [graphs EXCEPT ![g] = 0]
  /\ CancelTimers(StreamsOf(g, graphs[g]))
  /\ subs' = subs \ StreamsOf(g, graphs[g])

CallRemove(g) ==
  /\ graphs[g] # 0 /\ Room
  /\ Detach(g)
  /\ calls' = calls \cup {NewCall("remove", g, graphs[g], "streams", StreamsOf(g, graphs[g]), {})}
  /\ UNCHANGED <<running, active, own, locked, up, loads, lossVars, remembered, events, execs, sessions, published, apart>>

\* stream.stop() cancels the executions it knows and waits for at most 5 s.
StopStream(c, s) ==
  /\ c.op \in {"remove", "stop"} /\ c.cur = {} /\ s \in c.todo
  /\ up' = up \ {s}
  /\ execs' = IF s \in up THEN {[x EXCEPT !.cancelled = x.cancelled \/ x \in ActiveOn(s)] : x \in execs} ELSE execs
  /\ Replace(c, [c EXCEPT !.todo = c.todo \ {s}, !.cur = {t \in {s} : s \in up}])
  /\ UNCHANGED <<running, active, graphs, own, locked, subs, timers, loads, lossVars,
                 remembered, events, starts, sessions, published, apart>>

\* ... and forgets all of them.
StreamStopped(c) ==
  /\ c.op \in {"remove", "stop"} /\ c.cur # {}
  /\ execs' = {[x EXCEPT !.tracked = x.tracked /\ x.on \notin c.cur] :
                 x \in {y \in execs : ~(y.cancelled /\ y.on \in c.cur)}}
  /\ Replace(c, [c EXCEPT !.cur = {}])
  /\ UNCHANGED <<running, active, graphs, own, locked, up, subs, timers, loads, lossVars,
                 remembered, events, starts, sessions, published, apart>>

\* The end of _teardown_graph().
ResetFocus(g) == active' = IF active = g THEN Primary ELSE active

TornDown(c) ==
  /\ c.op = "remove" /\ c.todo = {} /\ c.cur = {}
  /\ ResetFocus(c.graph)
  /\ calls' = calls \ {c}
  /\ UNCHANGED <<running, graphs, own, locked, up, subs, timers, loads, lossVars, execVars>>

\* stop() has ended one graph, if any, and begins the next.
StopNext(c, g) ==
  /\ c.op = "stop" /\ c.at = "streams" /\ c.todo = {} /\ c.cur = {} /\ g \in c.gids
  /\ IF c.graph = Primary THEN UNCHANGED active ELSE ResetFocus(c.graph)
  /\ Detach(g)
  /\ Replace(c, [c EXCEPT !.graph = IF graphs[g] = 0 THEN Primary ELSE g, !.gids = c.gids \ {g},
                          !.todo = StreamsOf(g, graphs[g])])
  /\ UNCHANGED <<running, own, locked, up, loads, lossVars, remembered,
                 events, execs, sessions, published, apart>>

\* Then come the timers, the subscriptions and the streams of the primary graph.
StopPrimary(c) ==
  /\ c.op = "stop" /\ c.at = "streams" /\ c.todo = {} /\ c.cur = {} /\ c.gids = {}
  /\ IF c.graph = Primary THEN UNCHANGED active ELSE ResetFocus(c.graph)
  /\ CancelTimers({s \in timers : s.graph = Primary})
  /\ subs' = {s \in subs : s.graph # Primary}
  /\ Replace(c, [c EXCEPT !.at = "primary", !.graph = Primary, !.todo = own])
  /\ UNCHANGED <<running, graphs, own, locked, up, loads, lossVars, remembered,
                 events, execs, sessions, published, apart>>

\* What is registered is forgotten; a graph that was added meanwhile is, too.
Forget(c) ==
  /\ c.op = "stop" /\ c.at = "primary" /\ c.todo = {} /\ c.cur = {}
  /\ own' = {} /\ graphs' = [g \in GraphIds |-> 0]
  /\ displaced' = displaced \cup ({graphs[g] : g \in Secondaries} \ {0})
  /\ Replace(c, [c EXCEPT !.at = "storage"])
  /\ UNCHANGED <<running, active, locked, up, subs, timers, loads, unfinished, halfway, execVars>>

\* The storage has been stopped as well.
Stopped(c) ==
  /\ c.op = "stop" /\ c.at = "storage"
  /\ running' = FALSE /\ locked' = FALSE
  /\ calls' = calls \ {c}
  /\ UNCHANGED <<active, graphs, own, up, subs, timers, loads, lossVars, execVars>>

\* A call fails or is cancelled where it stands: a stream that does not start or stop,
\* a webhook server that finds its port in use, an event type that does not exist.  It
\* lets go of the lock, and undoes nothing.  With its streams started, start() or
\* add_graph() has got as far as some of its subscriptions, or to all and some timers.
BreaksOff(c) ==
  /\ calls' = calls \ {c}
  /\ locked' = (locked /\ ~(c.op \in {"start", "stop"} /\ c.at # "lock"))
  /\ IF c.op \in {"start", "add"}
     THEN /\ unfinished' = unfinished \cup {c.load}
          /\ halfway' = halfway
     ELSE /\ halfway' = halfway \cup {s.load : s \in {t \in c.todo \cup c.cur : t.graph # Primary}}
          /\ unfinished' = unfinished
  /\ IF c.op \in {"start", "add"} /\ c.at = "streams" /\ c.todo = {} /\ c.cur = {}
     THEN LET new == StreamsOf(c.graph, c.load)
              listeners == {s \in new : Trig(s) = "event"}
          IN \E l \in SUBSET listeners,
                k \in SUBSET {s \in new : Trig(s) = "timer" /\ (c.op = "start" \/ running)} :
               /\ k # {} => l = listeners
               /\ subs' = subs \cup l /\ timers' = timers \cup k
     ELSE UNCHANGED <<subs, timers>>
  /\ UNCHANGED <<running, active, graphs, own, up, loads, displaced, execVars>>

\* active_graph_id.setter
SetActive(g) ==
  /\ graphs[g] # 0 /\ active # g
  /\ active' = g
  /\ UNCHANGED <<running, graphs, own, locked, up, subs, timers, calls, loads, lossVars, execVars>>

----------------------------------------------------------------------------

EntryPoints == UNION {DOMAIN Points[g] : g \in GraphIds}

\* A dictionary's order is fixed.
First(S) == CHOOSE s \in S : TRUE

CallStep(c) ==
  \/ Acquire(c) \/ StreamStarted(c) \/ Register(c) \/ StreamStopped(c) \/ TornDown(c)
  \/ StopPrimary(c) \/ Forget(c) \/ Stopped(c) \/ BreaksOff(c)
  \/ c.todo # {} /\ (StartStream(c, First(c.todo)) \/ StopStream(c, First(c.todo)))
  \/ \E g \in c.gids : StopNext(c, g)

Next ==
  \/ CallStart \/ CallStop \/ (\E c \in calls : CallStep(c))
  \/ \E g \in Secondaries : CallAdd(g) \/ CallRemove(g)
  \/ \E g \in GraphIds : SetActive(g)
  \/ \E ep \in EntryPoints : Trigger(ep) \/ (\E g \in Secondaries : StartAgent(g, ep))
  \/ \E s \in Streams : Handle(s) \/ Tick(s) \/ TimerEnds(s)
  \/ Publish \/ Resume \/ End

Spec == Init /\ [][Next]_vars

----------------------------------------------------------------------------
(* Properties.                                                             *)

Handled(s) ==
  \/ graphs[s.graph] = s.load
  \/ \E c \in calls : c.load = s.load \/ s \in c.todo \cup c.cur

\* What runs, listens or ticks belongs to a registered graph or to a call that is
\* bringing it up or down: nothing else stays behind that no later call can reach
\* (remove_graph(), stop()), however calls overlap, fail and are cancelled, than
\* what belongs to a start() or add_graph() that was broken off, to a graph that
\* another one of its name was registered over or that was added while stop() was at
\* work, and the streams, but never a timer or subscription, of a graph whose
\* teardown was broken off.
Owned ==
  /\ \A s \in up \cup subs \cup timers : Handled(s) \/ s.load \in unfinished \cup displaced \cup halfway
  /\ \A s \in subs \cup timers : Handled(s) \/ s.load \in unfinished \cup displaced

\* A session begun on an isolated stream never becomes that of a shared one
\* (_get_primary_session_state(): isolated streams "must never be used as a shared
\* session").
IsolatedApart == \A x \in execs : ~Isolated(x.on) => x.session \notin apart

\* All ticks of an isolated timer run in one session, also when a tick replaces the
\* execution before it (_timer_loop(), _cron_loop()).
OneSessionPerTimer ==
  \A x \in execs : \A s \in x.by : x.session = remembered[s]

\* Which session an execution joins: never a private one, always its timer's.
SessionsApart == IsolatedApart /\ OneSessionPerTimer
=============================================================================
