------------------------------ MODULE EventBus ------------------------------
(***************************************************************************)
(* The event bus of a session (core/framework/runtime/event_bus.py) with   *)
(* three of its subscribers: a browser that connects to the event stream   *)
(* (core/framework/server/routes_events.py), the queen's _on_worker_done(),*)
(* which publishes again from within its handler, and the handler of an    *)
(* event entry point, which takes its time.                                *)
(*                                                                         *)
(* publish() does not suspend before it has made one task per handler; its *)
(* lock is never held across an await.  The tasks wait for a slot of an    *)
(* asyncio.Semaphore, which is fair; on_event() does not suspend, so it is *)
(* one step with the acquisition and the release of its slot.              *)
(***************************************************************************)
EXTENDS Integers, Sequences, FiniteSets

CONSTANTS
  Publishers,   \* tasks that publish, one event at a time
  Slots,        \* max_concurrent_handlers
  QueueMax,     \* maxsize of the client's queue
  HistoryMax,   \* _max_history
  MaxEvents     \* bound: events ever published

\* A handler that publishes keeps its slot meanwhile, and a publisher can have one of
\* them at work: with as many slots as publishers nothing might go on (10 slots in the
\* code).
ASSUME BusAssumption ==
  /\ {QueueMax, HistoryMax, Slots, MaxEvents} \subseteq Nat \ {0}
  /\ IsFiniteSet(Publishers) /\ Slots > Cardinality(Publishers)

\* Events, by what becomes of them: CLIENT_OUTPUT_DELTA, EXECUTION_STARTED,
\* EXECUTION_COMPLETED and QUEEN_PHASE_CHANGED.
Kinds    == {"delta", "started", "completed", "phase"}
Critical == Kinds \ {"delta"}            \* _CRITICAL_EVENTS
Replayed == {"delta", "started"}         \* _REPLAY_TYPES
Events   == 1..MaxEvents                 \* in the order of publication

VARIABLES
  history,   \* kinds of the events published; _event_history is the end of it
  parent,    \* event -> the event whose handler publishes it, or 0
  cur,       \* publisher -> the event it is publishing, or 0
  tasks,     \* handler tasks that have not ended
  permits,   \* free slots
  returned,  \* history: events whose publish() has returned
  client,    \* the client's handle_events()
  queue,     \* the client's queue
  sent,      \* live events that have been sent to the client
  full,      \* client_disconnected is set
  since      \* history: events published before the client subscribed

busVars    == <<history, parent, cur, tasks, permits, returned>>
clientVars == <<client, queue, sent, full, since>>
vars == <<busVars, clientVars>>

Handlers == {"client", "queen", "entry"}
Task  == [ev : Events, h : Handlers, st : {"queued", "busy", "publishing"}]
Entry == [ev : Events, live : BOOLEAN]
Holding == {t \in tasks : t.st # "queued"}

\* Besides the types: a slot is free or some handler holds it.
TypeOK ==
  /\ history \in Seq(Kinds) /\ Len(history) <= MaxEvents
  /\ parent \in Seq(0..MaxEvents) /\ Len(parent) = Len(history)
  /\ cur \in [Publishers -> 0..Len(history)]
  /\ tasks \subseteq Task
  /\ permits \in Nat /\ permits + Cardinality(Holding) = Slots
  /\ returned \subseteq 1..Len(history)
  /\ client \in {"off", "preparing", "open", "closed", "abandoned"}
  /\ queue \in Seq(Entry) /\ Len(queue) <= QueueMax
  /\ sent \subseteq Events
  /\ full \in BOOLEAN /\ since \in 0..MaxEvents

Init ==
  /\ history = <<>> /\ parent = <<>>
  /\ cur = [p \in Publishers |-> 0]
  /\ tasks = {} /\ permits = Slots /\ returned = {}
  /\ client = "off" /\ queue = <<>> /\ sent = {} /\ full = FALSE /\ since = 0

----------------------------------------------------------------------------
(* Publishing.                                                             *)

Subscribed == client \in {"preparing", "open", "abandoned"}

Matching(kind) ==
  (IF Subscribed THEN {"client"} ELSE {}) \cup (IF kind = "completed" THEN {"queen", "entry"} ELSE {})

NewTasks(kind) == {[ev |-> Len(history) + 1, h |-> h, st |-> "queued"] : h \in Matching(kind)}

\* publish() up to the gather(); the publisher awaits it.
Record(kind, by) ==
  /\ Len(history) < MaxEvents
  /\ history' = Append(history, kind) /\ parent' = Append(parent, by)

Publish(p, kind) ==
  /\ cur[p] = 0
  /\ Record(kind, 0)
  /\ cur' = [cur EXCEPT ![p] = Len(history')]
  /\ tasks' = tasks \cup NewTasks(kind)
  /\ UNCHANGED <<permits, returned, clientVars>>

Over(e) == \A t \in tasks : t.ev # e

PublishDone(p) ==
  /\ cur[p] # 0 /\ Over(cur[p])
  /\ cur' = [cur EXCEPT ![p] = 0]
  /\ returned' = returned \cup {cur[p]}
  /\ UNCHANGED <<history, parent, tasks, permits, clientVars>>

\* The publishing task is cancelled, by anyone, a handler included: gather() cancels
\* the handlers, and with them what they are publishing.
Under(e) == {t \in tasks : t.ev = e \/ parent[t.ev] = e}

\* Faulty variant: a handler that is cancelled does not give its slot back.
PublisherCancelledLeaks(p) ==
  /\ cur[p] # 0
  /\ cur' = [cur EXCEPT ![p] = 0]
  /\ tasks' = tasks \ Under(cur[p])
  /\ UNCHANGED <<history, parent, permits, returned, clientVars>>

PublisherCancelled(p) ==
  /\ cur[p] # 0
  /\ cur' = [cur EXCEPT ![p] = 0]
  /\ tasks' = tasks \ Under(cur[p])
  /\ permits' = permits + Cardinality(Under(cur[p]) \cap Holding)
  /\ UNCHANGED <<history, parent, returned, clientVars>>

----------------------------------------------------------------------------
(* The handlers.                                                           *)

\* The semaphore: whoever has waited longest.  The handlers of one event may have
\* subscribed in any order.
First(t) ==
  /\ t.st = "queued" /\ permits > 0
  /\ \A u \in tasks : u.st = "queued" => u.ev >= t.ev

\* on_event().  Faulty variant: critical events are dropped as well.
OnEventDrops(e) ==
  /\ queue' = IF ~full /\ Len(queue) < QueueMax THEN Append(queue, [ev |-> e, live |-> TRUE]) ELSE queue
  /\ UNCHANGED full

OnEvent(e) ==
  IF ~full /\ Len(queue) < QueueMax
  THEN queue' = Append(queue, [ev |-> e, live |-> TRUE]) /\ UNCHANGED full
  ELSE full' = (full \/ history[e] \in Critical) /\ UNCHANGED queue

HandleClient(t) ==
  /\ First(t) /\ t.h = "client"
  /\ OnEvent(t.ev)
  /\ tasks' = tasks \ {t}
  /\ UNCHANGED <<history, parent, cur, permits, returned, client, sent, since>>

HandleEntry(t) ==
  /\ First(t) /\ t.h = "entry"
  /\ tasks' = (tasks \ {t}) \cup {[t EXCEPT !.st = "busy"]} /\ permits' = permits - 1
  /\ UNCHANGED <<history, parent, cur, returned, clientVars>>

\* Faulty variant: a handler that ends keeps its slot.
EntryDoneKeeps(t) ==
  /\ t.st = "busy"
  /\ tasks' = tasks \ {t}
  /\ UNCHANGED <<history, parent, cur, permits, returned, clientVars>>

EntryDone(t) ==
  /\ t.st = "busy"
  /\ tasks' = tasks \ {t} /\ permits' = permits + 1
  /\ UNCHANGED <<history, parent, cur, returned, clientVars>>

\* _on_worker_done() publishes the new phase if the phase is "running"; what it tells
\* the queen does not suspend.
IgnoreDone(t) ==
  /\ First(t) /\ t.h = "queen"
  /\ tasks' = tasks \ {t}
  /\ UNCHANGED <<history, parent, cur, permits, returned, clientVars>>

PublishPhase(t) ==
  /\ First(t) /\ t.h = "queen"
  /\ Record("phase", t.ev)
  /\ tasks' = (tasks \ {t}) \cup {[t EXCEPT !.st = "publishing"]} \cup NewTasks("phase")
  /\ permits' = permits - 1
  /\ UNCHANGED <<cur, returned, clientVars>>

PhasePublished(t) ==
  /\ t.st = "publishing"
  /\ \E e \in Events :
       /\ e <= Len(history) /\ parent[e] = t.ev /\ Over(e)
       /\ returned' = returned \cup {e}
  /\ tasks' = tasks \ {t} /\ permits' = permits + 1
  /\ UNCHANGED <<history, parent, cur, clientVars>>

----------------------------------------------------------------------------
(* The client.                                                             *)

\* handle_events() subscribes and awaits sse.prepare().
Connect ==
  /\ client = "off"
  /\ client' = "preparing" /\ since' = Len(history)
  /\ UNCHANGED <<queue, sent, full, busVars>>

\* The history is replayed, oldest first, as far as the queue has room; live events may
\* be in it already, and are replayed all the same.
Recent == {e \in 1..Len(history) : e > Len(history) - HistoryMax /\ history[e] \in Replayed}

InOrder(old) == \A i, j \in DOMAIN old : i < j => old[i] < old[j]

Replay(old) ==
  LET room == QueueMax - Len(queue)
      fit  == IF Len(old) < room THEN Len(old) ELSE room
  IN  queue \o [i \in 1..fit |-> [ev |-> old[i], live |-> FALSE]]

Prepared ==
  /\ client = "preparing"
  /\ client' = "open"
  /\ \E old \in [1..Cardinality(Recent) -> Recent] : InOrder(old) /\ queue' = Replay(old)
  /\ UNCHANGED <<sent, full, since, busVars>>

\* An error or a cancellation there is not caught: the subscription stays.
PrepareFails ==
  /\ client = "preparing"
  /\ client' = "abandoned"
  /\ UNCHANGED <<queue, sent, full, since, busVars>>

Send ==
  /\ client = "open" /\ ~full /\ queue # <<>>
  /\ queue' = Tail(queue)
  /\ sent' = sent \cup {x.ev : x \in {y \in {Head(queue)} : y.live}}
  /\ UNCHANGED <<client, full, since, busVars>>

\* The connection ends, or is given up because the queue is full.
Close ==
  /\ client = "open"
  /\ client' = "closed"
  /\ UNCHANGED <<queue, sent, full, since, busVars>>

----------------------------------------------------------------------------

HandlerStep(t) ==
  HandleClient(t) \/ HandleEntry(t) \/ EntryDone(t) \/ IgnoreDone(t) \/ PublishPhase(t) \/ PhasePublished(t)

Next ==
  \/ \E p \in Publishers :
       \/ \E kind \in {"delta", "started", "completed"} : Publish(p, kind)
       \/ PublishDone(p) \/ PublisherCancelled(p)
  \/ \E t \in tasks : HandlerStep(t)
  \/ Connect \/ Prepared \/ PrepareFails \/ Send \/ Close

\* A handler in a slot comes to its end, one that waits gets in when it may, and a
\* publisher goes on when its handlers are done.  Nothing is assumed of the client.
FairSpec ==
  /\ Init /\ [][Next]_vars
  /\ \A e \in Events : WF_vars(\E t \in tasks : t.ev = e /\ HandlerStep(t))
  /\ \A p \in Publishers : WF_vars(PublishDone(p))

----------------------------------------------------------------------------
(* Properties.                                                             *)

Live == {i \in DOMAIN queue : queue[i].live}

\* "Lifecycle events drive frontend state transitions and must never be lost": of the
\* events published since the client subscribed, those whose publish() has returned
\* are in its stream, unless it has been told to reconnect, and they are in the order
\* of their publication, however handlers nest, wait for slots and are cancelled.
CriticalDelivered ==
  /\ client \in {"preparing", "open"} /\ ~full =>
       \A e \in returned : e > since /\ history[e] \in Critical =>
         e \in sent \/ \E i \in Live : queue[i].ev = e
  /\ \A i \in Live : /\ \A e \in sent : e < queue[i].ev
                    /\ \A j \in Live : i < j => queue[i].ev < queue[j].ev

\* Every publish() returns (or is cancelled): handlers that publish, take their time,
\* or are cancelled with their publisher never use up the slots for good.
PublishReturns == \A p \in Publishers : cur[p] # 0 ~> cur[p] = 0
=============================================================================
