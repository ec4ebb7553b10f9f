-------------------------- MODULE ExecutionStream --------------------------
(***************************************************************************)
(* The life of the executions of one stream                                *)
(* (core/framework/runtime/execution_stream.py).                           *)
(*                                                                         *)
(* Everything runs on one asyncio event loop: the code between two awaits  *)
(* is one step, so an action below runs from the await at which a task or  *)
(* a caller is suspended to its next await.  A task is one call of         *)
(* _run_execution; a session is an execution id.  Two tasks may carry the  *)
(* same id, because execute() reuses the id given as resume_session_id.    *)
(* A completion event is identified with the task it was created for.      *)
(* Left out: what state.json says (module GraphSession), of which only the *)
(* awaits of its writes are here; ctx.status, which only statistics read;  *)
(* the age limit of the results, which is off unless configured; and       *)
(* inject_input, which only hands a message to a node.                     *)
(***************************************************************************)
EXTENDS Integers, FiniteSets, Sequences

CONSTANTS
  Sessions,         \* execution ids (session directories)
  Tasks,            \* asyncio tasks; bounds the number of executions started
  Clients,          \* callers of the stream's public coroutines
  Starters,         \* the clients that call execute()
  Cancellers,       \* the clients that call cancel_execution()
  Waiters,          \* the clients that call wait_for_completion()
  Stoppers,         \* the clients that call stop()
  MaxConcurrent,    \* EntryPointSpec.max_concurrent
  MaxResurrections, \* EntryPointSpec.max_resurrections
  RetentionMax,     \* result_retention_max
  NoTask, NoSession

ASSUME StreamAssumption ==
  /\ IsFiniteSet(Tasks) /\ IsFiniteSet(Clients)
  /\ Starters \cup Cancellers \cup Waiters \cup Stoppers \subseteq Clients
  /\ MaxConcurrent \in Nat \ {0}
  /\ MaxResurrections \in Nat
  /\ RetentionMax \in Nat \ {0}
  /\ NoTask \notin Tasks /\ NoSession \notin Sessions

VARIABLES
  life,         \* _running: "new" before start(), "running", "stopped"
  active,       \* _active_executions: session -> task whose context it holds
  tasks,        \* _execution_tasks
  executors,    \* _active_executors
  events,       \* _completion_events
  fired,        \* the completion events that have been set
  reasons,      \* _cancel_reasons: session -> task the reason was stored for
  results,      \* _execution_results
  age,          \* position of a result from the newest end of the OrderedDict
  permits,      \* free slots of _semaphore
  memory,       \* sessions with execution-scoped state in the state manager
  pc,           \* the await a task is suspended at
  sess,         \* ctx.id of a task
  shared,       \* _is_shared_session of a task
  cancelled,    \* a cancellation was requested and is not yet delivered
  result,       \* the local variable "result" of a task
  resurrections,\* _resurrection_count
  cpc,          \* the coroutine a client is suspended in
  target,       \* the tasks a client waits for
  todo,         \* execute(): active ids it has still to cancel
  args,         \* execute(): resume_session_id, or NoSession
  emitted,      \* history: terminal events published for a task that has not ended
  unborn,       \* history: tasks cancelled before they entered their try block
  late,         \* history: tasks a caller had cancelled and gave up waiting for
  contested,    \* history: tasks whose id another live task has had at the same time
  unseen,       \* history: tasks registered since a call of execute() took its snapshot
  missed        \* history: for each task, those its call of execute() has not seen

streamVars == <<life, active, tasks, executors, events, fired, reasons>>
resultVars == <<results, age>>
taskVars   == <<pc, sess, shared, cancelled, result, resurrections>>
clientVars == <<cpc, target, todo, args>>
histVars   == <<emitted, unborn, late, contested, unseen, missed>>
overlapVars == <<contested, unseen, missed>>
vars == <<streamVars, resultVars, permits, memory, taskVars, clientVars, histVars>>

(***************************************************************************)
(* What executor.execute() may return, as far as _run_execution tells it   *)
(* apart: "hitl" is a success with paused_at (a pause node), "failed" can  *)
(* be retried (it has a session_state and no fatal pattern), "fatal"       *)
(* cannot.  The other two results are made by the stream itself.           *)
(***************************************************************************)
Outcomes  == {"completed", "hitl", "paused", "failed", "fatal"}
Results   == Outcomes \cup {"cancelled", "error"}
Success(r)  == r \in {"completed", "hitl"}
PausedAt(r) == r \in {"hitl", "paused"}

Terminal      == {"completed", "paused", "failed"}

\* The awaits inside the try block of _run_execution, in their order.
Body     == {"started", "init", "run", "resurrect", "cooldown", "finalWrite", "finalEmit"}
Handlers == {"cancelWrite", "cancelEmit", "errorWrite", "errorEmit"}
Locations == {"none", "queued", "semaphore", "done"} \cup Body \cup Handlers
Holding  == Body \cup Handlers      \* inside "async with self._semaphore"

TypeOK ==
  /\ life \in {"new", "running", "stopped"}
  /\ active \in [Sessions -> Tasks \cup {NoTask}]
  /\ tasks \in [Sessions -> Tasks \cup {NoTask}]
  /\ executors \in [Sessions -> Tasks \cup {NoTask}]
  /\ events \in [Sessions -> Tasks \cup {NoTask}]
  /\ fired \subseteq Tasks
  /\ reasons \in [Sessions -> Tasks \cup {NoTask}]
  /\ results \in [Sessions -> Results \cup {"none"}]
  /\ age \in [Sessions -> Nat]
  /\ permits \in Nat
  /\ memory \subseteq Sessions
  /\ pc \in [Tasks -> Locations]
  /\ sess \in [Tasks -> Sessions \cup {NoSession}]
  /\ shared \in [Tasks -> BOOLEAN]
  /\ cancelled \in [Tasks -> BOOLEAN]
  /\ result \in [Tasks -> Results \cup {"none"}]
  /\ resurrections \in [Tasks -> 0..MaxResurrections]
  /\ cpc \in [Clients -> {"idle", "execute", "cancel", "wait", "timedWait", "stop"}]
  /\ target \in [Clients -> SUBSET Tasks]
  /\ todo \in [Clients -> SUBSET Sessions]
  /\ args \in [Clients -> Sessions \cup {NoSession}]
  /\ emitted \in [Tasks -> Seq(Terminal)]
  /\ unborn \subseteq Tasks
  /\ late \subseteq Tasks /\ contested \subseteq Tasks
  /\ unseen \in [Clients -> SUBSET Tasks]
  /\ missed \in [Tasks -> SUBSET Tasks]

Init ==
  /\ life = "new"
  /\ active = [s \in Sessions |-> NoTask]
  /\ tasks = [s \in Sessions |-> NoTask]
  /\ executors = [s \in Sessions |-> NoTask]
  /\ events = [s \in Sessions |-> NoTask]
  /\ fired = {}
  /\ reasons = [s \in Sessions |-> NoTask]
  /\ results = [s \in Sessions |-> "none"]
  /\ age = [s \in Sessions |-> 0]
  /\ permits = MaxConcurrent
  /\ memory = {}
  /\ pc = [t \in Tasks |-> "none"]
  /\ sess = [t \in Tasks |-> NoSession]
  /\ shared = [t \in Tasks |-> FALSE]
  /\ cancelled = [t \in Tasks |-> FALSE]
  /\ result = [t \in Tasks |-> "none"]
  /\ resurrections = [t \in Tasks |-> 0]
  /\ cpc = [c \in Clients |-> "idle"]
  /\ target = [c \in Clients |-> {}]
  /\ todo = [c \in Clients |-> {}]
  /\ args = [c \in Clients |-> NoSession]
  /\ emitted = [t \in Tasks |-> <<>>]
  /\ unborn = {}
  /\ late = {} /\ contested = {}
  /\ unseen = [c \in Clients |-> {}]
  /\ missed = [t \in Tasks |-> {}]

-----------------------------------------------------------------------------
(***************************************************************************)
(* Helpers.                                                                *)
(***************************************************************************)
Live(t) == pc[t] \notin {"none", "done"}

\* cancel_execution() finds a task that is not done.
Cancellable(s) == tasks[s] # NoTask /\ Live(tasks[s])

\* Faulty variant: executions that wait for the semaphore are not seen.
IdsWithExecutors == {s \in Sessions : executors[s] # NoTask}

ActiveIds == {s \in Sessions : active[s] # NoTask}

\* Every id given to a task so far; a fresh session id is none of them.
UsedIds == {sess[t] : t \in {u \in Tasks : pc[u] # "none"}}

\* dict[id] = value and dict.pop(id, None).
Put(f, s, t) == [f EXCEPT ![s] = t]
Pop(f, s)    == [f EXCEPT ![s] = NoTask]

(***************************************************************************)
(* _record_execution_result and the pruning it ends with: the new result   *)
(* becomes the newest, and only the RetentionMax newest are kept.          *)
(***************************************************************************)
AgeAfter(s) ==
  [x \in Sessions |->
     IF x = s THEN 0
     ELSE IF results[x] # "none" /\ (results[s] = "none" \/ age[x] < age[s])
          THEN age[x] + 1
          ELSE age[x]]

Retained(s, x) == x = s \/ (results[x] # "none" /\ AgeAfter(s)[x] < RetentionMax)

Record(s, r) ==
  /\ results' = [x \in Sessions |-> IF ~Retained(s, x) THEN "none"
                                    ELSE IF x = s THEN r ELSE results[x]]
  /\ age' = [x \in Sessions |-> IF Retained(s, x) THEN AgeAfter(s)[x] ELSE 0]

Publish(t, e) == emitted' = [emitted EXCEPT ![t] = Append(@, e)]

-----------------------------------------------------------------------------
(***************************************************************************)
(* The callers.                                                            *)
(***************************************************************************)

\* start().  AgentRuntime drops a stopped stream and never starts it again.
Start ==
  /\ life = "new"
  /\ life' = "running"
  /\ UNCHANGED <<active, tasks, executors, events, fired, reasons, resultVars, permits,
                 memory, taskVars, clientVars, histVars>>

\* What the history remembers of the registration of t under s by c: who else has
\* the id, and which calls of execute() are on their way without knowing of it.
Overlap(c, t, s) ==
  LET rivals == {u \in Tasks : Live(u) /\ sess[u] = s} IN
  /\ contested' = contested \cup rivals \cup (IF rivals = {} THEN {} ELSE {t})
  /\ missed' = [missed EXCEPT ![t] = unseen[c]]
  /\ unseen' = [d \in Clients |-> IF d # c /\ cpc[d] = "execute" THEN unseen[d] \cup {t} ELSE {}]

\* The end of execute(): context, completion event and task are registered
\* under the id, whatever the id was registered for before.
Register(c, resume) ==
  \E t \in Tasks, s \in Sessions :
    /\ pc[t] = "none"
    /\ IF resume = NoSession THEN s \notin UsedIds ELSE s = resume
    /\ active' = Put(active, s, t)
    /\ events' = Put(events, s, t)
    /\ tasks' = Put(tasks, s, t)
    /\ pc' = [pc EXCEPT ![t] = "queued"]
    /\ sess' = [sess EXCEPT ![t] = s]
    /\ shared' = [shared EXCEPT ![t] = resume # NoSession]
    /\ cpc' = [cpc EXCEPT ![c] = "idle"]
    /\ target' = [target EXCEPT ![c] = {}]
    /\ todo' = [todo EXCEPT ![c] = {}]
    /\ args' = [args EXCEPT ![c] = NoSession]
    /\ UNCHANGED <<life, executors, fired, reasons, resultVars, permits, memory,
                   cancelled, result, resurrections, emitted, unborn>>
    /\ Overlap(c, t, s)

\* cancel_execution(s) up to its await: the reason is stored under the id,
\* the task is asked to stop, and the caller waits for that task.
CancelAndWait(c, s, op, rest, resume) ==
  /\ Cancellable(s)
  /\ reasons' = Put(reasons, s, tasks[s])
  /\ cancelled' = [cancelled EXCEPT ![tasks[s]] = TRUE]
  /\ cpc' = [cpc EXCEPT ![c] = op]
  /\ target' = [target EXCEPT ![c] = {tasks[s]}]
  /\ todo' = [todo EXCEPT ![c] = rest]
  /\ args' = [args EXCEPT ![c] = resume]
  /\ UNCHANGED <<life, active, tasks, executors, events, fired, resultVars, permits,
                 memory, pc, sess, shared, result, resurrections, emitted, unborn, overlapVars>>

\* execute() works through its snapshot of the active ids.  An id without a
\* live task costs no await; the next one with a live task is cancelled.
CancelNextOrRegister(c, ids, resume) ==
  \/ \E s \in ids : \E idle \in SUBSET {x \in ids : ~Cancellable(x)} :
       CancelAndWait(c, s, "execute", (ids \ {s}) \ idle, resume)
  \/ /\ \A s \in ids : ~Cancellable(s)
     /\ Register(c, resume)

\* Bound: no more executions are requested than there are tasks, and ids, left.
RoomForExecution(resume) ==
  LET pending == {c \in Clients : cpc[c] = "execute"}
      fresh   == {c \in pending : args[c] = NoSession}
      ids     == Sessions \ (UsedIds \cup {args[c] : c \in pending} \cup {resume})
  IN  /\ Cardinality(pending) < Cardinality({t \in Tasks : pc[t] = "none"})
      /\ Cardinality(fresh) + (IF resume = NoSession THEN 1 ELSE 0) <= Cardinality(ids)

Execute(c, resume) ==
  /\ c \in Starters /\ cpc[c] = "idle"
  /\ life = "running"
  /\ RoomForExecution(resume)
  /\ CancelNextOrRegister(c, ActiveIds, resume)
  /\ UNCHANGED late

\* Faulty variant: a wait without a timeout.
WaitedOut(c, op) == cpc[c] = op /\ \A t \in target[c] : ~Live(t)

\* asyncio.wait(..., timeout=5.0) returns when the tasks are done, or after 5 s
\* with tasks that still react to their cancellation: at any time.
WaitOver(c, op) == cpc[c] = op

\* The wait of c ends here; remember which of the tasks it waits for are still there.
Lateness(c) == late' = late \cup {t \in target[c] : Live(t)}

ExecuteContinues(c) ==
  /\ WaitOver(c, "execute")
  /\ CancelNextOrRegister(c, todo[c], args[c])
  /\ Lateness(c)

CancelExecution(c, s) ==
  /\ c \in Cancellers /\ cpc[c] = "idle"
  /\ CancelAndWait(c, s, "cancel", {}, NoSession)
  /\ UNCHANGED late

Idle(c) ==
  /\ cpc' = [cpc EXCEPT ![c] = "idle"]
  /\ target' = [target EXCEPT ![c] = {}]
  /\ UNCHANGED <<todo, args>>

CancelReturns(c) ==
  /\ WaitOver(c, "cancel")
  /\ Idle(c)
  /\ Lateness(c)
  /\ UNCHANGED <<streamVars, resultVars, permits, memory, taskVars, emitted, unborn, overlapVars>>

\* wait_for_completion(s, timeout) when an event is registered; without one
\* it answers at once from the results and changes nothing.
WaitForCompletion(c, s, timed) ==
  /\ c \in Waiters /\ cpc[c] = "idle"
  /\ events[s] # NoTask
  /\ cpc' = [cpc EXCEPT ![c] = IF timed THEN "timedWait" ELSE "wait"]
  /\ target' = [target EXCEPT ![c] = {events[s]}]
  /\ UNCHANGED <<streamVars, resultVars, permits, memory, taskVars, todo, args, histVars>>

CompletionSeen(c) ==
  /\ cpc[c] \in {"wait", "timedWait"}
  /\ target[c] \subseteq fired \/ cpc[c] = "timedWait"
  /\ Idle(c)
  /\ UNCHANGED <<streamVars, resultVars, permits, memory, taskVars, histVars>>

\* stop(): every task still registered is asked to stop, with no reason ...
StopVictims == {t \in Tasks : Live(t) /\ \E s \in Sessions : tasks[s] = t}

\* ... and afterwards the bookkeeping is cleared, whoever is in it by then.
ClearBookkeeping ==
  /\ tasks' = [s \in Sessions |-> NoTask]
  /\ active' = [s \in Sessions |-> NoTask]

StopBegins(c) ==
  /\ c \in Stoppers /\ cpc[c] = "idle"
  /\ life = "running"
  /\ life' = "stopped"
  /\ IF StopVictims = {}
       THEN /\ ClearBookkeeping
            /\ UNCHANGED <<cancelled, cpc, target>>
       ELSE /\ cancelled' = [t \in Tasks |-> t \in StopVictims \/ cancelled[t]]
            /\ cpc' = [cpc EXCEPT ![c] = "stop"]
            /\ target' = [target EXCEPT ![c] = StopVictims]
            /\ UNCHANGED <<active, tasks>>
  /\ UNCHANGED <<executors, events, fired, reasons, resultVars, permits, memory, pc,
                 sess, shared, result, resurrections, todo, args, histVars>>

StopEnds(c) ==
  /\ WaitOver(c, "stop")
  /\ ClearBookkeeping
  /\ Idle(c)
  /\ Lateness(c)
  /\ UNCHANGED <<life, executors, events, fired, reasons, resultVars, permits, memory,
                 taskVars, emitted, unborn, overlapVars>>

ClientStep(c) ==
  \/ ExecuteContinues(c)
  \/ CancelReturns(c)
  \/ CompletionSeen(c)
  \/ StopEnds(c)

ClientCall(c) ==
  \/ \E r \in Sessions \cup {NoSession} : Execute(c, r)
  \/ \E s \in Sessions : CancelExecution(c, s)
  \/ \E s \in Sessions, timed \in BOOLEAN : WaitForCompletion(c, s, timed)
  \/ StopBegins(c)

-----------------------------------------------------------------------------
(***************************************************************************)
(* A task: one call of _run_execution.  A step that ends at an await of    *)
(* the task's own is written here; the step in which a requested           *)
(* cancellation is raised at that await follows below.                     *)
(***************************************************************************)
Goto(t, loc) == pc' = [pc EXCEPT ![t] = loc]

\* "async with self._semaphore", ctx.status = "running", execution_started.
EnterBody(t) ==
  /\ permits > 0
  /\ permits' = permits - 1
  /\ Goto(t, "started")
  /\ UNCHANGED <<streamVars, resultVars, memory, sess, shared, cancelled, result,
                 resurrections, clientVars, histVars>>

\* The semaphore lets a newcomer pass only if nobody is queued for it.
TaskStarts(t) ==
  /\ pc[t] = "queued" /\ ~cancelled[t]
  /\ \/ /\ \A u \in Tasks : pc[u] # "semaphore"
        /\ EnterBody(t)
     \/ /\ permits = 0 \/ \E u \in Tasks : pc[u] = "semaphore"
        /\ Goto(t, "semaphore")
        /\ UNCHANGED <<streamVars, resultVars, permits, memory, sess, shared, cancelled,
                       result, resurrections, clientVars, histVars>>

SemaphoreAcquired(t) ==
  /\ pc[t] = "semaphore" /\ ~cancelled[t]
  /\ EnterBody(t)

\* A fresh GraphExecutor is registered and awaited.
BeginAttempt(t) ==
  /\ executors' = Put(executors, sess[t], t)
  /\ Goto(t, "run")

StartedEmitted(t) ==
  /\ pc[t] = "started" /\ ~cancelled[t]
  /\ memory' = memory \cup {sess[t]}
  /\ IF shared[t]
       THEN BeginAttempt(t)
       ELSE Goto(t, "init") /\ UNCHANGED executors
  /\ UNCHANGED <<life, active, tasks, events, fired, reasons, resultVars, permits, sess,
                 shared, cancelled, result, resurrections, clientVars, histVars>>

InitialStateWritten(t) ==
  /\ pc[t] = "init" /\ ~cancelled[t]
  /\ BeginAttempt(t)
  /\ UNCHANGED <<life, active, tasks, events, fired, reasons, resultVars, permits, memory,
                 sess, shared, cancelled, result, resurrections, clientVars, histVars>>

\* The event for a result.
EventOf(r) == IF Success(r) THEN "completed" ELSE IF PausedAt(r) THEN "paused" ELSE "failed"

\* Write the final state, unless the session is shared; then publish event e.
WriteOrPublish(t, at, next, e) ==
  IF shared[t]
    THEN Publish(t, e) /\ Goto(t, next)
    ELSE Goto(t, at) /\ UNCHANGED emitted

\* Faulty variants: one attempt too many; a paused result is retried too.
ResurrectableOnceMore(t, r) == r = "failed" /\ resurrections[t] <= MaxResurrections
ResurrectablePaused(t, r) ==
  r \in {"failed", "paused"} /\ resurrections[t] < MaxResurrections

\* The condition under which a failed attempt is retried.
Resurrectable(t, r) == r = "failed" /\ resurrections[t] < MaxResurrections

\* executor.execute() returns r: resurrect, or leave the loop with the result.
AttemptEnds(t, r) ==
  /\ executors' = Pop(executors, sess[t])
  /\ result' = [result EXCEPT ![t] = r]
  /\ \/ /\ Resurrectable(t, r)
        /\ resurrections' = [resurrections EXCEPT ![t] = @ + 1]
        /\ Goto(t, "resurrect")
        /\ UNCHANGED <<resultVars, emitted>>
     \/ /\ ~Resurrectable(t, r)
        /\ Record(sess[t], r)
        /\ WriteOrPublish(t, "finalWrite", "finalEmit", EventOf(r))
        /\ UNCHANGED resurrections

ExecutorReturns(t, r) ==
  /\ pc[t] = "run" /\ ~cancelled[t]
  /\ AttemptEnds(t, r)
  /\ UNCHANGED <<life, active, tasks, events, fired, reasons, permits, memory, sess,
                 shared, cancelled, clientVars, unborn, late, overlapVars>>

\* Faulty variant: the exception is not caught and no cleanup follows it.
ExecutorRaisesUncaught(t) ==
  /\ pc[t] = "run" /\ ~cancelled[t]
  /\ Goto(t, "done")
  /\ UNCHANGED <<streamVars, permits, resultVars, memory, sess, shared, cancelled, result,
                 resurrections, clientVars, histVars>>

\* An exception escapes executor.execute() (it writes the input data to its
\* memory before it enters its own try block): "except Exception".  The
\* executor stays registered, for only the other two exits pop it.
ExecutorRaises(t) ==
  /\ pc[t] = "run" /\ ~cancelled[t]
  /\ Record(sess[t], "error")
  /\ WriteOrPublish(t, "errorWrite", "errorEmit", "failed")
  /\ UNCHANGED <<streamVars, permits, memory, sess, shared, cancelled, result,
                 resurrections, clientVars, unborn, late, overlapVars>>

ResurrectionEmitted(t) ==
  /\ pc[t] = "resurrect" /\ ~cancelled[t]
  /\ Goto(t, "cooldown")
  /\ UNCHANGED <<streamVars, resultVars, permits, memory, sess, shared, cancelled, result,
                 resurrections, clientVars, histVars>>

CooldownOver(t) ==
  /\ pc[t] = "cooldown" /\ ~cancelled[t]
  /\ BeginAttempt(t)
  /\ UNCHANGED <<life, active, tasks, events, fired, reasons, resultVars, permits, memory,
                 sess, shared, cancelled, result, resurrections, clientVars, histVars>>

FinalStateWritten(t) ==
  /\ pc[t] = "finalWrite" /\ ~cancelled[t]
  /\ Publish(t, EventOf(result[t]))
  /\ Goto(t, "finalEmit")
  /\ UNCHANGED <<streamVars, resultVars, permits, memory, sess, shared, cancelled, result,
                 resurrections, clientVars, unborn, late, overlapVars>>

ErrorStateWritten(t) ==
  /\ pc[t] = "errorWrite" /\ ~cancelled[t]
  /\ Publish(t, "failed")
  /\ Goto(t, "errorEmit")
  /\ UNCHANGED <<streamVars, resultVars, permits, memory, sess, shared, cancelled, result,
                 resurrections, clientVars, unborn, late, overlapVars>>

-----------------------------------------------------------------------------
(***************************************************************************)
(* The ends of a task.                                                     *)
(***************************************************************************)

\* The "finally" block and the release of the semaphore.  Everything is
\* looked up by execution id, so the entries of another task with the same
\* id go too, and its completion event is the one that is set.
Finally(t) ==
  LET s == sess[t] IN
  /\ memory' = memory \ {s}
  /\ fired' = fired \cup ({events[s]} \ {NoTask})
  /\ active' = Pop(active, s)
  /\ events' = Pop(events, s)
  /\ tasks' = Pop(tasks, s)
  /\ permits' = permits + 1
  /\ shared' = [shared EXCEPT ![t] = FALSE]
  /\ cancelled' = [cancelled EXCEPT ![t] = FALSE]
  /\ result' = [result EXCEPT ![t] = "none"]
  /\ resurrections' = [resurrections EXCEPT ![t] = 0]
  /\ emitted' = [emitted EXCEPT ![t] = <<>>]
  /\ Goto(t, "done")
  /\ UNCHANGED <<life, executors, reasons, resultVars, sess, clientVars,
                 unborn, late, overlapVars>>

\* The last event was published: normal exit, or the end of a handler.
EventPublished(t) ==
  /\ pc[t] \in {"finalEmit", "cancelEmit", "errorEmit"} /\ ~cancelled[t]
  /\ Finally(t)

\* Faulty variant: the second cancellation also skips the finally block.
HandlerAbandoned(t) ==
  /\ pc[t] \in Handlers /\ cancelled[t]
  /\ cancelled' = [cancelled EXCEPT ![t] = FALSE]
  /\ Goto(t, "done")
  /\ UNCHANGED <<streamVars, permits, resultVars, memory, sess, shared, result,
                 resurrections, clientVars, histVars>>

\* A second cancellation inside an except block is not caught by it.
HandlerInterrupted(t) ==
  /\ pc[t] \in Handlers /\ cancelled[t]
  /\ Finally(t)

\* A cancellation before the first step, or in the semaphore's queue, is
\* raised outside the try block: no handler and no finally runs.
CancelledBeforeBody(t) ==
  /\ pc[t] \in {"queued", "semaphore"} /\ cancelled[t]
  /\ shared' = [shared EXCEPT ![t] = FALSE]
  /\ cancelled' = [cancelled EXCEPT ![t] = FALSE]
  /\ unborn' = unborn \cup {t}
  /\ Goto(t, "done")
  /\ UNCHANGED <<streamVars, resultVars, permits, memory, sess, result, resurrections,
                 clientVars, emitted, late, overlapVars>>

\* GraphExecutor.execute() turns the cancellation into a paused result.  The
\* stored reason is not consumed on this path.
ExecutorPauses(t) ==
  /\ pc[t] = "run" /\ cancelled[t]
  /\ cancelled' = [cancelled EXCEPT ![t] = FALSE]
  /\ AttemptEnds(t, "paused")
  /\ UNCHANGED <<life, active, tasks, events, fired, reasons, permits, memory, sess,
                 shared, clientVars, unborn, late, overlapVars>>

\* What the CancelledError handler publishes for its result; faulty variant:
\* what the normal exit would publish.
CancelEventAsNormal(r) == EventOf(r)
CancelEventOf(r) == IF PausedAt(r) THEN "paused" ELSE "failed"

\* "except asyncio.CancelledError": raised at any await of the try block; at
\* "run", when the executor was outside its own try block.  A result left
\* over from an earlier attempt counts as the result.
CancelDelivered(t) ==
  LET r == IF result[t] = "none" THEN "cancelled" ELSE result[t]
      s == sess[t]
  IN
  /\ pc[t] \in Body /\ cancelled[t]
  /\ cancelled' = [cancelled EXCEPT ![t] = FALSE]
  /\ result' = [result EXCEPT ![t] = r]
  /\ executors' = Pop(executors, s)
  /\ Record(s, r)
  /\ reasons' = IF shared[t] THEN Pop(reasons, s) ELSE reasons
  /\ WriteOrPublish(t, "cancelWrite", "cancelEmit", CancelEventOf(r))
  /\ UNCHANGED <<life, active, tasks, events, fired, permits, memory, sess, shared,
                 resurrections, clientVars, unborn, late, overlapVars>>

CancelStateWritten(t) ==
  /\ pc[t] = "cancelWrite" /\ ~cancelled[t]
  /\ reasons' = Pop(reasons, sess[t])
  /\ Publish(t, CancelEventOf(result[t]))
  /\ Goto(t, "cancelEmit")
  /\ UNCHANGED <<life, active, tasks, executors, events, fired, resultVars, permits,
                 memory, sess, shared, cancelled, result, resurrections,
                 clientVars, unborn, late, overlapVars>>

\* The steps a task takes by itself; ExecutorStep is up to the graph it runs.
TaskStep(t) ==
  \/ TaskStarts(t)
  \/ SemaphoreAcquired(t)
  \/ StartedEmitted(t)
  \/ InitialStateWritten(t)
  \/ ResurrectionEmitted(t)
  \/ CooldownOver(t)
  \/ FinalStateWritten(t)
  \/ ErrorStateWritten(t)
  \/ EventPublished(t)
  \/ HandlerInterrupted(t)
  \/ CancelledBeforeBody(t)
  \/ CancelDelivered(t)
  \/ CancelStateWritten(t)

ExecutorStep(t) ==
  \/ \E r \in Outcomes : ExecutorReturns(t, r)
  \/ ExecutorRaises(t)
  \/ ExecutorPauses(t)

Next ==
  \/ Start
  \/ \E c \in Clients : ClientCall(c) \/ ClientStep(c)
  \/ \E t \in Tasks : TaskStep(t) \/ ExecutorStep(t)

Spec == Init /\ [][Next]_vars

\* asyncio's timers fire and wake the callers: nothing is assumed of tasks.
CallerSpec == Spec /\ \A c \in Clients : WF_vars(ClientStep(c))

\* Every ready task is run, threads end, and a graph that is executed returns,
\* fails or gives in to its cancellation.  An assumption of some properties only.
TaskFairness ==
  \A t \in Tasks : WF_vars(TaskStep(t)) /\ WF_vars(ExecutorStep(t))

-----------------------------------------------------------------------------
(***************************************************************************)
(* Safety, whoever calls what and however slowly tasks react.              *)
(***************************************************************************)

\* Every exit of a task - normal, failed, cancelled at any await, cancelled
\* twice - gives back exactly the semaphore slot it took.
SlotsConserved == permits + Cardinality({t \in Tasks : pc[t] \in Holding}) = MaxConcurrent

\* A finished task is still registered as running (context, task or event)
\* only if it was cancelled before it entered the try block of
\* _run_execution, whose finally block removes the entries.
LeaksOnlyUnborn ==
  \A s \in Sessions : \A t \in {active[s], tasks[s], events[s]} :
    t \in Tasks /\ pc[t] = "done" => t \in unborn

\* No lost wakeup: a finished task's completion event is set, unless the
\* task was cancelled before its try block, or a later execution replaced
\* the event under the same id while this one was still running.
Replaced(t) == \E u \in Tasks \ {t} : pc[u] # "none" /\ sess[u] = sess[t]

NoLostWakeup ==
  \A t \in Tasks : pc[t] = "done" /\ t \notin unborn /\ ~Replaced(t) => t \in fired

\* The finally block never leaves execution-scoped memory behind for an id
\* nobody executes.
MemoryHasOwner ==
  \A s \in memory : \E t \in Tasks : sess[t] = s /\ pc[t] \in Holding

\* A waiter whose execution has completed finds a result, unless
\* RetentionMax other ids recorded a result since: every way through the try
\* block records a result before the completion event is set.
CompletedHasResult ==
  \A t \in fired :
    pc[t] = "done" => \/ results[sess[t]] # "none"
                      \/ Cardinality({s \in Sessions : results[s] # "none"}) = RetentionMax

\* What an execution leaves behind, however it ends: no entry, no waiter asleep, no
\* memory, but a result.
EndsCleanly == LeaksOnlyUnborn /\ NoLostWakeup /\ MemoryHasOwner /\ CompletedHasResult

\* No attempt of a task that was asked to stop begins, or is counted.
NotResurrected ==
  \A t \in Tasks : cancelled[t] => /\ resurrections'[t] <= resurrections[t]
                                   /\ pc'[t] = "run" => pc[t] = "run"

\* An execution that was asked to stop is never restarted by the resurrection
\* loop: while the request is pending, and in the step that delivers it, no
\* attempt is counted and no new attempt begins.
CancelledNotResurrected == [][NotResurrected]_vars

\* A terminal event may be followed by another one, when the cancellation comes
\* while the first is being published, but
\* completion is never announced after a failure or a pause, and a failure
\* announced for an error is final.
CompletedIsFirst ==
  \A t \in Tasks : /\ Len(emitted[t]) <= 2
                   /\ Len(emitted[t]) = 2 => emitted[t][2] # "completed"

-----------------------------------------------------------------------------
(***************************************************************************)
(* How far the stream keeps executions apart, for any callers at any time. *)
(* execute() takes a snapshot of the active ids, cancels them one after    *)
(* the other, waits 5 s at most for each, and registers its own execution, *)
(* under an id that may be in use.                                         *)
(***************************************************************************)

\* The call that registered u could not see t, or the other way round.
Overlapped(t, u) == t \in missed[u] \/ u \in missed[t]

\* Two executions of a stream are alive at the same time only if a caller gave up
\* waiting for one of them, the two calls of execute() overlapped, or one has been
\* resumed under its own id while it was alive and can no longer be found.  In
\* particular a call of execute() that returns before the next one begins does
\* what its comment says, whoever cancels, waits or stops meanwhile.
ApartUnlessOverlapped ==
  \A t, u \in Tasks : Live(t) /\ Live(u) /\ t # u =>
    {t, u} \cap (late \cup contested) # {} \/ Overlapped(t, u)

\* The executor of a running attempt is reachable for inject_input, its event for
\* waiters, and until the stream is stopped its task for cancel_execution and its
\* context for status: whatever other executions do, unless they share its id.
RunningIsTracked ==
  \A t \in Tasks \ contested : pc[t] = "run" =>
    /\ executors[sess[t]] = t /\ events[sess[t]] = t /\ sess[t] \in memory
    /\ life = "stopped" \/ (tasks[sess[t]] = t /\ active[sess[t]] = t)

\* A completion event is set by the execution it was created for, after the
\* last thing that execution does, unless the two of an id were alive together.
FiredWhenDone == \A t \in fired : pc[t] = "done" \/ t \in contested

\* What callers that start, cancel, inject and wait can rely on, however their calls
\* overlap and however slowly executions react.
ExclusiveAndTracked == ApartUnlessOverlapped /\ RunningIsTracked /\ FiredWhenDone

-----------------------------------------------------------------------------
(***************************************************************************)
(* Liveness.                                                               *)
(***************************************************************************)

\* execute(), cancel_execution() and stop() return even when no execution
\* ever reacts to its cancellation: every wait in them ends after 5 s.
CallsReturn ==
  \A c \in Clients : cpc[c] \in {"execute", "cancel", "stop"} ~> cpc[c] = "idle"

\* If graphs return, every execution that was started ends and returns its
\* slot, also those queued behind the semaphore; and a waiter without timeout is
\* released when the execution it waits for was able to enter its try block and
\* kept its id to itself.
ExecutionsEnd ==
  TaskFairness =>
    /\ \A t \in Tasks : pc[t] = "queued" ~> pc[t] = "done"
    /\ \A c \in Clients :
         cpc[c] = "wait" ~> \/ cpc[c] = "idle"
                            \/ \E t \in target[c] : t \in unborn \/ Replaced(t)
=============================================================================
