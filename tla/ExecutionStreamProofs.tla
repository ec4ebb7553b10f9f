----------------------- MODULE ExecutionStreamProofs -----------------------
(***************************************************************************)
(* Theorems about ExecutionStream for every set of sessions, tasks and     *)
(* clients and every value of the limits.                                  *)
(***************************************************************************)
EXTENDS ExecutionStream, FiniteSetTheorems, TLAPS

\* Every task that was created carries a session id.
CreatedHaveIds == \A t \in Tasks : pc[t] # "none" => sess[t] \in Sessions

LEMMA InitTypeOK == Init => TypeOK
BY StreamAssumption DEF Init, TypeOK, Locations

\* The two ways in which the steps of callers treat the history of late tasks.
LEMMA LatenessType ==
  ASSUME TypeOK, NEW c \in Clients, late' = late \/ Lateness(c)
  PROVE  late' \subseteq Tasks
<1>1. CASE late' = late
  BY <1>1 DEF TypeOK
<1>2. CASE Lateness(c)
  BY <1>2 DEF Lateness, TypeOK
<1>. QED
  BY <1>1, <1>2

\* The history of overlapping executions.
LEMMA OverlapType ==
  ASSUME TypeOK, NEW c \in Clients, NEW t \in Tasks, NEW s, Overlap(c, t, s)
  PROVE  /\ contested' \subseteq Tasks
         /\ unseen' \in [Clients -> SUBSET Tasks]
         /\ missed' \in [Tasks -> SUBSET Tasks]
<1>1. contested' \subseteq Tasks
  BY DEF Overlap, TypeOK
<1>2. unseen' \in [Clients -> SUBSET Tasks]
  BY DEF Overlap, TypeOK
<1>3. missed' \in [Tasks -> SUBSET Tasks]
  BY DEF Overlap, TypeOK
<1>. QED
  BY <1>1, <1>2, <1>3

\* Recording a result keeps the two dictionaries well typed.
LEMMA RecordType ==
  ASSUME TypeOK, NEW s, NEW r \in Results, Record(s, r)
  PROVE  /\ results' \in [Sessions -> Results \cup {"none"}]
         /\ age' \in [Sessions -> Nat]
<1>1. \A x \in Sessions : AgeAfter(s)[x] \in Nat
  BY DEF TypeOK, AgeAfter
<1>. QED
  BY <1>1 DEF TypeOK, Record

\* Publishing appends a terminal event.
LEMMA PublishType ==
  ASSUME TypeOK, NEW t \in Tasks, NEW e \in Terminal, Publish(t, e)
  PROVE  emitted' \in [Tasks -> Seq(Terminal)]
BY DEF TypeOK, Publish

LEMMA WriteOrPublishType ==
  ASSUME TypeOK, NEW t \in Tasks, NEW at \in Locations, NEW next \in Locations,
         NEW e \in Terminal, WriteOrPublish(t, at, next, e)
  PROVE  /\ emitted' \in [Tasks -> Seq(Terminal)]
         /\ pc' \in [Tasks -> Locations]
<1>1. CASE shared[t]
  BY <1>1, PublishType DEF WriteOrPublish, TypeOK, Goto
<1>2. CASE ~shared[t]
  BY <1>2 DEF WriteOrPublish, TypeOK, Goto
<1>. QED
  BY <1>1, <1>2

LEMMA StopType ==
  ASSUME TypeOK, NEW c \in Clients, StopBegins(c)
  PROVE  TypeOK'
<1>1. StopVictims \subseteq Tasks
  BY DEF StopVictims
<1>2. /\ life' = "stopped"
      /\ UNCHANGED <<executors, events, fired, reasons, resultVars, permits, memory, pc,
                     sess, shared, result, resurrections, todo, args, histVars>>
  BY DEF StopBegins
<1>3. CASE StopVictims = {}
  <2>1. ClearBookkeeping /\ UNCHANGED <<cancelled, cpc, target>>
    BY <1>3, Zenon DEF StopBegins
  <2>. QED
    BY <1>2, <2>1 DEF TypeOK, ClearBookkeeping, resultVars, histVars, overlapVars
<1>4. CASE StopVictims # {}
  <2>1. /\ cancelled' = [t \in Tasks |-> t \in StopVictims \/ cancelled[t]]
        /\ cpc' = [cpc EXCEPT ![c] = "stop"]
        /\ target' = [target EXCEPT ![c] = StopVictims]
        /\ UNCHANGED <<active, tasks>>
    BY <1>4, Zenon DEF StopBegins
  <2>2. cancelled' \in [Tasks -> BOOLEAN]
    BY <2>1 DEF TypeOK
  <2>3. target' \in [Clients -> SUBSET Tasks]
    BY <1>1, <2>1 DEF TypeOK
  <2>. QED
    BY <1>2, <2>1, <2>2, <2>3 DEF TypeOK, resultVars, histVars, overlapVars
<1>. QED
  BY <1>3, <1>4

LEMMA CallType ==
  ASSUME TypeOK, NEW c \in Clients, ClientCall(c)
  PROVE  TypeOK'
<1>. USE DEF TypeOK, streamVars, resultVars, taskVars, clientVars, histVars, overlapVars
<1>1. ASSUME NEW r \in Sessions \cup {NoSession}, Execute(c, r)
      PROVE  TypeOK'
  <2>0. late' = late
    BY <1>1 DEF Execute
  <2>1. ASSUME NEW s \in Sessions, NEW ids, CancelAndWait(c, s, "execute", (ActiveIds \ {s}) \ ids, r)
        PROVE  TypeOK'
    BY <2>0, <2>1 DEF CancelAndWait, Cancellable, Put, ActiveIds
  <2>2. CASE Register(c, r)
    BY <2>0, <2>2, OverlapType DEF Register, Put, Locations
  <2>. QED
    BY <1>1, <2>1, <2>2 DEF Execute, CancelNextOrRegister, ActiveIds
<1>2. ASSUME NEW s \in Sessions, CancelExecution(c, s)
      PROVE  TypeOK'
  BY <1>2 DEF CancelExecution, CancelAndWait, Cancellable, Put
<1>3. ASSUME NEW s \in Sessions, NEW timed \in BOOLEAN, WaitForCompletion(c, s, timed)
      PROVE  TypeOK'
  BY <1>3 DEF WaitForCompletion
<1>4. CASE StopBegins(c)
  BY <1>4, StopType
<1>. QED
  BY <1>1, <1>2, <1>3, <1>4 DEF ClientCall

LEMMA CallerType ==
  ASSUME TypeOK, NEW c \in Clients, ClientStep(c)
  PROVE  TypeOK'
<1>. USE DEF TypeOK, streamVars, resultVars, taskVars, clientVars, histVars, overlapVars
<1>1. CASE ExecuteContinues(c)
  <2>0. late' \subseteq Tasks
    BY <1>1, LatenessType DEF ExecuteContinues
  <2>1. ASSUME NEW s \in Sessions, NEW ids,
               CancelAndWait(c, s, "execute", (todo[c] \ {s}) \ ids, args[c])
        PROVE  TypeOK'
    BY <2>0, <2>1 DEF CancelAndWait, Cancellable, Put
  <2>2. CASE Register(c, args[c])
    BY <2>0, <2>2, OverlapType DEF Register, Put, Locations
  <2>3. todo[c] \subseteq Sessions
    OBVIOUS
  <2>. QED
    BY <1>1, <2>1, <2>2, <2>3 DEF ExecuteContinues, WaitOver, CancelNextOrRegister
<1>2. CASE CancelReturns(c)
  <2>1. late' \subseteq Tasks
    BY <1>2, LatenessType DEF CancelReturns
  <2>. QED
    BY <1>2, <2>1 DEF CancelReturns, Idle
<1>3. CASE CompletionSeen(c)
  BY <1>3 DEF CompletionSeen, Idle
<1>4. CASE StopEnds(c)
  <2>1. late' \subseteq Tasks
    BY <1>4, LatenessType DEF StopEnds
  <2>. QED
    BY <1>4, <2>1 DEF StopEnds, Idle, ClearBookkeeping
<1>. QED
  BY <1>1, <1>2, <1>3, <1>4 DEF ClientStep

LEMMA GotoType ==
  ASSUME TypeOK, NEW t \in Tasks, NEW loc \in Locations, Goto(t, loc)
  PROVE  pc' \in [Tasks -> Locations]
BY DEF TypeOK, Goto

LEMMA EnterBodyType ==
  ASSUME TypeOK, NEW t \in Tasks, EnterBody(t)
  PROVE  TypeOK'
<1>1. pc' \in [Tasks -> Locations]
  BY GotoType DEF EnterBody, Locations, Body
<1>2. permits' \in Nat
  BY DEF EnterBody, TypeOK
<1>3. UNCHANGED <<streamVars, resultVars, memory, sess, shared, cancelled, result,
                  resurrections, clientVars, histVars>>
  BY DEF EnterBody
<1>. QED
  BY <1>1, <1>2, <1>3 DEF TypeOK, streamVars, resultVars, clientVars, histVars, overlapVars

LEMMA FinallyType ==
  ASSUME TypeOK, NEW t \in Tasks, sess[t] \in Sessions, Finally(t)
  PROVE  TypeOK'
<1>1. pc' \in [Tasks -> Locations]
  BY GotoType DEF Finally, Locations
<1>2. /\ permits' \in Nat
      /\ memory' \subseteq Sessions
      /\ fired' \subseteq Tasks
  BY DEF Finally, TypeOK
<1>3. /\ active' \in [Sessions -> Tasks \cup {NoTask}]
      /\ events' \in [Sessions -> Tasks \cup {NoTask}]
      /\ tasks' \in [Sessions -> Tasks \cup {NoTask}]
  BY DEF Finally, Pop, TypeOK
<1>4. /\ cancelled' \in [Tasks -> BOOLEAN]
      /\ result' \in [Tasks -> Results \cup {"none"}]
      /\ resurrections' \in [Tasks -> 0..MaxResurrections]
  BY StreamAssumption DEF Finally, TypeOK
<1>5. UNCHANGED <<life, executors, reasons, resultVars, sess, clientVars, unborn, late, overlapVars>>
  BY DEF Finally
<1>6. shared' \in [Tasks -> BOOLEAN] /\ emitted' \in [Tasks -> Seq(Terminal)]
  BY DEF Finally, TypeOK
<1>. QED
  BY <1>1, <1>2, <1>3, <1>4, <1>5, <1>6 DEF TypeOK, resultVars, clientVars, overlapVars

LEMMA AttemptType ==
  ASSUME TypeOK, NEW t \in Tasks, NEW r \in Outcomes, AttemptEnds(t, r)
  PROVE  /\ executors' \in [Sessions -> Tasks \cup {NoTask}]
         /\ result' \in [Tasks -> Results \cup {"none"}]
         /\ resurrections' \in [Tasks -> 0..MaxResurrections]
         /\ results' \in [Sessions -> Results \cup {"none"}]
         /\ age' \in [Sessions -> Nat]
         /\ pc' \in [Tasks -> Locations]
         /\ emitted' \in [Tasks -> Seq(Terminal)]
<1>1. /\ executors' \in [Sessions -> Tasks \cup {NoTask}]
      /\ result' \in [Tasks -> Results \cup {"none"}]
  BY DEF AttemptEnds, TypeOK, Pop, Results
<1>2. CASE /\ Resurrectable(t, r)
           /\ resurrections' = [resurrections EXCEPT ![t] = @ + 1]
           /\ Goto(t, "resurrect")
           /\ UNCHANGED <<resultVars, emitted>>
  <2>1. pc' \in [Tasks -> Locations]
    BY <1>2, GotoType DEF Locations, Body
  <2>2. resurrections' \in [Tasks -> 0..MaxResurrections]
    BY <1>2, StreamAssumption DEF TypeOK, Resurrectable
  <2>. QED
    BY <1>1, <1>2, <2>1, <2>2 DEF TypeOK, resultVars
<1>3. CASE /\ Record(sess[t], r)
           /\ WriteOrPublish(t, "finalWrite", "finalEmit", EventOf(r))
           /\ UNCHANGED resurrections
  <2>1. EventOf(r) \in Terminal /\ "finalWrite" \in Locations /\ "finalEmit" \in Locations
    BY DEF EventOf, Terminal, Locations, Body
  <2>2. /\ emitted' \in [Tasks -> Seq(Terminal)]
        /\ pc' \in [Tasks -> Locations]
    BY <1>3, <2>1, WriteOrPublishType
  <2>3. /\ results' \in [Sessions -> Results \cup {"none"}]
        /\ age' \in [Sessions -> Nat]
    BY <1>3, RecordType DEF Results
  <2>. QED
    BY <1>1, <1>3, <2>2, <2>3 DEF TypeOK
<1>. QED
  BY <1>2, <1>3 DEF AttemptEnds

LEMMA CancelDeliveredType ==
  ASSUME TypeOK, NEW t \in Tasks, CancelDelivered(t)
  PROVE  TypeOK'
<1>. DEFINE r == IF result[t] = "none" THEN "cancelled" ELSE result[t]
<1>1. r \in Results
  BY DEF TypeOK, Results
<1>2. /\ CancelEventOf(r) \in Terminal
      /\ "cancelWrite" \in Locations /\ "cancelEmit" \in Locations
  BY DEF CancelEventOf, Terminal, Locations, Handlers
<1>3. /\ cancelled' = [cancelled EXCEPT ![t] = FALSE]
      /\ result' = [result EXCEPT ![t] = r]
      /\ executors' = Pop(executors, sess[t])
      /\ Record(sess[t], r)
      /\ reasons' = IF shared[t] THEN Pop(reasons, sess[t]) ELSE reasons
      /\ WriteOrPublish(t, "cancelWrite", "cancelEmit", CancelEventOf(r))
      /\ UNCHANGED <<life, active, tasks, events, fired, permits, memory, sess, shared,
                     resurrections, clientVars, unborn, late, overlapVars>>
  BY Zenon DEF CancelDelivered
<1>. HIDE DEF r
<1>4. /\ emitted' \in [Tasks -> Seq(Terminal)]
      /\ pc' \in [Tasks -> Locations]
  BY <1>2, <1>3, WriteOrPublishType
<1>5. /\ results' \in [Sessions -> Results \cup {"none"}]
      /\ age' \in [Sessions -> Nat]
  BY <1>1, <1>3, RecordType
<1>6. /\ cancelled' \in [Tasks -> BOOLEAN]
      /\ result' \in [Tasks -> Results \cup {"none"}]
      /\ executors' \in [Sessions -> Tasks \cup {NoTask}]
      /\ reasons' \in [Sessions -> Tasks \cup {NoTask}]
  BY <1>1, <1>3 DEF TypeOK, Pop
<1>. QED
  BY <1>3, <1>4, <1>5, <1>6 DEF TypeOK, clientVars, overlapVars

LEMMA TaskType ==
  ASSUME TypeOK, CreatedHaveIds, NEW t \in Tasks, TaskStep(t)
  PROVE  TypeOK'
<1>. USE DEF streamVars, resultVars, clientVars, histVars, overlapVars
<1>. DEFINE L(loc) == loc \in Locations
<1>0. /\ L("semaphore") /\ L("init") /\ L("run") /\ L("cooldown") /\ L("finalEmit")
      /\ L("errorEmit") /\ L("cancelEmit") /\ L("done")
  BY DEF Locations, Body, Handlers
<1>1. CASE TaskStarts(t)
  <2>1. CASE EnterBody(t)
    BY <2>1, EnterBodyType
  <2>2. CASE /\ Goto(t, "semaphore")
             /\ UNCHANGED <<streamVars, resultVars, permits, memory, sess, shared, cancelled,
                            result, resurrections, clientVars, histVars>>
    BY <1>0, <2>2, GotoType DEF TypeOK
  <2>. QED
    BY <1>1, <2>1, <2>2 DEF TaskStarts
<1>2. CASE SemaphoreAcquired(t)
  BY <1>2, EnterBodyType DEF SemaphoreAcquired
<1>3. CASE StartedEmitted(t)
  <2>1. memory' \subseteq Sessions
    BY <1>3 DEF StartedEmitted, TypeOK, CreatedHaveIds
  <2>2. /\ executors' \in [Sessions -> Tasks \cup {NoTask}]
        /\ pc' \in [Tasks -> Locations]
    <3>1. CASE shared[t]
      BY <1>0, <1>3, <3>1, GotoType DEF StartedEmitted, BeginAttempt, Put, TypeOK
    <3>2. CASE ~shared[t]
      BY <1>0, <1>3, <3>2, GotoType DEF StartedEmitted, TypeOK
    <3>. QED
      BY <3>1, <3>2
  <2>. QED
    BY <1>3, <2>1, <2>2 DEF StartedEmitted, TypeOK
<1>4. CASE InitialStateWritten(t)
  BY <1>0, <1>4, GotoType DEF InitialStateWritten, BeginAttempt, Put, TypeOK
<1>5. CASE ResurrectionEmitted(t)
  BY <1>0, <1>5, GotoType DEF ResurrectionEmitted, TypeOK
<1>6. CASE CooldownOver(t)
  BY <1>0, <1>6, GotoType DEF CooldownOver, BeginAttempt, Put, TypeOK
<1>7. CASE FinalStateWritten(t)
  <2>1. EventOf(result[t]) \in Terminal
    BY DEF EventOf, Terminal
  <2>. QED
    BY <1>0, <1>7, <2>1, PublishType, GotoType DEF FinalStateWritten, TypeOK
<1>8. CASE ErrorStateWritten(t)
  <2>1. "failed" \in Terminal
    BY DEF Terminal
  <2>. QED
    BY <1>0, <1>8, <2>1, PublishType, GotoType DEF ErrorStateWritten, TypeOK
<1>9. CASE EventPublished(t)
  BY <1>9, FinallyType DEF EventPublished, CreatedHaveIds
<1>10. CASE HandlerInterrupted(t)
  BY <1>10, FinallyType DEF HandlerInterrupted, Handlers, CreatedHaveIds
<1>11. CASE CancelledBeforeBody(t)
  BY <1>0, <1>11, GotoType DEF CancelledBeforeBody, TypeOK
<1>12. CASE CancelDelivered(t)
  BY <1>12, CancelDeliveredType
<1>13. CASE CancelStateWritten(t)
  <2>1. CancelEventOf(result[t]) \in Terminal
    BY DEF CancelEventOf, Terminal
  <2>. QED
    BY <1>0, <1>13, <2>1, PublishType, GotoType DEF CancelStateWritten, Pop, TypeOK
<1>. QED
  BY <1>1, <1>2, <1>3, <1>4, <1>5, <1>6, <1>7, <1>8, <1>9, <1>10, <1>11, <1>12, <1>13
     DEF TaskStep

LEMMA ExecutorType ==
  ASSUME TypeOK, NEW t \in Tasks, ExecutorStep(t)
  PROVE  TypeOK'
<1>1. ASSUME NEW r \in Outcomes, ExecutorReturns(t, r)
      PROVE  TypeOK'
  <2>1. AttemptEnds(t, r)
    BY <1>1 DEF ExecutorReturns
  <2>. QED
    BY <1>1, <2>1, AttemptType DEF ExecutorReturns, TypeOK, clientVars, overlapVars
<1>2. CASE ExecutorRaises(t)
  <2>1. /\ "error" \in Results /\ "failed" \in Terminal
        /\ "errorWrite" \in Locations /\ "errorEmit" \in Locations
    BY DEF Results, Terminal, Locations, Handlers
  <2>2. /\ results' \in [Sessions -> Results \cup {"none"}]
        /\ age' \in [Sessions -> Nat]
    BY <1>2, <2>1, RecordType DEF ExecutorRaises
  <2>3. /\ emitted' \in [Tasks -> Seq(Terminal)]
        /\ pc' \in [Tasks -> Locations]
    BY <1>2, <2>1, WriteOrPublishType DEF ExecutorRaises
  <2>. QED
    BY <1>2, <2>2, <2>3 DEF ExecutorRaises, TypeOK, streamVars, clientVars, overlapVars
<1>3. CASE ExecutorPauses(t)
  <2>1. AttemptEnds(t, "paused") /\ "paused" \in Outcomes
    BY <1>3 DEF ExecutorPauses, Outcomes
  <2>2. cancelled' \in [Tasks -> BOOLEAN]
    BY <1>3 DEF ExecutorPauses, TypeOK
  <2>. QED
    BY <1>3, <2>1, <2>2, AttemptType DEF ExecutorPauses, TypeOK, clientVars, overlapVars
<1>. QED
  BY <1>1, <1>2, <1>3 DEF ExecutorStep

LEMMA StepTypeOK == TypeOK /\ CreatedHaveIds /\ [Next]_vars => TypeOK'
<1>. SUFFICES ASSUME TypeOK, CreatedHaveIds, [Next]_vars PROVE TypeOK'
  OBVIOUS
<1>1. CASE Start
  BY <1>1 DEF Start, TypeOK, resultVars, taskVars, clientVars, histVars, overlapVars
<1>2. ASSUME NEW c \in Clients, ClientCall(c) \/ ClientStep(c)
      PROVE  TypeOK'
  BY <1>2, CallType, CallerType
<1>3. ASSUME NEW t \in Tasks, TaskStep(t) \/ ExecutorStep(t)
      PROVE  TypeOK'
  BY <1>3, TaskType, ExecutorType
<1>4. CASE UNCHANGED vars
  BY <1>4 DEF vars, TypeOK, streamVars, resultVars, taskVars, clientVars, histVars, overlapVars
<1>. QED
  BY <1>1, <1>2, <1>3, <1>4 DEF Next

\* A task moves from one location to the next: its id stays, and it takes or
\* gives back a slot exactly when it enters or leaves the semaphore's block.
Slot(loc) == IF loc \in Holding THEN 1 ELSE 0

Moves(t, loc) ==
  /\ pc[t] # "none" /\ loc # "none"
  /\ pc' = [pc EXCEPT ![t] = loc]
  /\ sess' = sess
  /\ permits' = permits + Slot(pc[t]) - Slot(loc)

LEMMA EnterBodyMoves ==
  ASSUME TypeOK, NEW t \in Tasks, pc[t] \in {"queued", "semaphore"}, EnterBody(t)
  PROVE  Moves(t, "started")
BY DEF EnterBody, Moves, Slot, Holding, Body, Handlers, Goto, TypeOK

LEMMA FinallyMoves ==
  ASSUME TypeOK, NEW t \in Tasks, pc[t] \in Holding, Finally(t)
  PROVE  Moves(t, "done")
<1>1. pc[t] # "none" /\ "done" \notin Holding
  BY DEF Holding, Body, Handlers
<1>. QED
  BY <1>1 DEF Finally, Moves, Slot, Goto, TypeOK

\* Inside the block a move keeps the slot.
LEMMA KeepsSlot ==
  ASSUME TypeOK, NEW t \in Tasks, NEW loc \in Holding, pc[t] \in Holding,
         Goto(t, loc), sess' = sess, permits' = permits
  PROVE  Moves(t, loc)
<1>1. pc[t] # "none" /\ loc # "none"
  BY DEF Holding, Body, Handlers
<1>. QED
  BY <1>1 DEF Moves, Slot, Goto, TypeOK

LEMMA WriteOrPublishMoves ==
  ASSUME TypeOK, NEW t \in Tasks, NEW at \in Holding, NEW next \in Holding, NEW e,
         pc[t] \in Holding, WriteOrPublish(t, at, next, e),
         sess' = sess, permits' = permits
  PROVE  \E loc \in Holding : Moves(t, loc)
<1>1. Goto(t, at) \/ Goto(t, next)
  BY DEF WriteOrPublish
<1>. QED
  BY <1>1, KeepsSlot

LEMMA AttemptMoves ==
  ASSUME TypeOK, NEW t \in Tasks, NEW r \in Outcomes, pc[t] = "run", AttemptEnds(t, r),
         sess' = sess, permits' = permits
  PROVE  \E loc \in Holding : Moves(t, loc)
<1>1. /\ pc[t] \in Holding /\ "resurrect" \in Holding
      /\ "finalWrite" \in Holding /\ "finalEmit" \in Holding
  BY DEF Holding, Body
<1>2. CASE Goto(t, "resurrect")
  BY <1>1, <1>2, KeepsSlot
<1>3. CASE WriteOrPublish(t, "finalWrite", "finalEmit", EventOf(r))
  BY <1>1, <1>3, WriteOrPublishMoves
<1>. QED
  BY <1>2, <1>3 DEF AttemptEnds

\* Every step of a task is such a move.
LEMMA TaskMoves ==
  ASSUME TypeOK, NEW t \in Tasks, TaskStep(t) \/ ExecutorStep(t)
  PROVE  \E loc : Moves(t, loc)
<1>. USE DEF streamVars, resultVars, clientVars, histVars, overlapVars
<1>0. {"started", "init", "run", "resurrect", "cooldown", "finalWrite", "finalEmit",
       "cancelWrite", "cancelEmit", "errorWrite", "errorEmit"} = Holding
  BY DEF Holding, Body, Handlers
<1>a. {"queued", "semaphore", "done"} \cap Holding = {}
  BY DEF Holding, Body, Handlers
<1>b. \A l \in {"queued", "semaphore", "done"} : Slot(l) = 0
  BY <1>a DEF Slot
<1>c. permits \in Nat
  BY DEF TypeOK
<1>1. CASE TaskStarts(t)
  <2>1. CASE EnterBody(t)
    BY <1>1, <2>1, EnterBodyMoves DEF TaskStarts
  <2>2. CASE ~EnterBody(t)
    <3>1. /\ pc[t] = "queued" /\ Goto(t, "semaphore")
          /\ permits' = permits /\ sess' = sess
      BY <1>1, <2>2 DEF TaskStarts
    <3>2. Slot(pc[t]) = 0 /\ Slot("semaphore") = 0
      BY <1>b, <3>1
    <3>3. Moves(t, "semaphore")
      BY <1>c, <3>1, <3>2 DEF Moves, Goto
    <3>. QED
      BY <3>3
  <2>. QED
    BY <2>1, <2>2
<1>2. CASE SemaphoreAcquired(t)
  BY <1>2, EnterBodyMoves DEF SemaphoreAcquired
<1>3. CASE StartedEmitted(t)
  <2>1. Goto(t, "run") \/ Goto(t, "init")
    BY <1>3 DEF StartedEmitted, BeginAttempt
  <2>2. pc[t] = "started" /\ sess' = sess /\ permits' = permits
    BY <1>3 DEF StartedEmitted
  <2>. QED
    BY <1>0, <2>1, <2>2, KeepsSlot
<1>4. CASE InitialStateWritten(t)
  BY <1>0, <1>4, KeepsSlot DEF InitialStateWritten, BeginAttempt
<1>5. CASE ResurrectionEmitted(t)
  BY <1>0, <1>5, KeepsSlot DEF ResurrectionEmitted
<1>6. CASE CooldownOver(t)
  BY <1>0, <1>6, KeepsSlot DEF CooldownOver, BeginAttempt
<1>7. CASE FinalStateWritten(t)
  BY <1>0, <1>7, KeepsSlot DEF FinalStateWritten
<1>8. CASE ErrorStateWritten(t)
  BY <1>0, <1>8, KeepsSlot DEF ErrorStateWritten
<1>9. CASE EventPublished(t)
  BY <1>0, <1>9, FinallyMoves DEF EventPublished
<1>10. CASE HandlerInterrupted(t)
  BY <1>10, FinallyMoves DEF HandlerInterrupted, Holding
<1>11. CASE CancelledBeforeBody(t)
  <2>1. /\ pc[t] \in {"queued", "semaphore"} /\ Goto(t, "done")
        /\ permits' = permits /\ sess' = sess
    BY <1>11 DEF CancelledBeforeBody
  <2>2. Slot(pc[t]) = 0 /\ Slot("done") = 0
    BY <1>b, <2>1
  <2>3. Moves(t, "done")
    BY <1>c, <2>1, <2>2 DEF Moves, Goto
  <2>. QED
    BY <2>3
<1>12. CASE CancelDelivered(t)
  <2>1. PICK e : WriteOrPublish(t, "cancelWrite", "cancelEmit", e)
    BY <1>12 DEF CancelDelivered
  <2>2. pc[t] \in Holding /\ sess' = sess /\ permits' = permits
    BY <1>12 DEF CancelDelivered, Holding
  <2>. QED
    BY <1>0, <2>1, <2>2, WriteOrPublishMoves
<1>13. CASE CancelStateWritten(t)
  BY <1>0, <1>13, KeepsSlot DEF CancelStateWritten
<1>14. ASSUME NEW r \in Outcomes, ExecutorReturns(t, r)
       PROVE  \E loc : Moves(t, loc)
  BY <1>14, AttemptMoves DEF ExecutorReturns
<1>15. CASE ExecutorRaises(t)
  BY <1>0, <1>15, WriteOrPublishMoves DEF ExecutorRaises
<1>16. CASE ExecutorPauses(t)
  BY <1>16, AttemptMoves DEF ExecutorPauses, Outcomes
<1>. QED
  BY <1>1, <1>2, <1>3, <1>4, <1>5, <1>6, <1>7, <1>8, <1>9, <1>10, <1>11, <1>12, <1>13,
     <1>14, <1>15, <1>16 DEF TaskStep, ExecutorStep

\* A caller creates one task, or no task and it moves none.
Creates(t, s) ==
  /\ pc[t] = "none"
  /\ pc' = [pc EXCEPT ![t] = "queued"]
  /\ sess' = [sess EXCEPT ![t] = s]
  /\ permits' = permits

LEMMA CancelNextOrRegisterMoves ==
  ASSUME NEW c \in Clients, NEW ids, NEW resume, CancelNextOrRegister(c, ids, resume)
  PROVE  \/ \E t \in Tasks, s \in Sessions : Creates(t, s)
         \/ UNCHANGED <<pc, sess, permits>>
<1>1. CASE Register(c, resume)
  BY <1>1 DEF Register, Creates
<1>2. ASSUME NEW s \in ids, NEW idle, CancelAndWait(c, s, "execute", (ids \ {s}) \ idle, resume)
      PROVE  UNCHANGED <<pc, sess, permits>>
  BY <1>2 DEF CancelAndWait
<1>. QED
  BY <1>1, <1>2 DEF CancelNextOrRegister

LEMMA ClientMoves ==
  ASSUME NEW c \in Clients, ClientCall(c) \/ ClientStep(c)
  PROVE  \/ \E t \in Tasks, s \in Sessions : Creates(t, s)
         \/ UNCHANGED <<pc, sess, permits>>
<1>. USE DEF taskVars
<1>1. ASSUME NEW r \in Sessions \cup {NoSession}, Execute(c, r)
      PROVE  \/ \E t \in Tasks, s \in Sessions : Creates(t, s)
             \/ UNCHANGED <<pc, sess, permits>>
  BY <1>1, CancelNextOrRegisterMoves DEF Execute
<1>2. CASE ExecuteContinues(c)
  BY <1>2, CancelNextOrRegisterMoves DEF ExecuteContinues
<1>3. ASSUME NEW s \in Sessions, CancelExecution(c, s)
      PROVE  UNCHANGED <<pc, sess, permits>>
  BY <1>3 DEF CancelExecution, CancelAndWait
<1>4. ASSUME NEW s \in Sessions, NEW timed \in BOOLEAN, WaitForCompletion(c, s, timed)
      PROVE  UNCHANGED <<pc, sess, permits>>
  BY <1>4 DEF WaitForCompletion
<1>5. CASE StopBegins(c)
  BY <1>5 DEF StopBegins
<1>6. CASE CancelReturns(c)
  BY <1>6 DEF CancelReturns
<1>7. CASE CompletionSeen(c)
  BY <1>7 DEF CompletionSeen
<1>8. CASE StopEnds(c)
  BY <1>8 DEF StopEnds
<1>. QED
  BY <1>1, <1>2, <1>3, <1>4, <1>5, <1>6, <1>7, <1>8 DEF ClientCall, ClientStep

\* What any step of the system does to the tasks and the semaphore.
LEMMA StepMoves ==
  ASSUME TypeOK, [Next]_vars
  PROVE  \/ \E t \in Tasks : \E loc : Moves(t, loc)
         \/ \E t \in Tasks, s \in Sessions : Creates(t, s)
         \/ UNCHANGED <<pc, sess, permits>>
<1>. USE DEF taskVars
<1>1. CASE Start
  BY <1>1 DEF Start
<1>2. ASSUME NEW c \in Clients, ClientCall(c) \/ ClientStep(c)
      PROVE  \/ \E t \in Tasks, s \in Sessions : Creates(t, s)
             \/ UNCHANGED <<pc, sess, permits>>
  BY <1>2, ClientMoves
<1>3. ASSUME NEW t \in Tasks, TaskStep(t) \/ ExecutorStep(t)
      PROVE  \E loc : Moves(t, loc)
  BY <1>3, TaskMoves
<1>4. CASE UNCHANGED vars
  BY <1>4 DEF vars
<1>. QED
  BY <1>1, <1>2, <1>3, <1>4 DEF Next

\* The id of a task is fixed when it is registered.
LEMMA StepIds == TypeOK /\ CreatedHaveIds /\ [Next]_vars => CreatedHaveIds'
<1>. SUFFICES ASSUME TypeOK, CreatedHaveIds, [Next]_vars PROVE CreatedHaveIds'
  OBVIOUS
<1>1. ASSUME NEW t \in Tasks, NEW s \in Sessions, Creates(t, s)
      PROVE  CreatedHaveIds'
  BY <1>1 DEF Creates, CreatedHaveIds, TypeOK
<1>2. ASSUME NEW t \in Tasks, NEW loc, Moves(t, loc)
      PROVE  CreatedHaveIds'
  BY <1>2 DEF Moves, CreatedHaveIds, TypeOK
<1>3. CASE UNCHANGED <<pc, sess, permits>>
  BY <1>3 DEF CreatedHaveIds
<1>. QED
  BY <1>1, <1>2, <1>3, StepMoves

\* TypeOK is not inductive without the ids: the entries under sess[t] that the
\* finally block pops must be entries of a session.
TypeInv == TypeOK /\ CreatedHaveIds

LEMMA InitTypeInv == Init => TypeInv
BY InitTypeOK DEF Init, TypeInv, CreatedHaveIds

LEMMA StepTypeInv == TypeInv /\ [Next]_vars => TypeInv'
BY StepTypeOK, StepIds DEF TypeInv

\* Every reachable state of a stream is well typed; in particular no more
\* than MaxResurrections attempts are ever counted for an execution.
THEOREM TypeCorrect == Spec => []TypeOK
<1>1. TypeInv => TypeOK
  BY DEF TypeInv
<1>. QED
  BY <1>1, InitTypeInv, StepTypeInv, PTL DEF Spec

-----------------------------------------------------------------------------
(***************************************************************************)
(* The semaphore.                                                          *)
(***************************************************************************)
Holders == {t \in Tasks : pc[t] \in Holding}

LEMMA InitSlots == Init => SlotsConserved
<1>. SUFFICES ASSUME Init PROVE SlotsConserved
  OBVIOUS
<1>1. Holders = {}
  BY DEF Init, Holders, Holding, Body, Handlers
<1>2. Cardinality(Holders) = 0
  BY <1>1, FS_EmptySet
<1>3. permits = MaxConcurrent /\ MaxConcurrent \in Nat
  BY StreamAssumption DEF Init
<1>4. permits + Cardinality(Holders) = MaxConcurrent
  BY <1>2, <1>3
<1>. QED
  BY <1>4 DEF SlotsConserved, Holders

LEMMA StepSlots == TypeOK /\ SlotsConserved /\ [Next]_vars => SlotsConserved'
<1>. SUFFICES ASSUME TypeOK, SlotsConserved, [Next]_vars PROVE SlotsConserved'
  OBVIOUS
<1>1. IsFiniteSet(Holders) /\ Cardinality(Holders) \in Nat
  <2>1. Holders \subseteq Tasks
    BY DEF Holders
  <2>. QED
    BY <2>1, FS_Subset, FS_CardinalityType, StreamAssumption
<1>2. permits \in Nat /\ permits + Cardinality(Holders) = MaxConcurrent
  BY DEF TypeOK, SlotsConserved, Holders
<1>3. ASSUME NEW t \in Tasks, NEW s \in Sessions, Creates(t, s)
      PROVE  SlotsConserved'
  <2>1. "queued" \notin Holding /\ "none" \notin Holding
    BY DEF Holding, Body, Handlers
  <2>2. Holders' = Holders
    BY <1>3, <2>1 DEF Creates, Holders, TypeOK
  <2>. QED
    BY <1>2, <1>3, <2>2 DEF Creates, SlotsConserved, Holders
<1>4. ASSUME NEW t \in Tasks, NEW loc, Moves(t, loc)
      PROVE  SlotsConserved'
  <2>1. Holders' = IF loc \in Holding THEN Holders \cup {t} ELSE Holders \ {t}
    BY <1>4 DEF Moves, Holders, TypeOK
  <2>2. Cardinality(Holders') = Cardinality(Holders) + Slot(loc) - Slot(pc[t])
    <3>1. t \in Holders <=> pc[t] \in Holding
      BY DEF Holders
    <3>2. CASE loc \in Holding
      <4>1. Holders' = Holders \cup {t}
        BY <2>1, <3>2
      <4>2. Cardinality(Holders') = IF t \in Holders THEN Cardinality(Holders)
                                                     ELSE Cardinality(Holders) + 1
        BY <1>1, <4>1, FS_AddElement
      <4>. QED
        BY <1>1, <3>1, <3>2, <4>2 DEF Slot
    <3>3. CASE loc \notin Holding
      <4>1. Holders' = Holders \ {t}
        BY <2>1, <3>3
      <4>2. Cardinality(Holders') = IF t \in Holders THEN Cardinality(Holders) - 1
                                                     ELSE Cardinality(Holders)
        BY <1>1, <4>1, FS_RemoveElement
      <4>. QED
        BY <1>1, <3>1, <3>3, <4>2 DEF Slot
    <3>. QED
      BY <3>2, <3>3
  <2>3. Slot(loc) \in Int /\ Slot(pc[t]) \in Int
    BY DEF Slot
  <2>4. permits' + Cardinality(Holders') = MaxConcurrent
    BY <1>1, <1>2, <1>4, <2>2, <2>3 DEF Moves
  <2>. QED
    BY <2>4 DEF SlotsConserved, Holders
<1>5. CASE UNCHANGED <<pc, sess, permits>>
  BY <1>2, <1>5 DEF SlotsConserved, Holders
<1>. QED
  BY <1>3, <1>4, <1>5, StepMoves

\* No exit of an execution - normal, failed, cancelled at any await, cancelled
\* twice - loses a slot of the semaphore or returns one it does not hold.
THEOREM SlotsCorrect == Spec => []SlotsConserved
<1>1. TypeInv => TypeOK
  BY DEF TypeInv
<1>. QED
  BY <1>1, InitTypeInv, StepTypeInv, InitSlots, StepSlots, PTL DEF Spec

-----------------------------------------------------------------------------
(***************************************************************************)
(* What executions leave behind, what they announce, and that there is one *)
(* at a time.  The steps of a task are summed up once (TaskEffects); what  *)
(* matters of them is whether they end the task, and whether its result    *)
(* has been recorded.                                                      *)
(***************************************************************************)

-----------------------------------------------------------------------------
(***************************************************************************)
(* The steps of a task.                                                    *)
(***************************************************************************)

\* The awaits before which a task has recorded its result.
After == {"finalWrite", "finalEmit"} \cup Handlers

\* The awaits of the try block at which the memory of the task has been created.
Remembered == Body \ {"started"}

Recorded(t) == \E r \in Results : Record(sess[t], r)

\* A step that moves a task to loc and does not end it.
Works(t, loc) ==
  /\ Live(t) /\ loc \in Locations \ {"none", "done"} /\ Goto(t, loc)
  /\ pc[t] \in Holding => loc \in Holding
  /\ \/ memory' = memory
     \/ memory' = memory \cup {sess[t]} /\ loc \in Holding
  /\ loc \in Remembered => pc[t] \in Remembered \/ sess[t] \in memory'
  /\ \/ UNCHANGED resultVars /\ (loc \in After => pc[t] \in After)
     \/ Recorded(t)
  /\ loc = "run" => executors' = Put(executors, sess[t], t)
  /\ loc # "run" => executors' = executors \/ executors' = Pop(executors, sess[t])
  /\ UNCHANGED <<life, active, tasks, events, fired, sess, clientVars, unborn, late, overlapVars>>

Ends(t) == pc[t] \in After /\ Finally(t)

LEMMA Places ==
  /\ After \subseteq Holding /\ Remembered \subseteq Holding
  /\ Holding \subseteq Locations \ {"none", "queued", "semaphore", "done"}
  /\ {"queued", "semaphore"} \subseteq Locations
  /\ {"init", "run", "resurrect", "cooldown", "finalWrite", "finalEmit"} = Remembered
  /\ {"finalWrite", "finalEmit", "cancelWrite", "cancelEmit", "errorWrite", "errorEmit"} = After
  /\ "started" \in Holding
BY DEF After, Remembered, Holding, Body, Handlers, Locations

\* A task that keeps its result, its memory and its entries, and does not begin an attempt.
LEMMA QuietWorks ==
  ASSUME NEW t \in Tasks, NEW loc \in Holding \ {"run"}, pc[t] \in Holding, Goto(t, loc),
         loc \in Remembered => pc[t] \in Remembered,
         \/ UNCHANGED resultVars /\ (loc \in After => pc[t] \in After)
         \/ Recorded(t),
         executors' = executors \/ executors' = Pop(executors, sess[t]),
         UNCHANGED <<memory, life, active, tasks, events, fired, sess, clientVars, unborn, late, overlapVars>>
  PROVE  Works(t, loc)
<1>1. Live(t) /\ loc \in Locations \ {"none", "done"}
  BY Places DEF Live
<1>. QED
  BY <1>1 DEF Works

\* An attempt begins.
LEMMA BeginWorks ==
  ASSUME NEW t \in Tasks, pc[t] \in Holding, BeginAttempt(t), UNCHANGED resultVars,
         \/ memory' = memory /\ pc[t] \in Remembered
         \/ memory' = memory \cup {sess[t]},
         UNCHANGED <<life, active, tasks, events, fired, sess, clientVars, unborn, late, overlapVars>>
  PROVE  Works(t, "run")
<1>1. "run" \in Holding /\ "run" \notin After /\ "run" \in Locations /\ Live(t)
  BY Places DEF Live
<1>. QED
  BY <1>1 DEF Works, BeginAttempt

LEMMA AttemptWorks ==
  ASSUME NEW t \in Tasks, NEW r \in Outcomes, pc[t] = "run", AttemptEnds(t, r),
         UNCHANGED <<memory, life, active, tasks, events, fired, sess, clientVars, unborn, late, overlapVars>>
  PROVE  \E loc : Works(t, loc)
<1>1. executors' = Pop(executors, sess[t])
  BY DEF AttemptEnds
<1>2. pc[t] \in Remembered /\ pc[t] \in Holding /\ "resurrect" \in Holding \ After
      /\ {"finalWrite", "finalEmit"} \subseteq Holding
  BY Places
<1>3. CASE Goto(t, "resurrect") /\ UNCHANGED resultVars
  BY <1>1, <1>2, <1>3, QuietWorks
<1>4. CASE Record(sess[t], r) /\ WriteOrPublish(t, "finalWrite", "finalEmit", EventOf(r))
  <2>1. Recorded(t)
    BY <1>4 DEF Recorded, Results
  <2>2. PICK loc \in {"finalWrite", "finalEmit"} : Goto(t, loc)
    BY <1>4 DEF WriteOrPublish
  <2>. QED
    BY <1>1, <1>2, <2>1, <2>2, QuietWorks
<1>. QED
  BY <1>3, <1>4 DEF AttemptEnds

LEMMA TaskEffects ==
  ASSUME TypeOK, NEW t \in Tasks, TaskStep(t) \/ ExecutorStep(t)
  PROVE  Ends(t) \/ CancelledBeforeBody(t) \/ \E loc : Works(t, loc)
<1>. USE DEF streamVars, resultVars, histVars, overlapVars
<1>1. ASSUME EnterBody(t), pc[t] \in {"queued", "semaphore"}
      PROVE  Works(t, "started")
  <2>1. "started" \in Holding \ (After \cup Remembered) /\ "started" \in Locations /\ Live(t)
    BY <1>1, Places DEF Live, Remembered
  <2>. QED
    BY <1>1, <2>1 DEF EnterBody, Works
<1>2. CASE TaskStarts(t)
  <2>1. ASSUME Goto(t, "semaphore"),
               UNCHANGED <<streamVars, resultVars, permits, memory, sess, shared, cancelled,
                           result, resurrections, clientVars, histVars>>
        PROVE  Works(t, "semaphore")
    <3>1. /\ "semaphore" \notin Holding /\ "semaphore" \notin After
          /\ "semaphore" \notin Remembered /\ "semaphore" \in Locations /\ pc[t] = "queued"
          /\ "queued" \notin Holding
      BY <1>2, Places DEF TaskStarts
    <3>. QED
      BY <2>1, <3>1 DEF Works, Live
  <2>. QED
    BY <1>1, <1>2, <2>1 DEF TaskStarts
<1>3. CASE SemaphoreAcquired(t)
  BY <1>1, <1>3 DEF SemaphoreAcquired
<1>4. CASE StartedEmitted(t)
  <2>1. /\ pc[t] = "started" /\ memory' = memory \cup {sess[t]}
        /\ UNCHANGED <<life, active, tasks, events, fired, resultVars, sess, clientVars, unborn, late, overlapVars>>
    BY <1>4 DEF StartedEmitted
  <2>2. CASE BeginAttempt(t)
    BY <2>1, <2>2, BeginWorks, Places
  <2>3. CASE Goto(t, "init") /\ UNCHANGED executors
    <3>1. "init" \in Holding /\ "init" \notin After /\ "init" \in Locations /\ Live(t)
      BY <2>1, Places DEF Live
    <3>. QED
      BY <2>1, <2>3, <3>1 DEF Works
  <2>. QED
    BY <1>4, <2>2, <2>3 DEF StartedEmitted
<1>5. CASE InitialStateWritten(t)
  BY <1>5, BeginWorks, Places DEF InitialStateWritten
<1>6. CASE ResurrectionEmitted(t)
  BY <1>6, QuietWorks, Places DEF ResurrectionEmitted
<1>7. CASE CooldownOver(t)
  BY <1>7, BeginWorks, Places DEF CooldownOver
<1>8. CASE FinalStateWritten(t)
  BY <1>8, QuietWorks, Places DEF FinalStateWritten
<1>9. CASE ErrorStateWritten(t)
  BY <1>9, QuietWorks, Places DEF ErrorStateWritten
<1>10. CASE EventPublished(t) \/ HandlerInterrupted(t)
  BY <1>10 DEF EventPublished, HandlerInterrupted, Ends, After, Handlers
<1>11. CASE CancelDelivered(t)
  <2>. DEFINE r == IF result[t] = "none" THEN "cancelled" ELSE result[t]
  <2>1. Record(sess[t], r) /\ r \in Results
    BY <1>11 DEF CancelDelivered, TypeOK, Results
  <2>2. PICK loc \in {"cancelWrite", "cancelEmit"} : Goto(t, loc)
    BY <1>11 DEF CancelDelivered, WriteOrPublish
  <2>3. /\ executors' = Pop(executors, sess[t])
        /\ UNCHANGED <<memory, life, active, tasks, events, fired, sess, clientVars, unborn, late, overlapVars>>
    BY <1>11 DEF CancelDelivered
  <2>4. pc[t] \in Holding /\ loc \in Holding \ {"run"} /\ loc \notin Remembered
    BY <1>11, Places DEF CancelDelivered, Holding
  <2>. QED
    BY <2>1, <2>2, <2>3, <2>4, QuietWorks DEF Recorded
<1>12. CASE CancelStateWritten(t)
  BY <1>12, QuietWorks, Places DEF CancelStateWritten
<1>13. ASSUME NEW r \in Outcomes, ExecutorReturns(t, r) PROVE \E loc : Works(t, loc)
  BY <1>13, AttemptWorks DEF ExecutorReturns
<1>14. CASE ExecutorRaises(t)
  <2>1. Recorded(t)
    BY <1>14 DEF ExecutorRaises, Recorded, Results
  <2>2. PICK loc \in {"errorWrite", "errorEmit"} : Goto(t, loc)
    BY <1>14 DEF ExecutorRaises, WriteOrPublish
  <2>. QED
    BY <1>14, <2>1, <2>2, QuietWorks, Places DEF ExecutorRaises
<1>15. CASE ExecutorPauses(t)
  BY <1>15, AttemptWorks DEF ExecutorPauses, Outcomes
<1>. QED
  BY <1>2, <1>3, <1>4, <1>5, <1>6, <1>7, <1>8, <1>9, <1>10, <1>11, <1>12, <1>13, <1>14, <1>15
     DEF TaskStep, ExecutorStep

\* What a step of a caller or of nobody leaves alone, unless it registers a
\* new execution; the bookkeeping of stop() may be cleared.
Elsewhere ==
  /\ UNCHANGED <<pc, sess, fired, unborn, emitted, events, resultVars, memory>>
  /\ UNCHANGED <<active, tasks>> \/ ClearBookkeeping

Registers == \E c \in Clients : \E r \in Sessions \cup {NoSession} : Register(c, r)

LEMMA NextOrRegisters ==
  ASSUME NEW c \in Clients, NEW ids, NEW r \in Sessions \cup {NoSession}, CancelNextOrRegister(c, ids, r)
  PROVE  Registers \/ Elsewhere
<1>1. ASSUME NEW s \in ids, NEW idle, CancelAndWait(c, s, "execute", (ids \ {s}) \ idle, r)
      PROVE  Elsewhere
  BY <1>1 DEF CancelAndWait, Elsewhere
<1>. QED
  BY <1>1 DEF CancelNextOrRegister, Registers

LEMMA ClientEffects ==
  ASSUME TypeOK, NEW c \in Clients, ClientCall(c) \/ ClientStep(c)
  PROVE  Registers \/ Elsewhere
<1>. USE DEF streamVars, taskVars, histVars, overlapVars
<1>1. ASSUME NEW r \in Sessions \cup {NoSession}, Execute(c, r) PROVE Registers \/ Elsewhere
  BY <1>1, NextOrRegisters DEF Execute
<1>2. CASE ExecuteContinues(c)
  <2>1. args[c] \in Sessions \cup {NoSession}
    BY DEF TypeOK
  <2>. QED
    BY <1>2, <2>1, NextOrRegisters DEF ExecuteContinues
<1>3. ASSUME NEW s \in Sessions, CancelExecution(c, s) PROVE Elsewhere
  BY <1>3 DEF CancelExecution, CancelAndWait, Elsewhere
<1>4. ASSUME NEW s \in Sessions, NEW timed \in BOOLEAN, WaitForCompletion(c, s, timed) PROVE Elsewhere
  BY <1>4 DEF WaitForCompletion, Elsewhere
<1>5. CASE StopBegins(c)
  BY <1>5 DEF StopBegins, Elsewhere
<1>6. CASE CancelReturns(c) \/ CompletionSeen(c)
  BY <1>6 DEF CancelReturns, CompletionSeen, Elsewhere
<1>7. CASE StopEnds(c)
  BY <1>7 DEF StopEnds, Elsewhere
<1>. QED
  BY <1>1, <1>2, <1>3, <1>4, <1>5, <1>6, <1>7 DEF ClientCall, ClientStep

\* Every step of the system.
LEMMA StepEffects ==
  ASSUME TypeOK, [Next]_vars
  PROVE  \/ \E t \in Tasks : Ends(t) \/ CancelledBeforeBody(t) \/ \E loc : Works(t, loc)
         \/ Registers \/ Elsewhere
<1>. USE DEF streamVars, taskVars, histVars, overlapVars
<1>1. CASE Start
  BY <1>1 DEF Start, Elsewhere
<1>2. CASE UNCHANGED vars
  BY <1>2 DEF vars, Elsewhere
<1>. QED
  BY <1>1, <1>2, TaskEffects, ClientEffects DEF Next

-----------------------------------------------------------------------------
(***************************************************************************)
(* What an execution leaves behind.                                        *)
(***************************************************************************)

\* Entries are made for tasks with the id they are under; an entry of a task that is
\* over is left by one that never entered its try block.
EntriesInv ==
  \A s \in Sessions : \A t \in {active[s], tasks[s], events[s]} \cap Tasks :
    pc[t] # "none" /\ sess[t] = s /\ (pc[t] = "done" => t \in unborn)

\* A task that may still set its event has it under its id, until another task with
\* that id is registered.
WakeInv ==
  /\ \A t \in Tasks : Live(t) /\ ~Replaced(t) => events[sess[t]] = t
  /\ NoLostWakeup
  /\ \A t \in fired : pc[t] # "none"

\* The ids with a result, and whether there is room for another one.
Kept == {s \in Sessions : results[s] # "none"}

Full == Cardinality(Kept) = RetentionMax

\* The results are numbered from the newest one, without gaps.
AgesInv ==
  /\ IsFiniteSet(Kept) /\ Cardinality(Kept) <= RetentionMax
  /\ \A s \in Kept : age[s] < Cardinality(Kept)
  /\ \A s, u \in Kept : age[s] = age[u] => s = u
  /\ \A k \in 0..(Cardinality(Kept) - 1) : \E s \in Kept : age[s] = k

\* A result that was recorded is there, unless it has been pruned.
Answered(s) == results[s] # "none" \/ Full

ResultInv == \A t \in Tasks : pc[t] \in After \/ t \in fired => Answered(sess[t])

CleanInv == TypeInv /\ EntriesInv /\ WakeInv /\ MemoryHasOwner /\ AgesInv /\ ResultInv

LEMMA InitClean == Init => CleanInv
<1>. SUFFICES ASSUME Init PROVE CleanInv
  OBVIOUS
<1>1. TypeInv
  BY InitTypeInv
<1>2. Kept = {} /\ Cardinality(Kept) = 0 /\ IsFiniteSet(Kept)
  <2>1. Kept = {}
    BY DEF Init, Kept
  <2>. QED
    BY <2>1, FS_EmptySet
<1>3. AgesInv
  BY <1>2, StreamAssumption DEF AgesInv
<1>4. EntriesInv
  BY StreamAssumption DEF Init, EntriesInv
<1>5. WakeInv /\ MemoryHasOwner
  BY DEF Init, WakeInv, NoLostWakeup, MemoryHasOwner, Live
<1>6. ResultInv
  BY Places DEF Init, ResultInv
<1>. QED
  BY <1>1, <1>3, <1>4, <1>5, <1>6 DEF CleanInv

\* What the summaries say of each task.
LEMMA WorksFacts ==
  ASSUME TypeOK, NEW t \in Tasks, NEW loc, Works(t, loc)
  PROVE  /\ Live(t) /\ pc'[t] = loc /\ loc # "none" /\ loc # "done"
         /\ \A u \in Tasks \ {t} : pc'[u] = pc[u]
         /\ \A u \in Tasks : (pc'[u] = "none" <=> pc[u] = "none") /\ (pc'[u] = "done" <=> pc[u] = "done")
         /\ \A u \in Tasks : pc[u] \in Holding => pc'[u] \in Holding
BY DEF Works, Goto, TypeOK, Live

LEMMA DoneFacts ==
  ASSUME TypeOK, NEW t \in Tasks, Ends(t) \/ CancelledBeforeBody(t)
  PROVE  /\ Live(t) /\ pc'[t] = "done" /\ \A u \in Tasks \ {t} : pc'[u] = pc[u]
         /\ sess' = sess
BY Places DEF Ends, Finally, CancelledBeforeBody, Goto, TypeOK, Live

LEMMA RegisterFacts ==
  ASSUME TypeOK, NEW c, NEW r, Register(c, r)
  PROVE  \E t \in Tasks, s \in Sessions :
           /\ pc[t] = "none" /\ pc'[t] = "queued" /\ sess'[t] = s
           /\ \A u \in Tasks \ {t} : pc'[u] = pc[u] /\ sess'[u] = sess[u]
           /\ active'[s] = t /\ tasks'[s] = t /\ events'[s] = t
           /\ \A x \in Sessions \ {s} :
                active'[x] = active[x] /\ tasks'[x] = tasks[x] /\ events'[x] = events[x]
           /\ UNCHANGED <<fired, unborn, emitted, memory, resultVars, life, executors>>
<1>1. PICK t \in Tasks, s \in Sessions :
        /\ pc[t] = "none"
        /\ active' = Put(active, s, t) /\ events' = Put(events, s, t) /\ tasks' = Put(tasks, s, t)
        /\ pc' = [pc EXCEPT ![t] = "queued"] /\ sess' = [sess EXCEPT ![t] = s]
        /\ UNCHANGED <<fired, unborn, emitted, memory, resultVars, life, executors>>
  BY DEF Register
<1>2. /\ pc'[t] = "queued" /\ sess'[t] = s
      /\ \A u \in Tasks \ {t} : pc'[u] = pc[u] /\ sess'[u] = sess[u]
  BY <1>1 DEF TypeOK
<1>3. /\ active'[s] = t /\ tasks'[s] = t /\ events'[s] = t
      /\ \A x \in Sessions \ {s} :
           active'[x] = active[x] /\ tasks'[x] = tasks[x] /\ events'[x] = events[x]
  BY <1>1 DEF Put, TypeOK
<1>. QED
  BY <1>1, <1>2, <1>3

LEMMA FinallyFacts ==
  ASSUME TypeInv, NEW t \in Tasks, Ends(t)
  PROVE  /\ sess[t] \in Sessions
         /\ active'[sess[t]] = NoTask /\ tasks'[sess[t]] = NoTask /\ events'[sess[t]] = NoTask
         /\ \A x \in Sessions \ {sess[t]} :
              active'[x] = active[x] /\ tasks'[x] = tasks[x] /\ events'[x] = events[x]
         /\ fired' = fired \cup ({events[sess[t]]} \ {NoTask})
         /\ memory' = memory \ {sess[t]}
         /\ UNCHANGED <<unborn, resultVars>>
<1>1. sess[t] \in Sessions
  BY Places DEF Ends, TypeInv, CreatedHaveIds
<1>. QED
  BY <1>1 DEF Ends, Finally, Pop, TypeInv, TypeOK, histVars, overlapVars

LEMMA StepEntries ==
  ASSUME TypeInv, EntriesInv, [Next]_vars
  PROVE  EntriesInv'
<1>0. TypeOK /\ NoTask \notin Tasks
  BY StreamAssumption DEF TypeInv
<1>1. ASSUME NEW t \in Tasks, NEW loc, Works(t, loc) PROVE EntriesInv'
  <2>1. UNCHANGED <<active, tasks, events, sess, unborn>>
    BY <1>1 DEF Works
  <2>. QED
    BY <1>0, <1>1, <2>1, WorksFacts DEF EntriesInv
<1>2. ASSUME NEW t \in Tasks, Ends(t) PROVE EntriesInv'
  BY <1>0, <1>2, DoneFacts, FinallyFacts DEF EntriesInv
<1>3. ASSUME NEW t \in Tasks, CancelledBeforeBody(t) PROVE EntriesInv'
  <2>1. UNCHANGED <<active, tasks, events>> /\ unborn' = unborn \cup {t}
    BY <1>3 DEF CancelledBeforeBody, streamVars
  <2>. QED
    BY <1>0, <1>3, <2>1, DoneFacts DEF EntriesInv
<1>4. ASSUME NEW c, NEW r, Register(c, r) PROVE EntriesInv'
  <2>1. PICK t \in Tasks, s \in Sessions :
           /\ pc[t] = "none" /\ pc'[t] = "queued" /\ sess'[t] = s
           /\ \A u \in Tasks \ {t} : pc'[u] = pc[u] /\ sess'[u] = sess[u]
           /\ active'[s] = t /\ tasks'[s] = t /\ events'[s] = t
           /\ \A x \in Sessions \ {s} :
                active'[x] = active[x] /\ tasks'[x] = tasks[x] /\ events'[x] = events[x]
           /\ UNCHANGED unborn
    BY <1>0, <1>4, RegisterFacts
  <2>2. ASSUME NEW x \in Sessions, x # s, NEW u \in {active'[x], tasks'[x], events'[x]} \cap Tasks
        PROVE  pc'[u] # "none" /\ sess'[u] = x /\ (pc'[u] = "done" => u \in unborn')
    <3>1. u \in {active[x], tasks[x], events[x]} \cap Tasks
      BY <2>1, <2>2
    <3>2. pc[u] # "none" /\ sess[u] = x /\ (pc[u] = "done" => u \in unborn)
      BY <3>1 DEF EntriesInv
    <3>. QED
      BY <2>1, <3>1, <3>2
  <2>3. ASSUME NEW u \in {active'[s], tasks'[s], events'[s]} \cap Tasks
        PROVE  pc'[u] # "none" /\ sess'[u] = s /\ pc'[u] # "done"
    BY <2>1, <2>3
  <2>. QED
    BY <2>2, <2>3 DEF EntriesInv
<1>5. CASE Elsewhere
  BY <1>0, <1>5 DEF Elsewhere, ClearBookkeeping, EntriesInv
<1>. QED
  BY <1>0, <1>1, <1>2, <1>3, <1>4, <1>5, StepEffects DEF Registers

LEMMA StepWake ==
  ASSUME TypeInv, EntriesInv, WakeInv, [Next]_vars
  PROVE  WakeInv'
<1>0. TypeOK /\ NoTask \notin Tasks
  BY StreamAssumption DEF TypeInv
<1>1. ASSUME NEW t \in Tasks, NEW loc, Works(t, loc) PROVE WakeInv'
  <2>1. UNCHANGED <<events, sess, unborn, fired>>
    BY <1>1 DEF Works
  <2>2. \A u \in Tasks : (Live(u)' <=> Live(u)) /\ (Replaced(u)' <=> Replaced(u))
    BY <1>0, <1>1, <2>1, WorksFacts DEF Live, Replaced
  <2>. QED
    BY <1>0, <1>1, <2>1, <2>2, WorksFacts DEF WakeInv, NoLostWakeup, TypeOK
<1>2. ASSUME NEW t \in Tasks, Ends(t) PROVE WakeInv'
  <2>1. \A u \in Tasks : Replaced(u)' <=> Replaced(u)
    BY <1>0, <1>2, DoneFacts DEF Replaced, Live
  <2>2. ASSUME NEW u \in Tasks, Live(u)', ~Replaced(u)' PROVE events'[sess'[u]] = u
    <3>1. u # t /\ Live(u) /\ sess'[u] = sess[u]
      BY <1>0, <1>2, <2>2, DoneFacts DEF Live
    <3>2. sess[u] # sess[t]
      BY <1>0, <1>2, <2>1, <2>2, <3>1, DoneFacts DEF Replaced, Live
    <3>3. sess[u] \in Sessions
      BY <3>1 DEF TypeInv, CreatedHaveIds, Live
    <3>4. events[sess[u]] = u
      BY <2>1, <2>2, <3>1 DEF WakeInv
    <3>. QED
      BY <1>2, <3>1, <3>2, <3>3, <3>4, FinallyFacts
  <2>3. ASSUME NEW u \in Tasks, pc'[u] = "done", u \notin unborn', ~Replaced(u)' PROVE u \in fired'
    <3>1. CASE u = t
      <4>1. Live(t) /\ ~Replaced(t)
        BY <1>0, <1>2, <2>1, <2>3, <3>1, DoneFacts
      <4>2. events[sess[t]] = t
        BY <4>1 DEF WakeInv
      <4>. QED
        BY <1>0, <1>2, <3>1, <4>2, FinallyFacts
    <3>2. CASE u # t
      BY <1>0, <1>2, <2>1, <2>3, <3>2, DoneFacts, FinallyFacts DEF WakeInv, NoLostWakeup
    <3>. QED
      BY <3>1, <3>2
  <2>4. \A u \in fired' : pc'[u] # "none"
    <3>1. ASSUME NEW u \in fired' PROVE u \in Tasks /\ (pc[u] # "none" \/ u = t)
      <4>1. sess[t] \in Sessions /\ (u \in fired \/ (u = events[sess[t]] /\ u # NoTask))
        BY <1>2, <3>1, FinallyFacts
      <4>2. u \in Tasks
        BY <1>0, <4>1 DEF TypeOK
      <4>. QED
        BY <4>1, <4>2 DEF WakeInv, EntriesInv
    <3>. QED
      BY <1>0, <1>2, <3>1, DoneFacts
  <2>. QED
    BY <2>2, <2>3, <2>4 DEF WakeInv, NoLostWakeup
<1>3. ASSUME NEW t \in Tasks, CancelledBeforeBody(t) PROVE WakeInv'
  <2>1. UNCHANGED <<events, fired>> /\ unborn' = unborn \cup {t}
    BY <1>3 DEF CancelledBeforeBody, streamVars
  <2>2. \A u \in Tasks : Replaced(u)' <=> Replaced(u)
    BY <1>0, <1>3, DoneFacts DEF Replaced, Live
  <2>3. \A u \in Tasks : Live(u)' => Live(u) /\ u # t
    BY <1>0, <1>3, DoneFacts DEF Live
  <2>. QED
    BY <1>0, <1>3, <2>1, <2>2, <2>3, DoneFacts DEF WakeInv, NoLostWakeup, TypeOK
<1>4. ASSUME NEW c, NEW r, Register(c, r) PROVE WakeInv'
  <2>1. PICK t \in Tasks, s \in Sessions :
           /\ pc[t] = "none" /\ pc'[t] = "queued" /\ sess'[t] = s
           /\ \A u \in Tasks \ {t} : pc'[u] = pc[u] /\ sess'[u] = sess[u]
           /\ events'[s] = t /\ \A x \in Sessions \ {s} : events'[x] = events[x]
           /\ UNCHANGED <<fired, unborn>>
    BY <1>0, <1>4, RegisterFacts
  <2>2. \A u \in Tasks : Replaced(u) /\ u # t => Replaced(u)'
    BY <2>1 DEF Replaced
  <2>3. ASSUME NEW u \in Tasks, Live(u)', ~Replaced(u)' PROVE events'[sess'[u]] = u
    <3>1. CASE u = t
      BY <2>1, <3>1
    <3>2. CASE u # t
      <4>1. Live(u) /\ sess'[u] = sess[u] /\ ~Replaced(u) /\ sess[u] # s
        BY <2>1, <2>2, <2>3, <3>2 DEF Live, Replaced
      <4>2. sess[u] \in Sessions /\ events[sess[u]] = u
        BY <4>1 DEF WakeInv, TypeInv, CreatedHaveIds, Live
      <4>. QED
        BY <2>1, <4>1, <4>2
    <3>. QED
      BY <3>1, <3>2
  <2>4. NoLostWakeup'
    BY <2>1, <2>2 DEF WakeInv, NoLostWakeup
  <2>. QED
    BY <1>0, <2>1, <2>3, <2>4 DEF WakeInv, TypeOK
<1>5. CASE Elsewhere
  BY <1>5 DEF Elsewhere, WakeInv, NoLostWakeup, Replaced, Live
<1>. QED
  BY <1>0, <1>1, <1>2, <1>3, <1>4, <1>5, StepEffects DEF Registers

LEMMA StepMemory ==
  ASSUME TypeInv, MemoryHasOwner, [Next]_vars
  PROVE  MemoryHasOwner'
<1>0. TypeOK
  BY DEF TypeInv
<1>1. ASSUME NEW t \in Tasks, NEW loc, Works(t, loc) PROVE MemoryHasOwner'
  <2>1. sess' = sess /\ (memory' = memory \/ (memory' = memory \cup {sess[t]} /\ loc \in Holding))
    BY <1>1 DEF Works
  <2>. QED
    BY <1>0, <1>1, <2>1, WorksFacts DEF MemoryHasOwner
<1>2. ASSUME NEW t \in Tasks, Ends(t) PROVE MemoryHasOwner'
  BY <1>0, <1>2, DoneFacts, FinallyFacts DEF MemoryHasOwner
<1>3. ASSUME NEW t \in Tasks, CancelledBeforeBody(t) PROVE MemoryHasOwner'
  <2>1. memory' = memory /\ pc[t] \notin Holding
    BY <1>3, Places DEF CancelledBeforeBody
  <2>. QED
    BY <1>0, <1>3, <2>1, DoneFacts DEF MemoryHasOwner
<1>4. ASSUME NEW c, NEW r, Register(c, r) PROVE MemoryHasOwner'
  <2>1. PICK t \in Tasks :
           /\ pc[t] = "none" /\ \A u \in Tasks \ {t} : pc'[u] = pc[u] /\ sess'[u] = sess[u]
           /\ UNCHANGED memory
    BY <1>0, <1>4, RegisterFacts
  <2>2. pc[t] \notin Holding
    BY <2>1, Places
  <2>. QED
    BY <2>1, <2>2 DEF MemoryHasOwner
<1>5. CASE Elsewhere
  BY <1>5 DEF Elsewhere, MemoryHasOwner
<1>. QED
  BY <1>0, <1>1, <1>2, <1>3, <1>4, <1>5, StepEffects DEF Registers

\* A result that is replaced becomes the newest, and nothing is pruned.
LEMMA RecordAgain ==
  ASSUME TypeOK, AgesInv, NEW s \in Kept, NEW r \in Results, Record(s, r)
  PROVE  AgesInv' /\ Kept' = Kept
<1>. DEFINE n == Cardinality(Kept)
<1>1. n \in Nat /\ n <= RetentionMax /\ s \in Sessions /\ Kept \subseteq Sessions /\ RetentionMax \in Nat
  BY FS_CardinalityType, StreamAssumption DEF AgesInv, Kept
<1>2. \A x \in Kept : age[x] \in Nat /\ age[x] < n
  BY <1>1 DEF AgesInv, TypeOK
<1>. HIDE DEF n
<1>3. \A x \in Kept \ {s} : AgeAfter(s)[x] = IF age[x] < age[s] THEN age[x] + 1 ELSE age[x]
  BY <1>1 DEF AgeAfter, Kept
<1>4. \A x \in Kept \ {s} : AgeAfter(s)[x] < n
  BY <1>1, <1>2, <1>3
<1>5. \A x \in Sessions : Retained(s, x) <=> x \in Kept
  BY <1>1, <1>2, <1>3, <1>4 DEF Retained, Kept
<1>6. r # "none"
  BY DEF Results, Outcomes
<1>7. Kept' = Kept
  BY <1>1, <1>5, <1>6 DEF Kept, Record
<1>8. \A x \in Kept \ {s} : age'[x] = IF age[x] < age[s] THEN age[x] + 1 ELSE age[x]
  BY <1>1, <1>3, <1>5 DEF Record
<1>9. age'[s] = 0
  BY <1>1 DEF Record, Retained, AgeAfter
<1>10. \A x \in Kept : age'[x] < n
  BY <1>1, <1>2, <1>8, <1>9
<1>11. ASSUME NEW x \in Kept, NEW y \in Kept, age'[x] = age'[y] PROVE x = y
  <2>1. \A u, v \in Kept : age[u] = age[v] => u = v
    BY DEF AgesInv
  <2>2. ASSUME x # s, y # s PROVE age[x] = age[y]
    <3>1. age[x] # age[s] /\ age[y] # age[s]
      BY <2>1, <2>2
    <3>. QED
      BY <1>2, <1>8, <1>11, <2>2, <3>1
  <2>3. ASSUME NEW u \in Kept \ {s} PROVE age'[u] # 0
    <3>1. age[u] # age[s]
      BY <2>1
    <3>. QED
      BY <1>2, <1>8, <3>1
  <2>. QED
    BY <1>9, <1>11, <2>1, <2>2, <2>3
<1>12. ASSUME NEW k \in 0..(n - 1) PROVE \E x \in Kept : age'[x] = k
  <2>1. \A j \in 0..(n - 1) : \E x \in Kept : age[x] = j
    BY DEF AgesInv, n
  <2>2. CASE k = 0
    BY <1>9, <2>2
  <2>3. CASE k > 0 /\ k <= age[s]
    <3>1. PICK x \in Kept : age[x] = k - 1
      BY <1>1, <2>1, <2>3
    <3>. QED
      BY <1>2, <1>8, <2>3, <3>1
  <2>4. CASE k > age[s]
    <3>1. PICK x \in Kept : age[x] = k
      BY <2>1
    <3>. QED
      BY <1>2, <1>8, <2>4, <3>1
  <2>. QED
    BY <1>2, <2>2, <2>3, <2>4
<1>. QED
  BY <1>7, <1>10, <1>11, <1>12 DEF AgesInv, n

\* A new result makes all others older by one, and the oldest goes if there is no room.
LEMMA RecordNew ==
  ASSUME TypeOK, AgesInv, NEW s \in Sessions \ Kept, NEW r \in Results, Record(s, r)
  PROVE  AgesInv' /\ s \in Kept' /\ (Full => Full') /\ (~Full => Kept \subseteq Kept')
<1>. DEFINE n == Cardinality(Kept)
<1>1. n \in Nat /\ n <= RetentionMax /\ Kept \subseteq Sessions /\ RetentionMax \in Nat \ {0}
      /\ IsFiniteSet(Kept) /\ (Full <=> n = RetentionMax)
  BY FS_CardinalityType, StreamAssumption DEF AgesInv, Kept, Full
<1>2. \A x \in Kept : age[x] \in Nat /\ age[x] < n
  BY <1>1 DEF AgesInv, TypeOK
<1>3. \A u, v \in Kept : age[u] = age[v] => u = v
  BY DEF AgesInv
<1>4. \A j \in 0..(n - 1) : \E x \in Kept : age[x] = j
  BY DEF AgesInv
<1>. HIDE DEF n
<1>5. results[s] = "none" /\ r # "none"
  BY DEF Kept, Results, Outcomes
<1>6. \A x \in Kept : AgeAfter(s)[x] = age[x] + 1
  BY <1>1, <1>5 DEF AgeAfter, Kept
<1>7. \A x \in Sessions : Retained(s, x) <=> x = s \/ (x \in Kept /\ age[x] + 1 < RetentionMax)
  BY <1>6 DEF Retained, Kept
<1>8. Kept' = {s} \cup {x \in Kept : age[x] + 1 < RetentionMax}
  <2>1. \A x \in Sessions : results'[x] = IF ~Retained(s, x) THEN "none"
                                          ELSE IF x = s THEN r ELSE results[x]
    BY DEF Record
  <2>. QED
    BY <1>5, <1>7, <2>1 DEF Kept
<1>9. age'[s] = 0 /\ \A x \in Kept' \ {s} : x \in Kept /\ age'[x] = age[x] + 1
  BY <1>1, <1>6, <1>7, <1>8 DEF Record, Retained, AgeAfter
<1>10. \A x \in Kept', y \in Kept' : age'[x] = age'[y] => x = y
  BY <1>2, <1>3, <1>9
<1>11. CASE n < RetentionMax
  <2>1. Kept' = Kept \cup {s}
    BY <1>1, <1>2, <1>8, <1>11
  <2>2. IsFiniteSet(Kept') /\ Cardinality(Kept') = n + 1
    BY <1>1, <2>1, FS_AddElement DEF n
  <2>3. \A x \in Kept' : age'[x] < n + 1
    BY <1>1, <1>2, <1>9
  <2>4. ASSUME NEW k \in 0..n PROVE \E x \in Kept' : age'[x] = k
    <3>1. CASE k = 0
      BY <1>9, <2>1, <3>1
    <3>2. CASE k > 0
      <4>1. PICK x \in Kept : age[x] = k - 1
        BY <1>1, <1>4, <3>2
      <4>2. x \in Kept' \ {s} /\ age'[x] = k
        BY <1>2, <1>9, <2>1, <4>1
      <4>. QED
        BY <4>2
    <3>. QED
      BY <3>1, <3>2
  <2>5. ~Full /\ Cardinality(Kept') <= RetentionMax /\ Cardinality(Kept') - 1 = n
    BY <1>1, <1>11, <2>2
  <2>. QED
    BY <1>10, <2>1, <2>2, <2>3, <2>4, <2>5 DEF AgesInv
<1>12. CASE n = RetentionMax
  <2>1. PICK z \in Kept : age[z] = n - 1
    BY <1>1, <1>4, <1>12
  <2>2. \A x \in Kept : age[x] + 1 < RetentionMax <=> x # z
    BY <1>1, <1>2, <1>3, <1>12, <2>1
  <2>3. Kept' = (Kept \ {z}) \cup {s} /\ s \notin Kept \ {z}
    BY <1>8, <2>2
  <2>4. IsFiniteSet(Kept \ {z}) /\ Cardinality(Kept \ {z}) = n - 1
    BY <1>1, FS_RemoveElement DEF n
  <2>5. IsFiniteSet(Kept') /\ Cardinality(Kept') = n
    <3>1. IsFiniteSet((Kept \ {z}) \cup {s}) /\ Cardinality((Kept \ {z}) \cup {s}) = (n - 1) + 1
      BY <2>3, <2>4, FS_AddElement
    <3>. QED
      BY <1>1, <2>3, <3>1
  <2>6. \A x \in Kept' : age'[x] < n
    BY <1>1, <1>2, <1>8, <1>9, <1>12
  <2>7. ASSUME NEW k \in 0..(n - 1) PROVE \E x \in Kept' : age'[x] = k
    <3>1. CASE k = 0
      BY <1>8, <1>9, <3>1
    <3>2. CASE k > 0
      <4>1. PICK x \in Kept : age[x] = k - 1
        BY <1>1, <1>4, <3>2
      <4>2. x # z /\ x # s
        BY <1>1, <2>1, <4>1
      <4>3. x \in Kept' \ {s} /\ age'[x] = k
        BY <1>2, <1>9, <2>3, <4>1, <4>2
      <4>. QED
        BY <4>3
    <3>. QED
      BY <3>1, <3>2
  <2>8. AgesInv'
    BY <1>1, <1>10, <2>5, <2>6, <2>7 DEF AgesInv
  <2>9. Full /\ Full' /\ s \in Kept'
    BY <1>1, <1>12, <2>3, <2>5 DEF Full
  <2>. QED
    BY <2>8, <2>9
<1>. QED
  BY <1>1, <1>11, <1>12

\* After any recording: the ages are in order, the id has a result, and nobody who had
\* an answer loses it, unless RetentionMax others have one.
LEMMA RecordAnswers ==
  ASSUME TypeOK, AgesInv, NEW s \in Sessions, NEW r \in Results, Record(s, r)
  PROVE  AgesInv' /\ Answered(s)' /\ \A x \in Sessions : Answered(x) => Answered(x)'
<1>1. CASE s \in Kept
  BY <1>1, RecordAgain DEF Answered, Full, Kept
<1>2. CASE s \notin Kept
  BY <1>2, RecordNew DEF Answered, Kept
<1>. QED
  BY <1>1, <1>2

LEMMA StepResults ==
  ASSUME TypeInv, EntriesInv, WakeInv, AgesInv, ResultInv, [Next]_vars
  PROVE  AgesInv' /\ ResultInv'
<1>0. TypeOK
  BY DEF TypeInv
<1>1. ASSUME UNCHANGED resultVars
      PROVE  AgesInv' /\ Kept' = Kept /\ \A x \in Sessions : Answered(x)' <=> Answered(x)
  BY <1>1 DEF resultVars, AgesInv, Kept, Answered, Full
<1>2. ASSUME NEW u \in Tasks, pc[u] # "none" PROVE sess[u] \in Sessions
  BY <1>2 DEF TypeInv, CreatedHaveIds
<1>3. \A u \in Tasks : pc[u] \in After \/ u \in fired => pc[u] # "none"
  BY Places DEF WakeInv
<1>4. ASSUME NEW t \in Tasks, NEW loc, Works(t, loc) PROVE AgesInv' /\ ResultInv'
  <2>1. sess' = sess /\ fired' = fired /\ sess[t] \in Sessions
    BY <1>0, <1>2, <1>4, WorksFacts DEF Works, Live
  <2>2. CASE UNCHANGED resultVars /\ (loc \in After => pc[t] \in After)
    BY <1>0, <1>1, <1>2, <1>3, <1>4, <2>1, <2>2, WorksFacts DEF ResultInv
  <2>3. CASE Recorded(t)
    <3>1. AgesInv' /\ Answered(sess[t])' /\ \A x \in Sessions : Answered(x) => Answered(x)'
      BY <1>0, <2>1, <2>3, RecordAnswers DEF Recorded
    <3>2. ASSUME NEW u \in Tasks \ {t}, pc[u] \in After \/ u \in fired PROVE Answered(sess[u])'
      BY <1>2, <1>3, <2>1, <3>1, <3>2 DEF ResultInv
    <3>. QED
      BY <1>0, <1>4, <2>1, <3>1, <3>2, WorksFacts DEF ResultInv
  <2>. QED
    BY <1>4, <2>2, <2>3 DEF Works
<1>5. ASSUME NEW t \in Tasks, Ends(t) PROVE AgesInv' /\ ResultInv'
  <2>1. sess' = sess /\ sess[t] \in Sessions /\ UNCHANGED resultVars
        /\ fired' = fired \cup ({events[sess[t]]} \ {NoTask})
    BY <1>0, <1>5, DoneFacts, FinallyFacts
  <2>2. Answered(sess[t])
    BY <1>5 DEF Ends, ResultInv
  <2>3. ASSUME NEW u \in Tasks, pc'[u] \in After \/ u \in fired' PROVE Answered(sess[u]) /\ sess[u] \in Sessions
    <3>1. CASE u = events[sess[t]]
      <4>1. sess[u] = sess[t]
        BY <2>1, <3>1 DEF EntriesInv
      <4>. QED
        BY <2>1, <2>2, <4>1
    <3>2. CASE u # events[sess[t]]
      <4>1. pc[u] \in After \/ u \in fired
        BY <1>0, <1>5, <2>1, <2>3, <3>2, DoneFacts, Places
      <4>. QED
        BY <1>2, <1>3, <4>1 DEF ResultInv
    <3>. QED
      BY <3>1, <3>2
  <2>. QED
    BY <1>1, <2>1, <2>3 DEF ResultInv
<1>6. ASSUME NEW t \in Tasks, CancelledBeforeBody(t) PROVE AgesInv' /\ ResultInv'
  <2>1. UNCHANGED resultVars /\ fired' = fired /\ sess' = sess
    BY <1>0, <1>6, DoneFacts DEF CancelledBeforeBody, streamVars
  <2>2. \A u \in Tasks : pc'[u] \in After => pc[u] \in After
    BY <1>0, <1>6, DoneFacts, Places
  <2>. QED
    BY <1>1, <1>2, <1>3, <2>1, <2>2 DEF ResultInv
<1>7. ASSUME NEW c, NEW r, Register(c, r) PROVE AgesInv' /\ ResultInv'
  <2>1. PICK t \in Tasks :
           /\ pc[t] = "none" /\ pc'[t] = "queued"
           /\ \A u \in Tasks \ {t} : pc'[u] = pc[u] /\ sess'[u] = sess[u]
           /\ UNCHANGED <<fired, resultVars>>
    BY <1>0, <1>7, RegisterFacts
  <2>2. \A u \in Tasks : pc'[u] \in After \/ u \in fired' => u # t /\ (pc[u] \in After \/ u \in fired)
    BY <1>3, <2>1, Places
  <2>. QED
    BY <1>1, <1>2, <1>3, <2>1, <2>2 DEF ResultInv
<1>8. CASE Elsewhere
  BY <1>1, <1>2, <1>3, <1>8 DEF Elsewhere, ResultInv
<1>. QED
  BY <1>0, <1>4, <1>5, <1>6, <1>7, <1>8, StepEffects DEF Registers

LEMMA StepClean == CleanInv /\ [Next]_vars => CleanInv'
BY StepTypeInv, StepEntries, StepWake, StepMemory, StepResults DEF CleanInv

\* An execution that entered its try block leaves nothing registered and no memory
\* behind, and whoever waits for it is woken and finds a result, however it ended:
\* as it wished, cancelled at any await, or interrupted again inside a handler.
THEOREM LeavesCleanly == Spec => []EndsCleanly
<1>1. CleanInv => EndsCleanly
  <2>. SUFFICES ASSUME CleanInv PROVE EndsCleanly
    OBVIOUS
  <2>1. LeaksOnlyUnborn
    BY DEF CleanInv, EntriesInv, LeaksOnlyUnborn
  <2>2. CompletedHasResult
    <3>1. \A t \in fired : t \in Tasks /\ Answered(sess[t])
      BY DEF CleanInv, ResultInv, TypeInv, TypeOK
    <3>. QED
      BY <3>1 DEF CompletedHasResult, Answered, Full, Kept
  <2>. QED
    BY <2>1, <2>2 DEF CleanInv, WakeInv, EndsCleanly
<1>. QED
  BY <1>1, InitClean, StepClean, PTL DEF Spec

-----------------------------------------------------------------------------
(***************************************************************************)
(* What is announced.                                                      *)
(***************************************************************************)

\* The awaits before the first publication of a terminal event, and those at which there
\* may have been one.
Silent == {"none", "queued", "semaphore", "started", "init", "run", "resurrect", "cooldown",
           "finalWrite", "errorWrite"}
Once == {"finalEmit", "errorEmit", "cancelWrite"}

EmitInv ==
  /\ \A t \in Tasks : pc[t] \in Silent => Len(emitted[t]) = 0
  /\ \A t \in Tasks : pc[t] \in Once => Len(emitted[t]) <= 1
  /\ CompletedIsFirst

\* A step that publishes no terminal event, one that does, and the end of the task.
Mute(t, loc) ==
  /\ Goto(t, loc) /\ emitted' = emitted
  /\ loc \in Silent => pc[t] \in Silent
  /\ loc \in Once => pc[t] \in Silent \cup Once

Says(t, loc) ==
  /\ Goto(t, loc) /\ loc \notin Silent
  /\ \E e \in Terminal :
       /\ Publish(t, e)
       /\ pc[t] \in Silent \/ (pc[t] \in Once /\ loc \notin Once /\ e # "completed")

Ceases(t) == Goto(t, "done") /\ emitted' \in {emitted, [emitted EXCEPT ![t] = <<>>]}

LEMMA AttemptAnnounces ==
  ASSUME NEW t \in Tasks, NEW r, pc[t] = "run", AttemptEnds(t, r)
  PROVE  \E loc : Mute(t, loc) \/ Says(t, loc)
<1>1. "run" \in Silent /\ "resurrect" \notin Once /\ "finalWrite" \notin Once /\ "finalEmit" \notin Silent
  BY DEF Silent, Once
<1>2. CASE Goto(t, "resurrect") /\ emitted' = emitted
  BY <1>1, <1>2 DEF Mute
<1>3. CASE WriteOrPublish(t, "finalWrite", "finalEmit", EventOf(r))
  <2>1. EventOf(r) \in Terminal
    BY DEF EventOf, Terminal
  <2>2. CASE Publish(t, EventOf(r)) /\ Goto(t, "finalEmit")
    BY <1>1, <2>1, <2>2 DEF Says
  <2>3. CASE Goto(t, "finalWrite") /\ emitted' = emitted
    BY <1>1, <2>3 DEF Mute
  <2>. QED
    BY <1>3, <2>2, <2>3 DEF WriteOrPublish
<1>. QED
  BY <1>2, <1>3 DEF AttemptEnds

LEMMA TaskAnnounces ==
  ASSUME TypeOK, NEW t \in Tasks, TaskStep(t) \/ ExecutorStep(t)
  PROVE  Ceases(t) \/ \E loc : Mute(t, loc) \/ Says(t, loc)
<1>. USE DEF streamVars, resultVars, histVars, overlapVars
<1>0. /\ {"queued", "semaphore", "started", "init", "run", "resurrect", "cooldown"} \subseteq Silent
      /\ {"finalWrite", "errorWrite"} \subseteq Silent
      /\ Once = {"finalEmit", "errorEmit", "cancelWrite"} /\ Once \cap Silent = {}
      /\ "cancelEmit" \notin Silent
  BY DEF Silent, Once
<1>1. ASSUME NEW loc, Goto(t, loc), emitted' = emitted, pc[t] \in Silent
      PROVE  Mute(t, loc)
  BY <1>1 DEF Mute
<1>3. CASE TaskStarts(t) \/ SemaphoreAcquired(t)
  <2>1. pc[t] \in Silent /\ emitted' = emitted /\ (Goto(t, "started") \/ Goto(t, "semaphore"))
    BY <1>0, <1>3 DEF TaskStarts, SemaphoreAcquired, EnterBody
  <2>. QED
    BY <1>1, <2>1
<1>4. CASE StartedEmitted(t) \/ InitialStateWritten(t)
  <2>1. pc[t] \in Silent /\ emitted' = emitted /\ (Goto(t, "run") \/ Goto(t, "init"))
    BY <1>0, <1>4 DEF StartedEmitted, InitialStateWritten, BeginAttempt
  <2>. QED
    BY <1>1, <2>1
<1>5. CASE ResurrectionEmitted(t) \/ CooldownOver(t)
  <2>1. pc[t] \in Silent /\ emitted' = emitted /\ (Goto(t, "cooldown") \/ Goto(t, "run"))
    BY <1>0, <1>5 DEF ResurrectionEmitted, CooldownOver, BeginAttempt
  <2>. QED
    BY <1>1, <2>1
<1>6. CASE FinalStateWritten(t)
  <2>1. EventOf(result[t]) \in Terminal
    BY DEF EventOf, Terminal
  <2>. QED
    BY <1>0, <1>6, <2>1 DEF FinalStateWritten, Says
<1>7. CASE ErrorStateWritten(t)
  BY <1>0, <1>7 DEF ErrorStateWritten, Says, Terminal
<1>8. CASE EventPublished(t) \/ HandlerInterrupted(t)
  BY <1>8 DEF EventPublished, HandlerInterrupted, Finally, Ceases
<1>9. CASE CancelledBeforeBody(t)
  BY <1>9 DEF CancelledBeforeBody, Ceases
<1>10. CASE CancelDelivered(t)
  <2>. DEFINE r == IF result[t] = "none" THEN "cancelled" ELSE result[t]
  <2>1. pc[t] \in Body /\ WriteOrPublish(t, "cancelWrite", "cancelEmit", CancelEventOf(r))
    BY <1>10 DEF CancelDelivered
  <2>2. pc[t] \in Silent \/ pc[t] \in Once
    BY <2>1 DEF Body, Silent, Once
  <2>3. CancelEventOf(r) \in Terminal /\ CancelEventOf(r) # "completed"
    BY DEF CancelEventOf, Terminal
  <2>. HIDE DEF r
  <2>4. CASE Publish(t, CancelEventOf(r)) /\ Goto(t, "cancelEmit")
    BY <1>0, <2>2, <2>3, <2>4 DEF Says
  <2>5. CASE Goto(t, "cancelWrite") /\ emitted' = emitted
    BY <1>0, <2>2, <2>5 DEF Mute
  <2>. QED
    BY <2>1, <2>4, <2>5 DEF WriteOrPublish
<1>11. CASE CancelStateWritten(t)
  <2>1. CancelEventOf(result[t]) \in Terminal /\ CancelEventOf(result[t]) # "completed"
    BY DEF CancelEventOf, Terminal
  <2>. QED
    BY <1>0, <1>11, <2>1 DEF CancelStateWritten, Says
<1>12. ASSUME NEW r \in Outcomes, ExecutorReturns(t, r) PROVE \E loc : Mute(t, loc) \/ Says(t, loc)
  BY <1>12, AttemptAnnounces DEF ExecutorReturns
<1>13. CASE ExecutorRaises(t)
  <2>1. CASE Publish(t, "failed") /\ Goto(t, "errorEmit")
    BY <1>0, <1>13, <2>1 DEF ExecutorRaises, Says, Terminal
  <2>2. CASE Goto(t, "errorWrite") /\ emitted' = emitted
    BY <1>0, <1>1, <1>13, <2>2 DEF ExecutorRaises
  <2>. QED
    BY <1>13, <2>1, <2>2 DEF ExecutorRaises, WriteOrPublish
<1>14. CASE ExecutorPauses(t)
  BY <1>14, AttemptAnnounces DEF ExecutorPauses
<1>. QED
  BY <1>3, <1>4, <1>5, <1>6, <1>7, <1>8, <1>9, <1>10, <1>11, <1>12, <1>13, <1>14
     DEF TaskStep, ExecutorStep

LEMMA InitEmit == Init => EmitInv
BY DEF Init, EmitInv, CompletedIsFirst

LEMMA StepEmit == TypeOK /\ EmitInv /\ [Next]_vars => EmitInv'
<1>. SUFFICES ASSUME TypeOK, EmitInv, [Next]_vars PROVE EmitInv'
  OBVIOUS
<1>0. \A t \in Tasks : emitted[t] \in Seq(Terminal)
  BY DEF TypeOK
<1>1. ASSUME NEW t \in Tasks, NEW loc, Mute(t, loc) PROVE EmitInv'
  <2>1. pc'[t] = loc /\ \A u \in Tasks \ {t} : pc'[u] = pc[u]
    BY <1>1 DEF Mute, Goto, TypeOK
  <2>2. emitted' = emitted /\ (loc \in Silent => pc[t] \in Silent)
        /\ (loc \in Once => pc[t] \in Silent \cup Once)
    BY <1>1 DEF Mute
  <2>. QED
    BY <1>0, <2>1, <2>2 DEF EmitInv, CompletedIsFirst
<1>2. ASSUME NEW t \in Tasks, NEW loc, Says(t, loc) PROVE EmitInv'
  <2>1. pc'[t] = loc /\ \A u \in Tasks \ {t} : pc'[u] = pc[u]
    BY <1>2 DEF Says, Goto, TypeOK
  <2>2. PICK e \in Terminal :
          /\ Publish(t, e)
          /\ pc[t] \in Silent \/ (pc[t] \in Once /\ loc \notin Once /\ e # "completed")
    BY <1>2 DEF Says
  <2>3. emitted'[t] = Append(emitted[t], e) /\ \A u \in Tasks \ {t} : emitted'[u] = emitted[u]
    BY <2>2 DEF Publish, TypeOK
  <2>4. /\ Len(emitted'[t]) = Len(emitted[t]) + 1
        /\ Len(emitted[t]) = 1 => emitted'[t][2] = e
    BY <1>0, <2>3
  <2>5. loc \notin Silent
    BY <1>2 DEF Says
  <2>6. CASE pc[t] \in Silent
    <3>1. Len(emitted[t]) = 0 /\ Len(emitted'[t]) = 1
      BY <2>4, <2>6 DEF EmitInv
    <3>. QED
      BY <2>1, <2>3, <2>5, <3>1 DEF EmitInv, CompletedIsFirst
  <2>7. CASE pc[t] \in Once /\ loc \notin Once /\ e # "completed"
    <3>1. Len(emitted[t]) <= 1
      BY <2>7 DEF EmitInv
    <3>2. Len(emitted[t]) \in Nat
      BY <1>0
    <3>3. Len(emitted'[t]) <= 2 /\ (Len(emitted'[t]) = 2 => Len(emitted[t]) = 1)
      <4>. DEFINE m == Len(emitted[t])
                  n == Len(emitted'[t])
      <4>1. n = m + 1 /\ m \in Nat /\ m <= 1
        BY <2>4, <3>1, <3>2
      <4>. HIDE DEF m, n
      <4>2. n <= 2 /\ (n = 2 => m = 1)
        BY <4>1
      <4>. QED
        BY <4>2 DEF m, n
    <3>4. ASSUME Len(emitted'[t]) = 2
          PROVE  emitted'[t][2] # "completed"
      <4>1. e # "completed"
        BY <2>7
      <4>2. Len(emitted[t]) = 1
        BY <3>3, <3>4
      <4>3. emitted'[t][2] = e
        BY <2>4, <4>2
      <4>. QED
        BY <4>1, <4>3, Zenon
    <3>. QED
      BY <2>1, <2>3, <2>5, <2>7, <3>3, <3>4 DEF EmitInv, CompletedIsFirst
  <2>. QED
    BY <2>2, <2>6, <2>7
<1>3. ASSUME NEW c, NEW r, Register(c, r) PROVE EmitInv'
  <2>1. PICK t \in Tasks :
           /\ pc[t] = "none" /\ pc'[t] = "queued" /\ \A u \in Tasks \ {t} : pc'[u] = pc[u]
           /\ emitted' = emitted
    BY <1>3, RegisterFacts
  <2>2. pc[t] \in Silent /\ "queued" \notin Once
    BY <2>1 DEF Silent, Once
  <2>. QED
    BY <2>1, <2>2 DEF EmitInv, CompletedIsFirst
<1>4. CASE Elsewhere
  BY <1>4 DEF Elsewhere, EmitInv, CompletedIsFirst
<1>5. ASSUME NEW t \in Tasks, Ceases(t) PROVE EmitInv'
  <2>1. pc'[t] = "done" /\ \A u \in Tasks \ {t} : pc'[u] = pc[u] /\ emitted'[u] = emitted[u]
    BY <1>5 DEF Ceases, Goto, TypeOK
  <2>2. emitted'[t] = emitted[t] \/ emitted'[t] = <<>>
    BY <1>5 DEF Ceases, TypeOK
  <2>3. Len(emitted'[t]) <= 2 /\ (Len(emitted'[t]) = 2 => emitted'[t][2] # "completed")
    BY <2>2 DEF EmitInv, CompletedIsFirst
  <2>4. "done" \notin Silent /\ "done" \notin Once
    BY DEF Silent, Once
  <2>. QED
    BY <2>1, <2>3, <2>4 DEF EmitInv, CompletedIsFirst
<1>6. ASSUME NEW t \in Tasks, TaskStep(t) \/ ExecutorStep(t) PROVE EmitInv'
  BY <1>1, <1>2, <1>5, <1>6, TaskAnnounces
<1>7. CASE Start \/ UNCHANGED vars
  BY <1>7 DEF Start, vars, taskVars, histVars, overlapVars, EmitInv, CompletedIsFirst
<1>. QED
  BY <1>3, <1>4, <1>6, <1>7, ClientEffects DEF Next, Registers

\* However often an execution is cancelled while it publishes its end, nobody hears of
\* its completion after a failure or a pause, nor of a third end.
THEOREM AnnouncedInOrder == Spec => []CompletedIsFirst
<1>1. TypeInv => TypeOK
  BY DEF TypeInv
<1>2. EmitInv => CompletedIsFirst
  BY DEF EmitInv
<1>. QED
  BY <1>1, <1>2, InitTypeInv, StepTypeInv, InitEmit, StepEmit, PTL DEF Spec

-----------------------------------------------------------------------------
(***************************************************************************)
(* Cancellation against resurrection.                                      *)
(***************************************************************************)

\* What a step of a task does to the count of its attempts.
Counts(t) ==
  /\ \/ resurrections' = resurrections
     \/ resurrections' = [resurrections EXCEPT ![t] = 0]
     \/ ~cancelled[t] /\ resurrections' = [resurrections EXCEPT ![t] = @ + 1]
  /\ cancelled[t] => pc'[t] # "run"

LEMMA TaskCounts ==
  ASSUME TypeOK, NEW t \in Tasks, TaskStep(t) \/ ExecutorStep(t)
  PROVE  Counts(t)
<1>0. ASSUME NEW loc, Goto(t, loc) PROVE pc'[t] = loc
  BY <1>0 DEF Goto, TypeOK
<1>1. CASE TaskStarts(t) \/ SemaphoreAcquired(t)
  BY <1>1 DEF TaskStarts, SemaphoreAcquired, EnterBody, Counts
<1>2. CASE StartedEmitted(t) \/ InitialStateWritten(t) \/ ResurrectionEmitted(t) \/ CooldownOver(t)
  BY <1>2 DEF StartedEmitted, InitialStateWritten, ResurrectionEmitted, CooldownOver, Counts
<1>3. CASE FinalStateWritten(t) \/ ErrorStateWritten(t) \/ CancelStateWritten(t)
  BY <1>3 DEF FinalStateWritten, ErrorStateWritten, CancelStateWritten, Counts
<1>4. CASE EventPublished(t) \/ HandlerInterrupted(t)
  <2>1. Goto(t, "done") /\ resurrections' = [resurrections EXCEPT ![t] = 0]
    BY <1>4 DEF EventPublished, HandlerInterrupted, Finally
  <2>. QED
    BY <1>0, <2>1 DEF Counts
<1>5. CASE CancelledBeforeBody(t)
  BY <1>0, <1>5 DEF CancelledBeforeBody, Counts
<1>6. CASE CancelDelivered(t)
  <2>1. resurrections' = resurrections /\ (Goto(t, "cancelWrite") \/ Goto(t, "cancelEmit"))
    BY <1>6 DEF CancelDelivered, WriteOrPublish
  <2>. QED
    BY <1>0, <2>1 DEF Counts
<1>7. ASSUME NEW r \in Outcomes, ExecutorReturns(t, r) PROVE Counts(t)
  <2>1. ~cancelled[t]
    BY <1>7 DEF ExecutorReturns
  <2>2. resurrections' = resurrections \/ resurrections' = [resurrections EXCEPT ![t] = @ + 1]
    BY <1>7 DEF ExecutorReturns, AttemptEnds
  <2>. QED
    BY <2>1, <2>2 DEF Counts
<1>8. CASE ExecutorRaises(t)
  BY <1>8 DEF ExecutorRaises, Counts
<1>9. CASE ExecutorPauses(t)
  <2>1. ~Resurrectable(t, "paused") /\ AttemptEnds(t, "paused")
    BY <1>9 DEF ExecutorPauses, Resurrectable
  <2>2. resurrections' = resurrections /\ (Goto(t, "finalWrite") \/ Goto(t, "finalEmit"))
    BY <2>1 DEF AttemptEnds, WriteOrPublish
  <2>. QED
    BY <1>0, <2>2 DEF Counts
<1>. QED
  BY <1>1, <1>2, <1>3, <1>4, <1>5, <1>6, <1>7, <1>8, <1>9 DEF TaskStep, ExecutorStep

LEMMA ClientsCount ==
  ASSUME NEW c \in Clients, ClientCall(c) \/ ClientStep(c)
  PROVE  resurrections' = resurrections
<1>. USE DEF taskVars
<1>1. ASSUME NEW ids, NEW r, CancelNextOrRegister(c, ids, r) PROVE resurrections' = resurrections
  BY <1>1 DEF CancelNextOrRegister, CancelAndWait, Register
<1>2. ASSUME NEW r, Execute(c, r) PROVE resurrections' = resurrections
  BY <1>1, <1>2 DEF Execute
<1>3. ASSUME ExecuteContinues(c) PROVE resurrections' = resurrections
  BY <1>1, <1>3 DEF ExecuteContinues
<1>4. ASSUME NEW s, CancelExecution(c, s) PROVE resurrections' = resurrections
  BY <1>4 DEF CancelExecution, CancelAndWait
<1>5. ASSUME NEW s, NEW timed, WaitForCompletion(c, s, timed) PROVE resurrections' = resurrections
  BY <1>5 DEF WaitForCompletion
<1>6. ASSUME StopBegins(c) \/ StopEnds(c) PROVE resurrections' = resurrections
  BY <1>6 DEF StopBegins, StopEnds
<1>7. ASSUME CancelReturns(c) \/ CompletionSeen(c) PROVE resurrections' = resurrections
  BY <1>7 DEF CancelReturns, CompletionSeen
<1>. QED
  BY <1>2, <1>3, <1>4, <1>5, <1>6, <1>7 DEF ClientCall, ClientStep

LEMMA StepNotResurrected ==
  ASSUME TypeOK, [Next]_vars
  PROVE  NotResurrected
<1>0. \A t \in Tasks : resurrections[t] \in Nat
  BY StreamAssumption DEF TypeOK
<1>1. ASSUME NEW t \in Tasks, TaskStep(t) \/ ExecutorStep(t) PROVE NotResurrected
  <2>1. \A u \in Tasks \ {t} : pc'[u] = pc[u]
    BY <1>1, TaskEffects, WorksFacts, DoneFacts
  <2>2. Counts(t)
    BY <1>1, TaskCounts
  <2>3. \A u \in Tasks \ {t} : resurrections'[u] = resurrections[u]
    BY <2>2 DEF Counts, TypeOK
  <2>4. cancelled[t] => resurrections'[t] = resurrections[t] \/ resurrections'[t] = 0
    BY <2>2 DEF Counts, TypeOK
  <2>5. cancelled[t] => resurrections'[t] <= resurrections[t]
    BY <1>0, <2>4
  <2>. QED
    BY <1>0, <2>1, <2>2, <2>3, <2>5 DEF NotResurrected, Counts
<1>2. ASSUME resurrections' = resurrections, Registers \/ Elsewhere PROVE NotResurrected
  <2>1. \A u \in Tasks : pc'[u] = "run" => pc[u] = "run"
    BY <1>2, RegisterFacts DEF Registers, Elsewhere
  <2>. QED
    BY <1>0, <1>2, <2>1 DEF NotResurrected
<1>3. ASSUME NEW c \in Clients, ClientCall(c) \/ ClientStep(c) PROVE NotResurrected
  BY <1>2, <1>3, ClientsCount, ClientEffects
<1>4. CASE Start \/ UNCHANGED vars
  <2>1. UNCHANGED <<pc, resurrections>>
    BY <1>4 DEF Start, vars, taskVars
  <2>. QED
    BY <1>0, <2>1 DEF NotResurrected
<1>. QED
  BY <1>1, <1>3, <1>4 DEF Next

\* A request to stop reaches the resurrection loop wherever it is between a failed
\* attempt and the next one: no attempt is begun or counted after it.
THEOREM StopIsFinal == Spec => CancelledNotResurrected
<1>1. TypeInv /\ [Next]_vars => [NotResurrected]_vars
  BY StepNotResurrected DEF TypeInv
<1>. QED
  BY <1>1, InitTypeInv, StepTypeInv, PTL DEF Spec, CancelledNotResurrected

-----------------------------------------------------------------------------
(***************************************************************************)
(* How far executions are kept apart, whoever calls what and when.         *)
(***************************************************************************)

\* A stream that somebody stops has been told so.
CallerInv == \A c \in Clients : cpc[c] = "stop" => life = "stopped"

\* Unless two tasks of one id are alive, all that is found under the id of a live task is
\* its own.
Tracked ==
  /\ FiredWhenDone
  /\ \A t, u \in Tasks : Live(t) /\ Live(u) /\ t # u /\ sess[t] = sess[u] => t \in contested
  /\ \A t \in Tasks \ contested : Live(t) =>
       /\ events[sess[t]] = t
       /\ life = "stopped" \/ (active[sess[t]] = t /\ tasks[sess[t]] = t)
  /\ \A t \in Tasks \ contested : pc[t] = "run" => executors[sess[t]] = t
  /\ \A t \in Tasks \ contested : pc[t] \in Remembered => sess[t] \in memory

\* A live task that is neither late nor contested.
Plain(t) == t \in Tasks \ (contested \cup late) /\ Live(t)

\* A call of execute() that has still to look at ids will find t there; a stop() that is
\* under way waits for t before it clears the entry.
Ahead(t, ids) ==
  /\ sess[t] \in ids /\ tasks[sess[t]] = t
  /\ \A d \in Clients : cpc[d] = "stop" => t \in target[d]

\* What a call of execute() that is under way knows of t.
Known(t, c) == t \in unseen[c] \/ t \in target[c] \/ Ahead(t, todo[c])

Seen ==
  /\ ApartUnlessOverlapped
  /\ \A t \in Tasks, c \in Clients : Plain(t) /\ cpc[c] = "execute" => Known(t, c)

OneInv == TypeInv /\ EntriesInv /\ CallerInv /\ Tracked /\ Seen

\* A task that works keeps everything as it is.
LEMMA OneWorks ==
  ASSUME OneInv, NEW t \in Tasks, NEW loc, Works(t, loc)
  PROVE  Tracked' /\ Seen'
<1>0. TypeOK
  BY DEF OneInv, TypeInv
<1>1. /\ UNCHANGED <<life, active, tasks, events, fired, sess, cpc, target, todo, late, contested,
                     unseen, missed>>
      /\ memory \subseteq memory'
      /\ loc \in Remembered => pc[t] \in Remembered \/ sess[t] \in memory'
      /\ loc = "run" => executors' = Put(executors, sess[t], t)
      /\ loc # "run" => executors' = executors \/ executors' = Pop(executors, sess[t])
  BY DEF Works, clientVars, overlapVars
<1>2. \A u \in Tasks : Live(u)' <=> Live(u)
  BY <1>0, WorksFacts DEF Live
<1>3. /\ Live(t) /\ pc'[t] = loc /\ sess[t] \in Sessions
      /\ \A u \in Tasks \ {t} : pc'[u] = pc[u]
      /\ \A u \in Tasks : pc'[u] = "done" <=> pc[u] = "done"
  BY <1>0, WorksFacts DEF OneInv, TypeInv, CreatedHaveIds, Live
<1>4. FiredWhenDone'
  BY <1>0, <1>1, <1>3 DEF OneInv, Tracked, FiredWhenDone, TypeOK
<1>5. \A u \in Tasks \ contested : pc'[u] = "run" => executors'[sess[u]] = u
  <2>1. CASE loc = "run"
    <3>1. executors'[sess[t]] = t
      BY <1>0, <1>1, <1>3, <2>1 DEF Put, TypeOK
    <3>2. ASSUME NEW u \in Tasks \ contested, u # t, pc'[u] = "run" PROVE executors'[sess[u]] = u
      <4>1. pc[u] = "run" /\ Live(u) /\ sess[u] \in Sessions
        BY <1>0, <1>3, <3>2 DEF Live, OneInv, TypeInv, CreatedHaveIds
      <4>2. sess[u] # sess[t] /\ executors[sess[u]] = u
        BY <1>3, <3>2, <4>1 DEF OneInv, Tracked
      <4>. QED
        BY <1>0, <1>1, <1>3, <2>1, <4>1, <4>2 DEF Put, TypeOK
    <3>. QED
      BY <3>1, <3>2
  <2>2. CASE loc # "run"
    <3>1. ASSUME NEW u \in Tasks \ contested, pc'[u] = "run" PROVE executors'[sess[u]] = u
      <4>1. u # t /\ pc[u] = "run" /\ Live(u) /\ sess[u] \in Sessions
        BY <1>0, <1>3, <2>2, <3>1 DEF Live, OneInv, TypeInv, CreatedHaveIds
      <4>2. sess[u] # sess[t] /\ executors[sess[u]] = u
        BY <1>3, <3>1, <4>1 DEF OneInv, Tracked
      <4>. QED
        BY <1>0, <1>1, <1>3, <2>2, <4>1, <4>2 DEF Pop, TypeOK
    <3>. QED
      BY <3>1
  <2>. QED
    BY <2>1, <2>2
<1>6. \A u \in Tasks \ contested : pc'[u] \in Remembered => sess[u] \in memory'
  <2>1. ASSUME NEW u \in Tasks \ contested, pc'[u] \in Remembered PROVE sess[u] \in memory'
    <3>1. \/ pc[u] \in Remembered
          \/ u = t /\ sess[t] \in memory'
      BY <1>1, <1>3, <2>1
    <3>. QED
      BY <1>1, <2>1, <3>1 DEF OneInv, Tracked
  <2>. QED
    BY <2>1
<1>7. Tracked'
  BY <1>1, <1>2, <1>4, <1>5, <1>6 DEF OneInv, Tracked
<1>8. Seen'
  BY <1>1, <1>2 DEF OneInv, Seen, ApartUnlessOverlapped, Overlapped, Plain, Known, Ahead
<1>. QED
  BY <1>7, <1>8

\* What its end takes away under its id belongs to it, or to one that is contested.
LEMMA OneEnds ==
  ASSUME OneInv, NEW t \in Tasks, Ends(t) \/ CancelledBeforeBody(t)
  PROVE  Tracked' /\ Seen'
<1>0. TypeOK /\ NoTask \notin Tasks
  BY StreamAssumption DEF OneInv, TypeInv
<1>1. Live(t) /\ pc'[t] = "done" /\ sess[t] \in Sessions /\ sess' = sess
      /\ \A u \in Tasks \ {t} : pc'[u] = pc[u]
  BY <1>0, DoneFacts DEF OneInv, TypeInv, CreatedHaveIds, Live
<1>2. UNCHANGED <<life, executors, cpc, target, todo, late, contested, unseen, missed>>
  BY DEF Ends, Finally, CancelledBeforeBody, clientVars, streamVars, overlapVars
<1>3. \A u \in Tasks : Live(u)' => Live(u) /\ u # t
  BY <1>1 DEF Live
<1>4. ASSUME NEW u \in Tasks \ contested, Live(u), u # t PROVE sess[u] # sess[t]
  BY <1>1, <1>4 DEF OneInv, Tracked
<1>5. /\ \A x \in Sessions \ {sess[t]} : active'[x] = active[x] /\ tasks'[x] = tasks[x] /\ events'[x] = events[x]
      /\ \A x \in memory : x # sess[t] => x \in memory'
      /\ fired' \subseteq fired \cup ({events[sess[t]]} \ {NoTask})
  <2>1. CASE Ends(t)
    BY <2>1, FinallyFacts DEF OneInv
  <2>2. CASE CancelledBeforeBody(t)
    BY <2>2 DEF CancelledBeforeBody, streamVars
  <2>. QED
    BY <2>1, <2>2
<1>6. \A u \in Tasks : Live(u) => sess[u] \in Sessions
  BY DEF OneInv, TypeInv, CreatedHaveIds, Live
<1>7. FiredWhenDone'
  <2>1. ASSUME NEW u \in fired' PROVE pc'[u] = "done" \/ u \in contested
    <3>1. CASE u \in fired
      <4>1. u \in Tasks /\ (pc[u] = "done" \/ u \in contested)
        BY <1>0, <3>1 DEF OneInv, Tracked, FiredWhenDone, TypeOK
      <4>. QED
        BY <1>1, <4>1
    <3>2. CASE u \notin fired
      <4>1. u = events[sess[t]] /\ u \in Tasks
        BY <1>0, <1>1, <1>5, <2>1, <3>2 DEF TypeOK
      <4>2. pc[u] # "none" /\ sess[u] = sess[t]
        BY <1>1, <4>1 DEF OneInv, EntriesInv
      <4>3. u = t \/ pc[u] = "done" \/ u \in contested
        BY <1>4, <4>1, <4>2 DEF Live
      <4>. QED
        BY <1>1, <4>1, <4>3
    <3>. QED
      BY <3>1, <3>2
  <2>. QED
    BY <1>2, <2>1 DEF FiredWhenDone
<1>8. \A u \in Tasks \ contested : Live(u)' =>
        /\ events'[sess[u]] = u
        /\ life = "stopped" \/ (active'[sess[u]] = u /\ tasks'[sess[u]] = u)
  BY <1>3, <1>4, <1>5, <1>6 DEF OneInv, Tracked
<1>9. /\ \A u \in Tasks \ contested : pc'[u] = "run" => executors[sess[u]] = u
      /\ \A u \in Tasks \ contested : pc'[u] \in Remembered => sess[u] \in memory'
  <2>1. ASSUME NEW u \in Tasks \ contested, pc'[u] = "run" \/ pc'[u] \in Remembered
        PROVE  u # t /\ pc'[u] = pc[u] /\ Live(u)
    BY <1>1, <2>1, Places DEF Live
  <2>. QED
    BY <1>4, <1>5, <2>1 DEF OneInv, Tracked
<1>10. \A u, v \in Tasks : Live(u)' /\ Live(v)' /\ u # v /\ sess[u] = sess[v] => u \in contested
  BY <1>3 DEF OneInv, Tracked
<1>11. Tracked'
  BY <1>1, <1>2, <1>7, <1>8, <1>9, <1>10 DEF Tracked
<1>12. ASSUME NEW u \in Tasks, Plain(u)' PROVE Plain(u) /\ tasks'[sess[u]] = tasks[sess[u]]
  BY <1>2, <1>3, <1>4, <1>5, <1>6, <1>12 DEF Plain
<1>13. ApartUnlessOverlapped'
  BY <1>2, <1>3 DEF OneInv, Seen, ApartUnlessOverlapped, Overlapped
<1>14. \A u \in Tasks, c \in Clients : Plain(u)' /\ cpc'[c] = "execute" => Known(u, c)'
  BY <1>1, <1>2, <1>12 DEF OneInv, Seen, Known, Ahead
<1>. QED
  BY <1>11, <1>13, <1>14 DEF Seen

\* A step of a caller that registers nothing.
Leaves ==
  /\ UNCHANGED <<pc, sess, events, fired, executors, memory, contested, unseen, missed>>
  /\ UNCHANGED <<active, tasks>> \/ life' = "stopped"
  /\ life = "stopped" => life' = "stopped"
  /\ late \subseteq late'

LEMMA OneLeft ==
  ASSUME OneInv, Leaves,
         \A t \in Tasks, c \in Clients : Plain(t) /\ Plain(t)' /\ cpc'[c] = "execute" => Known(t, c)'
  PROVE  Tracked' /\ Seen'
<1>1. \A t \in Tasks : Live(t)' <=> Live(t)
  BY DEF Leaves, Live
<1>2. \A t \in Tasks : Plain(t)' => Plain(t)
  BY <1>1 DEF Leaves, Plain
<1>3. Tracked'
  BY <1>1 DEF OneInv, Tracked, Leaves, FiredWhenDone
<1>4. ApartUnlessOverlapped'
  BY <1>1 DEF OneInv, Seen, Leaves, ApartUnlessOverlapped, Overlapped
<1>. QED
  BY <1>2, <1>3, <1>4 DEF Seen

\* A call of execute() that knows, of all that is plain, what it may still find under ids
\* registers its own execution when there is nothing left to cancel.
LEMMA OneRegisters ==
  ASSUME OneInv, NEW c \in Clients, NEW ids, NEW r, Register(c, r), late \subseteq late',
         \A s \in ids : ~Cancellable(s),
         \A u \in Tasks : Plain(u) /\ u \notin late' => u \in unseen[c] \/ Ahead(u, ids)
  PROVE  Tracked' /\ Seen'
<1>0. TypeOK /\ NoTask \notin Tasks
  BY StreamAssumption DEF OneInv, TypeInv
<1>1. PICK t \in Tasks, s \in Sessions :
        /\ pc[t] = "none" /\ Overlap(c, t, s)
        /\ active' = Put(active, s, t) /\ events' = Put(events, s, t) /\ tasks' = Put(tasks, s, t)
        /\ pc' = [pc EXCEPT ![t] = "queued"] /\ sess' = [sess EXCEPT ![t] = s]
        /\ cpc' = [cpc EXCEPT ![c] = "idle"] /\ target' = [target EXCEPT ![c] = {}]
        /\ todo' = [todo EXCEPT ![c] = {}]
        /\ UNCHANGED <<fired, memory, life, executors>>
  BY DEF Register
<1>. DEFINE rivals == {u \in Tasks : Live(u) /\ sess[u] = s}
<1>2. /\ contested' = contested \cup rivals \cup (IF rivals = {} THEN {} ELSE {t})
      /\ missed' = [missed EXCEPT ![t] = unseen[c]]
      /\ unseen' = [d \in Clients |-> IF d # c /\ cpc[d] = "execute" THEN unseen[d] \cup {t} ELSE {}]
  BY <1>1 DEF Overlap
<1>3. /\ pc'[t] = "queued" /\ sess'[t] = s
      /\ \A u \in Tasks \ {t} : pc'[u] = pc[u] /\ sess'[u] = sess[u]
      /\ active'[s] = t /\ tasks'[s] = t /\ events'[s] = t
      /\ \A x \in Sessions \ {s} :
           active'[x] = active[x] /\ tasks'[x] = tasks[x] /\ events'[x] = events[x]
  BY <1>0, <1>1 DEF Put, TypeOK
<1>4. /\ cpc'[c] = "idle"
      /\ \A d \in Clients \ {c} : cpc'[d] = cpc[d] /\ target'[d] = target[d] /\ todo'[d] = todo[d]
  BY <1>0, <1>1 DEF TypeOK
<1>5. \A u \in Tasks : u # t => (Live(u)' <=> Live(u))
  BY <1>3 DEF Live
<1>6. ~Live(t) /\ Live(t)' /\ t \notin rivals
  BY <1>1, <1>3 DEF Live
<1>7. contested \subseteq contested' /\ \A u \in Tasks : Live(u) /\ sess[u] = s => u \in contested' /\ t \in contested'
  BY <1>2
<1>. HIDE DEF rivals
<1>8. ASSUME NEW u \in Tasks \ contested', Live(u), u # t
      PROVE  sess[u] \in Sessions \ {s} /\ sess'[u] = sess[u]
  <2>1. sess[u] \in Sessions
    BY <1>8 DEF OneInv, TypeInv, CreatedHaveIds, Live
  <2>. QED
    BY <1>3, <1>7, <1>8, <2>1
<1>9. FiredWhenDone'
  <2>1. ASSUME NEW u \in fired PROVE pc'[u] = "done" \/ u \in contested'
    <3>1. u \in Tasks /\ (pc[u] = "done" \/ u \in contested)
      BY <1>0, <2>1 DEF OneInv, Tracked, FiredWhenDone, TypeOK
    <3>. QED
      BY <1>1, <1>3, <1>7, <3>1
  <2>. QED
    BY <1>1, <2>1 DEF FiredWhenDone
<1>10. ASSUME NEW u \in Tasks, NEW v \in Tasks, Live(u)', Live(v)', u # v, sess'[u] = sess'[v]
       PROVE  u \in contested'
  <2>1. CASE u # t /\ v # t
    <3>1. Live(u) /\ Live(v) /\ sess[u] = sess[v]
      BY <1>3, <1>5, <1>10, <2>1
    <3>. QED
      BY <1>7, <1>10, <3>1 DEF OneInv, Tracked
  <2>2. CASE u = t
    <3>1. Live(v) /\ sess[v] = s
      BY <1>3, <1>5, <1>10, <2>2
    <3>. QED
      BY <1>7, <2>2, <3>1
  <2>3. CASE v = t
    <3>1. Live(u) /\ sess[u] = s
      BY <1>3, <1>5, <1>10, <2>3
    <3>. QED
      BY <1>7, <3>1
  <2>. QED
    BY <2>1, <2>2, <2>3
<1>11. ASSUME NEW u \in Tasks \ contested', Live(u)'
       PROVE  /\ events'[sess'[u]] = u
              /\ life' = "stopped" \/ (active'[sess'[u]] = u /\ tasks'[sess'[u]] = u)
  <2>1. CASE u = t
    BY <1>3, <2>1
  <2>2. CASE u # t
    <3>1. Live(u) /\ u \notin contested /\ sess[u] \in Sessions \ {s} /\ sess'[u] = sess[u]
      BY <1>5, <1>7, <1>8, <1>11, <2>2
    <3>. QED
      BY <1>1, <1>3, <3>1 DEF OneInv, Tracked
  <2>. QED
    BY <2>1, <2>2
<1>12. ASSUME NEW u \in Tasks \ contested', pc'[u] = "run" \/ pc'[u] \in Remembered
       PROVE  /\ pc'[u] = "run" => executors'[sess'[u]] = u
              /\ pc'[u] \in Remembered => sess'[u] \in memory'
  <2>1. u # t
    BY <1>3, <1>12, Places
  <2>2. u \notin contested /\ pc'[u] = pc[u] /\ sess'[u] = sess[u]
    BY <1>3, <1>7, <2>1
  <2>. QED
    BY <1>1, <2>2 DEF OneInv, Tracked
<1>13. Tracked'
  BY <1>9, <1>10, <1>11, <1>12 DEF Tracked
<1>14. ASSUME NEW u \in Tasks, Plain(u)', u # t
       PROVE  Plain(u) /\ u \notin late' /\ sess[u] \in Sessions \ {s} /\ sess'[u] = sess[u]
  <2>1. u \notin contested' /\ u \notin late' /\ Live(u)
    BY <1>5, <1>14 DEF Plain
  <2>. QED
    BY <1>7, <1>8, <1>14, <2>1 DEF Plain
<1>15. ASSUME NEW u \in Tasks, Plain(u)', u # t PROVE u \in missed'[t]
  <2>1. Plain(u) /\ u \notin late'
    BY <1>14, <1>15
  <2>2. ~Ahead(u, ids)
    BY <1>0, <2>1 DEF Ahead, Cancellable, Plain
  <2>3. u \in unseen[c]
    BY <2>1, <2>2
  <2>. QED
    BY <1>0, <1>2, <2>3 DEF TypeOK
<1>16. ApartUnlessOverlapped'
  <2>1. ASSUME NEW u \in Tasks, NEW v \in Tasks, Live(u)', Live(v)', u # v,
               {u, v} \cap (late' \cup contested') = {}
        PROVE  u \in missed'[v] \/ v \in missed'[u]
    <3>1. Plain(u)' /\ Plain(v)'
      BY <2>1 DEF Plain
    <3>2. CASE u = t \/ v = t
      BY <1>15, <2>1, <3>1, <3>2
    <3>3. CASE u # t /\ v # t
      <4>1. Plain(u) /\ Plain(v)
        BY <1>14, <3>1, <3>3
      <4>2. u \in missed[v] \/ v \in missed[u]
        BY <2>1, <4>1 DEF OneInv, Seen, ApartUnlessOverlapped, Overlapped, Plain
      <4>3. missed'[u] = missed[u] /\ missed'[v] = missed[v]
        BY <1>0, <1>2, <3>3 DEF TypeOK
      <4>. QED
        BY <4>2, <4>3
    <3>. QED
      BY <3>2, <3>3
  <2>. QED
    BY <2>1 DEF ApartUnlessOverlapped, Overlapped
<1>17. ASSUME NEW u \in Tasks, NEW d \in Clients, Plain(u)', cpc'[d] = "execute" PROVE Known(u, d)'
  <2>1. d # c /\ cpc[d] = "execute" /\ unseen'[d] = unseen[d] \cup {t}
    BY <1>2, <1>4, <1>17
  <2>2. CASE u = t
    BY <2>1, <2>2 DEF Known
  <2>3. CASE u # t
    <3>1. Plain(u) /\ sess[u] \in Sessions \ {s} /\ sess'[u] = sess[u]
      BY <1>14, <1>17, <2>3
    <3>2. Known(u, d)
      BY <2>1, <3>1 DEF OneInv, Seen
    <3>3. CASE u \in unseen[d] \/ u \in target[d]
      BY <1>4, <2>1, <3>3 DEF Known
    <3>4. CASE Ahead(u, todo[d])
      <4>1. tasks'[sess'[u]] = u /\ sess'[u] \in todo'[d]
        BY <1>3, <1>4, <2>1, <3>1, <3>4 DEF Ahead
      <4>2. ASSUME NEW e \in Clients, cpc'[e] = "stop" PROVE u \in target'[e]
        BY <1>4, <3>4, <4>2 DEF Ahead
      <4>3. Ahead(u, todo[d])'
        BY <4>1, <4>2 DEF Ahead
      <4>. QED
        BY <4>3 DEF Known
    <3>. QED
      BY <3>2, <3>3, <3>4 DEF Known
  <2>. QED
    BY <2>2, <2>3
<1>. QED
  BY <1>13, <1>16, <1>17 DEF Seen

\* It goes on: the next execution it finds is cancelled, the others stay ahead.
LEMMA OneGoesOn ==
  ASSUME OneInv, NEW c \in Clients, NEW ids, NEW r, CancelNextOrRegister(c, ids, r),
         cpc[c] # "stop", late \subseteq late',
         \A u \in Tasks : Plain(u) /\ u \notin late' => u \in unseen[c] \/ Ahead(u, ids)
  PROVE  Tracked' /\ Seen'
<1>0. TypeOK /\ NoTask \notin Tasks
  BY StreamAssumption DEF OneInv, TypeInv
<1>1. CASE Register(c, r) /\ \A s \in ids : ~Cancellable(s)
  BY <1>1, OneRegisters
<1>2. ASSUME NEW s \in ids, NEW idle \in SUBSET {x \in ids : ~Cancellable(x)},
             CancelAndWait(c, s, "execute", (ids \ {s}) \ idle, r)
      PROVE  Tracked' /\ Seen'
  <2>1. /\ Leaves /\ UNCHANGED <<tasks, sess, unseen>>
        /\ cpc' = [cpc EXCEPT ![c] = "execute"]
        /\ target' = [target EXCEPT ![c] = {tasks[s]}]
        /\ todo' = [todo EXCEPT ![c] = (ids \ {s}) \ idle]
    BY <1>2 DEF CancelAndWait, Leaves, overlapVars
  <2>2. /\ cpc'[c] = "execute" /\ target'[c] = {tasks[s]} /\ todo'[c] = (ids \ {s}) \ idle
        /\ \A d \in Clients \ {c} :
             cpc'[d] = cpc[d] /\ target'[d] = target[d] /\ todo'[d] = todo[d]
    BY <1>0, <2>1 DEF TypeOK
  <2>3. ASSUME NEW u \in Tasks, NEW x, Ahead(u, x)
        PROVE  \A d \in Clients : cpc'[d] = "stop" => u \in target'[d]
    BY <2>2, <2>3 DEF Ahead
  <2>4. ASSUME NEW u \in Tasks, Plain(u), Plain(u)' PROVE Known(u, c)'
    <3>1. u \in unseen[c] \/ Ahead(u, ids)
      BY <2>4 DEF Plain
    <3>2. CASE u \in unseen[c]
      BY <2>1, <3>2 DEF Known
    <3>3. CASE Ahead(u, ids) /\ sess[u] = s
      <4>1. u \in target'[c]
        BY <2>2, <3>3 DEF Ahead
      <4>. QED
        BY <4>1 DEF Known
    <3>4. CASE Ahead(u, ids) /\ sess[u] # s
      <4>1. Cancellable(sess[u]) /\ sess[u] \in ids /\ tasks[sess[u]] = u
        BY <1>0, <2>4, <3>4 DEF Ahead, Cancellable, Plain
      <4>2. sess[u] \in todo'[c]
        BY <2>2, <3>4, <4>1
      <4>3. Ahead(u, todo[c])'
        BY <2>1, <2>3, <3>4, <4>1, <4>2 DEF Ahead
      <4>. QED
        BY <4>3 DEF Known
    <3>. QED
      BY <3>1, <3>2, <3>3, <3>4
  <2>5. ASSUME NEW u \in Tasks, NEW d \in Clients \ {c}, Plain(u), cpc'[d] = "execute" PROVE Known(u, d)'
    <3>1. Known(u, d)
      BY <2>2, <2>5 DEF OneInv, Seen
    <3>2. CASE u \in unseen[d] \/ u \in target[d]
      BY <2>1, <2>2, <3>2 DEF Known
    <3>3. CASE Ahead(u, todo[d])
      <4>1. Ahead(u, todo[d])'
        BY <2>1, <2>2, <2>3, <3>3 DEF Ahead
      <4>. QED
        BY <4>1 DEF Known
    <3>. QED
      BY <3>1, <3>2, <3>3 DEF Known
  <2>. QED
    BY <2>1, <2>4, <2>5, OneLeft
<1>. QED
  BY <1>1, <1>2 DEF CancelNextOrRegister

LEMMA InitOne == Init => OneInv
<1>. SUFFICES ASSUME Init PROVE OneInv
  OBVIOUS
<1>1. CallerInv
  BY DEF Init, CallerInv
<1>2. Tracked
  BY Places DEF Init, Tracked, FiredWhenDone, Live
<1>3. Seen
  BY DEF Init, Seen, ApartUnlessOverlapped, Live
<1>4. EntriesInv
  BY InitClean DEF CleanInv
<1>. QED
  BY <1>1, <1>2, <1>3, <1>4, InitTypeInv DEF OneInv

\* A caller that is in execute() neither before nor after, and waits for what it likes.
LEMMA OneElse ==
  ASSUME OneInv, NEW c \in Clients, Leaves, UNCHANGED <<active, tasks>>,
         cpc[c] \notin {"execute", "stop"}, cpc'[c] \notin {"execute", "stop"},
         \A d \in Clients \ {c} : cpc'[d] = cpc[d] /\ target'[d] = target[d] /\ todo'[d] = todo[d]
  PROVE  Tracked' /\ Seen'
<1>1. ASSUME NEW u \in Tasks, NEW d \in Clients, Plain(u), cpc'[d] = "execute" PROVE Known(u, d)'
  <2>1. d # c /\ cpc[d] = "execute" /\ Known(u, d)
    BY <1>1 DEF OneInv, Seen
  <2>2. CASE u \in unseen[d] \/ u \in target[d]
    BY <2>1, <2>2 DEF Known, Leaves
  <2>3. CASE Ahead(u, todo[d])
    <3>1. \A e \in Clients : cpc'[e] = "stop" => u \in target'[e]
      BY <2>3 DEF Ahead
    <3>2. Ahead(u, todo[d])'
      BY <2>1, <2>3, <3>1 DEF Ahead, Leaves
    <3>. QED
      BY <3>2 DEF Known
  <2>. QED
    BY <2>1, <2>2, <2>3 DEF Known
<1>. QED
  BY <1>1, OneLeft

\* stop() asks everything that is tracked, and clears nothing it does not wait for.
LEMMA OneStops ==
  ASSUME OneInv, NEW c \in Clients, StopBegins(c)
  PROVE  Tracked' /\ Seen'
<1>0. TypeOK
  BY DEF OneInv, TypeInv
<1>1. /\ cpc[c] = "idle" /\ life' = "stopped"
      /\ UNCHANGED <<pc, sess, events, fired, executors, memory, todo, late, contested, unseen, missed>>
  BY DEF StopBegins, histVars, overlapVars
<1>2. \A d \in Clients : cpc[d] # "stop"
  BY DEF StopBegins, OneInv, CallerInv
<1>3. Leaves
  BY <1>1 DEF Leaves
<1>4. ASSUME NEW u \in Tasks, Plain(u), NEW x, Ahead(u, x) PROVE u \in StopVictims
  <2>1. sess[u] \in Sessions
    BY <1>4 DEF OneInv, TypeInv, CreatedHaveIds, Plain, Live
  <2>. QED
    BY <1>4, <2>1 DEF Ahead, StopVictims, Plain
<1>5. CASE StopVictims = {}
  <2>1. UNCHANGED <<cpc, target>>
    BY <1>5 DEF StopBegins
  <2>2. ASSUME NEW u \in Tasks, NEW d \in Clients, Plain(u), cpc'[d] = "execute" PROVE Known(u, d)'
    <3>1. Known(u, d) /\ ~Ahead(u, todo[d])
      BY <1>4, <1>5, <2>1, <2>2 DEF OneInv, Seen
    <3>. QED
      BY <1>1, <2>1, <3>1 DEF Known
  <2>. QED
    BY <1>3, <2>2, OneLeft
<1>6. CASE StopVictims # {}
  <2>1. /\ cpc' = [cpc EXCEPT ![c] = "stop"] /\ target' = [target EXCEPT ![c] = StopVictims]
        /\ UNCHANGED tasks
    BY <1>6 DEF StopBegins
  <2>2. /\ cpc'[c] = "stop" /\ target'[c] = StopVictims
        /\ \A d \in Clients \ {c} : cpc'[d] = cpc[d] /\ target'[d] = target[d]
    BY <1>0, <2>1 DEF TypeOK
  <2>3. ASSUME NEW u \in Tasks, NEW d \in Clients, Plain(u), cpc'[d] = "execute" PROVE Known(u, d)'
    <3>1. d # c /\ cpc[d] = "execute" /\ Known(u, d)
      BY <2>2, <2>3 DEF OneInv, Seen
    <3>2. CASE u \in unseen[d] \/ u \in target[d]
      BY <1>1, <2>2, <3>1, <3>2 DEF Known
    <3>3. CASE Ahead(u, todo[d])
      <4>1. \A e \in Clients : cpc'[e] = "stop" => u \in target'[e]
        BY <1>2, <1>4, <2>2, <2>3, <3>3
      <4>2. Ahead(u, todo[d])'
        BY <1>1, <2>1, <3>3, <4>1 DEF Ahead
      <4>. QED
        BY <4>2 DEF Known
    <3>. QED
      BY <3>1, <3>2, <3>3 DEF Known
  <2>. QED
    BY <1>3, <2>3, OneLeft
<1>. QED
  BY <1>5, <1>6

\* When it clears the entries, what it has asked is over or late.
LEMMA OneStopped ==
  ASSUME OneInv, NEW c \in Clients, StopEnds(c)
  PROVE  Tracked' /\ Seen'
<1>0. TypeOK
  BY DEF OneInv, TypeInv
<1>1. /\ cpc[c] = "stop" /\ life = "stopped"
      /\ UNCHANGED <<life, pc, sess, events, fired, executors, memory, todo, contested, unseen, missed>>
      /\ cpc' = [cpc EXCEPT ![c] = "idle"] /\ target' = [target EXCEPT ![c] = {}]
      /\ late' = late \cup {t \in target[c] : Live(t)}
  BY DEF StopEnds, WaitOver, Idle, Lateness, OneInv, CallerInv, taskVars, overlapVars
<1>2. Leaves
  BY <1>1 DEF Leaves
<1>3. /\ cpc'[c] = "idle" /\ \A d \in Clients \ {c} : cpc'[d] = cpc[d] /\ target'[d] = target[d]
  BY <1>0, <1>1 DEF TypeOK
<1>4. ASSUME NEW u \in Tasks, NEW d \in Clients, Plain(u), Plain(u)', cpc'[d] = "execute" PROVE Known(u, d)'
  <2>1. d # c /\ cpc[d] = "execute" /\ Known(u, d)
    BY <1>3, <1>4 DEF OneInv, Seen
  <2>2. u \notin target[c]
    BY <1>1, <1>4 DEF Plain
  <2>3. ~Ahead(u, todo[d])
    BY <1>1, <2>2 DEF Ahead
  <2>. QED
    BY <1>1, <1>3, <2>1, <2>3 DEF Known
<1>. QED
  BY <1>2, <1>4, OneLeft

LEMMA StepOneCall ==
  ASSUME OneInv, NEW c \in Clients, ClientCall(c) \/ ClientStep(c)
  PROVE  Tracked' /\ Seen'
<1>0. TypeOK
  BY DEF OneInv, TypeInv
<1>1. ASSUME NEW r, Execute(c, r) PROVE Tracked' /\ Seen'
  <2>1. cpc[c] = "idle" /\ late' = late /\ life = "running" /\ CancelNextOrRegister(c, ActiveIds, r)
    BY <1>1 DEF Execute
  <2>2. ASSUME NEW u \in Tasks, Plain(u) PROVE Ahead(u, ActiveIds)
    <3>1. sess[u] \in Sessions /\ active[sess[u]] = u /\ tasks[sess[u]] = u
      BY <2>1, <2>2 DEF OneInv, TypeInv, CreatedHaveIds, Tracked, Plain, Live
    <3>2. sess[u] \in ActiveIds
      BY <3>1, StreamAssumption DEF ActiveIds
    <3>. QED
      BY <2>1, <3>1, <3>2 DEF Ahead, OneInv, CallerInv
  <2>. QED
    BY <2>1, <2>2, OneGoesOn
<1>2. CASE ExecuteContinues(c)
  <2>1. /\ cpc[c] = "execute" /\ CancelNextOrRegister(c, todo[c], args[c])
        /\ late' = late \cup {t \in target[c] : Live(t)}
    BY <1>2 DEF ExecuteContinues, WaitOver, Lateness
  <2>2. ASSUME NEW u \in Tasks, Plain(u), u \notin late' PROVE u \in unseen[c] \/ Ahead(u, todo[c])
    <3>1. Known(u, c)
      BY <2>1, <2>2 DEF OneInv, Seen
    <3>2. u \notin target[c]
      BY <2>1, <2>2 DEF Plain
    <3>. QED
      BY <3>1, <3>2 DEF Known
  <2>. QED
    BY <2>1, <2>2, OneGoesOn
<1>3. ASSUME NEW at \in {"idle", "cancel", "wait", "timedWait"}, cpc' = [cpc EXCEPT ![c] = at],
             cpc[c] \notin {"execute", "stop"}, Leaves, UNCHANGED <<active, tasks>>,
             \A d \in Clients \ {c} : target'[d] = target[d] /\ todo'[d] = todo[d]
      PROVE  Tracked' /\ Seen'
  <2>1. cpc'[c] = at /\ \A d \in Clients \ {c} : cpc'[d] = cpc[d]
    BY <1>0, <1>3 DEF TypeOK
  <2>. QED
    BY <1>3, <2>1, OneElse
<1>4. ASSUME NEW s \in Sessions, CancelExecution(c, s) PROVE Tracked' /\ Seen'
  <2>1. /\ cpc' = [cpc EXCEPT ![c] = "cancel"] /\ cpc[c] = "idle"
        /\ Leaves /\ UNCHANGED <<active, tasks>>
        /\ target' = [target EXCEPT ![c] = {tasks[s]}] /\ todo' = [todo EXCEPT ![c] = {}]
    BY <1>4 DEF CancelExecution, CancelAndWait, Leaves, overlapVars
  <2>2. \A d \in Clients \ {c} : target'[d] = target[d] /\ todo'[d] = todo[d]
    BY <1>0, <2>1 DEF TypeOK
  <2>. QED
    BY <1>3, <2>1, <2>2
<1>5. ASSUME NEW s \in Sessions, NEW timed \in BOOLEAN, WaitForCompletion(c, s, timed)
      PROVE  Tracked' /\ Seen'
  <2>1. /\ Leaves /\ UNCHANGED <<active, tasks>> /\ cpc[c] = "idle"
        /\ todo' = todo /\ target' = [target EXCEPT ![c] = {events[s]}]
        /\ cpc' = [cpc EXCEPT ![c] = "timedWait"] \/ cpc' = [cpc EXCEPT ![c] = "wait"]
    BY <1>5 DEF WaitForCompletion, Leaves, streamVars, taskVars, histVars, overlapVars
  <2>2. \A d \in Clients \ {c} : target'[d] = target[d] /\ todo'[d] = todo[d]
    BY <1>0, <2>1 DEF TypeOK
  <2>. QED
    BY <1>3, <2>1, <2>2
<1>6. ASSUME CancelReturns(c) \/ CompletionSeen(c) PROVE Tracked' /\ Seen'
  <2>1. /\ Leaves /\ UNCHANGED <<active, tasks>> /\ cpc[c] \notin {"execute", "stop"}
        /\ todo' = todo /\ target' = [target EXCEPT ![c] = {}]
        /\ cpc' = [cpc EXCEPT ![c] = "idle"]
    BY <1>6 DEF CancelReturns, CompletionSeen, WaitOver, Idle, Lateness, Leaves, streamVars, taskVars,
                histVars, overlapVars
  <2>2. \A d \in Clients \ {c} : target'[d] = target[d] /\ todo'[d] = todo[d]
    BY <1>0, <2>1 DEF TypeOK
  <2>. QED
    BY <1>3, <2>1, <2>2
<1>7. CASE StopBegins(c) \/ StopEnds(c)
  BY <1>7, OneStops, OneStopped
<1>. QED
  BY <1>1, <1>2, <1>4, <1>5, <1>6, <1>7 DEF ClientCall, ClientStep

\* Only stop() lets a caller wait for the stop.
LEMMA StepCaller ==
  ASSUME TypeInv, CallerInv, [Next]_vars
  PROVE  CallerInv'
<1>0. TypeOK
  BY DEF TypeInv
<1>1. ASSUME UNCHANGED cpc, life' = life \/ life # "stopped" PROVE CallerInv'
  BY <1>1 DEF CallerInv
<1>2. ASSUME NEW c \in Clients, NEW at \in {"idle", "execute", "cancel", "wait", "timedWait"},
             cpc' = [cpc EXCEPT ![c] = at], life' = life
      PROVE  CallerInv'
  BY <1>0, <1>2 DEF CallerInv, TypeOK
<1>3. ASSUME NEW c \in Clients, NEW ids, NEW r, CancelNextOrRegister(c, ids, r) PROVE CallerInv'
  <2>1. CASE Register(c, r)
    BY <1>2, <2>1 DEF Register
  <2>2. ASSUME NEW s, NEW rest, CancelAndWait(c, s, "execute", rest, r) PROVE CallerInv'
    BY <1>2, <2>2 DEF CancelAndWait
  <2>. QED
    BY <1>3, <2>1, <2>2 DEF CancelNextOrRegister
<1>4. ASSUME NEW c \in Clients, NEW r, Execute(c, r) PROVE CallerInv'
  BY <1>3, <1>4 DEF Execute
<1>5. ASSUME NEW c \in Clients, ExecuteContinues(c) PROVE CallerInv'
  BY <1>3, <1>5 DEF ExecuteContinues
<1>6. ASSUME NEW c \in Clients, NEW s \in Sessions, CancelExecution(c, s) PROVE CallerInv'
  BY <1>2, <1>6 DEF CancelExecution, CancelAndWait
<1>7. ASSUME NEW c \in Clients, NEW s \in Sessions, NEW timed \in BOOLEAN, WaitForCompletion(c, s, timed)
      PROVE  CallerInv'
  <2>1. cpc' = [cpc EXCEPT ![c] = "timedWait"] \/ cpc' = [cpc EXCEPT ![c] = "wait"]
    BY <1>7 DEF WaitForCompletion
  <2>2. life' = life
    BY <1>7 DEF WaitForCompletion, streamVars
  <2>. QED
    BY <1>2, <2>1, <2>2
<1>8. ASSUME NEW c \in Clients, StopBegins(c) PROVE CallerInv'
  <2>1. life' = "stopped"
    BY <1>8 DEF StopBegins
  <2>. QED
    BY <2>1 DEF CallerInv
<1>9. ASSUME NEW c \in Clients, CancelReturns(c) \/ CompletionSeen(c) \/ StopEnds(c) PROVE CallerInv'
  <2>1. cpc' = [cpc EXCEPT ![c] = "idle"] /\ life' = life
    BY <1>9 DEF CancelReturns, CompletionSeen, StopEnds, Idle, streamVars
  <2>. QED
    BY <1>2, <2>1
<1>10. ASSUME NEW c \in Clients, ClientCall(c) \/ ClientStep(c) PROVE CallerInv'
  BY <1>4, <1>5, <1>6, <1>7, <1>8, <1>9, <1>10 DEF ClientCall, ClientStep
<1>11. ASSUME NEW t \in Tasks, TaskStep(t) \/ ExecutorStep(t) PROVE CallerInv'
  <2>1. UNCHANGED <<cpc, life>>
    <3>1. ASSUME NEW loc, Works(t, loc) PROVE UNCHANGED <<cpc, life>>
      BY <3>1 DEF Works, clientVars
    <3>2. CASE Ends(t) \/ CancelledBeforeBody(t)
      BY <3>2 DEF Ends, Finally, CancelledBeforeBody, clientVars, streamVars
    <3>. QED
      BY <1>0, <1>11, <3>1, <3>2, TaskEffects
  <2>. QED
    BY <1>1, <2>1
<1>12. CASE Start
  BY <1>1, <1>12 DEF Start, clientVars
<1>13. CASE UNCHANGED vars
  BY <1>1, <1>13 DEF vars, clientVars, streamVars
<1>. QED
  BY <1>10, <1>11, <1>12, <1>13 DEF Next

LEMMA StepOne == OneInv /\ [Next]_vars => OneInv'
<1>. SUFFICES ASSUME OneInv, [Next]_vars PROVE OneInv'
  OBVIOUS
<1>0. TypeInv /\ TypeOK /\ EntriesInv /\ CallerInv
  BY DEF OneInv, TypeInv
<1>1. TypeInv' /\ EntriesInv' /\ CallerInv'
  BY <1>0, StepTypeInv, StepEntries, StepCaller
<1>2. ASSUME NEW c \in Clients, ClientCall(c) \/ ClientStep(c) PROVE Tracked' /\ Seen'
  BY <1>2, StepOneCall
<1>3. ASSUME NEW t \in Tasks, TaskStep(t) \/ ExecutorStep(t) PROVE Tracked' /\ Seen'
  BY <1>0, <1>3, TaskEffects, OneWorks, OneEnds
<1>4. ASSUME Start \/ UNCHANGED vars PROVE Tracked' /\ Seen'
  <2>1. /\ Leaves /\ UNCHANGED <<cpc, target, todo, late, tasks>>
    BY <1>4 DEF Start, vars, streamVars, taskVars, clientVars, histVars, overlapVars, Leaves
  <2>2. \A u \in Tasks : Live(u)' <=> Live(u)
    BY <2>1 DEF Leaves, Live
  <2>3. \A t \in Tasks, c \in Clients :
          Plain(t) /\ Plain(t)' /\ cpc'[c] = "execute" => Known(t, c)'
    BY <2>1 DEF OneInv, Seen, Known, Ahead, Leaves
  <2>4. Leaves
    BY <2>1
  <2>. QED
    BY <2>3, <2>4, OneLeft
<1>5. Tracked' /\ Seen'
  BY <1>2, <1>3, <1>4 DEF Next
<1>. QED
  BY <1>1, <1>5 DEF OneInv

\* For any number of callers, at any time: two executions are alive together only if a
\* caller gave up waiting for one of them, the calls of execute() that started them
\* overlapped, or one shares its id with another live one; unless it does, a running
\* execution is found under its id, and no event is set before the end.
THEOREM OneAtATime == Spec => []ExclusiveAndTracked
<1>1. OneInv => ExclusiveAndTracked
  <2>. SUFFICES ASSUME OneInv PROVE ExclusiveAndTracked
    OBVIOUS
  <2>1. \A t \in Tasks : pc[t] = "run" => Live(t) /\ pc[t] \in Remembered
    BY Places DEF Live
  <2>. QED
    BY <2>1 DEF OneInv, Tracked, Seen, ExclusiveAndTracked, RunningIsTracked
<1>. QED
  BY <1>1, StepOne, InitOne, PTL DEF Spec
=============================================================================
