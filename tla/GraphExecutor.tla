--------------------------- MODULE GraphExecutor ---------------------------
(***************************************************************************)
(* One call of GraphExecutor.execute() (core/framework/graph/executor.py): *)
(* the walk over a graph of nodes with retries, visit limits, failure      *)
(* routing, parallel branches, checkpoints, pause and cancellation, from   *)
(* the session state it is given to the result it returns.                 *)
(*                                                                         *)
(* A location of pc is an await of execute(), except "top", the head of    *)
(* the while loop, where a pause requested by any thread is seen.  What    *)
(* nodes read and write is left out: conditions over it are free choices.  *)
(* So are the execution path and the token counts, which are only reported.*)
(* Saving a checkpoint (file and index entry) is one step here.            *)
(***************************************************************************)
EXTENDS Integers, Sequences, FiniteSets

CONSTANTS
  Nodes, EntryNode,
  TerminalNodes, PauseNodes,
  EventLoopNodes,   \* nodes run by an EventLoopNode, which retries by itself
  RouterTargets,    \* node -> the targets it may name in result.next_node
  Edges,            \* sequence of [source, target, condition, priority]
  MaxSteps,         \* GraphSpec.max_steps
  MaxVisits,        \* node -> NodeSpec.max_node_visits, 0 for no limit
  MaxRetries,       \* node -> NodeSpec.max_retries
  Parallel,         \* enable_parallel_execution
  FailAll,          \* on_branch_failure = "fail_all"
  Continuous,       \* conversation_mode = "continuous"
  CheckpointStore,  \* is there one?  (CheckpointConfig.enabled)
  CheckpointStart, CheckpointComplete,  \* what is saved besides pauses
  CanPause,         \* does anybody request a pause?
  CancelAt,         \* the awaits at which cancellations arrive
  MaxWork,          \* bound of the history variable "work"
  NoNode

Condition == {"always", "on_success", "on_failure", "conditional", "llm_decide"}

ASSUME GraphAssumption ==
  /\ IsFiniteSet(Nodes) /\ NoNode \notin Nodes
  /\ EntryNode \in Nodes
  /\ Edges \in Seq([source : Nodes, target : Nodes, condition : Condition, priority : Int])
  /\ RouterTargets \in [Nodes -> SUBSET Nodes]
  /\ MaxSteps \in Nat
  /\ MaxVisits \in [Nodes -> Nat]
  /\ MaxRetries \in [Nodes -> Nat]
  /\ MaxWork \in Nat
  /\ {Parallel, FailAll, Continuous, CheckpointStore} \subseteq BOOLEAN

VARIABLES
  pc,             \* where execute() is suspended
  current,        \* current_node_id
  steps,          \* steps
  visits,         \* node_visit_counts
  retries,        \* node_retry_counts
  isRetry,        \* _is_retry
  pauseRequested, \* _pause_requested
  running,        \* parallel branches (by node) that have not ended
  tries,          \* attempts a branch has made
  branchFailed,   \* has a branch of this fan-out failed?
  fanIn,          \* the node after the fan-out, or NoNode
  out,            \* the result, or NoResult
  created,        \* number of checkpoints created
  saving,         \* checkpoints whose save task has not finished
  index,          \* the checkpoint index, oldest entry first
  progress,       \* state.json: the visit counts in it
  work,           \* history: node executions of this run's main loop, up to MaxWork
  entered,        \* history: visits this run has executed, repeated attempts not counted
  completed       \* history: visits that are over: finished, failed over or given up

loopVars   == <<current, steps, visits, retries, isRetry>>
branchVars == <<running, tries, branchFailed, fanIn>>
storeVars  == <<created, saving, index, progress>>
histVars   == <<work, entered, completed>>
vars == <<pc, loopVars, pauseRequested, branchVars, out, storeVars, histVars>>

\* Suspended inside the try block; these awaits can be cancelled.
Awaits == {"pausing", "skipping", "node", "backoff", "failing", "routing",
           "branches", "handover", "closing"}
Counts == [Nodes -> Nat]
None   == [n \in Nodes |-> 0]

Checkpoint == [id : Nat, at : Nodes, next : Nodes \cup {NoNode}, clean : BOOLEAN]

\* What the result says about resuming; checkpoint 0 stands for none.
Kinds  == {"completed", "exhausted", "hitl", "failed", "error", "paused", "cancelled"}
Result == [kind : Kinds, pausedAt : Nodes \cup {NoNode}, resumeFrom : Nodes \cup {NoNode},
           visits : Counts, checkpoint : Nat]
NoResult == [kind |-> "none"]

\* The session state execute() is given; a fresh run has none.
SessionState == [pausedAt : Nodes \cup {NoNode}, resumeFrom : Nodes \cup {NoNode},
                 visits : Counts, checkpoint : Nat]
Fresh == [pausedAt |-> NoNode, resumeFrom |-> NoNode, visits |-> None, checkpoint |-> 0]

TypeOK ==
  /\ pc \in {"idle", "top", "ended"} \cup Awaits
  /\ current \in Nodes
  /\ steps \in 0..MaxSteps
  /\ visits \in Counts
  /\ retries \in Counts
  /\ isRetry \in BOOLEAN
  /\ pauseRequested \in BOOLEAN
  /\ running \subseteq Nodes
  /\ tries \in Counts
  /\ branchFailed \in BOOLEAN
  /\ fanIn \in Nodes \cup {NoNode}
  /\ out \in Result \cup {NoResult}
  /\ created \in Nat
  /\ saving \subseteq Checkpoint
  /\ index \in Seq(Checkpoint)
  /\ progress \in Counts
  /\ work \in 0..MaxWork
  /\ entered \in Counts
  /\ completed \in Counts

Init ==
  /\ pc = "idle"
  /\ current = EntryNode
  /\ steps = 0
  /\ visits = None
  /\ retries = None
  /\ isRetry = FALSE
  /\ pauseRequested = FALSE
  /\ running = {}
  /\ tries = None
  /\ branchFailed = FALSE
  /\ fanIn = NoNode
  /\ out = NoResult
  /\ created = 0
  /\ saving = {}
  /\ index = <<>>
  /\ progress = None
  /\ work = 0
  /\ entered = None
  /\ completed = None

-----------------------------------------------------------------------------
(***************************************************************************)
(* Edges.                                                                  *)
(***************************************************************************)

Out(n) == {e \in DOMAIN Edges : Edges[e].source = n}

\* get_outgoing_edges: highest priority first, equal ones as declared.
Before(e, f) ==
  \/ Edges[e].priority > Edges[f].priority
  \/ Edges[e].priority = Edges[f].priority /\ e < f

\* The edges of n whose answer depends on data or on the language model; "yes"
\* below is the set of them that say yes.
Judged(n) == {e \in Out(n) : Edges[e].condition \in {"conditional", "llm_decide"}}

\* Conditions are asked twice in routing: the data is the same, but the
\* language model may change its mind.
SameData(yes, again) ==
  \A e \in DOMAIN Edges : Edges[e].condition = "conditional" => (e \in yes <=> e \in again)

\* EdgeSpec.should_traverse
Open(n, success, yes) ==
  {e \in Out(n) : \/ Edges[e].condition = "always"
                  \/ Edges[e].condition = "on_success" /\ success
                  \/ Edges[e].condition = "on_failure" /\ ~success
                  \/ e \in yes}

\* _follow_edges: the target of the first open edge.  (This and the next choices
\* of one are sets with one element.)
Follow(n, success, yes) ==
  LET open  == Open(n, success, yes)
      first == {e \in open : \A f \in open \ {e} : Before(e, f)}
  IN  IF open = {} THEN {NoNode} ELSE {Edges[e].target : e \in first}

\* _get_all_traversable_edges: of several conditional edges only those of the
\* highest priority.
Traversable(n, yes) ==
  LET open == Open(n, TRUE, yes)
      cond == {e \in open : Edges[e].condition = "conditional"}
  IN  open \ {e \in cond : \E f \in cond : Edges[f].priority > Edges[e].priority}

\* _find_convergence_node: where all branches lead by one edge, otherwise where
\* most of them do; the first such node in the order of edges and out-edges.
ConvergenceNode(branches) ==
  LET hops == {h \in branches \X DOMAIN Edges : h[2] \in Out(Edges[h[1]].target)}
      Leading(h) == Cardinality({g \in hops : Edges[g[2]].target = Edges[h[2]].target})
      best == IF \E h \in hops : Leading(h) = Cardinality(branches)
              THEN {h \in hops : Leading(h) = Cardinality(branches)}
              ELSE {h \in hops : \A g \in hops : Leading(g) <= Leading(h)}
      Earlier(h, g) == Before(h[1], g[1]) \/ (h[1] = g[1] /\ Before(h[2], g[2]))
      first == {h \in best : \A g \in best \ {h} : Earlier(h, g)}
  IN  IF hops = {} THEN {NoNode} ELSE {Edges[h[2]].target : h \in first}

-----------------------------------------------------------------------------
(***************************************************************************)
(* Limits, results and files.                                              *)
(***************************************************************************)

\* Attempts of a node in the main loop before its failure is routed; an
\* EventLoopNode gets 0, which allows one attempt just as 1 does.
Retries(n) == IF n \in EventLoopNodes THEN 0 ELSE MaxRetries[n]

\* Attempts of a node as a branch; here 0 allows none.
BranchAttempts(n) ==
  IF n \in EventLoopNodes /\ MaxRetries[n] > 1 THEN 1 ELSE MaxRetries[n]

Clean == \A n \in Nodes : retries[n] = 0

NewCheckpoint(n, next) == [id |-> created + 1, at |-> n, next |-> next, clean |-> Clean]

\* asyncio.create_task(checkpoint_store.save_checkpoint(...)), if configured.
SaveLater(configured, n, next) ==
  IF CheckpointStore /\ configured
    THEN /\ created' = created + 1
         /\ saving' = saving \cup {NewCheckpoint(n, next)}
    ELSE UNCHANGED <<created, saving>>

\* get_latest_clean_checkpoint: the last clean entry of the index.
LatestClean ==
  LET clean == {i \in DOMAIN index : index[i].clean}
      last  == {i \in clean : \A j \in clean : j <= i}
  IN  IF CheckpointStore /\ clean # {}
      THEN {index[i].id : i \in last} ELSE {0}

\* _write_progress, as far as anything read back on a resume is concerned.
WriteProgress == progress' = visits

ResultOf(kind, pausedAt, resumeFrom, checkpoint) ==
  [kind |-> kind, pausedAt |-> pausedAt, resumeFrom |-> resumeFrom,
   visits |-> visits, checkpoint |-> checkpoint]

\* A return that first awaits the runtime log's end_run ...
Close(kind, pausedAt, resumeFrom) ==
  /\ pc' = "closing"
  /\ out' = ResultOf(kind, pausedAt, resumeFrom, 0)

\* ... and one from an except block or the pause check.
End(kind, pausedAt, resumeFrom, checkpoint) ==
  /\ pc' = "ended"
  /\ out' = ResultOf(kind, pausedAt, resumeFrom, checkpoint)

\* The next iteration, by way of the transition marker (and the compaction) of
\* a continuous conversation.
GoOn(n) ==
  /\ current' = n
  /\ pc' = IF Continuous THEN "handover" ELSE "top"

-----------------------------------------------------------------------------
(***************************************************************************)
(* The beginning: where to start, with which counts.                       *)
(***************************************************************************)

\* Faulty variant: the node paused at stays counted.
CountsAsSaved(ss) == ss.visits

\* The node paused at was counted but, it is assumed, not completed.
RestoredVisits(ss) ==
  [n \in Nodes |-> IF n = ss.pausedAt /\ ss.visits[n] > 0
                   THEN ss.visits[n] - 1 ELSE ss.visits[n]]

\* A checkpoint can be loaded once its save has ended; a missing one means the
\* same as none.  The key "<node>_resume" of a pause node is never looked up,
\* because paused_at comes first.
Loadable(id) == \E i \in DOMAIN index : index[i].id = id
Loaded(id)   == index[CHOOSE i \in DOMAIN index : index[i].id = id]

StartNode(ss) ==
  IF ss.checkpoint # 0 /\ CheckpointStore /\ Loadable(ss.checkpoint)
    THEN LET c == Loaded(ss.checkpoint) IN IF c.next # NoNode THEN c.next ELSE c.at
    ELSE IF ss.pausedAt # NoNode THEN ss.pausedAt
    ELSE IF ss.resumeFrom # NoNode THEN ss.resumeFrom
    ELSE EntryNode

\* Every run has an executor of its own: no pause is requested yet.
Begin(ss) ==
  /\ pc' = "top"
  /\ current' = StartNode(ss)
  /\ steps' = 0
  /\ visits' = RestoredVisits(ss)
  /\ retries' = None
  /\ isRetry' = FALSE
  /\ pauseRequested' = FALSE
  /\ out' = NoResult
  /\ work' = 0
  /\ entered' = None
  /\ running' = {}
  /\ tries' = None
  /\ branchFailed' = FALSE
  /\ fanIn' = NoNode
  /\ UNCHANGED <<created, saving, index>>

Execute ==
  /\ pc = "idle"
  /\ Begin(Fresh)
  /\ UNCHANGED <<progress, completed>>

-----------------------------------------------------------------------------
(***************************************************************************)
(* The head of the loop.                                                   *)
(***************************************************************************)

\* Faulty variant: one step too many.
StepsLeftOneMore == steps <= MaxSteps

StepsLeft == steps < MaxSteps

StepsExhausted ==
  /\ pc = "top" /\ ~StepsLeft
  /\ Close("exhausted", NoNode, NoNode)
  /\ UNCHANGED <<loopVars, pauseRequested, branchVars, storeVars, histVars>>

PauseSeen ==
  /\ pc = "top" /\ StepsLeft
  /\ pauseRequested
  /\ steps' = steps + 1
  /\ pc' = "pausing"
  /\ UNCHANGED <<current, visits, retries, isRetry, pauseRequested, branchVars, out,
                 storeVars, histVars>>

\* The event is published and the pause checkpoint, if any, is saved.
PauseSaved ==
  /\ pc = "pausing"
  /\ IF CheckpointStore
       THEN /\ created' = created + 1
            /\ index' = Append(index, [NewCheckpoint(current, current) EXCEPT !.clean = TRUE])
            /\ End("paused", current, NoNode, created + 1)
       ELSE /\ End("paused", current, NoNode, 0)
            /\ UNCHANGED <<created, index>>
  /\ UNCHANGED <<loopVars, pauseRequested, branchVars, saving, progress, histVars>>

\* Faulty variants: a node over its limit is executed once more; the retry flag
\* stays set.
WithinLimitOneMore(n, cnt) == MaxVisits[n] = 0 \/ cnt <= MaxVisits[n] + 1
RetryFlagKept(flag) == flag \in BOOLEAN /\ isRetry' = isRetry

WithinLimit(n, cnt) == MaxVisits[n] = 0 \/ cnt <= MaxVisits[n]

\* A retry is not a new visit, and only the next step is one.
RetryFlagCleared(flag) == flag \in BOOLEAN /\ isRetry' = FALSE

EnterNode ==
  LET cnt == IF isRetry THEN visits[current] ELSE visits[current] + 1 IN
  /\ pc = "top" /\ StepsLeft
  /\ ~pauseRequested
  /\ steps' = steps + 1
  /\ visits' = [visits EXCEPT ![current] = cnt]
  /\ RetryFlagCleared(isRetry)
  /\ IF WithinLimit(current, cnt)
       THEN /\ pc' = "node"
            /\ work' = IF work < MaxWork THEN work + 1 ELSE work
            /\ entered' = [entered EXCEPT ![current] = @ + 1]
            /\ SaveLater(CheckpointStart, current, NoNode)
       ELSE /\ pc' = "skipping"
            /\ UNCHANGED <<work, entered, created, saving>>
  /\ UNCHANGED <<current, retries, pauseRequested, branchVars, out, index, progress, completed>>

\* A skipped node's edges are followed as if it had succeeded.
SkipOver ==
  /\ pc = "skipping"
  /\ \E yes \in SUBSET Judged(current) : \E next \in Follow(current, TRUE, yes) :
       IF next = NoNode
         THEN Close("completed", NoNode, NoNode) /\ UNCHANGED current
         ELSE current' = next /\ pc' = "top" /\ UNCHANGED out
  /\ UNCHANGED <<steps, visits, retries, isRetry, pauseRequested, branchVars, storeVars,
                 histVars>>

-----------------------------------------------------------------------------
(***************************************************************************)
(* The node and its verdict.                                               *)
(***************************************************************************)

\* A pause node ends the run, before its edges are looked at; so does a
\* terminal node.
NodeSucceeds ==
  /\ pc = "node"
  /\ completed' = [completed EXCEPT ![current] = @ + 1]
  /\ IF current \in PauseNodes THEN Close("hitl", current, NoNode)
     ELSE IF current \in TerminalNodes THEN Close("completed", NoNode, NoNode)
     ELSE pc' = "routing" /\ UNCHANGED out
  /\ UNCHANGED <<loopVars, pauseRequested, branchVars, storeVars, work, entered>>

\* Faulty variant: the retry count starts anew with every attempt.
RetriesForgotten(n) == retries' = [retries EXCEPT ![n] = 0]

CountRetry(n) == retries' = [retries EXCEPT ![n] = @ + 1]

\* The node fails, or its output is not valid.
NodeFails ==
  /\ pc = "node"
  /\ CountRetry(current)
  /\ IF retries[current] + 1 < Retries(current)
       THEN /\ steps' = steps - 1
            /\ pc' = "backoff"
       ELSE /\ pc' = "failing"
            /\ UNCHANGED steps
  /\ UNCHANGED <<current, visits, isRetry, pauseRequested, branchVars, out, storeVars, histVars>>

BackoffOver ==
  /\ pc = "backoff"
  /\ isRetry' = TRUE
  /\ entered' = [entered EXCEPT ![current] = @ - 1]
  /\ pc' = "top"
  /\ UNCHANGED <<current, steps, visits, retries, pauseRequested, branchVars, out, storeVars,
                 work, completed>>

\* A failure is routed like a success, by the edges that are open to it.
RouteFailure ==
  /\ pc = "failing"
  /\ \E yes \in SUBSET Judged(current) : \E next \in Follow(current, FALSE, yes) :
       IF next = NoNode
         THEN /\ Close("failed", NoNode, current)
              /\ UNCHANGED <<current, completed>>
         ELSE /\ current' = next /\ pc' = "top"
              /\ completed' = [completed EXCEPT ![current] = @ + 1]
              /\ UNCHANGED out
  /\ UNCHANGED <<steps, visits, retries, isRetry, pauseRequested, branchVars, storeVars,
                 work, entered>>

-----------------------------------------------------------------------------
(***************************************************************************)
(* After a success: a router's choice, one edge, or a fan-out.             *)
(***************************************************************************)

RouteExplicitly ==
  /\ pc = "routing"
  /\ \E next \in RouterTargets[current] : GoOn(next) /\ WriteProgress
  /\ UNCHANGED <<steps, visits, retries, isRetry, pauseRequested, branchVars, out, created,
                 saving, index, histVars>>

NoEdge ==
  /\ pc = "routing"
  /\ \E yes \in SUBSET Judged(current) : Traversable(current, yes) = {}
  /\ Close("completed", NoNode, NoNode)
  /\ UNCHANGED <<loopVars, pauseRequested, branchVars, storeVars, histVars>>

FollowEdge ==
  /\ pc = "routing"
  /\ \E yes \in SUBSET Judged(current), again \in SUBSET Judged(current) :
       /\ Traversable(current, yes) # {}
       /\ Parallel => Cardinality(Traversable(current, yes)) = 1
       /\ SameData(yes, again)
       /\ \E next \in Follow(current, TRUE, again) :
          IF next = NoNode
            THEN /\ Close("completed", NoNode, NoNode)
                 /\ UNCHANGED <<current, created, saving, progress>>
            ELSE /\ GoOn(next)
                 /\ WriteProgress
                 /\ SaveLater(CheckpointComplete, current, next)
                 /\ UNCHANGED out
  /\ UNCHANGED <<steps, visits, retries, isRetry, pauseRequested, branchVars, index, histVars>>

\* Branches are keyed by source and target: two edges to one node make one
\* branch.  A branch allowed no attempt has failed at once.
FanOut ==
  /\ pc = "routing"
  /\ Parallel
  /\ \E yes \in SUBSET Judged(current) :
       LET branches == Traversable(current, yes)
           targets  == {Edges[e].target : e \in branches}
       IN  /\ Cardinality(branches) > 1
           /\ running' = {n \in targets : BranchAttempts(n) > 0}
           /\ branchFailed' = (\E n \in targets : BranchAttempts(n) = 0)
           /\ fanIn' \in ConvergenceNode(branches)
  /\ tries' = None
  /\ pc' = "branches"
  /\ UNCHANGED <<loopVars, pauseRequested, out, storeVars, work, entered, completed>>

\* One attempt of a branch ends; a failed one is repeated at once.
BranchAttempt(n, success) ==
  /\ pc = "branches" /\ n \in running
  /\ tries' = [tries EXCEPT ![n] = @ + 1]
  /\ running' = IF success \/ tries[n] + 1 = BranchAttempts(n) THEN running \ {n} ELSE running
  /\ branchFailed' = (branchFailed \/ (~success /\ tries[n] + 1 = BranchAttempts(n)))
  /\ UNCHANGED <<pc, loopVars, pauseRequested, fanIn, out, storeVars, histVars>>

\* An exception ends the branch, whatever attempts it had left.
BranchRaises(n) ==
  /\ pc = "branches" /\ n \in running
  /\ running' = running \ {n}
  /\ branchFailed' = TRUE
  /\ UNCHANGED <<pc, loopVars, pauseRequested, tries, fanIn, out, storeVars, histVars>>

\* asyncio.gather has all results.
BranchesJoined ==
  /\ pc = "branches" /\ running = {}
  /\ IF branchFailed /\ FailAll
       THEN /\ \E id \in LatestClean : End("error", NoNode, current, id)
            /\ UNCHANGED <<current, progress>>
     ELSE IF fanIn = NoNode
       THEN Close("completed", NoNode, NoNode) /\ UNCHANGED <<current, progress>>
     ELSE GoOn(fanIn) /\ WriteProgress /\ UNCHANGED out
  /\ UNCHANGED <<steps, visits, retries, isRetry, pauseRequested, branchVars, created, saving,
                 index, histVars>>

HandedOver ==
  /\ pc = "handover"
  /\ pc' = "top"
  /\ UNCHANGED <<loopVars, pauseRequested, branchVars, out, storeVars, histVars>>

-----------------------------------------------------------------------------
(***************************************************************************)
(* The endings.                                                            *)
(***************************************************************************)

Closed ==
  /\ pc = "closing"
  /\ pc' = "ended"
  /\ UNCHANGED <<loopVars, pauseRequested, branchVars, out, storeVars, histVars>>

\* An exception of the node, of a save, or of the conversation handed over:
\* "except Exception".
Raises ==
  /\ pc \in {"node", "pausing", "handover"}
  /\ \E id \in LatestClean : End("error", NoNode, current, id)
  /\ UNCHANGED <<loopVars, pauseRequested, branchVars, storeVars, histVars>>

\* "except asyncio.CancelledError", also when the run had a result already and
\* was only writing its log.
Cancel ==
  /\ pc \in Awaits \cap CancelAt
  /\ End("cancelled", current, NoNode, 0)
  /\ UNCHANGED <<loopVars, pauseRequested, branchVars, storeVars, histVars>>

RequestPause ==
  /\ CanPause
  /\ pc \in {"top"} \cup Awaits /\ ~pauseRequested
  /\ pauseRequested' = TRUE
  /\ UNCHANGED <<pc, loopVars, branchVars, out, storeVars, histVars>>

\* Save tasks outlive the run, and may finish in any order or fail.
CheckpointSaved ==
  \E c \in saving :
    /\ index' = Append(index, c)
    /\ saving' = saving \ {c}
    /\ UNCHANGED <<pc, loopVars, pauseRequested, branchVars, out, created, progress, histVars>>

CheckpointLost ==
  \E c \in saving :
    /\ saving' = saving \ {c}
    /\ UNCHANGED <<pc, loopVars, pauseRequested, branchVars, out, created, index, progress,
                   histVars>>

\* Steps of execute() itself, and the ends of the nodes it waits for.
LoopStep ==
  \/ StepsExhausted \/ PauseSeen \/ PauseSaved \/ EnterNode \/ SkipOver
  \/ NodeSucceeds \/ NodeFails \/ BackoffOver \/ RouteFailure
  \/ RouteExplicitly \/ NoEdge \/ FollowEdge \/ FanOut
  \/ \E n \in Nodes, success \in BOOLEAN : BranchAttempt(n, success)
  \/ \E n \in Nodes : BranchRaises(n)
  \/ BranchesJoined \/ HandedOver \/ Closed \/ Raises

EnvironmentStep == Cancel \/ RequestPause \/ CheckpointSaved \/ CheckpointLost

Next == Execute \/ LoopStep \/ EnvironmentStep

Spec == Init /\ [][Next]_vars

\* Nodes answer, files are written, sleeps end.
FairSpec == Spec /\ WF_vars(LoopStep)

-----------------------------------------------------------------------------
(***************************************************************************)
(* Properties of a run.                                                    *)
(***************************************************************************)

\* The retries that nodes were allowed and have used: node and number.
Redone == UNION {{n} \X {k \in 1..retries[n] : k < Retries(n)} : n \in Nodes}

\* Retries give their step back, but only as many as the node's own limit
\* allows in the whole run: the main loop never executes more nodes than it
\* has counted steps, and nodes were retried.
WorkBounded == work <= steps + Cardinality(Redone)

\* However the run loops, fails over, retries or fans out and in again, its main
\* loop visits a node at most max_node_visits times.
VisitsWithinLimit ==
  \A n \in Nodes : MaxVisits[n] > 0 => entered[n] <= MaxVisits[n]

\* Cyclic graphs, retries, failing branches: each run ends if its nodes do.
RunEnds == pc = "top" ~> pc = "ended"
=============================================================================
