# Verification of the halia-agent framework

This directory holds TLA+ models of the agent framework under `src/core/framework`,
the TLC instances that check them, and theorems about them that TLAPS proves.
Paths below are relative to `src/core/framework/` unless they start with `src/`.

The framework runs *agents*: graphs of LLM-driven nodes. A graph is executed by a
`GraphExecutor`; an `ExecutionStream` runs executions of one entry point as asyncio
tasks and can cancel, resume and resurrect them; an `AgentRuntime` owns the streams,
timers and event triggers of an agent; an `EventBus` connects them all; a server puts
several agents (queen, judge, worker) behind an HTTP API. Nearly everything runs on
one asyncio event loop, so the interleavings that matter are those at `await`s, with
worker threads (`asyncio.to_thread`) for files.

## 1. Inventory

### 1.1 ExecutionStream - `runtime/execution_stream.py`

*State*: `_running`; five dictionaries keyed by execution id (`_active_executions`,
`_execution_tasks`, `_active_executors`, `_completion_events`, `_cancel_reasons`); the
retained results, two OrderedDicts; a semaphore of `max_concurrent` slots; per task the
locals of `_run_execution` (result, resurrection count, shared-session flag).
*Operations*: `start`, `stop`, `execute`, `_run_execution`, `cancel_execution`,
`wait_for_completion`, `inject_input`, `_write_session_state`.
*Interactions*: called by AgentRuntime (triggers, timers), the server's routes and the
queen's tools; creates a GraphExecutor per attempt; publishes on the EventBus (which
awaits the subscribers); creates and drops memory in SharedStateManager; writes
state.json through SessionStore in a worker thread.
*Hard*: cancellation may be raised at any await, also inside the handler of an earlier
cancellation; callers give up waiting after 5 s; an execution id may be reused while its
previous execution is still unwinding; resurrection loops around the executor.
*Correct when*: no slot is lost; nothing of a finished execution stays registered; each
waiter is woken and finds a result; a cancelled execution is not restarted; executions
of a stream do not overlap.

### 1.2 GraphExecutor - `graph/executor.py`

*State*: per call of `execute`: current node, step and retry counters, visit counts, path,
shared memory; per executor: the pause flag and the node registry; on disk: checkpoints.
*Operations*: resume (paused node, checkpoint, resume key), the step loop (pause check,
visit limit, node execution, retry with backoff, failure routing, pause node, terminal
node, router or edge, fan-out and fan-in), the endings (success, failure, paused,
cancelled, exception), `request_pause`.
*Interactions*: called and cancelled by ExecutionStream; runs node implementations;
evaluates EdgeSpec; reads and writes CheckpointStore, state.json (`_write_progress`).
*Hard*: what a resumed run counts and repeats; retries against step and visit limits;
parallel branches that write the same memory; cancellation at each of its awaits.
*Correct when*: limits hold along every run and across resumptions; a resumed run
continues at the node the earlier one stopped at, with its memory; results describe what
was executed.

### 1.3 EventLoopNode - `graph/event_loop_node.py`, with `graph/conversation.py`

*State*: conversation (messages with sequence numbers, compaction), output accumulator,
iteration counters, injection queue, `_input_ready`, `_awaiting_input`, `_shutdown`, the
cancellable turn task; on disk: message parts and cursor.
*Operations*: iteration loop (drain injections, pause check, compaction, turn, judge,
client input), `inject_event`, `cancel_current_turn`, `signal_shutdown`, restore.
*Interactions*: called by GraphExecutor, once per visit; the server, the queen's tools and
other executions inject messages; asks the LLM, tools and a judge; each message is written
through to the conversation's files before the call that adds it returns.
*Hard*: input that arrives before, during and after the wait; a cancelled turn against a
cancelled execution; stall and doom-loop detection; a crash between two writes.
*Correct when*: no injected message is lost or delivered twice; a blocked node can be
woken; a restored conversation has no orphaned tool results.

### 1.4 AgentRuntime - `runtime/agent_runtime.py`

*State*: `_running`, streams, graph registrations, timers and their next fire time,
event subscriptions, session ids remembered by triggers.
*Operations*: `start`, `stop`, `trigger`, event and timer handlers, `add_graph`,
`remove_graph`, `pause_timers`, `inject_input`, `cancel_execution`.
*Interactions*: makes and stops the streams; timers and bus subscriptions call
`stream.execute()`; the server and the queen's tools load, unload and trigger.
*Hard*: triggers during start and stop; a handler that remembers a session id after an
await; removal of a graph whose executions still run.
*Correct when*: nothing of a graph that is gone still runs, listens or ticks; the sessions
of isolated entry points stay apart, one for each timer.

### 1.5 EventBus - `runtime/event_bus.py`

*State*: subscriptions, bounded history, semaphore for handlers. *Operations*: subscribe,
unsubscribe, publish (awaits every matching handler), `wait_for`. *Hard*: handlers that
publish again while they hold a slot of the semaphore; publishers that are cancelled with
their handlers; a browser whose queue is full. *Correct when*: `publish` returns, and a
connected browser sees each lifecycle event, in order, or is told to reconnect.

### 1.6 SharedStateManager and StreamMemory - `runtime/shared_state.py`

*State*: global, stream and execution maps, version, change list, one lock per key.
*Operations*: `create_memory`, `read`, `write` (isolated, shared, synchronized),
`write_batch`, `cleanup_execution`, `cleanup_stream`. *Hard*: lost updates, writes after
cleanup, batches that are not atomic.

### 1.7 Storage - `storage/*.py`, `utils/io.py`, `schemas/checkpoint.py`

`SessionStore` (state.json by temporary file and rename), `CheckpointStore` (files, an
index under a lock, pruning), `ConcurrentStorage` (cache, batch queue and locks around
`FileStorage`), `FileConversationStore` (parts and cursor). *Hard*: a crash between a
checkpoint and its index entry; two writers of one file share a temporary name; a cache
that is older than the file; a batch queue at shutdown.

### 1.8 StreamRuntime and OutcomeAggregator - `runtime/stream_runtime.py`, `runtime/outcome_aggregator.py`

Runs, decisions and outcomes per execution, and the progress over all streams.

### 1.9 Server, queen and judge - `server/*.py`, `tools/queen_lifecycle_tools.py`

`SessionManager` (sessions, loading set, worker load and unload, queen and judge tasks),
the queen's phase machine (planning, building, staging, running) and its tools, HTTP
routes and SSE streams. *Hard*: two loads of one session; a worker that ends while its
tools run; a queen revived while it stops. *Correct when*: no worker is replaced while it
runs or left running where nobody can stop it; the phase follows the executions.

### 1.10 Credentials - `credentials/**`

Store with cache and provider refresh, OAuth2 token lifecycle, encrypted and cached
storage. *Hard*: two refreshes of one token, a cache newer or older than the file.

### 1.11 Runner and LLM - `runner/*.py`, `llm/*.py`

Loading of agents, MCP connections, tool registry, command line; provider calls with
retries and rate limits.

### 1.12 Everything else

`observability`, `monitoring`, `testing`, `schemas`, `agents`, the MCP tool servers in
`src/tools`, the web frontend, demos, examples, scripts and documentation. They keep no
state on which the behaviours above depend, or are clients of it.

## 2. Plan

The order follows what the framework exists for: executions that end, can be stopped,
and can be resumed; then what drives them, from the node inside to the server outside.

| # | Module | Status | Content |
|---|--------|--------|---------|
| 1 | `ExecutionStream` | done | executions of a stream, cancellation, resurrection, waiters |
| 2 | `GraphExecutor` | done | one run of a graph |
| 3 | `GraphSession` (extends 2) | done | runs that share a session: resurrection, resume, crash |
| 4 | `EventLoopNode`, `Mailbox` | done | the loop of a node and what it promises to those who inject messages |
| 5 | `Conversation` | done | messages, compaction and their files; crash, cancellation, restore |
| 6 | `EventBus` | done | publication under a semaphore, handlers that publish, the browser's event stream |
| 7 | `AgentRuntime` (over an abstract stream) | done | start and stop, timers, event entry points, graphs added and removed |
| 8 | `QueenSession` (over an abstract runtime) | done | loading, unloading, tools that change the phase, queens that die |
| 9 | `CheckpointStore` | done | checkpoint files, their index and its lock; threads, crash, the next run |
| 10 | `ExecutionStreamProofs`, `GraphExecutorProofs` (with GraphSession), `EventLoopNodeProofs`, `ConversationProofs`, `QueenSessionProofs`, `CheckpointStoreProofs`, `AgentRuntimeProofs`, `EventBusProofs` | done | theorems |
| 11 | `StateFile` | open | writers of state.json |
| 12 | `SharedState`, `ConcurrentStorage`, credentials | open | locks, caches in front of files |

How the modules fit together. Each is one layer, and takes of the layer below what its
caller can observe:

- `QueenSession` sees a worker as a runtime that is up or not and its executions;
  `AgentRuntime` sees an execution as live until its task has ended and tracked while the
  stream knows it. What a stream does with a cancelled execution (it may outlive its
  canceller's wait) is `ExecutionStream`, and both modules let an execution end at any time
  after it was cancelled because `stream_any` shows the stream does.
- `ExecutionStream` sees an executor's run as one of five outcomes; `GraphExecutor` is that
  run; `GraphSession` composes the two along the resume points in state.json.
- `GraphExecutor` sees a save of a checkpoint as one step that may come late or not at all
  (`saving`, `index`); `CheckpointStore` is what happens in it, and that the index follows
  as if it were one step is `IndexFollows`.
- `GraphExecutor` sees a node as an answer; `EventLoopNode` is the node that takes time,
  `Conversation` what it writes, `Mailbox` the abstract promise it implements.
- `EventBus` is what the others use as one await: in `ExecutionStream` a publication suspends
  and returns, in `QueenSession` it delivers or loses `_on_worker_done`.

## 3. The modules and the code

### 3.1 `ExecutionStream`

The code between two `await`s is one step. A *task* is one call of `_run_execution`, a
*session* an execution id, and a *client* a coroutine that calls the stream. The
distinction between tasks and sessions is the point of the module: every dictionary of
the stream is keyed by id, `execute()` reuses an id given as `resume_session_id`, and so
the entries of one task can be replaced or removed by another.

| State | Code |
|-------|------|
| `life` | `_running`, and before `start()` |
| `active`, `tasks`, `executors`, `events`, `reasons` | `_active_executions`, `_execution_tasks`, `_active_executors`, `_completion_events`, `_cancel_reasons`: id -> the task the entry was made for |
| `fired` | the completion events that are set |
| `results`, `age` | `_execution_results` and its order |
| `permits` | `_semaphore` |
| `memory` | execution-scoped memory in SharedStateManager |
| `pc`, `sess`, `shared`, `cancelled`, `result`, `resurrections` | suspension point and locals of each task |
| `cpc`, `target`, `todo`, `args` | suspension point and locals of each client |
| `emitted`, `unborn`, `late` | history: terminal events; tasks cancelled before their `try`; tasks a caller had cancelled and gave up waiting for |
| `contested`, `unseen`, `missed` | history: tasks of one id that were alive together; what was registered since a call of `execute()` took its snapshot, and for each task what its call so missed |

| Actions | Code |
|---------|------|
| `Start`, `StopBegins`, `StopEnds` | `start`, `stop` up to and after its wait |
| `Execute`, `ExecuteContinues` | `execute`: the snapshot of active ids, one cancellation after the other, registration |
| `CancelExecution`, `CancelReturns` | `cancel_execution` up to and after its wait of 5 s |
| `WaitForCompletion`, `CompletionSeen` | `wait_for_completion` |
| `TaskStarts`, `SemaphoreAcquired` | the semaphore at the head of `_run_execution` |
| `StartedEmitted`, `InitialStateWritten` | the awaits before the first attempt |
| `ExecutorReturns`, `ExecutorPauses`, `ExecutorRaises` | the three ways `executor.execute()` ends |
| `ResurrectionEmitted`, `CooldownOver` | the resurrection loop |
| `FinalStateWritten`, `EventPublished` | normal exit and the `finally` block |
| `CancelDelivered`, `CancelStateWritten` | `except asyncio.CancelledError` |
| `ErrorStateWritten` | `except Exception` |
| `HandlerInterrupted`, `CancelledBeforeBody` | cancellations no handler catches |

What an executor returns is one of five outcomes, because that is all the stream tells
apart. Of state.json only the awaits of its writes are here; what it says is in
`GraphSession`. Left out: `ctx.status`, which only statistics read, the age limit of results
(off unless configured), and `inject_input`, which hands a message to a node.

### 3.2 `GraphExecutor`

One call of `GraphExecutor.execute()`. A location is an await, or the head of the loop
(`"top"`), where a pause that another thread requested is noticed. The graph, its limits
and its node types are constants, so the model covers any graph; `MCGraph` has two.

| State | Code |
|-------|------|
| `current`, `steps`, `visits`, `retries`, `isRetry` | `current_node_id`, `steps`, `node_visit_counts`, `node_retry_counts`, `_is_retry` |
| `pauseRequested` | `_pause_requested` |
| `running`, `tries`, `branchFailed`, `fanIn` | the fan-out in `_execute_parallel_branches` |
| `out` | the `ExecutionResult`, as far as a resume reads it |
| `created`, `saving`, `index` | checkpoints made, being saved by tasks nobody awaits, and in the index |
| `progress` | the visit counts `_write_progress` puts in state.json |
| `work`, `entered`, `completed` | history: node executions, visits executed, visits finished |

`StepsExhausted`, `PauseSeen`, `EnterNode`, `SkipOver` are the head of the loop;
`NodeSucceeds`, `NodeFails`, `BackoffOver`, `RouteFailure` what follows a node's verdict;
`RouteExplicitly`, `NoEdge`, `FollowEdge`, `FanOut`, `BranchAttempt`, `BranchRaises`,
`BranchesJoined` the routing; `PauseSaved`, `Closed`, `Raises`, `Cancel` the endings.
`Open`, `Follow`, `Traversable` and `ConvergenceNode` are the pure functions that choose
edges (`EdgeSpec.should_traverse`, `_follow_edges`, `_get_all_traversable_edges`,
`_find_convergence_node`).

Conditions over data and the language model's choices are free (the set `yes`), except
that data does not change between the two evaluations of one routing decision; the
model's answer may. `llm_decide` without a language model behaves as `on_success`, which
is one of the free choices.

Left out: what nodes read and write, the path and token counts (only reported), the
validation and other awaits before the loop, synchronous checkpoint saves (no
configuration in the repository asks for them), pruning of checkpoints by age.
`branch_timeout_seconds` and `memory_conflict_strategy` are declared by the code and
never read, so there is nothing to model. `request_pause` is public and has no caller
inside the repository; it is modelled as a call by anyone at any time.

### 3.3 `GraphSession`

Extends `GraphExecutor` with the runs that share a session directory.

| State | Code |
|-------|------|
| `pausedAt`, `resumeFrom`, `progress` | state.json: the two resume points and the visit counts, all a resume reads besides memory |
| `shared` | `_is_shared_session`: the run resumed a session, and writes no state.json of its own |
| `resurrections`, `runs` | `_resurrection_count`; bound |
| `origin`, `stoppedAt` | history: how the last run began; where the owner of state.json stopped short |
| `inVisit`, `recorded`, `openAt` | history: is the run in a visit that was counted? what state.json counts, as finished and as open |
| `forgotten` | history: finished visits no run is told of any more |

`StartSession` is the first execution, `Resurrect` the loop of `_run_execution`, `Finish` its
final state.json (which a shared session does not write), `FinishCancelled` a cancellation
that meets the sleep before a resurrection or the publication of the end, `Crash` the death of
the process, `Resume` is `handle_resume` with `_load_resume_state` (`ResumePoint`, `TakenBack`),
`Restore` a resumption from a checkpoint. `ProgressWritten` says when `_write_progress` is
called. `Forget` drops what ends with a run's executor. The stream's other awaits are in
`ExecutionStream` and are one step here: nothing a resume reads changes between them.

### 3.4 `EventLoopNode` and `Mailbox`

One node object and its visits. The steps of `execute()` that the comments of the code
number 6a to 6i are these locations and actions:

| Location | Actions | Code |
|----------|---------|------|
| `"idle"` | `Begin` | the executor calls `execute()` |
| `"top"` | `Top` | the `for`, the pause check |
| `"drain"` | `Drain` | `_drain_injection_queue`, one message per step, for each is written to disk |
| `"stream"` | `Respond`, `TransientError`, `PermanentError` | `_run_single_turn`: the LLM's answer, and the error handlers around it |
| `"tools"` | `ToolsDone` | real tools and sub-agents, the results, the decision for another answer |
| `"backoff"` | `Backoff` | the sleep before a retry |
| `"turned"` | `GhostTurn`, `RealTurn` | empty turns; stall and doom-loop detection |
| `"recorded"` | `Recorded` | 6h: does the node block, for the user or for guidance? |
| `"await"`, `"requesting"`, `"waiting"` | `Await`, `Request`, `Woken` | `_await_user_input`: before the clear, the request event, the wait |
| `"judging"` | `Judge` | `_judge_turn` and what its verdict does |

`InjectEvent`, `SignalShutdown`, `CancelCurrentTurn`, `CancelExecution` and `RequestPause`
are the calls from outside. `cur` is the turn being streamed (locals of
`_run_single_turn`), `turn` the one that has returned (locals of `execute`), `values` the
accumulator's keys, `streak`, `empties`, `recent` and `prints` the counters and windows of
the guards, `queue` and `ready` the injection queue and its event. Texts are names and
their similarity is equality; the LLM answers with any member of `Responses[spec]`, a
judge with any verdict its kind may give. History: `sent`, `read`, `owed`, `ran`.

`Mailbox` is the abstract specification: put a message, take the oldest, sleep only while
there is none. `MailboxImplemented` maps `queue` to the box and "waits and the event is
not set" to asleep.

### 3.5 `Conversation`

`NodeConversation` and the files behind it. An operation computes the new messages in
memory and leaves the file operations in `todo`; `Write` performs the next one; `Crash`
tears the one under way (not begun, unreadable, or some of the files deleted) and `Cancel`
lets the thread complete it, and both drop what is in memory.

| State | Code |
|-------|------|
| `messages`, `nextSeq`, `metaDone` | `_messages`, `_next_seq`, `_meta_persisted` |
| `values` | `OutputAccumulator.values` |
| `parts`, `meta`, `cursor` | parts/, meta.json, cursor.json, as far as they can be read |
| `open` | the calls of the last answer that have no result yet |
| `acked`, `lost`, `doubled`, `outputsSet` | history: messages stored; hit by a crash while the files were being replaced; that share a number; outputs set |

`AddUser`, `AddAssistant`, `AddToolResult` are the `add_*` methods with `_persist`;
`SetOutput`, `Checkpoint`, `Handover` the cursor's writers; `Compact`, `CompactStructure`,
`Prune` the three ways to shorten; `Resume` is `_restore`; `NewEvent` the marker the
executor puts into an earlier session's conversation. `View` is `to_llm_messages` with
`_repair_orphaned_tool_calls`. A summary is known by the messages it `covers`. `restarted` says that
the conversation, its metadata lost, has begun anew over the files of its past. `Subsequence`
(module `Subsequences`) is what a list or the files hold at some places, in order.

### 3.6 `AgentRuntime`

A *load* is one call of `start` or `add_graph`; a stream is known by its graph, its load
and its entry point, so that the streams of two loads of one graph are different.

| State | Code |
|-------|------|
| `running`, `active`, `graphs`, `own` | `_running`, `_active_graph_id`, `_graphs` (graph -> load), `_streams` |
| `locked` | `_lock` |
| `up` | the streams that are running |
| `subs`, `timers` | `event_subscriptions`, `timer_tasks` |
| `remembered` | `_persistent_session_id` in each timer's and handler's closure |
| `calls` | calls of start, add_graph, remove_graph and stop, and where they are |
| `events`, `starts`, `execs` | handlers the bus has still to call; `stream.execute()` waiting for what it cancelled; executions |
| `apart` | history: sessions begun on isolated streams |
| `unfinished`, `halfway`, `displaced` | history: loads whose `start` or `add_graph` was broken off; whose streams were being stopped by a call that was broken off; that another load was registered over, or that `stop` forgot |

`CallStart`, `CallAdd`, `Acquire`, `StartStream`, `StreamStarted`, `Register` bring a graph
up, `CallRemove`, `CallStop`, `StopNext`, `StopPrimary`, `StopStream`, `StreamStopped`,
`TornDown`, `Forget`, `Stopped` bring it down, one step per await; `BreaksOff` is an exception or
a cancellation of any of these calls, wherever it is. The calls overlap. `TimerEnds` is a timer
that was left behind and finds its graph gone. `Trigger`, `StartAgent`, `Handle`,
`Tick` start executions; `Resolve`, `Aim` and `PrimarySession` say on which stream and in
which session.

### 3.7 `QueenSession`

One session of the server: `worker`, `loading`, `open` are `session.worker_runtime`,
`SessionManager._loading` and `_sessions`; `up` the runtimes that run, wherever they are
referenced from; `phase` the `QueenPhaseState` of each queen, `queens`, `latest` and
`executor` the queens' tasks, the newest one, and `session.queen_executor`. A run is live,
or publishes its end (from its try block, `"reporting"`, or from a handler, `"closing"`), or
was interrupted while it did. `calls` are HTTP requests and tool calls, each with the await
it is at:

| Calls | Code |
|-------|------|
| `CallLoad`, `CallLoadTool`, `LoadCheck`, `LoadStarts`, `LoadFails`, `LoadDone`, `Validate` | `_load_worker_core`, the tool `load_built_agent` |
| `CallUnload`, `StopRuntime`, `StopRuntimeFails`, `CleanedUp` | `unload_worker`; an exception of `cleanup_async`, which it swallows |
| `CallRun`, `CallRunTool`, `Preflight`, `Trigger`, `BeginAfter` | the route /trigger, the tool `run_agent_with_input` |
| `StartOther` | /resume, /replay, timers, event entry points |
| `CallPause`, `CallStopAndDesign`, `Halted` | /pause and /stop, `stop_worker_and_edit` and `stop_worker_and_plan`: cancel, wait, change the phase |
| `CallStopTool` | `stop_worker`, which leaves the phase to the end of what it cancels |
| `Ends`, `Pauses`, `Gone`, `OnWorkerDone` | the end of an execution and `_on_worker_done` |
| `QueenReady`, `QueenEnds`, `Revive`, `StopSession` | `create_queen`, `revive_queen`, `stop_session` |

### 3.8 `EventBus`

`Publish` makes one task per matching handler; a task waits for a slot (`HandleClient`,
`HandleEntry`, `IgnoreDone`, `PublishPhase` take one), and the publisher goes on
when its tasks are over (`PublishDone`) or is cancelled with them (`PublisherCancelled`).
Three handlers stand for all: the browser's `on_event`, which does not suspend; an event
entry point, which takes its time (`EntryDone`); the queen's `_on_worker_done`, which
publishes (`PublishPhase`, `PhasePublished`). `Connect`, `Prepared`, `PrepareFails`,
`Send`, `Close` are `handle_events`: subscription, the await of `sse.prepare`, the replay of
the history, the sending loop.

### 3.9 `CheckpointStore`

A *call* is one save or one pruning; a *run* is one call of `GraphExecutor.execute`, which
makes a store, and so a lock, of its own. What a thread does is divided into the steps
another thread may come between: open, write, replace.

| State | Code |
|-------|------|
| `disk`, `temp` | checkpoints/*.json and index.json; their `.tmp` files |
| `at`, `job` | where a call is; its id, its store, what is left to delete, the index it is about to write |
| `io` | what the thread has done of `atomic_write`, and whether what it has open is the temporary file, has become the file, or has no name any more |
| `run`, `alive` | whose store is used for new calls; may the run begin calls? |
| `holder` | `_index_lock` of each run's store |
| `old` | ids whose checkpoint is older than the limit of age |
| `acked`, `removed`, `doubled`, `spoiled` | history: saves that returned; files deleted; ids saved by two calls at a time; an index written without a lock that orders the calls |

`Save`, `Prune` begin a call; `Loaded`, `Unlink` are the pruning's list and its deletions;
`Acquire`, `ReadIndex` the head of the critical section; `Open`, `Write`, `Replace`, `Fails`
are `atomic_write`, and what follows it in the call. `Abandon` is the cancellation of an
execution that awaits a save: the lock is released, and a thread that has begun goes on.
`NextRun`, `Crash`, `Age` are the rest of the world. A file holds nothing, a whole content,
or what cannot be parsed; two threads that write into one inode leave either. The
entries of the index are a set: their order, and so `latest_checkpoint_id`, which is the
entry added last, is left out, and a resume loads by id.

### 3.10 Instances

`MCExecutionStream` adds the symmetry of tasks and of sessions, which no definition
orders; it is used where only invariants and step properties are checked. `MCGraph` holds
two graphs: *Full* (a fan-out whose branches meet in d; from d an urgent conditional edge
back to the start and an LLM-decided edge back to one branch; a failure handler that is
also a router) and *Pair* (a, which an urgent conditional edge may send back to itself,
and b, which follows it and sends its failures back). `MCGraphSession` joins it with `GraphSession`. `MCEventLoopNode` has nine kinds of nodes
(workers with and without outputs, judged by the built-in rules, by criteria or by a custom
judge, the queen, an event-triggered node, a sub-agent) and the answers an LLM may give
each. `MCAgentRuntime` has an agent with an isolated timer, and a second graph with a timer and an
event entry point that share a session; each of them is triggered by the API as well. `MCQueenSession` has a
view in which the phases of queens that are over and replaced do not count: no action
reads them. `MCCheckpointStore` adds the symmetry of calls and of ids. `MCEventBus` names
two publishers.

Definitions called "faulty variant" are not part of any specification. Each is a
plausible bug in the definition it stands beside, with which a property fails; they show
that the properties can fail.

## 4. What the runs show

### 4.1 Runs

| Run | Question | Bounds |
|-----|----------|--------|
| `stream_any` | does anything go wrong in *any* interleaving of start, cancel and stop, with calls that overlap? When are two executions alive together? | 3 tasks, 2 ids, 1 slot, 1 resurrection, 1 retained result; two clients start, one of them cancels and stops as well |
| `stream_live` | do calls return whatever tasks do, does each execution end and each waiter wake? | 2 tasks, 1 id; one client starts, one waits and stops |
| `graph_all` | what do retries, failover, feedback, fan-out, pause and cancellation leave of the limits, and does a run always end? | Full, 6 steps, limits 1 and 2, retries 0 to 2, checkpoints saved in any order or lost |
| `session_all` | where does the next run begin, with which counts, and do limits hold over all runs? | Pair with a pause node, 3 steps per run, 1 resurrection, 3 executions or resumptions; pauses, cancellation at each await, crash, restore |
| `node_loop` | what may end a node, when does it wait, what may a turn execute, is it a mailbox? | 9 kinds of nodes, 3 iterations, 2 messages, windows of 2, 2 tool calls a turn, 1 stream retry |
| `node_live` | are messages read, do turns end, does a shutdown release a wait? | 2 kinds of nodes, 2 iterations, 1 message, 2 visits |
| `checkpoint_all` | do overlapping saves and prunings, threads that go on, failed writes and crashes lose an entry, or leave one that cannot be loaded? | 3 calls, 2 ids, 2 runs |
| `conv_store` | what of a conversation is left after a crash, and is what the LLM sees well formed? | 5 messages, answers with up to 2 calls, 1 compaction, 2 interruptions, 2 nodes |
| `conv_outputs` | are outputs on disk once set? (no: 4.3) | 4 messages |
| `runtime_all` | what of a graph outlives it when calls overlap and are broken off, do sessions stay apart? | an agent with 1 entry point and a graph with 2, 2 loads, 2 calls at a time, 2 sessions, 2 executions, 1 event |
| `queen_all` | can a worker be replaced or left behind, does the phase follow the executions? | 2 workers, 2 queens, 2 calls at a time, 1 execution at a time |
| `bus_all` | do publications return, does a browser get each lifecycle event, in order? | 2 publishers, 3 slots, a queue of 2, a history of 2, 3 events |

Why the bounds are enough. The hazards of the stream are pairs: two executions of one id,
a cancellation inside the handler of another, a caller that gave up and the task it gave
up on. Two tasks and two callers contain each pair; an id is used twice in both of its runs. Two
callers of `execute()` can both register on the same snapshot, and a third task is the one such a
call may meanwhile be waiting for. One
slot makes the semaphore's queue appear with the second task, one retained result makes
pruning happen with the second result. In graphs, limits of 1 and 2 with 0 to 2 retries
put every counter on both sides of its comparison; in Full, 6 steps exhaust the step
budget on some paths, and with 7 almost no run is cut short any more (the number of
states grows by 2 %). Every node of Full is reached by at least two kinds of edge, or as
a branch and as a node. A session's third run is the first whose predecessor was itself a
resumption and left state.json as it was, and the first to inherit what a resumption took back;
with four runs and two steps each the properties hold as well. Three steps are a visit, a second
one of the same node, and one of the other node, so that a run can use up a limit, stop in
the middle of a visit, and stop between two. `work` only tells a run that has begun there from one
that has not (`MaxWork` = 1).

A node forgets its turn at the head of the loop, so that what spans iterations is counters
and windows of size 2; three iterations fill and empty each. Two messages are what order
needs, and a third changes nothing the node can tell from the second. The hard limit is
reached within one answer and over several. In a conversation, five messages are a user's, an
answer with two calls and their results, so that a compaction can cut between a call and
its result; two interruptions let the second hit what the first one's restore began. Of a
runtime, two loads are a primary graph and a second one, or one graph loaded twice at a time or
over itself; two calls of the runtime contain each pair that overlaps, and each may be broken
off at each of its awaits. Two calls of
a session's server contain each pair of request and tool, and two workers the pair that is
replaced; a queen of each state meets each call. Three calls of a store are two that
overlap and one that was there before or comes after; two of them can have one id while the
third has the other, and a second run brings the second lock. On the bus, three events fill a
queue of 2, and two publishers leave one slot for the handlers of a nested publication.

No run restricts how calls overlap or where they are stopped, but for `bus_all`, which has more
slots than publishers (`BusAssumption`): with as many handlers that publish as there are slots,
nothing goes on. Where the code keeps a promise in part, the property says what is left
of it: history variables name the executions, loads, visits, messages and files for which it
does not hold, and 4.4 the behaviour behind each.

`CHECK_DEADLOCK FALSE` is used because all systems here may stop: a stream whose callers
are done, a run that has ended, a store without calls, a node whose visits are used up, a bus without publishers.

### 4.2 What the properties say

`TypeOK` is in one run per module. Besides:

ExecutionStream: no exit of an execution, however it is interrupted, loses or invents a
slot (`SlotsConserved`). `EndsCleanly` is what an execution leaves behind: nothing stays
registered for one that entered its `try` (`LeaksOnlyUnborn`), nor memory
(`MemoryHasOwner`); its event is set (`NoLostWakeup`) and its result is there
(`CompletedHasResult`). A cancelled execution is not restarted (`CancelledNotResurrected`);
completion is never announced after a failure (`CompletedIsFirst`). `ExclusiveAndTracked` is
what is left of "Only one execution may run on a stream at a time": two executions are alive
together only if a caller gave up waiting for one of them (`late`), the calls of `execute()`
that started them overlapped, or one was resumed under its own id while it was alive and is
found no more (`contested`); and a running one is found under its id in each dictionary, and its event is
not set before its end, whatever the others do, unless it shares its id. Calls return, executions end, waiters wake (`CallsReturn`,
`ExecutionsEnd`).

GraphExecutor: `WorkBounded` bounds the work of a run by its steps and the retries the
nodes were allowed, although each retry gives its step back; `VisitsWithinLimit` is the
visit limit however a node is reached; `RunEnds` is termination. GraphSession:
`ResumedAsLeft`, a resumed run begins at the node at which the owner of state.json stopped, with
exactly the counts of the finished visits it is told of, and not with that of an open one;
`SessionWithinLimit`, over all runs together no node finishes more visits than its limit, but for
visits that were `forgotten`. A visit is forgotten if it was finished after the last
`_write_progress` of a run that crashed or does not own state.json, if it was
taken back though it was finished, if a cancelled end overwrote the progress, or
if a checkpoint was restored.

EventLoopNode: `AcceptedIsComplete`, for the four places that accept; `QuestionAnswered`,
the node does not go on without the answer it asked for; `ToolsBounded`; `ForeverAlive`, the
queen is not ended by silence; `MailboxImplemented`, the refinement; `MessagesRead`,
`TurnEnds`, `ShutdownReleases` under fairness.

Conversation: `ViewWellFormed` is the provider's rule of calls and results, in the middle of a
turn as well; `AckedKept` says
that what was stored stays stored, but for a crash while files are being replaced and
messages that share a number; `RememberedIsStored` that a resumed session shows the LLM
nothing that another crash would lose. A conversation that has lost its metadata and
counts from 0 again keeps none of the three. The exceptions are the code's, and the model
names them as history variables, so that everything outside them is promised.

CheckpointStore: `IndexFollows`, reading, changing and replacing the index is as good as one
step; `Restorable`, a checkpoint whose save returned is in the index, and what the index has
can be loaded. The exceptions are the code's (4.4) and have a history variable each.

AgentRuntime: `Owned`, what runs, listens or ticks can be reached by `remove_graph` or `stop` or is
in the hands of a call, but for what `unfinished`, `displaced` and `halfway` name; in particular a
teardown that is broken off leaves streams up, never a timer or a subscription.
`SessionsApart` (of isolated entry points, and one for each timer). QueenSession:
`LoadNeverOverwrites`, `Owned`, `RunningHasRun`, each with the exceptions the code leaves
named in it (`lost`, `silent`). EventBus: `CriticalDelivered`, `PublishReturns`.

### 4.3 Findings

`conv_outputs`: OutputAccumulator writes the cursor in each `set()` so that outputs
"survive resume" (`graph/executor.py:1556`), but each message writes a cursor that holds
`next_seq` alone, so that the result of `set_output` itself removes the outputs until the
turn has ended. A run interrupted in between resumes without them. A cursor that a crash tore is
exempt, so that what the run shows is this.

### 4.4 Other behaviour the models show

The following can be read off the models as well, where the code and its comments may
disagree or its behaviour may surprise; no run is spent on them.

ExecutionStream
- Two overlapping `execute()` calls both register an execution: the snapshot of active
  ids is older than the registration (`Overlap`; `runtime/execution_stream.py:450` says "Only one
  execution may run on a stream at a time"). So does a call that gave up waiting after 5 s.
- A resumption under the id of an execution that is still unwinding replaces its entries, and
  the older one's `finally` then removes the newer one's: it runs on without being found
  (`contested`).
- An `execute()` suspended in its wait registers an execution on a stream that has been
  stopped meanwhile (`StopEnds`, then `ExecuteContinues`).
- A cancellation during the publication of the terminal event publishes a second one.
- An execution cancelled before its `try` block never sets its completion event; an
  untimed waiter waits for ever (`unborn`).
- An exception that escapes the executor leaves it in `_active_executors`
  (`ExecutorRaises` keeps `executors`).
- A second cancellation runs the cleanup while the first one's state write is under way
  (`HandlerInterrupted` at `"cancelWrite"`).
- A cancellation that the executor turns into a paused result leaves its reason in
  `_cancel_reasons` (`ExecutorPauses`).

GraphExecutor and GraphSession
- Retried attempts are not counted as steps (`NodeFails`), so `max_steps` does not bound
  node executions; `WorkBounded` is the bound there is.
- Visits as a branch are not counted as visits. Under `fail_all` the other branches run on
  after a failure (`BranchesJoined` waits for all of them).
- Unordered saves leave an older checkpoint at the end of the index.
- A failure edge or a skipped node writes no progress (`RouteFailure`, `SkipOver`).
- A failed node at its limit is skipped by the resurrected run as if it had succeeded.
- A resumed run updates the progress in state.json and not the resume point, nor does it write a
  final state (`Finish`, `shared`): the run after it begins where the first one stopped, with the second
  one's counts. `_write_progress` promises "current progress, not stale initial values"
  (`graph/executor.py:207-211`).
- After a crash of the first run state.json names no resume point, and the run starts over with the counts of
  the last progress written (`Crash`, then `Resume`).
- A resume takes back a visit of the node it begins at, which "was counted but never completed"
  (`graph/executor.py:517-530`). Stopped between two nodes, or at a pause node, it was
  not counted or is finished, and so it is after the first of two resumptions: the
  node may then be visited once more than its limit (`TakenBack`).
- A cancellation in the sleep before a resurrection, or while the end is published, overwrites
  the progress with an empty one unless the run was paused (`FinishCancelled`;
  `runtime/execution_stream.py:795-800`, `922-947`): a resume starts over, with all limits unused.
- A run restored from a checkpoint counts from 0, as do the resumptions after it (`Restore`).
- A resume after a pause node executes that node again (`StartNode`: `paused_at` comes
  before the resume key).

EventLoopNode
- After a permanent error of the LLM a client-facing node waits for the user and then goes
  on behind the turn that failed, with the turn before it or none (`Proceed`, `"error"`; the
  comment says "continue outer iteration").
- `cancel_current_turn` during real tools ends the whole execution (`CancelCurrentTurn`).
- The wait after a cancelled turn, an error, empty turns or a doom loop does not look at
  the shutdown flag; it returns, the loop goes on, and the next wait of `Heeding` ends it.
- An `ask_user` with options followed by one without drops the question (`Asks`: the last
  decides). A question that comes with an escalation, outputs missing, skips the wait for guidance.
- Only the queen's text-only turns block, not those of all client-facing nodes.

Conversation
- A torn meta.json restores as no conversation at all, and the numbers start at 0 over the
  old files (`Resume`), of which the next restart reads those that were not overwritten. A
  compaction then deletes by number what is newer than they are, and a new message can
  overwrite the first of two results, so that the second no longer stands behind its call
  and the provider is sent an ill-formed conversation. The attempt to prove `ViewWellFormed`
  showed this: it takes 8 messages and 3 interruptions, more than `conv_store` has.
- A crash inside a compaction loses messages (`lost`).
- A crash between a message's file and the cursor makes the next message take the same
  number (`doubled`).
- The summary of a compaction that was cancelled may have its file overwritten by a later
  message.
- A resume just after a hand-over inherits the outputs of the node before.
- `compact_preserving_structure` drops the text of assistant messages with calls, though
  its docstring says "Nothing lost"; the error results an aggressive compaction keeps lose
  their calls, which `View` repairs by dropping them.

CheckpointStore
- The lock is per store and each run has a store. A session that is resumed or resurrected
  while saves of the run before are under way can lose index entries or tear index.json
  (`NextRun` spoils), and so can a cancelled run whose awaited save goes on in its thread
  (`Abandon`).
- An index that cannot be read is taken for none, and the next save begins a new one
  (`ReadIndex` spoils).
- Ids are made of type, node and second: two saves of one id share a temporary file, and
  the file that remains may not be loadable (`doubled`).
- A pruning that is interrupted after the unlink leaves an entry that no later pruning
  removes (`Unlink`: without a file there is nothing to do).
- Saves end in any order, and the last entry to be added is taken for the newest.

AgentRuntime
- `start` and `add_graph` undo nothing when they fail or are cancelled: a webhook server that
  finds its port in use (`runtime/agent_runtime.py:322`), an unknown event type (`:332`, `:935`) or a
  cancellation leave the streams started so far up, with some of their subscriptions and timers, and
  no registration (`unfinished`). A retry starts others beside them.
- A teardown that is cancelled while it awaits a stream leaves the graph's other streams up, and no
  later call finds them (`halfway`); `stop` keeps `_running` and the primary streams, and may be
  called again. After it "Stop the agent runtime and all streams" need not be so.
- Two `add_graph` of one id, or two `start`, leave the first one's streams up, and an
  `add_graph` during `stop` is forgotten by it (`displaced`).
- Timers and handlers of the primary graph find their stream by name through `trigger()`:
  an active second graph with an entry point of that name gets the execution (`Aim`). If that
  entry point is shared while the primary's is isolated, the execution joins the primary's
  session and not the timer's own: `PrivateStaysPrivate` therefore assumes `Consistent`.
- `start_agent` runs an isolated entry point in the primary's session (`StartAgent`).
- Streams added before `start()` are never started (`StartStream`).
- Two simultaneous events of an isolated entry point begin two sessions. An event whose
  publisher is cancelled loses its triggers.

QueenSession
- A queen that is starting is revived like a dead one; the older of the two can be
  cancelled by nobody, and when it ends it clears `queen_executor` of the newer (`Revive`,
  `QueenOver`).
- A cancelled load keeps its reservation, and no worker can be loaded any more
  (`QueenOver`). A load that ends after `stop_session`, or that fails after the runtime
  was started, leaves a worker running (`lost`); so does an `unload_worker` that clears the
  worker a newer load has put there (`CleanedUp`).
- Timers, /resume and /replay start executions without the running phase; a stop that
  overlaps a run ends in staging while the run goes on; a revived queen begins in staging.
- An execution that pauses, that is cancelled before its `try` block or while it publishes its
  failure, leaves the queen in the running phase (`silent`). `stop_worker` cancels what runs and
  changes no phase (`tools/queen_lifecycle_tools.py:448-493`), so that a queen who uses it stays in it if what
  she stopped was paused by that; her prompts promise a "return to STAGING phase"
  (`src/core/framework/agents/queen/nodes/__init__.py:615`, `:939`).
- A runtime that fails to stop is dropped all the same (`StopRuntimeFails`), and runs on.

EventBus
- What is published while `sse.prepare` is awaited is queued and then replayed as well,
  lifecycle events of `_REPLAY_TYPES` included, and out of order (`Replay`).
- A failed or cancelled `prepare` leaves the subscription for ever (`PrepareFails`).
- A publisher that is cancelled takes its undelivered lifecycle events with it.

### 4.5 Fairness

`CallerSpec` assumes that asyncio wakes a caller whose wait has ended, by its timer if by
nothing else. `TaskFairness`, which `ExecutionsEnd` assumes and `CallsReturn` does not, adds that a ready task is run, that worker threads
end, and that the graph returns or gives in to its cancellation; the last one is an
assumption about node code. `FairSpec` of the graph says that nodes answer, sleeps end
and log writes finish: weak fairness of the run as one sequential program. `FairSpec` of
the node says the same of the node: the LLM, tools, judge and handlers of the request
answer in whatever way, and a wait whose event is set ends. `FairSpec` of the bus says that
a handler in a slot comes to its end, the semaphore (which is fair in asyncio) admits the
next, and the event loop resumes a publisher whose handlers are done. No fairness
is assumed of clients that call, cancellations, pauses, checkpoint saves, crashes, injected
messages or browsers. The properties of AgentRuntime, QueenSession,
CheckpointStore and Conversation are safety.

## 5. What is proved

The theorems hold for all values of the constants that satisfy the named assumptions
(`StreamAssumption`, `GraphAssumption`, `LoopAssumption`, `SessionAssumption`,
`StoreAssumption`, `ConversationAssumption`, `RuntimeAssumption`, `BusAssumption`): any number
of tasks, sessions, clients and calls; any graph, any limits,
any answers. TLC evaluates the assumptions in every run.

`ExecutionStreamProofs`

- `TypeCorrect == Spec => []TypeOK`. The type of `resurrections` is `0..MaxResurrections`,
  so this contains the bound of the resurrection loop. `TypeOK` alone is not inductive: a
  task's id is used as an index, and `CreatedHaveIds` says that a task that exists has
  one.
- `SlotsCorrect == Spec => []SlotsConserved`. The inductive invariant is `SlotsConserved`
  together with the types: a step that changes whether a task is inside the semaphore
  changes the set of those tasks by exactly that task, and the permits by one. The lemmas
  about adding and removing one element of a finite set carry the cardinality; the
  invariant needs the types because a task must be in `Tasks` to be counted.

  For what follows, `TaskEffects` sums up once what each kind of step of a task does to the
  maps of the stream; the rest looks at these kinds, not at the actions.
- `LeavesCleanly == Spec => []EndsCleanly`. The inductive invariant `CleanInv` says whose the
  entries under an id can be (`EntriesInv`), that a task which has still to set its event is
  found under its id unless another one replaced it (`WakeInv`), that memory has an owner,
  and that a recorded result is there or the retention limit is reached (`ResultInv`). The
  last needs `AgesInv`: results are numbered without gaps, so that recording one prunes at
  most one, and never the one just recorded.
- `AnnouncedInOrder == Spec => []CompletedIsFirst`. `EmitInv` counts: nothing was announced at
  the awaits in `Silent`, at most one end at those in `Once`, and what is announced after
  those is no completion.
- `StopIsFinal == Spec => CancelledNotResurrected`.
- `OneAtATime == Spec => []ExclusiveAndTracked`, for any number of callers, whose calls may overlap. `OneInv`
  has two parts. `Tracked`: while the live tasks of an id are not two, what is found under the
  id is theirs. `Seen`: what a call of `execute()` under way knows of each live task that
  nobody gave up on - it waits for it, will find it under an id it has still to look at
  (`Ahead`), or the task was registered after its snapshot (`unseen`). A `stop()` clears the
  entries only of what it has waited for, which is why `Ahead` speaks of it.

`GraphExecutorProofs`

- `InvCorrect == Spec => []Inv`, where `Inv` is the inductive invariant: `TypeOK`,
  `StepCounted`, `VisitOpen`, `RetryAtHead`, `EnteredCounted`, `VisitsWithinLimit`.
- `TypeCorrect == Spec => []TypeOK`. `TypeOK` is not inductive: a failed attempt gives its
  step back, so `steps` could become negative if a node ran without having been counted
  (`StepCounted`), and the same holds of a visit (`VisitOpen`).
- `LimitsKept == Spec => []VisitsWithinLimit`. The executed visits stay within the limit
  because the counter they are compared with never falls behind: `EnteredCounted`, in
  which a visit about to be repeated counts as well. `RetryAtHead` says that the retry
  flag, which suppresses counting, never survives the step it was set for; without it a
  node could be entered as a retry of another one.

- `WorkIsBounded == Spec => []WorkBounded`. `Redone` is the set of the retries the nodes have
  used and were allowed; a back-off adds one member to it and takes one step back, so that the
  sum never falls behind the work.

`FollowType` and `ConvergenceType`, lemmas for these, state that choosing an edge or a
convergence node never leaves the graph.

About the runs of a session (`GraphSession`), in the same module, because every step of a run
is a step of a session:

- `SessionCorrect == SessionSpec => [](TypeOK /\ VisitsWithinLimit)`: a run keeps types and limits
  whatever session state it begins with. `SessionInv` adds the types of the files and
  `ResultSays`, what the result of a run names as its resume point.
- `ResumesWhereStopped`, `ResumesAsLeft == ... PROVE SessionSpec => []ResumedAsLeft` and
  `SessionLimits == SessionSpec => []SessionWithinLimit`, for any number of runs, stopped, resumed
  and restored wherever that may be. `FileSays`: the resume point is the node at which the owner
  of state.json stopped. The counts follow from `CountInv`: the count of a node is that of its
  finished visits, as far as they are known, and of the open one (`Counted`, `Due`), except that a node
  whose limit is used up may have been counted without a visit; the same holds of the counts in state.json and
  the visit that was open when they were written (`FileCounted`), and that visit is at the resume point. Without
  the last a resume would take back the wrong visit. `VisitAllowed` carries the limit from the head
  of the loop to the end of a visit, across retries; `VisitPlaces` says where a run is in a visit.
  `RunKinds` sorts the steps of a run by what they do to a visit (it stays open, is finished,
  skipped, entered, entered again).

`MaxWork > 0` in the first two: the bound on the history variable `work` admits one step, by
which they tell a run that is about to begin.

`EventLoopNodeProofs`

- `ImplementsMailbox == Spec => MailboxImplemented`: each step of the node is a step of
  `Mailbox` or a stutter. What makes it go through is `MailInv`: a node that is about to
  wait, or waits, and whose event is not set has an empty queue. Most actions are `Quiet`,
  neither in the wait nor at the queue, and one lemma settles them.
- `AcceptedOnlyComplete == Spec => []AcceptedIsComplete`. `AcceptInv` adds that a node has no
  result before its visit ends, so that each of the places that accept can be looked at
  alone.
- `QuestionsAreAnswered == Spec => []QuestionAnswered`. `QuestionInv` says where a node can be
  that asked and has not been answered (`Owing`): at the wait, or on its way to reading a
  message that is there. The wait ends only for a message or a shutdown (`Wakeable`), which
  needs `MailInv`: an event left over from an earlier message would end it as well.
- `ToolCallsBounded == Spec => []ToolsBounded`. `ToolInv` adds what the retries so far and the
  attempt under way may have executed.
- `ConversationsStayAlive == Spec => []ForeverAlive`.
- `TypeCorrect == Spec => []TypeOK`. It needs windows and intervals that are not 0
  (`LoopAssumption`): the code divides by the judge's interval, and a window is cut to its
  newest members. The results of a turn are picked by place (`Subsequence`), and what is picked
  has the type of what it is picked from.

`ConversationProofs`

- `TypeCorrect == Spec => []TypeOK`. `TypeInv` adds that the files have a greatest number, so that
  a list of all of them exists, and that a number -1 is a summary's; `CallInv` says what the
  call under way has still to write: files are deleted first and only by a compaction, what is
  written is shown, a cursor that was lost is written before an output is read from it.
- `AckedStaysKept == Spec => []AckedKept` and `ShownIsStored == Spec => []RememberedIsStored`, from
  `StoreInv`: a message that is shown is in its file (`Safe`), or about to be written, or shares
  its number. A compaction deletes by number, so that this needs `OrderInv`: numbers rise from
  message to message, and the next number, in memory and in the cursor, is beyond those of all
  files, but for the one whose cursor was not written. Additions are summed up in `Adds` and the
  two compactions in `Shortens`, each with what the message that is new stands for.
- `ViewStaysWellFormed == Spec => []ViewWellFormed`. A list is `Paired` when each call's result
  comes after it with nothing but results between, and no call has two; the first half shows
  that `View` makes a well-formed conversation of any paired list, whatever of it is missing:
  `Repair` drops the results without calls and makes up results for the calls without. The second
  half shows that what the LLM is sent is paired. `KnownInv` is about the messages that memory
  or the files hold, by the time at which they were made; `RankInv` says that memory and files
  have them in that order, across the two also: a restart reads the files, of which a compaction
  may have deleted or rewritten some. Both are lost with the metadata, so that `ShownInv` has
  them while the conversation is not `restarted`. It needs that `NoCall` is not a call
  (`ConversationAssumption`).

`QueenSessionProofs`

- `WorkersAreOwned == Spec => []Owned` and `LoadsReserve == Spec => LoadNeverOverwrites`, from
  `WorkerInv`: while there is no worker at most one call has the reservation, a worker that is
  being started is in no stopping call's hands, and a worker that was stopped is not up
  again. Steps that move no worker are gathered in `Settles` and need no look at the workers.
- `RunningIsLeft == Spec => []RunningHasRun`, from `PhaseInv`. Its heart is `Telling`: the newest
  queen in phase running will be told, or has still to be told, that an execution is over.
  It needs that ids of executions are unique, and that handlers which are still to be called
  belong to executions that publish.
- `TypeCorrect == Spec => []TypeOK`.

`CheckpointStoreProofs`

- `IndexIsSerial == Spec => IndexFollows`. `Locked` says who holds which lock, `Ordered` that
  in an unspoiled store all calls under way are of one run, so that (`OneSection`) no two
  are between reading the index and replacing it. `WritersInv` says that a writer that is
  alone with its temporary file finds in it what it has put there, and `IndexInv` that what is
  about to replace the index is what the call makes of the entries as they are now.
- `SavedIsRestorable == Spec => []Restorable`. `EntriesInv` says that all the index has or may
  come to have - the entries in its file, in its temporary file, in the hands of calls, and
  the ids of calls that wait for the lock - can be loaded; `LoadableGrows`, that what can be
  loaded stays so unless it is removed or saved by two calls at a time. It holds in a spoiled
  store as well; that no saved entry is missing (`AckedInv`) does not.
- `TypeCorrect == Spec => []TypeOK`.

`AgentRuntimeProofs`

- `NothingLeftBehind == Spec => []Owned`, for calls that overlap and may be broken off anywhere.
  `GraphInv` says where each call can be and that one call at most holds the lock. `OwnedInv` has
  four parts: streams that are up are registered, being brought up (`Brought`) or torn down (`Falling`),
  or excused (`UpInv`); timers and subscriptions are not even left by a teardown (`HeardInv`); the
  primary graph's streams are those of `_streams`, for `stop` finds them nowhere else (`OwnInv`);
  and once a `stop` is at them, nothing of the primary graph listens, and what is up is on its
  list (`StopInv`).
- `PrivateStaysPrivate == ASSUME Consistent PROVE Spec => []SessionsApart`, whether or not callers
  overlap. `Consistent` is the assumption that entry points of one name are isolated in all
  graphs or in none; 4.4 says what happens otherwise. `Askable` describes the executions a
  session may be asked of, `StartInv` the starts that still wait for what they cancelled: a
  timer that waits in `execute()` does not tick meanwhile. Steps of start, add, remove and stop
  begin no execution (`Cancels`), and sessions are numbered, so that a new one is fresh.
- `TypeCorrect == Spec => []TypeOK`.

`EventBusProofs`, whose theorems are about `FairSpec`, the only specification of the module, but use
no fairness

- `LifecycleDelivered == FairSpec => []CriticalDelivered`. `StreamInv`: what is still to be
  handled for the client is later than all of its stream, so that the semaphore's order makes
  the stream's. `DeliveryInv`: a lifecycle event whose publication has returned or is under
  way (`Pending`) is in the stream or has its task (`InHand`); a task is cancelled only with what
  awaits it (`StillInHand`). It needs `ParentInv`: who published what, and that what has
  returned has no tasks left.
- `TypeCorrect == FairSpec => []TypeOK`, with the slots of the semaphore (`SlotsConserved`).

## 6. What is only model-checked, and what is not modelled

Liveness is out of the prover's reach and stays with TLC: `CallsReturn`, `ExecutionsEnd`,
`RunEnds`, `MessagesRead`, `TurnEnds`, `ShutdownReleases`, `PublishReturns`. Every invariant and
every action property of a run is proved, some under assumptions that section 5 names.

Not modelled:

- *Shared state* (1.6): which executions have memory is in ExecutionStream. The values are data
  that no modelled step depends on, the locks are held over single assignments.
- *state.json* (1.7): ExecutionStream has the awaits of its writes and GraphSession what a
  resume reads of it. That `_write_progress` patches the file in place while a thread may replace it
  is listed as a hazard; a model of it is the plan's next module. `ConcurrentStorage` caches
  and queues run records for a backend whose `save_run` writes nothing any more.
- *Runtime records* (1.8): nothing depends on them.
- *Credentials* (1.10): refresh and caches share no state with the execution of agents.
- *Runner and LLM* (1.11): start-up code and external services; an answer is a free choice.
- *Everything else* (1.12): data, clients, developers' tools, independent tool servers.
- Of the modelled components: how a node runs its sub-agents, hooks and the spilling of long
  results; isolated conversations (`phase_id`); the judge's escalations, memory consolidation
  and the cold restore of a session; `wait_for`, filters and statistics of the bus;
  `pause_timers`, `inject_input` and statistics of the runtime.
