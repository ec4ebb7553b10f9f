---------------------------- MODULE QueenSession ----------------------------
(***************************************************************************)
(* A session of the server (core/framework/server, with the queen's tools  *)
(* in core/framework/tools/queen_lifecycle_tools.py): the worker that is   *)
(* loaded and unloaded, the executions it runs, the phase the queen takes  *)
(* it to be in, and queens that die and are revived.  Requests and tool    *)
(* calls are interleaved at their awaits; the tools of one turn run at the *)
(* same time.                                                              *)
(*                                                                         *)
(* A worker has one stream here; AgentRuntime has more.  Whoever cancels   *)
(* an execution waits for it for 5 s at most, so the model lets an         *)
(* execution end at any time and its canceller go on at any time.  The     *)
(* phases planning and building are one, "designing".  Left out: the tools *)
(* that go from one of these to the other, the judge (disabled), memory    *)
(* consolidation, what the queen is told.                                  *)
(***************************************************************************)
EXTENDS Integers, FiniteSets

CONSTANTS
  MaxLoads,   \* bound: workers ever loaded
  MaxRuns,    \* bound: executions of workers at a time
  MaxQueens,  \* bound: queens ever made
  MaxCalls    \* bound: requests and tool calls under way at a time

ASSUME SessionAssumption ==
  {MaxLoads, MaxRuns, MaxCalls} \subseteq Nat /\ MaxQueens \in Nat \ {0}

Phases   == {"designing", "staging", "running"}
Workers  == 1..MaxLoads
Queens   == 1..MaxQueens
NoWorker == 0
Nobody   == 0   \* no queen; as a caller, the HTTP client

VARIABLES
  open,      \* the session is in SessionManager._sessions
  worker,    \* session.worker_runtime and session.runner
  loading,   \* the session is in SessionManager._loading
  up,        \* the workers whose runtime is running
  loads,     \* number of workers ever loaded
  calls,     \* requests and tool calls under way
  phase,     \* the QueenPhaseState of each queen
  queens,    \* what became of each queen's executor
  latest,    \* the queen of session.queen_task and session.phase_state
  executor,  \* the queen of session.queen_executor
  runs,      \* executions of workers whose task has not ended
  events,    \* calls of _on_worker_done the bus has still to make
  silent,    \* history: since the last Run, an execution ended without the queen being
             \* told: it paused, or was cancelled before its try block or in the handler
             \* that announces its end
  lost       \* history: workers that run on after their loader was cancelled, failed or
             \* came too late, or after a stop that failed

workerVars == <<open, worker, loading, up, loads, lost>>
queenVars  == <<queens, latest, executor>>
runVars    == <<runs, events, silent>>
vars == <<workerVars, calls, phase, queenVars, runVars>>

Run  == [id : 1..MaxRuns, of : Workers, st : {"live", "reporting", "interrupted", "closing"}]
Call == [op : {"load", "reload", "unload", "stop", "run", "halt"},
         by : Queens \cup {Nobody}, w : Workers \cup {NoWorker},
         at : {"check", "io", "starting", "validate", "cleanup", "stopped", "preflight", "begin",
               "halting"},
         to : Phases]

TypeOK ==
  /\ open \in BOOLEAN /\ loading \in BOOLEAN
  /\ worker \in Workers \cup {NoWorker}
  /\ up \subseteq Workers
  /\ loads \in 0..MaxLoads
  /\ calls \subseteq Call
  /\ phase \in [Queens -> Phases]
  /\ queens \in [Queens -> {"none", "starting", "ready", "ended"}]
  /\ latest \in Queens /\ queens[latest] # "none"
  /\ executor \in {Nobody} \cup {q \in Queens : queens[q] \in {"starting", "ready"}}
  /\ runs \subseteq Run
  /\ \A e \in events : /\ e.queen \in 1..latest
                       /\ \E r \in runs : r.id = e.run /\ r.st \in {"reporting", "closing"}
  /\ silent \in BOOLEAN
  /\ lost \subseteq up

\* create_session() and create_session_with_worker()
Init ==
  /\ open = TRUE /\ loading = FALSE /\ lost = {} /\ calls = {}
  /\ worker \in {NoWorker, 1} \cap (Workers \cup {NoWorker}) /\ loads = worker
  /\ up = {worker} \ {NoWorker}
  /\ phase = [q \in Queens |-> IF worker = NoWorker THEN "designing" ELSE "staging"]
  /\ queens = [q \in Queens |-> IF q = 1 THEN "starting" ELSE "none"]
  /\ latest = 1 /\ executor = 1
  /\ runs = {} /\ events = {} /\ silent = FALSE

Add(op, by, w, at, to) ==
  /\ Cardinality(calls) < MaxCalls
  /\ calls' = calls \cup {[op |-> op, by |-> by, w |-> w, at |-> at, to |-> to]}
Replace(c, d) == calls' = (calls \ {c}) \cup {d}
Finish(c)     == calls' = calls \ {c}

\* The queen whose phase a call changes: its own, or session.phase_state.
Target(c) == IF c.by = Nobody THEN latest ELSE c.by
SwitchTo(c, p) == phase' = [phase EXCEPT ![Target(c)] = p]

----------------------------------------------------------------------------
(* Executions of the worker.                                               *)

\* The executions of a worker are cancelled.  A live one may end at any time anyway.
\* One that is publishing its end loses the handlers still to be called, and publishes
\* another end in the handler of the cancellation; there it has nothing more to say
\* when it is cancelled again.  Faulty variant: the handlers are called all the same.
CancelOnly(w) ==
  /\ runs' = {[r EXCEPT !.st = IF r.of = w /\ @ = "reporting" THEN "interrupted" ELSE @] :
              r \in {x \in runs : ~(x.of = w /\ x.st = "closing")}}
  /\ silent' = (silent \/ \E r \in runs : r.of = w /\ r.st = "closing")
  /\ UNCHANGED events

Cancel(w) ==
  /\ runs' = {[r EXCEPT !.st = IF r.of = w /\ @ = "reporting" THEN "interrupted" ELSE @] :
              r \in {x \in runs : ~(x.of = w /\ x.st = "closing")}}
  /\ events' = {e \in events : \A r \in runs : r.id = e.run => r.of # w}
  /\ silent' = (silent \/ \E r \in runs : r.of = w /\ r.st = "closing")

\* The queens whose phase still matters.  Those that are over and have been replaced
\* stay subscribed as well, and change a phase that nothing reads.
Listening == {q \in 1..latest : q = latest \/ queens[q] # "ended"}

\* The execution is paused, or cancelled before it has entered its try block.
Pauses(r) ==
  /\ r.st = "live"
  /\ runs' = runs \ {r} /\ silent' = TRUE
  /\ UNCHANGED <<workerVars, calls, phase, queenVars, events>>

\* The execution publishes that it is over, at the end of its try block or in a
\* handler; _on_worker_done() of every queen subscribes to that.
Ends(r, st) ==
  /\ r.st = "live" \/ (r.st = "interrupted" /\ st = "closing")
  /\ runs' = (runs \ {r}) \cup {[r EXCEPT !.st = st]}
  /\ events' = events \cup {[queen |-> q, run |-> r.id] : q \in Listening}
  /\ UNCHANGED <<workerVars, calls, phase, queenVars, silent>>

Gone(r) ==
  /\ r.st \in {"reporting", "closing"} /\ \A e \in events : e.run # r.id
  /\ runs' = runs \ {r}
  /\ UNCHANGED <<workerVars, calls, phase, queenVars, events, silent>>

\* _on_worker_done()
OnWorkerDone(e) ==
  /\ events' = events \ {e}
  /\ phase' = [phase EXCEPT ![e.queen] = IF @ = "running" THEN "staging" ELSE @]
  /\ UNCHANGED <<workerVars, calls, queenVars, runs, silent>>

Begin(w) ==
  \E id \in 1..MaxRuns :
    /\ \A r \in runs : r.id # id
    /\ runs' = runs \cup {[id |-> id, of |-> w, st |-> "live"]}

\* Run (the route /trigger and the tool run_agent_with_input) switches the phase
\* when the execution has begun.
Begun(c, w) ==
  /\ Begin(w) /\ Finish(c)
  /\ SwitchTo(c, "running") /\ silent' = FALSE /\ UNCHANGED events

Active(w) == \E r \in runs : r.of = w

\* AgentRuntime.trigger(): refused by a stopped runtime, or by one whose stop has failed
\* half-way; immediate on an idle stream.  Faulty variant: the phase changes although
\* the runtime refuses.
TriggerSwitchedFirst(c, w) ==
  \/ /\ w \notin up \ lost
     /\ SwitchTo(c, "running") /\ silent' = FALSE
     /\ Finish(c) /\ UNCHANGED <<runs, events>>
  \/ w \in up /\ ~Active(w) /\ Begun(c, w)
  \/ /\ w \in up /\ Active(w)
     /\ Cancel(w) /\ UNCHANGED phase
     /\ Replace(c, [c EXCEPT !.at = "begin", !.w = w])

Trigger(c, w) ==
  \/ w \notin up \ lost /\ Finish(c) /\ UNCHANGED <<runVars, phase>>
  \/ w \in up /\ ~Active(w) /\ Begun(c, w)
  \/ /\ w \in up /\ Active(w)
     /\ Cancel(w) /\ UNCHANGED phase
     /\ Replace(c, [c EXCEPT !.at = "begin", !.w = w])

\* The credentials have been validated.  The tool keeps the worker it has read
\* before; the route reads session.worker_runtime again.
Preflight(c) ==
  /\ c.at = "preflight"
  /\ Trigger(c, IF c.by = Nobody THEN worker ELSE c.w)
  /\ UNCHANGED <<workerVars, queenVars>>

\* execute() goes on after the execution it has cancelled.
BeginAfter(c) ==
  /\ c.at = "begin" /\ Begun(c, c.w)
  /\ UNCHANGED <<workerVars, queenVars>>

\* Executions that leave the phase alone: of timers and event entry points, and of
\* the routes /resume and /replay, when those they replace have ended.
StartOther ==
  /\ \E w \in up : ~Active(w) /\ Begin(w)
  /\ UNCHANGED <<workerVars, calls, phase, queenVars, events, silent>>

----------------------------------------------------------------------------
(* Loading and unloading a worker.                                         *)

\* _load_worker_core() up to its first await: the session is reserved.  Faulty
\* variant: it is not looked at whether another caller has reserved it.
FreeUnreserved == worker = NoWorker

Free == worker = NoWorker /\ ~loading

CallLoad ==
  /\ open /\ Free
  /\ loading' = TRUE
  /\ Add("load", Nobody, NoWorker, "io", "staging")
  /\ UNCHANGED <<open, worker, up, loads, lost, phase, queenVars, runVars>>

\* The tool load_built_agent unloads the worker there is and loads another one.
CallLoadTool(q) ==
  /\ queens[q] = "ready" /\ phase[q] = "designing"
  /\ IF worker = NoWorker THEN Add("load", q, NoWorker, "check", "staging")
                          ELSE Add("reload", q, worker, "cleanup", "staging")
  /\ UNCHANGED <<workerVars, phase, queenVars, runVars>>

LoadCheck(c) ==
  /\ c.at = "check"
  /\ IF open /\ Free THEN loading' = TRUE /\ Replace(c, [c EXCEPT !.at = "io"])
                      ELSE Finish(c) /\ UNCHANGED loading
  /\ UNCHANGED <<open, worker, up, loads, lost, phase, queenVars, runVars>>

\* The agent cannot be loaded.
LoadFails(c) ==
  /\ c.at = "io"
  /\ loading' = FALSE /\ Finish(c)
  /\ UNCHANGED <<open, worker, up, loads, lost, phase, queenVars, runVars>>

\* runtime.start()
LoadStarts(c) ==
  /\ c.at = "io" /\ loads < MaxLoads
  /\ loads' = loads + 1
  /\ up' = up \cup {loads'}
  /\ Replace(c, [c EXCEPT !.at = "starting", !.w = loads'])
  /\ UNCHANGED <<open, worker, loading, lost, phase, queenVars, runVars>>

\* What follows runtime.start() fails, or succeeds: the session has a worker, also
\* when stop_session() has let go of the session meanwhile.
LoadDone(c) ==
  /\ c.at = "starting"
  /\ loading' = FALSE
  /\ \/ lost' = lost \cup {c.w} /\ Finish(c) /\ UNCHANGED worker
     \/ /\ worker' = c.w
        /\ lost' = IF open THEN lost ELSE lost \cup {c.w}
        /\ IF c.by = Nobody THEN Finish(c) ELSE Replace(c, [c EXCEPT !.at = "validate"])
  /\ UNCHANGED <<open, up, loads, phase, queenVars, runVars>>

\* The tool checks that the worker's tools exist, and unloads it if they do not.
Validate(c) ==
  /\ c.at = "validate"
  /\ \/ SwitchTo(c, "staging") /\ Finish(c)
     \/ /\ UNCHANGED phase
        /\ IF open /\ worker # NoWorker
           THEN Replace(c, [c EXCEPT !.op = "unload", !.w = worker, !.at = "cleanup"])
           ELSE Finish(c)
  /\ UNCHANGED <<workerVars, queenVars, runVars>>

CallUnload ==
  /\ open /\ worker # NoWorker
  /\ Add("unload", Nobody, worker, "cleanup", "staging")
  /\ UNCHANGED <<workerVars, phase, queenVars, runVars>>

\* runner.cleanup_async() stops the runtime.
StopRuntime(c) ==
  /\ c.at = "cleanup"
  /\ up' = up \ {c.w}
  /\ lost' = lost \ {c.w}
  /\ IF c.w \in up THEN Cancel(c.w) ELSE UNCHANGED runVars
  /\ Replace(c, [c EXCEPT !.at = "stopped"])
  /\ UNCHANGED <<open, worker, loading, loads, phase, queenVars>>

\* An exception out of AgentRuntime.stop(), some streams of which may have been stopped,
\* is logged; the caller goes on all the same.
StopRuntimeFails(c) ==
  /\ c.at = "cleanup" /\ c.w \in up
  /\ lost' = lost \cup {c.w}
  /\ Cancel(c.w) \/ UNCHANGED runVars
  /\ Replace(c, [c EXCEPT !.at = "stopped"])
  /\ UNCHANGED <<open, worker, loading, up, loads, phase, queenVars>>

\* unload_worker() then clears the session's fields, whatever is in them by now.
CleanedUp(c) ==
  /\ c.at = "stopped"
  /\ IF c.op = "stop"
     THEN Finish(c) /\ UNCHANGED <<worker, lost>>
     ELSE /\ worker' = NoWorker
          /\ lost' = lost \cup (({worker} \ {c.w}) \cap up)
          /\ IF c.op = "reload" THEN Replace(c, [c EXCEPT !.op = "load", !.w = NoWorker, !.at = "check"])
                                ELSE Finish(c)
  /\ UNCHANGED <<open, loading, up, loads, phase, queenVars, runVars>>

----------------------------------------------------------------------------
(* Requests and tools that change the phase.                               *)

CallRun ==
  /\ open /\ worker # NoWorker
  /\ Add("run", Nobody, NoWorker, "preflight", "running")
  /\ UNCHANGED <<workerVars, phase, queenVars, runVars>>

CallRunTool(q) ==
  /\ queens[q] = "ready" /\ phase[q] = "staging" /\ worker # NoWorker
  /\ Add("run", q, worker, "preflight", "running")
  /\ UNCHANGED <<workerVars, phase, queenVars, runVars>>

\* The routes /pause and /stop cancel what is active; the phase changes when that has
\* ended, or 5 s later.
CallPause ==
  /\ open /\ worker # NoWorker
  /\ Cancel(worker)
  /\ Add("halt", Nobody, worker, "halting", "staging")
  /\ UNCHANGED <<workerVars, phase, queenVars>>

\* The tool stop_worker leaves the phase to the end of the executions it cancels.
CallStopTool(q) ==
  /\ queens[q] = "ready" /\ phase[q] = "running" /\ worker # NoWorker
  /\ Cancel(worker)
  /\ UNCHANGED <<workerVars, calls, phase, queenVars>>

\* The tools stop_worker_and_edit and stop_worker_and_plan change it afterwards, also
\* when there is no worker.
CallStopAndDesign(q) ==
  /\ queens[q] = "ready" /\ phase[q] \in {"running", "staging"}
  /\ Add("halt", q, worker, "halting", "designing")
  /\ IF worker = NoWorker THEN UNCHANGED runVars ELSE Cancel(worker)
  /\ UNCHANGED <<workerVars, phase, queenVars>>

Halted(c) ==
  /\ c.at = "halting"
  /\ SwitchTo(c, c.to) /\ Finish(c)
  /\ UNCHANGED <<workerVars, queenVars, runVars>>

----------------------------------------------------------------------------
(* Queens and the end of the session.                                      *)

QueenReady(q) ==
  /\ queens[q] = "starting" /\ queens' = [queens EXCEPT ![q] = "ready"]
  /\ UNCHANGED <<workerVars, calls, phase, latest, executor, runVars>>

\* A queen's executor ends, by an error or by a cancellation.  The tool calls it was
\* awaiting are cancelled without a cleanup: a load keeps its reservation.
QueenOver(q) ==
  /\ queens' = [queens EXCEPT ![q] = "ended"]
  /\ executor' = Nobody
  /\ lost' = lost \cup {c.w : c \in {d \in calls : d.by = q /\ d.w \in up /\ d.at \in {"starting", "cleanup"}}}
  /\ UNCHANGED <<worker, loading, up, loads, phase, latest, runVars>>

QueenEnds(q) ==
  /\ queens[q] \in {"starting", "ready"}
  /\ QueenOver(q)
  /\ calls' = {c \in calls : c.by # q}
  /\ UNCHANGED open

\* The routes /chat and /queen-context revive a queen that cannot take a message.
Revive ==
  /\ open /\ latest < MaxQueens
  /\ \A q \in {executor} \ {Nobody} : queens[q] = "starting"
  /\ latest' = latest + 1 /\ executor' = latest'
  /\ queens' = [queens EXCEPT ![latest'] = "starting"]
  /\ phase' = [phase EXCEPT ![latest'] = IF worker = NoWorker THEN "designing" ELSE "staging"]
  /\ UNCHANGED <<workerVars, calls, runVars>>

\* stop_session(): the session is let go of, session.queen_task is cancelled, the
\* worker there is now is stopped.  Faulty variant: the worker goes on.
StopSessionOnly ==
  /\ open /\ open' = FALSE
  /\ QueenOver(latest)
  /\ calls' = {c \in calls : c.by # latest}

StopSession ==
  /\ open /\ open' = FALSE
  /\ QueenOver(latest)
  /\ calls' = {c \in calls : c.by # latest}
              \cup {[op |-> "stop", by |-> Nobody, w |-> w, at |-> "cleanup", to |-> "staging"] :
                    w \in {worker} \ {NoWorker}}

----------------------------------------------------------------------------

CallStep(c) ==
  \/ Preflight(c) \/ BeginAfter(c) \/ LoadCheck(c) \/ LoadFails(c) \/ LoadStarts(c)
  \/ LoadDone(c) \/ Validate(c) \/ StopRuntime(c) \/ StopRuntimeFails(c) \/ CleanedUp(c) \/ Halted(c)

Next ==
  \/ \E c \in calls : CallStep(c)
  \/ \E r \in runs : Pauses(r) \/ Gone(r) \/ \E st \in {"reporting", "closing"} : Ends(r, st)
  \/ \E e \in events : OnWorkerDone(e)
  \/ StartOther \/ CallLoad \/ CallUnload \/ CallRun \/ CallPause
  \/ \E q \in Queens :
       \/ CallLoadTool(q) \/ CallRunTool(q) \/ CallStopTool(q) \/ CallStopAndDesign(q)
       \/ QueenReady(q) \/ QueenEnds(q)
  \/ Revive \/ StopSession

Spec == Init /\ [][Next]_vars

----------------------------------------------------------------------------
(* Properties.                                                             *)

\* A worker is never put in place of another one, however many requests and tool
\* calls load at the same time (_load_worker_core(), _loading): the one replaced
\* would run on where nobody can stop it.
LoadNeverOverwrites == [][worker' \notin {NoWorker, worker} => worker = NoWorker]_worker

\* A queen is not left in the running phase, with the tools for a worker that runs,
\* when no execution is left that could end it: "Auto-switch to staging when worker
\* execution finishes" (_on_worker_done()).  An execution leaves her in it that was
\* paused, cancelled before its try block, or cancelled while it announces that it failed.
RunningHasRun == phase[latest] = "running" => runs # {} \/ silent

\* Every worker that runs is the open session's, or in the hands of a call that
\* loads or unloads it; the only ones nobody can stop are those whose loader was
\* cancelled or failed after the start, or ended after the session or an unload()
\* that had begun before, and those whose runtime failed to stop.
Owned ==
  \A w \in up :
    \/ open /\ w = worker
    \/ \E c \in calls : c.w = w /\ c.at \in {"starting", "cleanup"}
    \/ w \in lost
=============================================================================
