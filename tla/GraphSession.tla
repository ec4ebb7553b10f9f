---------------------------- MODULE GraphSession ----------------------------
(***************************************************************************)
(* A session: the runs of a graph that share one session directory, and    *)
(* what carries over from one to the next.  An execution begins it; a      *)
(* failed run is resurrected by the ExecutionStream; after a pause, a      *)
(* failure or a crash of the process a client resumes it, from state.json  *)
(* (POST .../resume, hive run --resume-session) or from a checkpoint.      *)
(* The awaits of the stream itself are in module ExecutionStream; its      *)
(* final write of state.json is one step here.                             *)
(*                                                                         *)
(* A run that resumes a session does not own its state.json: it updates    *)
(* the progress there, and leaves the node to resume from as it is.        *)
(***************************************************************************)
EXTENDS GraphExecutor

CONSTANTS
  MaxResurrections, \* EntryPointSpec.max_resurrections
  MaxRuns,          \* bound: executions and resumptions of the session
  CanCrash,         \* may the process die?
  CanRestore        \* are checkpoints used to resume?

ASSUME SessionAssumption ==
  /\ MaxResurrections \in Nat
  /\ MaxRuns \in Nat
  /\ CanCrash \in BOOLEAN /\ CanRestore \in BOOLEAN

VARIABLES
  pausedAt,      \* state.json: progress.paused_at
  resumeFrom,    \* state.json: progress.resume_from
  shared,        \* _is_shared_session: the run resumed an existing session
  resurrections, \* _resurrection_count of this execution
  runs,          \* executions and resumptions so far
  origin,        \* history: how the last run was begun
  stoppedAt,     \* history: the node at which the owner of state.json stopped short
  inVisit,       \* history: the run is in a visit that was counted
  recorded,      \* history: visits that are over and counted in state.json
  openAt,        \* history: the node of the open visit that state.json counts
  forgotten      \* history: visits that are over and no run is told of any more

fileVars   == <<pausedAt, resumeFrom>>
streamVars == <<shared, resurrections, runs>>
lastVars   == <<origin, stoppedAt, recorded, openAt>>
sessionVars == <<fileVars, streamVars, lastVars, forgotten, inVisit>>

SessionInit ==
  /\ Init
  /\ pausedAt = NoNode
  /\ resumeFrom = NoNode
  /\ shared = FALSE
  /\ resurrections = 0
  /\ runs = 0
  /\ origin = "none"
  /\ stoppedAt = NoNode
  /\ inVisit = FALSE
  /\ recorded = None
  /\ openAt = NoNode
  /\ forgotten = None

\* The visits of a node that are over, as far as the run is told of them.
Known(n) == completed[n] - forgotten[n]

-----------------------------------------------------------------------------

\* execute() with a fresh id; the initial state.json says nothing of progress.
StartSession ==
  /\ runs = 0 /\ MaxRuns > 0
  /\ Execute
  /\ runs' = 1
  /\ origin' = "fresh"
  /\ UNCHANGED <<fileVars, shared, resurrections, stoppedAt, recorded, openAt, forgotten,
                 inVisit>>

Stopped == out.kind \notin {"completed", "exhausted"}

MayResurrect == resurrections < MaxResurrections

\* The resurrection loop: a new executor gets the failed result's session
\* state, which has no paused_at; not if the error looks fatal.  The visit that
\* failed is given up, and stays counted.
Resurrect ==
  /\ pc = "ended"
  /\ out.kind \in {"failed", "error"}
  /\ MayResurrect
  /\ Begin([pausedAt |-> NoNode, resumeFrom |-> out.resumeFrom,
            visits |-> out.visits, checkpoint |-> out.checkpoint])
  /\ resurrections' = resurrections + 1
  /\ origin' = "resurrected"
  /\ completed' = IF inVisit THEN [completed EXCEPT ![current] = @ + 1] ELSE completed
  /\ inVisit' = FALSE
  /\ UNCHANGED <<progress, fileVars, shared, runs, stoppedAt, recorded, openAt, forgotten>>

\* Faulty variant: the node to resume from is not written.
StatePausedOnly ==
  /\ pausedAt' = out.pausedAt
  /\ resumeFrom' = NoNode
  /\ progress' = out.visits

\* SessionState.from_execution_result, for the run that owns state.json.
WriteFinalState ==
  /\ pausedAt' = out.pausedAt
  /\ resumeFrom' = out.resumeFrom
  /\ progress' = out.visits

\* The executor of a run, its locals and its result are gone.
Forget ==
  /\ pc' = "idle" /\ current' = EntryNode /\ steps' = 0
  /\ visits' = None /\ retries' = None /\ isRetry' = FALSE
  /\ pauseRequested' = FALSE
  /\ running' = {} /\ tries' = None /\ branchFailed' = FALSE /\ fanIn' = NoNode
  /\ out' = NoResult
  /\ work' = 0 /\ entered' = None
  /\ shared' = FALSE /\ resurrections' = 0
  /\ inVisit' = FALSE
  /\ UNCHANGED <<created, index, completed, runs, origin>>

\* The end of the execution; a shared session's state.json is left alone.
Finish ==
  /\ pc = "ended"
  /\ Forget
  /\ IF shared
       THEN UNCHANGED <<fileVars, progress, stoppedAt, recorded, openAt>>
       ELSE /\ WriteFinalState
            /\ stoppedAt' = IF Stopped THEN current ELSE NoNode
            /\ recorded' = [n \in Nodes |-> Known(n)]
            /\ openAt' = IF inVisit THEN current ELSE NoNode
  /\ UNCHANGED <<saving, forgotten>>

\* The execution is cancelled after its executor has returned, before a
\* resurrection or while it publishes its end: unless the result is a paused one,
\* state.json is written as it was at first, and an error in it.
FinishCancelled ==
  /\ pc = "ended" /\ ~shared
  /\ out.pausedAt = NoNode
  /\ Forget
  /\ pausedAt' = NoNode /\ resumeFrom' = NoNode /\ progress' = None
  /\ stoppedAt' = NoNode /\ openAt' = NoNode
  /\ recorded' = None
  /\ UNCHANGED <<saving, forgotten>>

\* The process dies, and with it the saves under way.
Crash ==
  /\ CanCrash
  /\ pc # "idle"
  /\ Forget
  /\ saving' = {}
  /\ UNCHANGED <<progress, fileVars, stoppedAt, recorded, openAt, forgotten>>

\* A resumption names the session, so the stream writes no initial state.json.
BeginShared(ss, how) ==
  /\ pc = "idle"
  /\ runs \in 1..(MaxRuns - 1)
  /\ Begin(ss)
  /\ shared' = TRUE
  /\ runs' = runs + 1
  /\ origin' = how
  /\ inVisit' = FALSE
  /\ UNCHANGED <<progress, fileVars, resurrections, stoppedAt, recorded, openAt, completed>>

\* resume_from stands in for a missing paused_at.
ResumePoint == IF pausedAt # NoNode THEN pausedAt ELSE resumeFrom

\* A visit is taken back of the node resumed at; here it is neither open nor one
\* that was skipped.
TakenBack(n) == n = ResumePoint /\ n # openAt /\ progress[n] > 0 /\ progress[n] = recorded[n]

\* handle_resume and _load_resume_state: what state.json says.
Resume ==
  /\ BeginShared([pausedAt |-> ResumePoint, resumeFrom |-> NoNode,
                  visits |-> progress, checkpoint |-> 0], "resumed")
  /\ forgotten' = [n \in Nodes |-> completed[n] - recorded[n] + IF TakenBack(n) THEN 1 ELSE 0]

\* handle_resume with a checkpoint_id, and handle_replay: no counts are given.
Restore ==
  /\ CanRestore
  /\ \E i \in DOMAIN index :
       BeginShared([Fresh EXCEPT !.checkpoint = index[i].id], "restored")
  /\ forgotten' = completed

\* _write_progress is due at the end of routing and of a fan-out.
ProgressWritten == pc \in {"routing", "branches"} /\ pc' \in {"top", "handover"}

\* A node is left when it is finished or skipped.
Leaves == completed' # completed \/ (pc = "skipping" /\ pc' \in {"top", "closing"})

RunStep ==
  /\ LoopStep \/ EnvironmentStep
  /\ inVisit' = ((inVisit \/ visits' # visits) /\ ~Leaves)
  /\ IF ProgressWritten
       THEN recorded' = [n \in Nodes |-> Known(n)] /\ openAt' = NoNode
       ELSE UNCHANGED <<recorded, openAt>>
  /\ UNCHANGED <<fileVars, streamVars, origin, stoppedAt, forgotten>>

SessionNext == StartSession \/ RunStep \/ Resurrect \/ Finish \/ FinishCancelled
               \/ Crash \/ Resume \/ Restore

SessionSpec == SessionInit /\ [][SessionNext]_<<vars, sessionVars>>

-----------------------------------------------------------------------------
(***************************************************************************)
(* Properties.                                                             *)
(***************************************************************************)

\* A run has just been given its session state.
Beginning == pc = "top" /\ steps = 0 /\ work = 0

\* A resumed run continues at the node at which the run that owns state.json
\* stopped, whether that one was paused, cancelled, failed or raised, resurrected
\* or not; at the entry node if it has not stopped short.
ResumedWhereStopped ==
  Beginning /\ origin = "resumed"
    => current = IF stoppedAt # NoNode THEN stoppedAt ELSE EntryNode

\* The counts a resumed run starts with are exactly those of the visits that were
\* over: the one stopped in "was counted but never completed"
\* (execute()).  Not among them are the visits state.json does not know of and
\* one, of the node resumed at, taken back though it was finished; and counts
\* beyond a limit stand for visits skipped.
ResumedCounts ==
  Beginning /\ origin = "resumed" =>
    \A n \in Nodes : \/ visits[n] = Known(n)
                     \/ 0 < MaxVisits[n] /\ Known(n) = MaxVisits[n] /\ visits[n] > MaxVisits[n]

\* What a session resumes is what state.json's owner left: the node and the counts.
ResumedAsLeft == ResumedWhereStopped /\ ResumedCounts

\* Over all runs of a session, resurrected, resumed, crashed and restored ones
\* included, no node is visited more often than its limit, but for the visits a
\* run was not told of.
SessionWithinLimit ==
  \A n \in Nodes :
    MaxVisits[n] > 0 => completed[n] <= MaxVisits[n] + forgotten[n]
=============================================================================
