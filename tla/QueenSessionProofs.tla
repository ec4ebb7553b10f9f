------------------------- MODULE QueenSessionProofs -------------------------
(***************************************************************************)
(* Proofs about QueenSession: whatever requests, tool calls and queens do, *)
(* a worker is neither put in place of another nor left where nobody can   *)
(* stop it, and the running phase is left when the executions have ended.  *)
(***************************************************************************)
EXTENDS QueenSession, TLAPS

----------------------------------------------------------------------------
(* Workers.                                                                *)

\* Where a call has nothing to do with bringing a worker up or down.
Elsewhere == {"check", "validate", "preflight", "begin", "halting"}

Reserving(c) == c.at \in {"io", "starting"}

WorkerTypes ==
  /\ open \in BOOLEAN /\ loading \in BOOLEAN
  /\ loads \in 0..MaxLoads
  /\ worker \in 0..loads
  /\ up \subseteq 1..loads
  /\ calls \subseteq Call
  /\ \A c \in calls : c.w <= loads

\* At most one call has reserved the session, and only while it has no worker.
Reservation ==
  /\ \A c \in calls : Reserving(c) => loading
  /\ loading => worker = NoWorker
  /\ \A c, d \in calls : Reserving(c) /\ Reserving(d) => c = d

\* The worker a call starts is not in the hands of a call that stops one, and a
\* worker that was stopped is not up again, unless the stop has failed.
Handover ==
  /\ \A c \in calls : c.at = "starting" =>
       c.w \in up /\ \A d \in calls : d.at = "cleanup" => d.w # c.w
  /\ \A c \in calls : c.at = "stopped" => c.w \notin up \ lost
  /\ lost \subseteq up

WorkerInv == WorkerTypes /\ Reservation /\ Handover /\ Owned

LEMMA Bounds == MaxLoads \in Nat /\ MaxRuns \in Nat /\ MaxQueens \in Nat \ {0}
BY SessionAssumption

LEMMA InitWorker == ASSUME Init PROVE WorkerInv
<1>1. MaxLoads \in Nat /\ worker \in 0..MaxLoads /\ loads = worker /\ up = {worker} \ {NoWorker} /\ calls = {}
      /\ open = TRUE /\ loading = FALSE /\ lost = {}
  BY Bounds DEF Init, Workers, NoWorker
<1>2. up \subseteq 1..loads /\ (\A w \in up : w = worker)
  BY <1>1, Bounds DEF NoWorker
<1>3. worker \in 0..loads /\ loads \in 0..MaxLoads
  BY <1>1
<1>4. calls \subseteq Call /\ \A c \in calls : c.w <= loads
  BY <1>1
<1>5. WorkerTypes
  BY <1>1, <1>2, <1>3, <1>4 DEF WorkerTypes
<1> QED BY <1>1, <1>2, <1>5 DEF WorkerInv, Reservation, Handover, Owned

\* A step that moves no worker: calls that have none in their hands may come and go,
\* the session's worker may be given to a call that stops it, and calls that are
\* dropped leave their workers to be lost.
Settles ==
  /\ UNCHANGED <<worker, loading, up, loads>>
  /\ open' \in BOOLEAN
  /\ lost \subseteq lost' /\ lost' \subseteq up
  /\ \A c \in calls' : c \in calls \/ (/\ c \in Call /\ c.w <= loads
                                       /\ \/ c.at \in Elsewhere
                                          \/ c.at = "cleanup" /\ c.w = worker /\ worker # NoWorker)
  /\ \A c \in calls : c.at \in {"starting", "cleanup"} /\ c.w \in up => c \in calls' \/ c.w \in lost'
  /\ open => open' \/ worker = NoWorker \/ \E c \in calls' : c.w = worker /\ c.at = "cleanup"

LEMMA SettlesKeeps == ASSUME WorkerInv, Settles PROVE WorkerInv'
<1>1. /\ worker' = worker /\ loading' = loading /\ up' = up /\ loads' = loads
  BY DEF Settles
<1>2. WorkerTypes'
  BY <1>1 DEF WorkerInv, WorkerTypes, Settles
<1>3. \A c \in calls' : c \in calls \/ c.at \in Elsewhere \/ (c.at = "cleanup" /\ c.w = worker /\ worker # NoWorker)
  BY DEF Settles
<1>4. Reservation'
  BY <1>1, <1>3 DEF WorkerInv, Reservation, Reserving, Elsewhere
<1>5. Handover'
  <2>1. \A c \in calls' : c.at = "starting" => c \in calls /\ c.w \in up' /\ worker = NoWorker
    BY <1>1, <1>3 DEF WorkerInv, Reservation, Reserving, Handover, Elsewhere
  <2>2. \A c, d \in calls' : c.at = "starting" /\ d.at = "cleanup" => d.w # c.w
    BY <2>1, <1>3 DEF WorkerInv, Handover, Elsewhere
  <2>3. \A c \in calls' : c.at = "stopped" => c.w \notin up' \ lost'
    BY <1>1, <1>3 DEF WorkerInv, Handover, Elsewhere, Settles
  <2> QED BY <1>1, <2>1, <2>2, <2>3 DEF Settles, Handover
<1>6. Owned'
  <2> SUFFICES ASSUME NEW w \in up, ~(open' /\ w = worker), w \notin lost'
               PROVE  \E c \in calls' : c.w = w /\ c.at \in {"starting", "cleanup"}
    BY <1>1 DEF Owned
  <2>1. w \notin lost /\ w # NoWorker
    BY DEF Settles, WorkerInv, WorkerTypes, NoWorker
  <2>2. CASE open /\ w = worker
    BY <2>1, <2>2 DEF Settles
  <2>3. CASE ~(open /\ w = worker)
    <3>1. PICK c \in calls : c.w = w /\ c.at \in {"starting", "cleanup"}
      BY <2>1, <2>3 DEF WorkerInv, Owned
    <3>2. c \in calls'
      BY <3>1 DEF Settles
    <3> QED BY <3>1, <3>2
  <2> QED BY <2>2, <2>3
<1> QED BY <1>2, <1>4, <1>5, <1>6 DEF WorkerInv

LEMMA NewCallIn ==
  ASSUME NEW op \in {"load", "reload", "unload", "stop", "run", "halt"}, NEW by \in Queens \cup {Nobody},
         NEW w \in Workers \cup {NoWorker}, NEW to \in Phases,
         NEW at \in {"check", "io", "starting", "validate", "cleanup", "stopped", "preflight", "begin", "halting"}
  PROVE  [op |-> op, by |-> by, w |-> w, at |-> at, to |-> to] \in Call
BY DEF Call

LEMMA AtIn ==
  ASSUME NEW c \in Call,
         NEW at \in {"check", "io", "starting", "validate", "cleanup", "stopped", "preflight", "begin", "halting"}
  PROVE  [c EXCEPT !.at = at] \in Call /\ [c EXCEPT !.at = at].at = at /\ [c EXCEPT !.at = at].w = c.w
BY DEF Call

LEMMA WorkersAreNumbers == ASSUME WorkerTypes PROVE worker \in Workers \cup {NoWorker} /\ loads \in Int /\ up \subseteq Workers
BY Bounds DEF WorkerTypes, Workers, NoWorker

LEMMA CallLoadStep == ASSUME WorkerInv, CallLoad PROVE WorkerInv'
<1> DEFINE d == [op |-> "load", by |-> Nobody, w |-> NoWorker, at |-> "io", to |-> "staging"]
<1>1. /\ open /\ worker = NoWorker /\ ~loading /\ loading' = TRUE /\ calls' = calls \cup {d}
      /\ UNCHANGED <<open, worker, up, loads, lost>>
  BY DEF CallLoad, Free, Add
<1>2. d \in Call /\ d.w = 0 /\ d.at = "io"
  BY NewCallIn DEF Phases, NoWorker
<1>3. WorkerTypes'
  BY <1>1, <1>2 DEF WorkerInv, WorkerTypes
<1>4. Reservation'
  BY <1>1, <1>2 DEF WorkerInv, Reservation, Reserving
<1>5. Handover'
  BY <1>1, <1>2 DEF WorkerInv, Handover
<1>6. Owned'
  BY <1>1 DEF WorkerInv, Owned
<1> QED BY <1>3, <1>4, <1>5, <1>6 DEF WorkerInv

LEMMA LoadCheckStep == ASSUME WorkerInv, NEW c \in calls, LoadCheck(c) PROVE WorkerInv'
<1>0. c \in Call /\ c.at = "check" /\ UNCHANGED <<open, worker, up, loads, lost>>
  BY DEF LoadCheck, WorkerInv, WorkerTypes
<1>1. CASE open /\ Free
  <2> DEFINE d == [c EXCEPT !.at = "io"]
  <2>1. worker = NoWorker /\ ~loading /\ loading' = TRUE /\ calls' = (calls \ {c}) \cup {d}
    BY <1>1 DEF LoadCheck, Free, Replace
  <2>2. d \in Call /\ d.w = c.w /\ d.at = "io"
    BY <1>0, AtIn
  <2> HIDE DEF d
  <2>3. WorkerTypes'
    BY <1>0, <2>1, <2>2 DEF WorkerInv, WorkerTypes
  <2>4. Reservation'
    BY <1>0, <2>1, <2>2 DEF WorkerInv, Reservation, Reserving
  <2>5. Handover'
    BY <1>0, <2>1, <2>2 DEF WorkerInv, Handover
  <2>6. Owned'
    BY <1>0, <2>1 DEF WorkerInv, Owned
  <2> QED BY <2>3, <2>4, <2>5, <2>6 DEF WorkerInv
<1>2. CASE ~(open /\ Free)
  <2>1. calls' = calls \ {c} /\ UNCHANGED loading
    BY <1>2 DEF LoadCheck, Finish
  <2>2. Settles
    BY <1>0, <2>1 DEF Settles, WorkerInv, WorkerTypes, Handover
  <2> QED BY <2>2, SettlesKeeps
<1> QED BY <1>1, <1>2

LEMMA LoadFailsStep == ASSUME WorkerInv, NEW c \in calls, LoadFails(c) PROVE WorkerInv'
<1>1. c.at = "io" /\ loading' = FALSE /\ calls' = calls \ {c} /\ UNCHANGED <<open, worker, up, loads, lost>>
  BY DEF LoadFails, Finish
<1>2. WorkerTypes'
  BY <1>1 DEF WorkerInv, WorkerTypes
<1>3. Reservation'
  BY <1>1 DEF WorkerInv, Reservation, Reserving
<1>4. Handover'
  BY <1>1 DEF WorkerInv, Handover
<1>5. Owned'
  BY <1>1 DEF WorkerInv, Owned
<1> QED BY <1>2, <1>3, <1>4, <1>5 DEF WorkerInv

LEMMA LoadStartsStep == ASSUME WorkerInv, NEW c \in calls, LoadStarts(c) PROVE WorkerInv'
<1> DEFINE d == [c EXCEPT !.at = "starting", !.w = loads']
<1>1. /\ c \in Call /\ c.at = "io" /\ loads < MaxLoads /\ loads' = loads + 1
      /\ up' = up \cup {loads + 1} /\ calls' = (calls \ {c}) \cup {d}
      /\ UNCHANGED <<open, worker, loading, lost>>
  BY DEF LoadStarts, Replace, WorkerInv, WorkerTypes
<1>2. loads \in Nat /\ loads + 1 \in Workers
  BY <1>1, Bounds DEF WorkerInv, WorkerTypes, Workers
<1>3. d \in Call /\ d.w = loads + 1 /\ d.at = "starting"
  BY <1>1, <1>2 DEF Call
<1> HIDE DEF d
<1>4. \A e \in calls : e.w \in Int /\ e.w <= loads
  BY Bounds DEF WorkerInv, WorkerTypes, Call, Workers, NoWorker
<1>5. WorkerTypes'
  <2>1. loads' \in 0..MaxLoads /\ worker' \in 0..loads' /\ up' \subseteq 1..loads'
    BY <1>1, <1>2, Bounds DEF WorkerInv, WorkerTypes, Workers
  <2>2. calls' \subseteq Call /\ \A e \in calls' : e.w <= loads'
    BY <1>1, <1>2, <1>3, <1>4 DEF WorkerInv, WorkerTypes
  <2> QED BY <1>1, <2>1, <2>2 DEF WorkerInv, WorkerTypes
<1>6. Reservation'
  BY <1>1, <1>3 DEF WorkerInv, Reservation, Reserving
<1>7. Handover'
  <2>1. \A e \in calls' : e.at = "starting" => e = d
    BY <1>1, <1>3 DEF WorkerInv, Reservation, Reserving
  <2>2. \A e \in calls' : e.at \in {"cleanup", "stopped"} => e \in calls /\ e.w # loads + 1
    BY <1>1, <1>2, <1>3, <1>4
  <2> QED BY <1>1, <1>3, <2>1, <2>2 DEF WorkerInv, Handover
<1>8. Owned'
  <2> SUFFICES ASSUME NEW w \in up', ~(open /\ w = worker), w \notin lost
               PROVE  \E e \in calls' : e.w = w /\ e.at \in {"starting", "cleanup"}
    BY <1>1 DEF Owned
  <2>1. CASE w = loads + 1
    BY <1>1, <1>3, <2>1
  <2>2. CASE w \in up
    BY <1>1, <2>2 DEF WorkerInv, Owned
  <2> QED BY <1>1, <2>1, <2>2
<1> QED BY <1>5, <1>6, <1>7, <1>8 DEF WorkerInv

LEMMA LoadDoneStep == ASSUME WorkerInv, NEW c \in calls, LoadDone(c) PROVE WorkerInv'
<1>1. /\ c \in Call /\ c.at = "starting" /\ loading' = FALSE /\ UNCHANGED <<open, up, loads>>
  BY DEF LoadDone, WorkerInv, WorkerTypes
<1>2. loading /\ worker = NoWorker /\ c.w \in up
  BY <1>1 DEF WorkerInv, Reservation, Reserving, Handover
<1>3. \A e \in calls : Reserving(e) => e = c
  BY <1>1 DEF WorkerInv, Reservation, Reserving
<1>4. /\ worker' \in {NoWorker, c.w}
      /\ lost \subseteq lost' /\ lost' \subseteq up
      /\ c.w \in lost' \/ (open /\ worker' = c.w)
  BY <1>1, <1>2 DEF LoadDone, WorkerInv, Handover
<1>5. calls' = calls \ {c} \/ calls' = (calls \ {c}) \cup {[c EXCEPT !.at = "validate"]}
  BY DEF LoadDone, Finish, Replace
<1>6. \A e \in calls' : (e \in calls /\ e # c) \/ (e \in Call /\ e.w = c.w /\ e.at = "validate")
  <2> DEFINE d == [c EXCEPT !.at = "validate"]
  <2>1. d \in Call /\ d.w = c.w /\ d.at = "validate"
    BY <1>1, AtIn
  <2>2. calls' = calls \ {c} \/ calls' = (calls \ {c}) \cup {d}
    BY <1>5
  <2> HIDE DEF d
  <2>3. \A e \in calls' : (e \in calls /\ e # c) \/ e = d
    BY <2>2
  <2> QED BY <2>1, <2>3
<1>7. \A e \in calls : e # c => e \in calls'
  BY <1>5
<1>8. WorkerTypes'
  <2>1. worker' \in 0..loads'
    BY <1>1, <1>2, <1>4, Bounds DEF WorkerInv, WorkerTypes, NoWorker
  <2> QED BY <1>1, <1>6, <2>1 DEF WorkerInv, WorkerTypes
<1>9. Reservation'
  BY <1>1, <1>3, <1>6 DEF WorkerInv, Reservation, Reserving
<1>10. Handover'
  BY <1>1, <1>3, <1>4, <1>6 DEF WorkerInv, Handover, Reserving
<1>11. Owned'
  <2> SUFFICES ASSUME NEW w \in up, ~(open /\ w = worker'), w \notin lost'
               PROVE  \E e \in calls' : e.w = w /\ e.at \in {"starting", "cleanup"}
    BY <1>1 DEF Owned
  <2>1. w # c.w /\ w # worker
    BY <1>2, <1>4 DEF WorkerInv, WorkerTypes, NoWorker
  <2>2. PICK e \in calls : e.w = w /\ e.at \in {"starting", "cleanup"}
    BY <1>4, <2>1 DEF WorkerInv, Owned
  <2> QED BY <1>7, <2>1, <2>2
<1> QED BY <1>8, <1>9, <1>10, <1>11 DEF WorkerInv

LEMMA StopRuntimeStep == ASSUME WorkerInv, NEW c \in calls, StopRuntime(c) PROVE WorkerInv'
<1> DEFINE d == [c EXCEPT !.at = "stopped"]
<1>1. /\ c \in Call /\ c.at = "cleanup" /\ up' = up \ {c.w} /\ lost' = lost \ {c.w}
      /\ calls' = (calls \ {c}) \cup {d} /\ UNCHANGED <<open, worker, loading, loads>>
  BY DEF StopRuntime, Replace, WorkerInv, WorkerTypes
<1>2. d \in Call /\ d.w = c.w /\ d.at = "stopped"
  BY <1>1, AtIn
<1> HIDE DEF d
<1>3. WorkerTypes'
  BY <1>1, <1>2 DEF WorkerInv, WorkerTypes
<1>4. Reservation'
  BY <1>1, <1>2 DEF WorkerInv, Reservation, Reserving
<1>5. Handover'
  <2>1. \A e \in calls' : (e \in calls /\ e # c) \/ e = d
    BY <1>1
  <2> QED BY <1>1, <1>2, <2>1 DEF WorkerInv, Handover
<1>6. Owned'
  <2> SUFFICES ASSUME NEW w \in up, w # c.w, ~(open /\ w = worker), w \notin lost
               PROVE  \E e \in calls' : e.w = w /\ e.at \in {"starting", "cleanup"}
    BY <1>1 DEF Owned
  <2> QED BY <1>1 DEF WorkerInv, Owned
<1> QED BY <1>3, <1>4, <1>5, <1>6 DEF WorkerInv

LEMMA StopRuntimeFailsStep == ASSUME WorkerInv, NEW c \in calls, StopRuntimeFails(c) PROVE WorkerInv'
<1> DEFINE d == [c EXCEPT !.at = "stopped"]
<1>1. /\ c \in Call /\ c.at = "cleanup" /\ c.w \in up /\ lost' = lost \cup {c.w}
      /\ calls' = (calls \ {c}) \cup {d} /\ UNCHANGED <<open, worker, loading, loads, up>>
  BY DEF StopRuntimeFails, Replace, WorkerInv, WorkerTypes
<1>2. d \in Call /\ d.w = c.w /\ d.at = "stopped"
  BY <1>1, AtIn
<1> HIDE DEF d
<1>3. WorkerTypes'
  BY <1>1, <1>2 DEF WorkerInv, WorkerTypes
<1>4. Reservation'
  BY <1>1, <1>2 DEF WorkerInv, Reservation, Reserving
<1>5. Handover'
  <2>1. \A e \in calls' : (e \in calls /\ e # c) \/ e = d
    BY <1>1
  <2> QED BY <1>1, <1>2, <2>1 DEF WorkerInv, Handover
<1>6. Owned'
  <2> SUFFICES ASSUME NEW w \in up, w # c.w, ~(open /\ w = worker), w \notin lost
               PROVE  \E e \in calls' : e.w = w /\ e.at \in {"starting", "cleanup"}
    BY <1>1 DEF Owned
  <2> QED BY <1>1 DEF WorkerInv, Owned
<1> QED BY <1>3, <1>4, <1>5, <1>6 DEF WorkerInv

LEMMA CleanedUpStep == ASSUME WorkerInv, NEW c \in calls, CleanedUp(c) PROVE WorkerInv'
<1>1. /\ c \in Call /\ c.at = "stopped" /\ c.w \notin up \ lost /\ UNCHANGED <<open, loading, up, loads>>
  BY DEF CleanedUp, WorkerInv, WorkerTypes, Handover
<1>2. CASE c.op = "stop"
  <2>1. calls' = calls \ {c} /\ UNCHANGED <<worker, lost>>
    BY <1>2 DEF CleanedUp, Finish
  <2>2. Settles
    BY <1>1, <2>1 DEF Settles, WorkerInv, WorkerTypes, Handover
  <2> QED BY <2>2, SettlesKeeps
<1>3. CASE c.op # "stop"
  <2> DEFINE d == [c EXCEPT !.op = "load", !.w = NoWorker, !.at = "check"]
  <2>1. /\ worker' = NoWorker /\ lost' = lost \cup (({worker} \ {c.w}) \cap up)
        /\ calls' = calls \ {c} \/ calls' = (calls \ {c}) \cup {d}
    BY <1>3 DEF CleanedUp, Finish, Replace
  <2>2. d \in Call /\ d.w = 0 /\ d.at = "check"
    BY <1>1 DEF Call, NoWorker
  <2> HIDE DEF d
  <2>3. \A e \in calls' : (e \in calls /\ e # c) \/ e = d
    BY <2>1
  <2>4. WorkerTypes'
    BY <1>1, <2>1, <2>2, <2>3 DEF WorkerInv, WorkerTypes, NoWorker
  <2>5. Reservation'
    BY <1>1, <2>1, <2>2, <2>3 DEF WorkerInv, Reservation, Reserving
  <2>6. Handover'
    BY <1>1, <2>1, <2>2, <2>3 DEF WorkerInv, Handover
  <2>7. Owned'
    <3> SUFFICES ASSUME NEW w \in up, w \notin lost'
                 PROVE  \E e \in calls' : e.w = w /\ e.at \in {"starting", "cleanup"}
      BY <1>1 DEF Owned
    <3>1. w # worker /\ w \notin lost
      BY <1>1, <2>1
    <3> QED BY <1>1, <2>1, <3>1 DEF WorkerInv, Owned
  <2> QED BY <2>4, <2>5, <2>6, <2>7 DEF WorkerInv
<1> QED BY <1>2, <1>3

\* The other steps settle.
LEMMA AddSettles ==
  ASSUME WorkerInv,
         NEW op \in {"load", "reload", "unload", "stop", "run", "halt"}, NEW by \in Queens \cup {Nobody},
         NEW w \in Workers \cup {NoWorker}, NEW to \in Phases,
         NEW at \in Elsewhere \cup {"cleanup"}, at = "cleanup" => w = worker /\ worker # NoWorker,
         w \in {worker, NoWorker},
         Add(op, by, w, at, to), UNCHANGED workerVars
  PROVE  Settles
<1> DEFINE d == [op |-> op, by |-> by, w |-> w, at |-> at, to |-> to]
<1>1. calls' = calls \cup {d} /\ UNCHANGED <<open, worker, loading, up, loads, lost>>
  BY DEF Add, workerVars
<1>2. d \in Call /\ d.w = w /\ d.at = at
  BY NewCallIn DEF Elsewhere
<1>3. d.w <= loads
  BY <1>2 DEF WorkerInv, WorkerTypes, NoWorker
<1> HIDE DEF d
<1> QED BY <1>1, <1>2, <1>3 DEF Settles, WorkerInv, WorkerTypes, Handover

LEMMA LeaveSettles ==
  ASSUME WorkerInv, UNCHANGED workerVars, NEW c \in calls, c.at \notin {"starting", "cleanup"}, Finish(c)
  PROVE  Settles
BY DEF Settles, Finish, workerVars, WorkerInv, WorkerTypes, Handover

LEMMA SameSettles == ASSUME WorkerInv, UNCHANGED workerVars, UNCHANGED calls PROVE Settles
BY DEF Settles, workerVars, WorkerInv, WorkerTypes, Handover

LEMMA MoveSettles ==
  ASSUME WorkerInv, UNCHANGED workerVars, NEW c \in calls, c.at \in Elsewhere,
         NEW d \in Call, d.w <= loads, Replace(c, d),
         d.at \in Elsewhere \/ (d.at = "cleanup" /\ d.w = worker /\ worker # NoWorker)
  PROVE  Settles
<1>1. calls' = (calls \ {c}) \cup {d} /\ UNCHANGED <<open, worker, loading, up, loads, lost>>
  BY DEF Replace, workerVars
<1>2. c.at \notin {"starting", "cleanup"}
  BY DEF Elsewhere
<1> QED BY <1>1, <1>2 DEF Settles, WorkerInv, WorkerTypes, Handover

LEMMA TriggerSettles ==
  ASSUME WorkerInv, UNCHANGED workerVars, NEW c \in calls, c.at = "preflight",
         NEW w \in Workers \cup {NoWorker}, w <= loads, Trigger(c, w)
  PROVE  Settles
<1>1. CASE Finish(c)
  BY <1>1, LeaveSettles
<1>2. CASE Replace(c, [c EXCEPT !.at = "begin", !.w = w])
  <2> DEFINE d == [c EXCEPT !.at = "begin", !.w = w]
  <2>1. c \in Call
    BY DEF WorkerInv, WorkerTypes
  <2>2. d \in Call /\ d.w = w /\ d.at = "begin"
    BY <2>1 DEF Call
  <2> HIDE DEF d
  <2>3. Replace(c, d)
    BY <1>2 DEF d
  <2> QED BY <2>2, <2>3, MoveSettles DEF Elsewhere
<1> QED BY <1>1, <1>2 DEF Trigger, Begun

LEMMA ValidateStep == ASSUME WorkerInv, NEW c \in calls, Validate(c) PROVE WorkerInv'
<1>1. c \in Call /\ c.at = "validate" /\ UNCHANGED workerVars
  BY DEF Validate, WorkerInv, WorkerTypes
<1>2. CASE Finish(c)
  BY <1>1, <1>2, LeaveSettles, SettlesKeeps
<1>3. CASE worker # NoWorker /\ Replace(c, [c EXCEPT !.op = "unload", !.w = worker, !.at = "cleanup"])
  <2> DEFINE d == [c EXCEPT !.op = "unload", !.w = worker, !.at = "cleanup"]
  <2>0. worker \in Workers \cup {NoWorker} /\ worker <= loads
    BY WorkersAreNumbers, Bounds DEF WorkerInv, WorkerTypes
  <2>1. d \in Call /\ d.w = worker /\ d.at = "cleanup"
    BY <1>1, <2>0 DEF Call
  <2> HIDE DEF d
  <2>2. Replace(c, d)
    BY <1>3 DEF d
  <2> QED BY <1>1, <1>3, <2>0, <2>1, <2>2, MoveSettles, SettlesKeeps DEF Elsewhere
<1> QED BY <1>2, <1>3 DEF Validate

\* Calls of a queen that is over leave their workers to be lost.
LEMMA QueenOverSettles ==
  ASSUME WorkerInv, NEW q, QueenOver(q), open' \in BOOLEAN,
         \A c \in calls' : c \in calls \/ (/\ c \in Call /\ c.w = worker
                                           /\ c.at = "cleanup" /\ worker # NoWorker),
         \A c \in calls : c \in calls' \/ c.by = q,
         open => open' \/ worker = NoWorker \/ \E c \in calls' : c.w = worker /\ c.at = "cleanup"
  PROVE  Settles
<1>1. /\ UNCHANGED <<worker, loading, up, loads>>
      /\ lost' = lost \cup {c.w : c \in {d \in calls : d.by = q /\ d.w \in up /\ d.at \in {"starting", "cleanup"}}}
  BY DEF QueenOver
<1>2. lost \subseteq lost' /\ lost' \subseteq up
  BY <1>1 DEF WorkerInv, Handover
<1>3. \A c \in calls : c.at \in {"starting", "cleanup"} /\ c.w \in up => c \in calls' \/ c.w \in lost'
  BY <1>1
<1>4. \A c \in calls' : c \in calls \/ c.w <= loads
  BY DEF WorkerInv, WorkerTypes
<1> QED BY <1>1, <1>2, <1>3, <1>4 DEF Settles

LEMMA StopSessionStep == ASSUME WorkerInv, StopSession PROVE WorkerInv'
<1> DEFINE d == [op |-> "stop", by |-> Nobody, w |-> worker, at |-> "cleanup", to |-> "staging"]
<1>1. d \in Call /\ d.w = worker /\ d.at = "cleanup"
  BY NewCallIn, WorkersAreNumbers DEF Phases, WorkerInv
<1> DEFINE S == {[op |-> "stop", by |-> Nobody, w |-> w, at |-> "cleanup", to |-> "staging"] :
                 w \in {worker} \ {NoWorker}}
<1>2. open' = FALSE /\ QueenOver(latest) /\ calls' = {c \in calls : c.by # latest} \cup S
  BY DEF StopSession
<1>3. (\A x \in S : x = d /\ worker # NoWorker) /\ (worker # NoWorker => d \in S)
  OBVIOUS
<1> HIDE DEF d, S
<1>4. /\ \A c \in calls' : c \in calls \/ (c = d /\ worker # NoWorker)
      /\ \A c \in calls : c \in calls' \/ c.by = latest
      /\ worker # NoWorker => d \in calls'
  BY <1>2, <1>3
<1>5. Settles
  BY <1>1, <1>2, <1>4, QueenOverSettles
<1> QED BY <1>5, SettlesKeeps

LEMMA WorkerStep == ASSUME WorkerInv, [Next]_vars PROVE WorkerInv'
<1>0. WorkerTypes /\ worker \in Workers \cup {NoWorker} /\ worker <= loads
      /\ \A c \in calls : c \in Call /\ c.w \in Workers \cup {NoWorker} /\ c.w <= loads
  BY WorkersAreNumbers, Bounds DEF WorkerInv, WorkerTypes, Call
<1>1. CASE UNCHANGED vars
  BY <1>1, SameSettles, SettlesKeeps DEF vars
<1>2. ASSUME NEW c \in calls, CallStep(c) PROVE WorkerInv'
  <2>1. CASE Preflight(c)
    <3>1. UNCHANGED workerVars /\ c.at = "preflight" /\ Trigger(c, IF c.by = Nobody THEN worker ELSE c.w)
      BY <2>1 DEF Preflight
    <3>2. CASE c.by = Nobody
      BY <1>0, <3>1, <3>2, TriggerSettles, SettlesKeeps
    <3>3. CASE c.by # Nobody
      BY <1>0, <3>1, <3>3, TriggerSettles, SettlesKeeps
    <3> QED BY <3>2, <3>3
  <2>2. CASE BeginAfter(c)
    BY <2>2, LeaveSettles, SettlesKeeps DEF BeginAfter, Begun
  <2>3. CASE LoadCheck(c)
    BY <2>3, LoadCheckStep
  <2>4. CASE LoadFails(c)
    BY <2>4, LoadFailsStep
  <2>5. CASE LoadStarts(c)
    BY <2>5, LoadStartsStep
  <2>6. CASE LoadDone(c)
    BY <2>6, LoadDoneStep
  <2>7. CASE Validate(c)
    BY <2>7, ValidateStep
  <2>8. CASE StopRuntime(c) \/ StopRuntimeFails(c)
    BY <2>8, StopRuntimeStep, StopRuntimeFailsStep
  <2>9. CASE CleanedUp(c)
    BY <2>9, CleanedUpStep
  <2>10. CASE Halted(c)
    BY <2>10, LeaveSettles, SettlesKeeps DEF Halted
  <2> QED BY <1>2, <2>1, <2>2, <2>3, <2>4, <2>5, <2>6, <2>7, <2>8, <2>9, <2>10 DEF CallStep
<1>3. ASSUME NEW r \in runs, Pauses(r) \/ Gone(r) \/ \E st \in {"reporting", "closing"} : Ends(r, st)
      PROVE  WorkerInv'
  BY <1>3, SameSettles, SettlesKeeps DEF Pauses, Gone, Ends
<1>4. ASSUME NEW e \in events, OnWorkerDone(e) PROVE WorkerInv'
  BY <1>4, SameSettles, SettlesKeeps DEF OnWorkerDone
<1>5. CASE StartOther
  BY <1>5, SameSettles, SettlesKeeps DEF StartOther
<1>6. CASE CallLoad
  BY <1>6, CallLoadStep
<1>7. CASE CallUnload
  <2>1. Nobody \in Queens \cup {Nobody} /\ "staging" \in Phases
    BY DEF Phases
  <2> QED BY <1>0, <1>7, <2>1, AddSettles, SettlesKeeps DEF CallUnload
<1>8. CASE CallRun
  <2>1. Nobody \in Queens \cup {Nobody} /\ "running" \in Phases /\ "preflight" \in Elsewhere
    BY DEF Phases, Elsewhere
  <2> QED BY <1>0, <1>8, <2>1, AddSettles, SettlesKeeps DEF CallRun
<1>9. CASE CallPause
  <2>1. Nobody \in Queens \cup {Nobody} /\ "staging" \in Phases /\ "halting" \in Elsewhere
    BY DEF Phases, Elsewhere
  <2> QED BY <1>0, <1>9, <2>1, AddSettles, SettlesKeeps DEF CallPause
<1>10. ASSUME NEW q \in Queens, CallLoadTool(q) PROVE WorkerInv'
  <2>1. "staging" \in Phases /\ "check" \in Elsewhere
    BY DEF Phases, Elsewhere
  <2>2. CASE worker = NoWorker
    BY <1>0, <1>10, <2>1, <2>2, AddSettles, SettlesKeeps DEF CallLoadTool
  <2>3. CASE worker # NoWorker
    BY <1>0, <1>10, <2>1, <2>3, AddSettles, SettlesKeeps DEF CallLoadTool
  <2> QED BY <2>2, <2>3
<1>11. ASSUME NEW q \in Queens, CallRunTool(q) PROVE WorkerInv'
  <2>1. "running" \in Phases /\ "preflight" \in Elsewhere
    BY DEF Phases, Elsewhere
  <2> QED BY <1>0, <1>11, <2>1, AddSettles, SettlesKeeps DEF CallRunTool
<1>12. ASSUME NEW q \in Queens, CallStopTool(q) \/ CallStopAndDesign(q) PROVE WorkerInv'
  <2>1. CASE CallStopTool(q)
    BY <2>1, SameSettles, SettlesKeeps DEF CallStopTool
  <2>2. CASE CallStopAndDesign(q)
    <3>1. Add("halt", q, worker, "halting", "designing") /\ UNCHANGED workerVars
      BY <2>2 DEF CallStopAndDesign
    <3>2. "designing" \in Phases /\ "halting" \in Elsewhere
      BY DEF Phases, Elsewhere
    <3> QED BY <1>0, <3>1, <3>2, AddSettles, SettlesKeeps
  <2> QED BY <1>12, <2>1, <2>2
<1>13. ASSUME NEW q \in Queens, QueenReady(q) PROVE WorkerInv'
  BY <1>13, SameSettles, SettlesKeeps DEF QueenReady
<1>14. ASSUME NEW q \in Queens, QueenEnds(q) PROVE WorkerInv'
  <2>1. QueenOver(q) /\ calls' = {c \in calls : c.by # q} /\ open' = open
    BY <1>14 DEF QueenEnds
  <2> QED BY <1>0, <2>1, QueenOverSettles, SettlesKeeps DEF WorkerTypes
<1>15. CASE Revive
  BY <1>15, SameSettles, SettlesKeeps DEF Revive
<1>16. CASE StopSession
  BY <1>16, StopSessionStep
<1> QED BY <1>1, <1>2, <1>3, <1>4, <1>5, <1>6, <1>7, <1>8, <1>9, <1>10, <1>11, <1>12, <1>13, <1>14, <1>15,
           <1>16 DEF Next

LEMMA WorkerInvariant == Spec => []WorkerInv
<1>1. Init => WorkerInv
  BY InitWorker
<1>2. WorkerInv /\ [Next]_vars => WorkerInv'
  BY WorkerStep
<1> QED BY <1>1, <1>2, PTL DEF Spec

\* Every worker that runs is the open session's, in the hands of a call, or one of
\* the named losses, for any number of workers, queens and overlapping calls.
THEOREM WorkersAreOwned == Spec => []Owned
<1>1. WorkerInv => Owned
  BY DEF WorkerInv
<1> QED BY <1>1, WorkerInvariant, PTL

LEMMA OverwriteStep ==
  ASSUME WorkerInv, [Next]_vars, worker' # worker PROVE worker' = NoWorker \/ worker = NoWorker
<1>1. ASSUME NEW c \in calls, LoadDone(c) PROVE worker = NoWorker
  BY <1>1 DEF LoadDone, WorkerInv, Reservation, Reserving
<1>2. ASSUME NEW c \in calls, CleanedUp(c) PROVE worker' \in {worker, NoWorker}
  BY <1>2 DEF CleanedUp
<1>3. ASSUME NEW c \in calls, CallStep(c), ~LoadDone(c), ~CleanedUp(c) PROVE worker' = worker
  BY <1>3 DEF CallStep, workerVars, Preflight, BeginAfter, LoadCheck, LoadFails, LoadStarts, Validate,
              StopRuntime, StopRuntimeFails, Halted
<1>4. ASSUME NEW c \in calls, CallStep(c) PROVE worker' = NoWorker \/ worker = NoWorker
  BY <1>1, <1>2, <1>3, <1>4
<1>5. ASSUME Next, \A c \in calls : ~CallStep(c) PROVE worker' = worker
  BY <1>5 DEF Next, workerVars, Pauses, Gone, Ends, OnWorkerDone, StartOther, CallLoad, CallUnload, CallRun,
              CallPause, CallLoadTool, CallRunTool, CallStopTool, CallStopAndDesign, QueenReady, QueenEnds,
              QueenOver, Revive, StopSession
<1>6. CASE UNCHANGED vars
  BY <1>6 DEF vars, workerVars
<1> QED BY <1>4, <1>5, <1>6

\* However many requests and tool calls load at the same time, no worker is put in
\* place of another.
THEOREM LoadsReserve == Spec => LoadNeverOverwrites
<1>1. WorkerInv /\ [Next]_vars => [worker' \notin {NoWorker, worker} => worker = NoWorker]_worker
  BY OverwriteStep
<1> QED BY <1>1, WorkerInvariant, PTL DEF Spec, LoadNeverOverwrites

----------------------------------------------------------------------------
(* Phases.                                                                 *)

QueensInv ==
  /\ phase \in [Queens -> Phases]
  /\ queens \in [Queens -> {"none", "starting", "ready", "ended"}]
  /\ latest \in Queens /\ queens[latest] # "none"
  /\ executor \in {Nobody} \cup {q \in Queens : queens[q] \in {"starting", "ready"}}
  /\ \A c \in calls : /\ c.at = "begin" => c.w \in Workers
                      /\ c.at = "halting" => c.to # "running"

\* The executions have names of their own, and a handler is called for one that is
\* publishing its end.
RunsInv ==
  /\ runs \subseteq Run
  /\ \A r, s \in runs : r.id = s.id => r = s
  /\ \A e \in events : /\ e.queen \in 1..latest
                       /\ \E r \in runs : r.id = e.run /\ r.st \in {"reporting", "closing"}
  /\ silent \in BOOLEAN

\* The newest queen will be told, or has still to be told, that the execution is over.
Tells(r) == r.st \in {"live", "interrupted"} \/ \E e \in events : e.run = r.id /\ e.queen = latest

Telling == phase[latest] = "running" => silent \/ \E r \in runs : Tells(r)

PhaseInv == QueensInv /\ RunsInv /\ Telling

LEMMA InitPhase == ASSUME Init PROVE PhaseInv
<1>1. 1 \in Queens
  BY Bounds DEF Queens
<1>2. QueensInv
  BY <1>1 DEF Init, QueensInv, Phases
<1>3. RunsInv
  BY DEF Init, RunsInv
<1>4. phase[latest] # "running"
  BY <1>1 DEF Init
<1> QED BY <1>2, <1>3, <1>4 DEF PhaseInv, Telling

\* A cancelled execution that was publishing has lost its handlers.
Cut(r, w) == [r EXCEPT !.st = IF r.of = w /\ @ = "reporting" THEN "interrupted" ELSE @]

LEMMA CutRun ==
  ASSUME NEW r \in Run, NEW w
  PROVE  /\ Cut(r, w) \in Run /\ Cut(r, w).id = r.id /\ Cut(r, w).of = r.of
         /\ Cut(r, w).st = IF r.of = w /\ r.st = "reporting" THEN "interrupted" ELSE r.st
         /\ ~(r.of = w /\ r.st = "reporting") => Cut(r, w) = r
BY DEF Run, Cut

LEMMA CancelKeeps ==
  ASSUME RunsInv, Telling, NEW w, Cancel(w), UNCHANGED <<phase, latest>>
  PROVE  RunsInv' /\ Telling'
<1> DEFINE Kept == {x \in runs : ~(x.of = w /\ x.st = "closing")}
<1>1. /\ runs' = {Cut(r, w) : r \in Kept}
      /\ events' = {e \in events : \A r \in runs : r.id = e.run => r.of # w}
      /\ silent' = (silent \/ \E r \in runs : r.of = w /\ r.st = "closing")
  BY DEF Cancel, Cut
<1>2. \A x \in runs' : \E r \in runs : x = Cut(r, w) /\ ~(r.of = w /\ r.st = "closing")
  BY <1>1
<1>3. \A r \in runs : ~(r.of = w /\ r.st = "closing") => Cut(r, w) \in runs'
  BY <1>1
<1>4. \A r \in runs : r \in Run
  BY DEF RunsInv
<1> HIDE DEF Kept
<1>5. runs' \subseteq Run
  BY <1>2, <1>4, CutRun
<1>6. \A x, y \in runs' : x.id = y.id => x = y
  BY <1>2, <1>4, CutRun DEF RunsInv
<1>7. \A e \in events' : /\ e.queen \in 1..latest
                         /\ \E r \in runs' : r.id = e.run /\ r.st \in {"reporting", "closing"}
  <2> SUFFICES ASSUME NEW e \in events'
               PROVE  \E r \in runs' : r.id = e.run /\ r.st \in {"reporting", "closing"}
    BY <1>1 DEF RunsInv
  <2>1. PICK r \in runs : r.id = e.run /\ r.st \in {"reporting", "closing"}
    BY <1>1 DEF RunsInv
  <2>2. r.of # w
    BY <1>1, <2>1
  <2>3. Cut(r, w) = r
    BY <1>4, <2>2, CutRun
  <2> QED BY <1>3, <2>1, <2>2, <2>3
<1>8. Telling'
  <2> SUFFICES ASSUME phase[latest] = "running", ~silent'
               PROVE  \E x \in runs' : Tells(x)'
    BY DEF Telling
  <2>1. PICK r \in runs : Tells(r)
    BY <1>1 DEF Telling
  <2>2. ~(r.of = w /\ r.st = "closing")
    BY <1>1
  <2>3. Cut(r, w) \in runs'
    BY <1>3, <2>2
  <2>4. CASE r.st = "live" \/ r.st = "interrupted" \/ (r.of = w /\ r.st = "reporting")
    <3>1. Cut(r, w).st \in {"live", "interrupted"}
      BY <1>4, <2>4, CutRun
    <3> QED BY <2>3, <3>1 DEF Tells
  <2>5. CASE r.of # w /\ r.st \notin {"live", "interrupted"}
    <3>1. PICK e \in events : e.run = r.id /\ e.queen = latest
      BY <2>1, <2>5 DEF Tells
    <3>2. e \in events'
      BY <1>1, <2>5, <3>1 DEF RunsInv
    <3>3. Cut(r, w) = r
      BY <1>4, <2>5, CutRun
    <3> QED BY <2>3, <3>1, <3>2, <3>3 DEF Tells
  <2>6. r.st \in {"live", "reporting", "interrupted", "closing"}
    BY <1>4 DEF Run
  <2> QED BY <2>2, <2>4, <2>5, <2>6
<1>9. silent' \in BOOLEAN
  BY <1>1 DEF RunsInv
<1> QED BY <1>5, <1>6, <1>7, <1>8, <1>9 DEF RunsInv

LEMMA BeginKeeps ==
  ASSUME RunsInv, NEW w \in Workers, Begin(w), UNCHANGED events, silent' \in BOOLEAN, latest' = latest
  PROVE  RunsInv' /\ \E r \in runs' : Tells(r)'
<1>1. PICK id \in 1..MaxRuns : /\ \A r \in runs : r.id # id
                               /\ runs' = runs \cup {[id |-> id, of |-> w, st |-> "live"]}
  BY DEF Begin
<1> DEFINE d == [id |-> id, of |-> w, st |-> "live"]
<1>2. d \in Run /\ d.id = id /\ d.st = "live"
  BY DEF Run
<1>3. runs' = runs \cup {d}
  BY <1>1
<1> HIDE DEF d
<1>4. RunsInv'
  BY <1>1, <1>2, <1>3 DEF RunsInv
<1> QED BY <1>2, <1>3, <1>4 DEF Tells

\* What every new call must be.
Sound(c) == (c.at = "begin" => c.w \in Workers) /\ (c.at = "halting" => c.to # "running")

SoundCalls == \A c \in calls' : c \in calls \/ Sound(c)

LEMMA QueensKeep == ASSUME QueensInv, UNCHANGED <<phase, queenVars>>, SoundCalls PROVE QueensInv'
BY DEF QueensInv, queenVars, SoundCalls, Sound

LEMMA StillKeeps ==
  ASSUME PhaseInv, UNCHANGED <<phase, queenVars, runVars>>, SoundCalls PROVE PhaseInv'
<1>1. QueensInv'
  BY QueensKeep DEF PhaseInv
<1>2. latest' = latest /\ phase' = phase /\ runs' = runs /\ events' = events /\ silent' = silent
  BY DEF queenVars, runVars
<1> QED BY <1>1, <1>2 DEF PhaseInv, RunsInv, Telling, Tells

LEMMA CancelStep ==
  ASSUME PhaseInv, UNCHANGED <<phase, queenVars>>, NEW w, Cancel(w), SoundCalls PROVE PhaseInv'
<1>1. latest' = latest
  BY DEF queenVars
<1> QED BY <1>1, QueensKeep, CancelKeeps DEF PhaseInv

LEMMA TargetIsQueen == ASSUME QueensInv, NEW c \in Call PROVE Target(c) \in Queens
BY DEF QueensInv, Target, Call

LEMMA SwitchKeeps ==
  ASSUME QueensInv, NEW c \in Call, NEW p \in Phases, SwitchTo(c, p), UNCHANGED queenVars, SoundCalls
  PROVE  QueensInv' /\ (p # "running" /\ phase'[latest] = "running" => phase[latest] = "running")
<1>1. Target(c) \in Queens
  BY TargetIsQueen
<1>2. /\ phase' = [phase EXCEPT ![Target(c)] = p]
      /\ UNCHANGED <<queens, latest, executor>>
  BY DEF SwitchTo, queenVars
<1>3. phase' \in [Queens -> Phases] /\ (p # "running" /\ phase'[latest] = "running" => phase[latest] = "running")
  BY <1>1, <1>2 DEF QueensInv
<1> QED BY <1>2, <1>3 DEF QueensInv, SoundCalls, Sound

\* The phase goes to anything but running.
LEMMA LeaveKeeps ==
  ASSUME PhaseInv, NEW c \in Call, NEW p \in Phases \ {"running"}, SwitchTo(c, p),
         UNCHANGED <<queenVars, runVars>>, SoundCalls
  PROVE  PhaseInv'
<1>1. latest' = latest /\ runs' = runs /\ events' = events /\ silent' = silent
  BY DEF queenVars, runVars
<1>2. QueensInv' /\ (phase'[latest] = "running" => phase[latest] = "running")
  BY SwitchKeeps DEF PhaseInv
<1> QED BY <1>1, <1>2 DEF PhaseInv, RunsInv, Telling, Tells

\* An execution begins and the phase goes to running.
LEMMA BegunKeeps ==
  ASSUME PhaseInv, NEW c \in calls, c \in Call, NEW w \in Workers, Begun(c, w), UNCHANGED queenVars
  PROVE  PhaseInv'
<1>1. /\ Begin(w) /\ calls' = calls \ {c} /\ SwitchTo(c, "running") /\ silent' = FALSE /\ UNCHANGED events
      /\ latest' = latest /\ SoundCalls /\ "running" \in Phases
  BY DEF Begun, Finish, queenVars, SoundCalls, Phases
<1>2. QueensInv'
  BY <1>1, SwitchKeeps DEF PhaseInv
<1>3. RunsInv' /\ \E r \in runs' : Tells(r)'
  BY <1>1, BeginKeeps DEF PhaseInv
<1> QED BY <1>2, <1>3 DEF PhaseInv, Telling

LEMMA TriggerStep ==
  ASSUME PhaseInv, up \subseteq Workers, NEW c \in calls, c \in Call, NEW w, Trigger(c, w), UNCHANGED queenVars
  PROVE  PhaseInv'
<1>1. CASE Finish(c) /\ UNCHANGED <<runVars, phase>>
  BY <1>1, StillKeeps DEF Finish, SoundCalls
<1>2. CASE w \in up /\ Begun(c, w)
  BY <1>2, BegunKeeps
<1>3. CASE w \in up /\ Cancel(w) /\ UNCHANGED phase /\ Replace(c, [c EXCEPT !.at = "begin", !.w = w])
  <2> DEFINE d == [c EXCEPT !.at = "begin", !.w = w]
  <2>1. Sound(d)
    BY <1>3 DEF Sound, Call
  <2> HIDE DEF d
  <2>2. calls' = (calls \ {c}) \cup {d}
    BY <1>3 DEF Replace, d
  <2> QED BY <1>3, <2>1, <2>2, CancelStep DEF SoundCalls
<1> QED BY <1>1, <1>2, <1>3 DEF Trigger

LEMMA PausesStep == ASSUME PhaseInv, NEW r \in runs, Pauses(r) PROVE PhaseInv'
<1>1. /\ r.st = "live" /\ runs' = runs \ {r} /\ silent' = TRUE
      /\ UNCHANGED <<calls, phase, queens, latest, executor, events>>
  BY DEF Pauses, queenVars
<1>2. RunsInv'
  BY <1>1 DEF PhaseInv, RunsInv
<1> QED BY <1>1, <1>2 DEF PhaseInv, QueensInv, Telling

LEMMA EndsStep ==
  ASSUME PhaseInv, NEW r \in runs, NEW st \in {"reporting", "closing"}, Ends(r, st) PROVE PhaseInv'
<1> DEFINE d == [r EXCEPT !.st = st]
<1>1. /\ r.st \in {"live", "interrupted"} /\ runs' = (runs \ {r}) \cup {d}
      /\ events' = events \cup {[queen |-> q, run |-> r.id] : q \in Listening}
      /\ UNCHANGED <<calls, phase, queens, latest, executor, silent>>
  BY DEF Ends, queenVars
<1>2. r \in Run /\ d \in Run /\ d.id = r.id /\ d.st = st
  BY DEF PhaseInv, RunsInv, Run
<1> HIDE DEF d
<1>3. latest \in Listening /\ Listening \subseteq 1..latest
  BY DEF Listening, PhaseInv, QueensInv, Queens
<1>4. \A e \in events' : e \in events \/ (e.queen \in 1..latest /\ e.run = r.id)
  BY <1>1, <1>3
<1>5. \E e \in events' : e.run = d.id /\ e.queen = latest
  <2> DEFINE e == [queen |-> latest, run |-> r.id]
  <2>1. e \in events' /\ e.run = d.id /\ e.queen = latest
    BY <1>1, <1>2, <1>3
  <2> HIDE DEF e
  <2> QED BY <2>1
<1>6. RunsInv'
  <2>1. runs' \subseteq Run /\ \A x, y \in runs' : x.id = y.id => x = y
    BY <1>1, <1>2 DEF PhaseInv, RunsInv
  <2>2. ASSUME NEW e \in events'
        PROVE  e.queen \in 1..latest' /\ \E x \in runs' : x.id = e.run /\ x.st \in {"reporting", "closing"}
    <3>1. CASE e \in events
      BY <1>1, <3>1 DEF PhaseInv, RunsInv
    <3>2. CASE e.queen \in 1..latest /\ e.run = r.id
      BY <1>1, <1>2, <3>2
    <3> QED BY <1>4, <3>1, <3>2
  <2> QED BY <1>1, <2>1, <2>2 DEF PhaseInv, RunsInv
<1>7. Telling'
  <2>1. d \in runs' /\ Tells(d)'
    BY <1>1, <1>5 DEF Tells
  <2> QED BY <2>1 DEF Telling
<1> QED BY <1>1, <1>6, <1>7 DEF PhaseInv, QueensInv

LEMMA GoneStep == ASSUME PhaseInv, NEW r \in runs, Gone(r) PROVE PhaseInv'
<1>1. /\ r.st \in {"reporting", "closing"} /\ (\A e \in events : e.run # r.id)
      /\ runs' = runs \ {r} /\ UNCHANGED <<calls, phase, queens, latest, executor, events, silent>>
  BY DEF Gone, queenVars
<1>2. RunsInv'
  BY <1>1 DEF PhaseInv, RunsInv
<1>3. ~Tells(r)
  BY <1>1 DEF Tells
<1>4. Telling'
  BY <1>1, <1>3 DEF PhaseInv, Telling, Tells
<1> QED BY <1>1, <1>2, <1>4 DEF PhaseInv, QueensInv

LEMMA OnWorkerDoneStep == ASSUME PhaseInv, NEW e \in events, OnWorkerDone(e) PROVE PhaseInv'
<1>1. /\ events' = events \ {e}
      /\ phase' = [phase EXCEPT ![e.queen] = IF @ = "running" THEN "staging" ELSE @]
      /\ UNCHANGED <<calls, queens, latest, executor, runs, silent>>
  BY DEF OnWorkerDone, queenVars, runVars
<1>2. e.queen \in 1..latest /\ latest \in Queens
  BY DEF PhaseInv, RunsInv, QueensInv
<1>3. e.queen \in Queens
  BY <1>2, Bounds DEF Queens
<1>4. phase' \in [Queens -> Phases]
  BY <1>1, <1>3 DEF PhaseInv, QueensInv, Phases
<1>5. QueensInv'
  BY <1>1, <1>4 DEF PhaseInv, QueensInv
<1>6. RunsInv'
  BY <1>1 DEF PhaseInv, RunsInv
<1>7. Telling'
  <2>1. CASE e.queen = latest
    BY <1>1, <1>2, <2>1 DEF Telling, PhaseInv, QueensInv
  <2>2. CASE e.queen # latest
    <3>1. phase'[latest] = phase[latest]
      BY <1>1, <2>2 DEF PhaseInv, QueensInv
    <3> QED BY <1>1, <2>2, <3>1 DEF Telling, Tells, PhaseInv
  <2> QED BY <2>1, <2>2
<1> QED BY <1>5, <1>6, <1>7 DEF PhaseInv

\* Steps that add a call, drop calls, or move one elsewhere.
LEMMA AddSound ==
  ASSUME NEW op, NEW by, NEW w, NEW at, NEW to, Add(op, by, w, at, to),
         at # "begin", at = "halting" => to # "running"
  PROVE  SoundCalls
BY DEF Add, SoundCalls, Sound

LEMMA LoadingStep ==
  ASSUME PhaseInv, calls \subseteq Call, NEW c \in calls,
         LoadCheck(c) \/ LoadFails(c) \/ LoadStarts(c) \/ LoadDone(c) \/ CleanedUp(c)
  PROVE  PhaseInv'
<1>0. c \in Call
  OBVIOUS
<1>1. UNCHANGED <<phase, queenVars, runVars>>
  BY DEF LoadCheck, LoadFails, LoadStarts, LoadDone, CleanedUp
<1>2. ASSUME Finish(c) PROVE SoundCalls
  BY <1>2 DEF Finish, SoundCalls
<1>3. ASSUME NEW d, Replace(c, d), d.at \notin {"begin", "halting"} PROVE SoundCalls
  BY <1>3 DEF Replace, SoundCalls, Sound
<1>4. SoundCalls
  <2>1. CASE LoadCheck(c)
    <3>1. Finish(c) \/ Replace(c, [c EXCEPT !.at = "io"])
      BY <2>1 DEF LoadCheck
    <3>2. [c EXCEPT !.at = "io"].at = "io"
      BY <1>0 DEF Call
    <3> QED BY <1>2, <1>3, <3>1, <3>2 DEF Finish, SoundCalls
  <2>2. CASE LoadFails(c)
    BY <1>2, <2>2 DEF LoadFails, Finish, SoundCalls
  <2>3. CASE LoadStarts(c)
    <3>1. Replace(c, [c EXCEPT !.at = "starting", !.w = loads'])
      BY <2>3 DEF LoadStarts
    <3>2. [c EXCEPT !.at = "starting", !.w = loads'].at = "starting"
      BY <1>0 DEF Call
    <3> QED BY <1>3, <3>1, <3>2
  <2>4. CASE LoadDone(c)
    <3>1. Finish(c) \/ Replace(c, [c EXCEPT !.at = "validate"])
      BY <2>4 DEF LoadDone
    <3>2. [c EXCEPT !.at = "validate"].at = "validate"
      BY <1>0 DEF Call
    <3> QED BY <1>2, <1>3, <3>1, <3>2 DEF Finish, SoundCalls
  <2>5. CASE CleanedUp(c)
    <3>1. Finish(c) \/ Replace(c, [c EXCEPT !.op = "load", !.w = NoWorker, !.at = "check"])
      BY <2>5 DEF CleanedUp
    <3>2. [c EXCEPT !.op = "load", !.w = NoWorker, !.at = "check"].at = "check"
      BY <1>0 DEF Call
    <3> QED BY <1>2, <1>3, <3>1, <3>2 DEF Finish, SoundCalls
  <2> QED BY <2>1, <2>2, <2>3, <2>4, <2>5
<1> QED BY <1>1, <1>4, StillKeeps

LEMMA ValidatePhase == ASSUME PhaseInv, calls \subseteq Call, NEW c \in calls, Validate(c) PROVE PhaseInv'
<1>0. c \in Call /\ UNCHANGED <<queenVars, runVars>>
  BY DEF Validate
<1>1. CASE SwitchTo(c, "staging") /\ Finish(c)
  <2>1. SoundCalls /\ "staging" \in Phases \ {"running"}
    BY <1>1 DEF Finish, SoundCalls, Phases
  <2> QED BY <1>0, <1>1, <2>1, LeaveKeeps
<1>2. CASE UNCHANGED phase /\ Finish(c)
  BY <1>0, <1>2, StillKeeps DEF Finish, SoundCalls
<1>3. CASE UNCHANGED phase /\ Replace(c, [c EXCEPT !.op = "unload", !.w = worker, !.at = "cleanup"])
  <2> DEFINE d == [c EXCEPT !.op = "unload", !.w = worker, !.at = "cleanup"]
  <2>1. d.at = "cleanup"
    BY <1>0 DEF Call
  <2> HIDE DEF d
  <2>2. Replace(c, d)
    BY <1>3 DEF d
  <2>3. SoundCalls
    BY <2>1, <2>2 DEF Replace, SoundCalls, Sound
  <2> QED BY <1>0, <1>3, <2>3, StillKeeps
<1> QED BY <1>1, <1>2, <1>3 DEF Validate

LEMMA StopRuntimePhase ==
  ASSUME PhaseInv, calls \subseteq Call, NEW c \in calls, StopRuntime(c) \/ StopRuntimeFails(c)
  PROVE  PhaseInv'
<1> DEFINE d == [c EXCEPT !.at = "stopped"]
<1>1. d.at = "stopped"
  BY DEF Call
<1> HIDE DEF d
<1>2. Replace(c, d) /\ UNCHANGED <<phase, queenVars>> /\ (Cancel(c.w) \/ UNCHANGED runVars)
  BY DEF StopRuntime, StopRuntimeFails, d
<1>3. SoundCalls
  BY <1>1, <1>2 DEF Replace, SoundCalls, Sound
<1> QED BY <1>2, <1>3, CancelStep, StillKeeps

\* A queen becomes ready, ends, or is followed by another.
LEMMA QueenReadyStep == ASSUME PhaseInv, NEW q \in Queens, QueenReady(q) PROVE PhaseInv'
<1>1. /\ queens' = [queens EXCEPT ![q] = "ready"]
      /\ UNCHANGED <<calls, phase, latest, executor, runs, events, silent>>
  BY DEF QueenReady, runVars
<1>2. QueensInv'
  BY <1>1 DEF PhaseInv, QueensInv
<1> QED BY <1>1, <1>2 DEF PhaseInv, RunsInv, Telling, Tells

LEMMA QueenOverStep ==
  ASSUME PhaseInv, NEW q \in Queens, QueenOver(q), SoundCalls PROVE PhaseInv'
<1>1. /\ queens' = [queens EXCEPT ![q] = "ended"] /\ executor' = Nobody
      /\ UNCHANGED <<phase, latest, runs, events, silent>>
  BY DEF QueenOver, runVars
<1>2. QueensInv'
  BY <1>1 DEF PhaseInv, QueensInv, SoundCalls, Sound
<1> QED BY <1>1, <1>2 DEF PhaseInv, RunsInv, Telling, Tells

LEMMA ReviveStep == ASSUME PhaseInv, Revive PROVE PhaseInv'
<1> DEFINE first == IF worker = NoWorker THEN "designing" ELSE "staging"
<1>1. /\ latest' = latest + 1 /\ executor' = latest'
      /\ queens' = [queens EXCEPT ![latest'] = "starting"]
      /\ phase' = [phase EXCEPT ![latest'] = first]
      /\ latest < MaxQueens
      /\ UNCHANGED <<calls, runs, events, silent>>
  BY DEF Revive, runVars
<1>2. latest \in 1..MaxQueens /\ latest' \in Queens /\ latest' = latest + 1
  BY <1>1, Bounds DEF PhaseInv, QueensInv, Queens
<1>3. first \in Phases /\ first # "running"
  BY DEF Phases
<1> HIDE DEF first
<1>4. QueensInv'
  BY <1>1, <1>2, <1>3 DEF PhaseInv, QueensInv
<1>5. RunsInv'
  BY <1>1, <1>2 DEF PhaseInv, RunsInv
<1>6. phase'[latest'] # "running"
  BY <1>1, <1>2, <1>3 DEF PhaseInv, QueensInv
<1> QED BY <1>4, <1>5, <1>6 DEF PhaseInv, Telling

LEMMA PhaseStep == ASSUME WorkerInv, PhaseInv, [Next]_vars PROVE PhaseInv'
<1>0. calls \subseteq Call /\ up \subseteq Workers
  BY WorkersAreNumbers DEF WorkerInv, WorkerTypes
<1>1. CASE UNCHANGED vars
  BY <1>1, StillKeeps DEF vars, SoundCalls
<1>2. ASSUME NEW c \in calls, CallStep(c) PROVE PhaseInv'
  <2>0. c \in Call
    BY <1>0
  <2>1. CASE Preflight(c)
    BY <1>0, <2>0, <2>1, TriggerStep DEF Preflight
  <2>2. CASE BeginAfter(c)
    <3>1. c.at = "begin" /\ Begun(c, c.w) /\ UNCHANGED queenVars
      BY <2>2 DEF BeginAfter
    <3>2. c.w \in Workers
      BY <3>1 DEF PhaseInv, QueensInv
    <3> QED BY <2>0, <3>1, <3>2, BegunKeeps
  <2>3. CASE LoadCheck(c) \/ LoadFails(c) \/ LoadStarts(c) \/ LoadDone(c) \/ CleanedUp(c)
    BY <1>0, <2>3, LoadingStep
  <2>4. CASE Validate(c)
    BY <1>0, <2>4, ValidatePhase
  <2>5. CASE StopRuntime(c) \/ StopRuntimeFails(c)
    BY <1>0, <2>5, StopRuntimePhase
  <2>6. CASE Halted(c)
    <3>1. SwitchTo(c, c.to) /\ SoundCalls /\ UNCHANGED <<queenVars, runVars>>
      BY <2>6 DEF Halted, Finish, SoundCalls
    <3>2. c.to \in Phases \ {"running"}
      BY <2>0, <2>6 DEF Halted, PhaseInv, QueensInv, Call
    <3> QED BY <2>0, <3>1, <3>2, LeaveKeeps
  <2> QED BY <1>2, <2>1, <2>2, <2>3, <2>4, <2>5, <2>6 DEF CallStep
<1>3. ASSUME NEW r \in runs, Pauses(r) \/ Gone(r) \/ \E st \in {"reporting", "closing"} : Ends(r, st)
      PROVE  PhaseInv'
  BY <1>3, PausesStep, GoneStep, EndsStep
<1>4. ASSUME NEW e \in events, OnWorkerDone(e) PROVE PhaseInv'
  BY <1>4, OnWorkerDoneStep
<1>5. CASE StartOther
  <2>1. PICK w \in up : Begin(w)
    BY <1>5 DEF StartOther
  <2>2. w \in Workers /\ UNCHANGED <<calls, phase, queens, latest, executor, events, silent>>
    BY <1>0, <1>5 DEF StartOther, queenVars
  <2>3. silent' \in BOOLEAN
    BY <2>2 DEF PhaseInv, RunsInv
  <2>4. RunsInv' /\ \E r \in runs' : Tells(r)'
    BY <2>1, <2>2, <2>3, BeginKeeps DEF PhaseInv
  <2> QED BY <2>2, <2>4 DEF PhaseInv, QueensInv, Telling
<1>6. CASE CallLoad \/ CallUnload \/ CallRun
  <2>1. SoundCalls
    BY <1>6, AddSound DEF CallLoad, CallUnload, CallRun
  <2> QED BY <1>6, <2>1, StillKeeps DEF CallLoad, CallUnload, CallRun
<1>7. CASE CallPause
  <2>1. SoundCalls
    BY <1>7, AddSound DEF CallPause
  <2> QED BY <1>7, <2>1, CancelStep DEF CallPause
<1>8. ASSUME NEW q \in Queens, CallLoadTool(q) \/ CallRunTool(q) PROVE PhaseInv'
  <2>1. SoundCalls
    BY <1>8, AddSound DEF CallLoadTool, CallRunTool
  <2> QED BY <1>8, <2>1, StillKeeps DEF CallLoadTool, CallRunTool
<1>9. ASSUME NEW q \in Queens, CallStopTool(q) \/ CallStopAndDesign(q) PROVE PhaseInv'
  <2>1. UNCHANGED calls \/ Add("halt", q, worker, "halting", "designing")
    BY <1>9 DEF CallStopTool, CallStopAndDesign
  <2>2. SoundCalls
    BY <2>1, AddSound DEF SoundCalls
  <2>3. UNCHANGED <<phase, queenVars>> /\ (UNCHANGED runVars \/ Cancel(worker))
    BY <1>9 DEF CallStopTool, CallStopAndDesign
  <2> QED BY <2>2, <2>3, StillKeeps, CancelStep
<1>10. ASSUME NEW q \in Queens, QueenReady(q) \/ QueenEnds(q) PROVE PhaseInv'
  <2>1. CASE QueenReady(q)
    BY <2>1, QueenReadyStep
  <2>2. CASE QueenEnds(q)
    BY <2>2, QueenOverStep DEF QueenEnds, SoundCalls
  <2> QED BY <1>10, <2>1, <2>2
<1>11. CASE Revive
  BY <1>11, ReviveStep
<1>12. CASE StopSession
  <2>1. latest \in Queens
    BY DEF PhaseInv, QueensInv
  <2>2. SoundCalls
    BY <1>12 DEF StopSession, SoundCalls, Sound
  <2> QED BY <1>12, <2>1, <2>2, QueenOverStep DEF StopSession
<1> QED BY <1>1, <1>2, <1>3, <1>4, <1>5, <1>6, <1>7, <1>8, <1>9, <1>10, <1>11, <1>12 DEF Next

LEMMA PhaseInvariant == Spec => [](WorkerInv /\ PhaseInv)
<1>1. Init => WorkerInv /\ PhaseInv
  BY InitWorker, InitPhase
<1>2. (WorkerInv /\ PhaseInv) /\ [Next]_vars => (WorkerInv /\ PhaseInv)'
  BY WorkerStep, PhaseStep
<1> QED BY <1>1, <1>2, PTL DEF Spec

\* The newest queen is in the running phase only while an execution is left that
\* could end it, or after one ended without telling anybody.
THEOREM RunningIsLeft == Spec => []RunningHasRun
<1>1. PhaseInv => RunningHasRun
  BY DEF PhaseInv, Telling, RunningHasRun
<1> QED BY <1>1, PhaseInvariant, PTL

\* Every reachable state is well typed; in particular the queen whose executor the
\* session names has not ended, and handlers are called only for executions that
\* wait for them.
THEOREM TypeCorrect == Spec => []TypeOK
<1>1. WorkerInv /\ PhaseInv => TypeOK
  <2> SUFFICES ASSUME WorkerInv, PhaseInv PROVE TypeOK
    OBVIOUS
  <2>1. worker \in Workers \cup {NoWorker} /\ up \subseteq Workers
    BY WorkersAreNumbers DEF WorkerInv
  <2> QED BY <2>1 DEF TypeOK, WorkerInv, WorkerTypes, Handover, PhaseInv, QueensInv, RunsInv
<1> QED BY <1>1, PhaseInvariant, PTL
=============================================================================
