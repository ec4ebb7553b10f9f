-------------------------- MODULE CheckpointStore --------------------------
(***************************************************************************)
(* The checkpoint files of one session and their index.                    *)
(*                                                                         *)
(* A run of the graph makes a CheckpointStore of its own.  It saves        *)
(* checkpoints by tasks nobody awaits, or awaits the save (a pause, a      *)
(* synchronous configuration), and starts prunings nobody awaits.  Files   *)
(* are read and written by worker threads: between the steps of one call   *)
(* there are steps of the others, and a thread goes on when the coroutine  *)
(* that waits for it is cancelled.  The store's lock is held from the      *)
(* reading of the index to its replacement; it is the lock of one store.   *)
(*                                                                         *)
(* Every write goes to a temporary file that then takes the place of the   *)
(* file.  The name of the temporary file depends on the file alone, so     *)
(* that two threads that write one file share it.                          *)
(***************************************************************************)
EXTENDS Naturals, FiniteSets

CONSTANTS
  Calls,     \* saves and prunings that may be begun
  Ids,       \* checkpoint ids: type, node, and time to the second
  MaxRuns,   \* runs of the session
  Index      \* index.json

ASSUME StoreAssumption ==
  /\ IsFiniteSet(Calls) /\ IsFiniteSet(Ids)
  /\ Index \notin Ids
  /\ MaxRuns \in Nat \ {0}

Files == Ids \cup {Index}

\* What a file may hold: nothing at all, a checkpoint or the index's entries, or
\* what cannot be parsed - because a thread has opened it and not yet written, or
\* because two threads have written into it.  The entries are a set here; in the
\* file they have the order in which they were added.
Absent      == [kind |-> "absent", ids |-> {}]
Empty       == [kind |-> "empty", ids |-> {}]
Torn        == [kind |-> "torn", ids |-> {}]
Whole(ids)  == [kind |-> "whole", ids |-> ids]

VARIABLES
  disk,      \* file -> what it holds
  temp,      \* file -> what its temporary file holds
  at,        \* call -> where it is
  job,       \* call -> what it was asked for, and what it has read
  io,        \* call -> what its thread has done of a write, and into what
  run,       \* the number of the current run, whose store is used for new calls
  alive,     \* may the current run begin further calls?
  holder,    \* run -> the calls that hold its store's lock
  old,       \* ids older than the limit of age
  acked,     \* history: ids whose save has returned
  removed,   \* history: ids whose file was deleted
  doubled,   \* history: ids saved by two calls at a time
  spoiled    \* history: was the index written without a lock that orders the calls, or
             \* without what was in it?

fileVars == <<disk, temp>>
callVars == <<at, job, io>>
runVars  == <<run, alive, old>>
histVars == <<acked, removed, doubled, spoiled>>
vars == <<fileVars, callVars, runVars, holder, histVars>>

Locations == {"unused", "file", "load", "unlink", "lock", "read", "index", "done"}

Stages == {"open", "write", "replace"}

\* The inode a thread has opened is the temporary file, has become the file itself,
\* or has no name any more.
Places == {"none", "temp", "disk", "gone"}

Value == [kind : {"absent", "empty", "torn", "whole"}, ids : SUBSET Ids]

Job == [op : {"save", "prune"}, id : Ids \cup {Index}, run : 0..MaxRuns, awaited : BOOLEAN,
        left : BOOLEAN, todo : SUBSET Ids, data : SUBSET Ids]

NoJob == [op |-> "save", id |-> Index, run |-> 0, awaited |-> FALSE, left |-> FALSE,
          todo |-> {}, data |-> {}]

Fresh == [stage |-> "open", into |-> "none"]

TypeOK ==
  /\ disk \in [Files -> Value] /\ temp \in [Files -> Value]
  /\ at \in [Calls -> Locations]
  /\ job \in [Calls -> Job]
  /\ io \in [Calls -> [stage : Stages, into : Places]]
  /\ run \in 1..MaxRuns /\ alive \in BOOLEAN
  /\ holder \in [1..MaxRuns -> SUBSET Calls]
  /\ \A r \in 1..MaxRuns : \A c, d \in holder[r] : c = d
  /\ old \subseteq Ids /\ acked \subseteq Ids /\ removed \subseteq old /\ doubled \subseteq Ids
  /\ spoiled \in BOOLEAN

Init ==
  /\ disk = [f \in Files |-> Absent] /\ temp = [f \in Files |-> Absent]
  /\ at = [c \in Calls |-> "unused"] /\ job = [c \in Calls |-> NoJob]
  /\ io = [c \in Calls |-> Fresh]
  /\ run = 1 /\ alive = TRUE /\ holder = [r \in 1..MaxRuns |-> {}] /\ old = {}
  /\ acked = {} /\ removed = {} /\ doubled = {} /\ spoiled = FALSE

-----------------------------------------------------------------------------
(* Calls.                                                                  *)

\* A call is under way, if only in a thread nobody waits for any more.
Pending(c) == at[c] \notin {"unused", "done"}

\* The run waits for the call.
Waiting(c) == Pending(c) /\ job[c].awaited /\ ~job[c].left

MayBegin(c) == at[c] = "unused" /\ alive /\ \A d \in Calls : ~Waiting(d)

Move(c, to) == at' = [at EXCEPT ![c] = to]

\* async with self._index_lock
Release(c) == holder' = [r \in 1..MaxRuns |-> holder[r] \ {c}]

\* save_checkpoint().  Checkpoints of one node within a second have one id.
Save(c, k, awaited) ==
  /\ MayBegin(c) /\ k \notin old
  /\ Move(c, "file")
  /\ job' = [job EXCEPT ![c] = [NoJob EXCEPT !.id = k, !.run = run, !.awaited = awaited]]
  /\ doubled' = doubled \cup {j \in {k} : \E d \in Calls : at[d] = "file" /\ job[d].id = k}
  /\ UNCHANGED <<fileVars, io, runVars, holder, acked, removed, spoiled>>

\* prune_checkpoints(), in a task of its own
Prune(c) ==
  /\ MayBegin(c)
  /\ Move(c, "load")
  /\ job' = [job EXCEPT ![c] = [NoJob EXCEPT !.op = "prune", !.run = run]]
  /\ UNCHANGED <<fileVars, io, runVars, holder, histVars>>

\* load_index(): no index, or one that cannot be parsed, is None.
Entries == disk[Index].ids

Readable == disk[Index].kind = "whole"

\* The next of the old checkpoints is to be deleted, if any is left.
Proceed(c, todo) ==
  \/ /\ todo = {}
     /\ Move(c, "done") /\ job' = [job EXCEPT ![c].todo = {}]
  \/ \E k \in todo :
       /\ Move(c, "unlink") /\ job' = [job EXCEPT ![c].todo = todo \ {k}, ![c].id = k]

\* Faulty variant: the age of the checkpoints is not looked at.
LoadedAll(c) ==
  /\ at[c] = "load"
  /\ Proceed(c, Entries)
  /\ UNCHANGED <<fileVars, io, runVars, holder, histVars>>

Loaded(c) ==
  /\ at[c] = "load"
  /\ \E seen \in {Entries, {}} : Proceed(c, seen \cap old)
  /\ UNCHANGED <<fileVars, io, runVars, holder, histVars>>

\* delete_checkpoint(): the file, then its entry; without a file there is nothing
\* to do.
Unlink(c) ==
  /\ at[c] = "unlink"
  /\ LET k == job[c].id IN
     \/ /\ disk[k].kind # "absent"
        /\ disk' = [disk EXCEPT ![k] = Absent]
        /\ removed' = removed \cup {k}
        /\ Move(c, "lock") /\ UNCHANGED job
     \/ Proceed(c, job[c].todo) /\ UNCHANGED <<disk, removed>>
  /\ UNCHANGED <<temp, io, runVars, holder, acked, doubled, spoiled>>

\* Faulty variant: each call has a lock of its own.
AcquireOwn(c) ==
  /\ at[c] = "lock"
  /\ Move(c, "read")
  /\ UNCHANGED <<fileVars, job, io, runVars, holder, histVars>>

Acquire(c) ==
  /\ at[c] = "lock" /\ holder[job[c].run] = {}
  /\ holder' = [holder EXCEPT ![job[c].run] = {c}]
  /\ Move(c, "read")
  /\ UNCHANGED <<fileVars, job, io, runVars, histVars>>

\* What _update_index_add() and _update_index_remove() make of the entries.
Updated(c, entries) ==
  IF job[c].op = "save" THEN entries \cup {job[c].id} ELSE entries \ {job[c].id}

\* An index that cannot be read or parsed is taken for none: a save begins a new one.
ReadIndex(c) ==
  /\ at[c] = "read"
  /\ \/ /\ Readable \/ (job[c].op = "save" /\ disk[Index] = Absent)
        /\ Move(c, "index") /\ job' = [job EXCEPT ![c].data = Updated(c, Entries)]
        /\ UNCHANGED <<holder, spoiled>>
     \/ /\ job[c].op = "save" /\ disk[Index] # Absent
        /\ Move(c, "index") /\ job' = [job EXCEPT ![c].data = Updated(c, {})]
        /\ spoiled' = TRUE /\ UNCHANGED holder
     \/ /\ job[c].op = "prune"
        /\ Proceed(c, job[c].todo) /\ Release(c) /\ UNCHANGED spoiled
  /\ UNCHANGED <<fileVars, io, runVars, acked, removed, doubled>>

-----------------------------------------------------------------------------
(* atomic_write(), in a thread.                                            *)

Writing(c) == at[c] \in {"file", "index"}

Target(c) == IF at[c] = "file" THEN job[c].id ELSE Index

Content(c) == IF at[c] = "file" THEN Whole({}) ELSE Whole(job[c].data)

\* open(tmp_path, "w") creates the file or empties it, whoever has it open.
Open(c) ==
  /\ Writing(c) /\ io[c].stage = "open"
  /\ temp' = [temp EXCEPT ![Target(c)] = Empty]
  /\ io' = [io EXCEPT ![c] = [stage |-> "write", into |-> "temp"]]
  /\ UNCHANGED <<disk, at, job, runVars, holder, histVars>>

\* Other threads that have opened what c has opened.
Sharing(c) == \E d \in Calls \ {c} : Writing(d) /\ Target(d) = Target(c) /\ io[d].into = io[c].into

\* What a file holds that had v when c writes to it.
Written(c, v) == IF v = Empty /\ ~Sharing(c) THEN {Content(c)} ELSE {Content(c), Torn}

Write(c) ==
  /\ Writing(c) /\ io[c].stage = "write"
  /\ \/ /\ io[c].into = "temp" /\ UNCHANGED disk
        /\ \E v \in Written(c, temp[Target(c)]) : temp' = [temp EXCEPT ![Target(c)] = v]
     \/ /\ io[c].into = "disk" /\ UNCHANGED temp
        /\ \E v \in Written(c, disk[Target(c)]) : disk' = [disk EXCEPT ![Target(c)] = v]
     \/ io[c].into = "gone" /\ UNCHANGED fileVars
  /\ io' = [io EXCEPT ![c].stage = "replace"]
  /\ UNCHANGED <<at, job, runVars, holder, histVars>>

\* Threads other than c that write file f find what they opened elsewhere.
Moved(c, f, place) ==
  [d \in Calls |-> IF d = c THEN Fresh
                   ELSE IF Writing(d) /\ Target(d) = f /\ io[d].into \in DOMAIN place
                   THEN [io[d] EXCEPT !.into = place[io[d].into]] ELSE io[d]]

\* What follows a write that has succeeded.  A call that was left has nobody to go on.
AfterWrite(c) ==
  IF at[c] = "file"
  THEN /\ Move(c, IF job[c].left THEN "done" ELSE "lock") /\ UNCHANGED <<job, holder, acked>>
  ELSE /\ Release(c)
       /\ IF job[c].op = "save" \/ job[c].left THEN Move(c, "done") /\ UNCHANGED job
                                               ELSE Proceed(c, job[c].todo)
       /\ acked' = IF job[c].op = "save" /\ ~job[c].left THEN acked \cup {job[c].id} ELSE acked

\* tmp_path.replace(path): whatever has the temporary name now gets the file's.
Replace(c) ==
  /\ Writing(c) /\ io[c].stage = "replace"
  /\ temp[Target(c)] # Absent
  /\ disk' = [disk EXCEPT ![Target(c)] = temp[Target(c)]]
  /\ temp' = [temp EXCEPT ![Target(c)] = Absent]
  /\ io' = Moved(c, Target(c), [temp |-> "disk", disk |-> "gone"])
  /\ AfterWrite(c)
  /\ UNCHANGED <<runVars, removed, doubled, spoiled>>

\* Faulty variant: a failed write goes unnoticed, and the index is updated.
FailsQuietly(c) ==
  /\ at[c] = "file"
  /\ temp' = [temp EXCEPT ![Target(c)] = Absent]
  /\ io' = Moved(c, Target(c), [temp |-> "gone"])
  /\ Move(c, "lock")
  /\ UNCHANGED <<disk, job, runVars, holder, histVars>>

\* Any of these fails, if only because the temporary file has gone: it is unlinked,
\* and the call raises.
Fails(c) ==
  /\ Writing(c)
  /\ temp' = [temp EXCEPT ![Target(c)] = Absent]
  /\ io' = Moved(c, Target(c), [temp |-> "gone"])
  /\ Move(c, "done") /\ Release(c)
  /\ UNCHANGED <<disk, job, runVars, histVars>>

-----------------------------------------------------------------------------
(* Runs.                                                                   *)

\* The execution is cancelled while it awaits a save: the lock is released, and a
\* thread that has begun to write goes on.
Abandon(c) ==
  /\ Waiting(c)
  /\ job' = [job EXCEPT ![c].left = TRUE]
  /\ \E started \in {TRUE, io[c].stage # "open"} :
       at' = [at EXCEPT ![c] = IF Writing(c) /\ started THEN @ ELSE "done"]
  /\ Release(c)
  /\ alive' = FALSE
  /\ spoiled' = (spoiled \/ (at[c] = "index" /\ \E d \in Calls \ {c} : Pending(d)))
  /\ UNCHANGED <<fileVars, io, run, old, acked, removed, doubled>>

\* The run is over, and the session is resurrected or resumed.
NextRun ==
  /\ run < MaxRuns /\ \A c \in Calls : ~Waiting(c)
  /\ run' = run + 1 /\ alive' = TRUE
  /\ spoiled' = (spoiled \/ \E c \in Calls : Pending(c))
  /\ UNCHANGED <<fileVars, callVars, old, holder, acked, removed, doubled>>

\* The process dies; files stay, temporary ones included.
Crash ==
  /\ at' = [c \in Calls |-> IF Pending(c) THEN "done" ELSE at[c]]
  /\ io' = [c \in Calls |-> Fresh]
  /\ holder' = [r \in 1..MaxRuns |-> {}]
  /\ alive' = FALSE
  /\ UNCHANGED <<fileVars, job, run, old, histVars>>

\* Days pass.
Age(k) ==
  /\ k \notin old /\ \A c \in Calls : ~Pending(c)
  /\ old' = old \cup {k}
  /\ UNCHANGED <<fileVars, callVars, run, alive, holder, histVars>>

CallStep(c) ==
  \/ Loaded(c) \/ Unlink(c) \/ Acquire(c) \/ ReadIndex(c)
  \/ Open(c) \/ Write(c) \/ Replace(c) \/ Fails(c)

Next ==
  \/ \E c \in Calls : \/ \E k \in Ids, awaited \in BOOLEAN : Save(c, k, awaited)
                      \/ Prune(c) \/ CallStep(c) \/ Abandon(c)
  \/ \E k \in Ids : Age(k)
  \/ NextRun \/ Crash

Spec == Init /\ [][Next]_vars

-----------------------------------------------------------------------------
(* Properties.                                                             *)

\* The step leaves the index alone, or replaces it by what a call makes of what is in it.
Follows ==
  \/ spoiled
  \/ disk'[Index] = disk[Index]
  \/ \E c \in Calls : /\ at[c] = "index" /\ at'[c] # "index"
                      /\ disk'[Index] = Whole(Updated(c, Entries))

\* A replacement of the index is as good as reading, changing and replacing it in one
\* step, whatever other calls have done since it was read ("with lock to prevent
\* concurrent modifications"): no entry gets lost, and none that was taken out comes
\* back.  The lock of one store does not keep out the calls of another run, nor a
\* thread whose coroutine was cancelled.
IndexFollows == [][Follows]_vars

\* A checkpoint whose save has returned is found again, after a crash as well: the
\* index has it, and what the index has can be loaded.  Not so checkpoints that were
\* pruned, whose files go first; ids that two saves shared; and, for the index, one
\* that was spoiled.
Restorable ==
  /\ \A k \in Entries \ (removed \cup doubled) : disk[k].kind = "whole"
  /\ spoiled \/ acked \subseteq Entries \cup removed
=============================================================================
