----------------------- MODULE CheckpointStoreProofs -----------------------
(***************************************************************************)
(* Proofs about CheckpointStore: under the lock the index is read, changed *)
(* and replaced as in one step, and what it names can be loaded.           *)
(***************************************************************************)
EXTENDS CheckpointStore, TLAPS

----------------------------------------------------------------------------
(* Types, and what a call is at work on.                                   *)

Types ==
  /\ disk \in [Files -> Value] /\ temp \in [Files -> Value]
  /\ at \in [Calls -> Locations]
  /\ job \in [Calls -> Job]
  /\ io \in [Calls -> [stage : Stages, into : Places]]
  /\ run \in 1..MaxRuns /\ alive \in BOOLEAN
  /\ holder \in [1..MaxRuns -> SUBSET Calls]
  /\ old \subseteq Ids /\ acked \subseteq Ids /\ removed \subseteq old /\ doubled \subseteq Ids
  /\ spoiled \in BOOLEAN

\* A save has an id to save, a pruning deletes what is old, and changes the index only
\* after it has deleted the file.
Working ==
  /\ \A c \in Calls : job[c].todo \subseteq old
  /\ \A c \in Calls : at[c] = "file" => job[c].op = "save" /\ job[c].id \in Ids
  /\ \A c \in Calls : at[c] = "load" => job[c].op = "prune"
  /\ \A c \in Calls : at[c] = "unlink" => job[c].op = "prune" /\ job[c].id \in old
  /\ \A c \in Calls : at[c] \in {"lock", "read", "index"} =>
       job[c].id \in Ids /\ (job[c].op = "prune" => job[c].id \in removed)
  /\ \A c \in Calls : Pending(c) => job[c].run \in 1..run
  /\ \A c \in Calls : at[c] \notin {"file", "index", "done"} => io[c] = Fresh

TypeInv == Types /\ Working

\* What the history remembers is not forgotten.
LEMMA HistoryGrows ==
  ASSUME [Next]_vars
  PROVE  /\ spoiled => spoiled'
         /\ removed \subseteq removed' /\ doubled \subseteq doubled'
<1>1. ASSUME UNCHANGED <<removed, doubled, spoiled>>
      PROVE  (spoiled => spoiled') /\ removed \subseteq removed' /\ doubled \subseteq doubled'
  BY <1>1
<1>2. ASSUME NEW c \in Calls, Prune(c) \/ Loaded(c) \/ Acquire(c) \/ Open(c) \/ Write(c)
      PROVE  UNCHANGED <<removed, doubled, spoiled>>
  BY <1>2 DEF Prune, Loaded, Acquire, Open, Write, histVars
<1>3. ASSUME NEW c \in Calls, Replace(c) \/ Fails(c) PROVE UNCHANGED <<removed, doubled, spoiled>>
  BY <1>3 DEF Replace, Fails, histVars
<1>4. ASSUME NEW k \in Ids, Age(k) PROVE UNCHANGED <<removed, doubled, spoiled>>
  BY <1>4 DEF Age, histVars
<1>5. ASSUME UNCHANGED vars \/ Crash PROVE UNCHANGED <<removed, doubled, spoiled>>
  BY <1>5 DEF Crash, vars, histVars
<1>6. ASSUME NEW c \in Calls, NEW k \in Ids, NEW awaited \in BOOLEAN, Save(c, k, awaited)
      PROVE  UNCHANGED <<removed, spoiled>> /\ doubled \subseteq doubled'
  BY <1>6 DEF Save
<1>7. ASSUME NEW c \in Calls, Unlink(c) PROVE UNCHANGED <<doubled, spoiled>> /\ removed \subseteq removed'
  BY <1>7 DEF Unlink
<1>8. ASSUME NEW c \in Calls, ReadIndex(c) \/ Abandon(c)
      PROVE  UNCHANGED <<removed, doubled>> /\ (spoiled => spoiled')
  <2>1. UNCHANGED <<removed, doubled>>
    BY <1>8 DEF ReadIndex, Abandon
  <2>2. CASE Abandon(c)
    <3>1. spoiled' = (spoiled \/ (at[c] = "index" /\ \E d \in Calls \ {c} : Pending(d)))
      BY <2>2 DEF Abandon
    <3> QED BY <2>1, <3>1
  <2>3. CASE ReadIndex(c)
    <3>1. spoiled' = spoiled \/ spoiled' = TRUE
      BY <2>3 DEF ReadIndex
    <3> QED BY <2>1, <3>1
  <2> QED BY <1>8, <2>2, <2>3
<1>9. ASSUME NextRun PROVE UNCHANGED <<removed, doubled>> /\ (spoiled => spoiled')
  BY <1>9 DEF NextRun
<1>10. ASSUME NEW c \in Calls, CallStep(c)
       PROVE  (spoiled => spoiled') /\ removed \subseteq removed' /\ doubled \subseteq doubled'
  BY <1>1, <1>2, <1>3, <1>7, <1>8, <1>10 DEF CallStep
<1> QED BY <1>1, <1>2, <1>4, <1>5, <1>6, <1>8, <1>9, <1>10 DEF Next

LEMMA StoreConstants == Index \notin Ids /\ MaxRuns \in Nat \ {0}
BY StoreAssumption

LEMMA Values ==
  ASSUME NEW ids \in SUBSET Ids
  PROVE  Absent \in Value /\ Empty \in Value /\ Torn \in Value /\ Whole(ids) \in Value
         /\ Absent # Whole(ids) /\ Empty # Whole(ids) /\ Torn # Whole(ids) /\ Empty # Absent
         /\ Whole(ids).ids = ids /\ Whole(ids).kind = "whole" /\ Absent.ids = {}
BY DEF Absent, Empty, Torn, Whole, Value

LEMMA FreshType == Fresh \in [stage : Stages, into : Places] /\ Fresh.stage = "open" /\ Fresh.into = "none"
BY DEF Fresh, Stages, Places

LEMMA EntriesType == ASSUME Types PROVE Entries \subseteq Ids
BY DEF Types, Entries, Files, Value

\* The calls other than c stay where they are.
Others(c) == \A d \in Calls \ {c} : at'[d] = at[d] /\ job'[d] = job[d]

\* What a job keeps whatever its call does.
Kept(c) == /\ job'[c].op = job[c].op /\ job'[c].run = job[c].run
           /\ job'[c].awaited = job[c].awaited /\ job'[c].left = job[c].left

LEMMA MoveFacts ==
  ASSUME Types, NEW c \in Calls, NEW to \in Locations, Move(c, to)
  PROVE  at' \in [Calls -> Locations] /\ at'[c] = to /\ \A d \in Calls \ {c} : at'[d] = at[d]
BY DEF Types, Move

LEMMA ProceedFacts ==
  ASSUME Types, NEW c \in Calls, NEW todo \in SUBSET old, Proceed(c, todo)
  PROVE  /\ at' \in [Calls -> Locations] /\ job' \in [Calls -> Job]
         /\ Others(c) /\ Kept(c)
         /\ job'[c].todo \subseteq todo
         /\ at'[c] = "done" \/ (at'[c] = "unlink" /\ job'[c].id \in todo)
<1>1. todo \subseteq Ids /\ {"done", "unlink"} \subseteq Locations
  BY DEF Types, Locations
<1>2. CASE todo = {} /\ Move(c, "done") /\ job' = [job EXCEPT ![c].todo = {}]
  <2> DEFINE j == [job[c] EXCEPT !.todo = {}]
  <2>0. job[c] \in Job
    BY DEF Types
  <2>1. j \in Job /\ j.op = job[c].op /\ j.run = job[c].run /\ j.awaited = job[c].awaited
        /\ j.left = job[c].left /\ j.todo = {}
    BY <2>0 DEF Job
  <2>2. job' = [job EXCEPT ![c] = j]
    BY <1>2
  <2> HIDE DEF j
  <2>3. job' \in [Calls -> Job] /\ job'[c] = j /\ \A d \in Calls \ {c} : job'[d] = job[d]
    BY <2>1, <2>2 DEF Types
  <2> QED BY <1>1, <1>2, <2>1, <2>3, MoveFacts DEF Others, Kept
<1>3. ASSUME NEW k \in todo, Move(c, "unlink"), job' = [job EXCEPT ![c].todo = todo \ {k}, ![c].id = k]
      PROVE  /\ at' \in [Calls -> Locations] /\ job' \in [Calls -> Job]
             /\ Others(c) /\ Kept(c)
             /\ job'[c].todo \subseteq todo
             /\ at'[c] = "unlink" /\ job'[c].id \in todo
  <2> DEFINE j == [job[c] EXCEPT !.todo = todo \ {k}, !.id = k]
  <2>0. job[c] \in Job /\ k \in Ids /\ todo \ {k} \subseteq Ids
    BY <1>1 DEF Types
  <2>1. j \in Job /\ j.op = job[c].op /\ j.run = job[c].run /\ j.awaited = job[c].awaited
        /\ j.left = job[c].left /\ j.todo = todo \ {k} /\ j.id = k
    BY <2>0 DEF Job
  <2>2. job' = [job EXCEPT ![c] = j]
    BY <1>3
  <2> HIDE DEF j
  <2>3. job' \in [Calls -> Job] /\ job'[c] = j /\ \A d \in Calls \ {c} : job'[d] = job[d]
    BY <2>1, <2>2 DEF Types
  <2> QED BY <1>1, <1>3, <2>1, <2>3, MoveFacts DEF Others, Kept
<1> QED BY <1>2, <1>3 DEF Proceed

LEMMA NewJob ==
  ASSUME Types, NEW c \in Calls, NEW j \in Job, job' = [job EXCEPT ![c] = j]
  PROVE  job' \in [Calls -> Job] /\ job'[c] = j /\ \A d \in Calls \ {c} : job'[d] = job[d]
BY DEF Types

LEMMA ReleaseFacts ==
  ASSUME Types, NEW c, Release(c)
  PROVE  /\ holder' \in [1..MaxRuns -> SUBSET Calls]
         /\ \A r \in 1..MaxRuns : holder'[r] = holder[r] \ {c}
BY DEF Types, Release

LEMMA MovedFacts ==
  ASSUME Types, NEW c \in Calls, NEW f, NEW place,
         \A p \in DOMAIN place : place[p] \in Places, io' = Moved(c, f, place)
  PROVE  /\ io' \in [Calls -> [stage : Stages, into : Places]]
         /\ io'[c] = Fresh
         /\ \A d \in Calls \ {c} : ~(Writing(d) /\ Target(d) = f) => io'[d] = io[d]
BY FreshType DEF Types, Moved

LEMMA InitTypes == ASSUME Init PROVE TypeInv
<1>1. NoJob \in Job /\ NoJob.todo = {}
  BY StoreConstants DEF NoJob, Job
<1>2. Absent \in Value /\ 1 \in 1..MaxRuns
  BY StoreConstants DEF Absent, Value
<1>4. Types
  BY <1>1, <1>2, FreshType DEF Init, Types, Locations
<1>3. Working
  BY <1>1 DEF Init, Working, Pending, Writing
<1> QED BY <1>4, <1>3 DEF TypeInv

LEMMA SaveTypes ==
  ASSUME TypeInv, NEW c \in Calls, NEW k \in Ids, NEW awaited \in BOOLEAN, Save(c, k, awaited)
  PROVE  /\ TypeInv' /\ Others(c) /\ at[c] = "unused" /\ at'[c] = "file"
         /\ job'[c].id = k /\ job'[c].run = run /\ ~job'[c].left /\ job'[c].op = "save"
<1> DEFINE j == [NoJob EXCEPT !.id = k, !.run = run, !.awaited = awaited]
<1>0. run \in 0..MaxRuns /\ run \in 1..run
  BY StoreConstants DEF TypeInv, Types
<1>1. j \in Job /\ j.op = "save" /\ j.id = k /\ j.run = run /\ ~j.left /\ j.todo = {}
  BY <1>0 DEF NoJob, Job
<1>2. job' = [job EXCEPT ![c] = j]
  BY DEF Save
<1> HIDE DEF j
<1>3. job' \in [Calls -> Job] /\ job'[c] = j /\ \A d \in Calls \ {c} : job'[d] = job[d]
  BY <1>1, <1>2, NewJob DEF TypeInv
<1>4. at' \in [Calls -> Locations] /\ at'[c] = "file" /\ at[c] = "unused" /\ \A d \in Calls \ {c} : at'[d] = at[d]
  BY MoveFacts DEF Save, MayBegin, TypeInv, Locations
<1>5. Types'
  BY <1>3, <1>4 DEF Save, TypeInv, Types, fileVars, runVars
<1>6. Working'
  <2>1. UNCHANGED <<io, run, old, removed>>
    BY DEF Save, runVars
  <2>2. io[c] = Fresh
    BY <1>4 DEF TypeInv, Working
  <2>3. /\ \A d \in Calls : job'[d].todo \subseteq old
        /\ \A d \in Calls : at'[d] = "file" => job'[d].op = "save" /\ job'[d].id \in Ids
        /\ \A d \in Calls : at'[d] = "load" => job'[d].op = "prune"
    BY <1>1, <1>3, <1>4 DEF TypeInv, Working
  <2>4. /\ \A d \in Calls : at'[d] = "unlink" => job'[d].op = "prune" /\ job'[d].id \in old
        /\ \A d \in Calls : at'[d] \in {"lock", "read", "index"} =>
             job'[d].id \in Ids /\ (job'[d].op = "prune" => job'[d].id \in removed)
    BY <1>3, <1>4 DEF TypeInv, Working
  <2>5. \A d \in Calls : Pending(d)' => job'[d].run \in 1..run
    BY <1>0, <1>1, <1>3, <1>4 DEF TypeInv, Working, Pending
  <2>6. \A d \in Calls : at'[d] \notin {"file", "index", "done"} => io[d] = Fresh
    BY <1>4, <2>2 DEF TypeInv, Working
  <2> QED BY <2>1, <2>3, <2>4, <2>5, <2>6 DEF Working
<1> QED BY <1>1, <1>3, <1>4, <1>5, <1>6 DEF TypeInv, Others

LEMMA PruneTypes ==
  ASSUME TypeInv, NEW c \in Calls, Prune(c)
  PROVE  /\ TypeInv' /\ Others(c) /\ at[c] = "unused" /\ at'[c] = "load"
         /\ job'[c].run = run /\ ~job'[c].left
<1> DEFINE j == [NoJob EXCEPT !.op = "prune", !.run = run]
<1>0. run \in 0..MaxRuns /\ run \in 1..run
  BY StoreConstants DEF TypeInv, Types
<1>1. j \in Job /\ j.op = "prune" /\ j.run = run /\ ~j.left /\ j.todo = {}
  BY <1>0 DEF NoJob, Job
<1>2. job' = [job EXCEPT ![c] = j]
  BY DEF Prune
<1> HIDE DEF j
<1>3. job' \in [Calls -> Job] /\ job'[c] = j /\ \A d \in Calls \ {c} : job'[d] = job[d]
  BY <1>1, <1>2, NewJob DEF TypeInv
<1>4. at' \in [Calls -> Locations] /\ at'[c] = "load" /\ at[c] = "unused" /\ \A d \in Calls \ {c} : at'[d] = at[d]
  BY MoveFacts DEF Prune, MayBegin, TypeInv, Locations
<1>5. Types'
  BY <1>3, <1>4 DEF Prune, TypeInv, Types, fileVars, runVars, histVars
<1>6. Working'
  <2>1. UNCHANGED <<io, run, old, removed>>
    BY DEF Prune, runVars, histVars
  <2>2. io[c] = Fresh
    BY <1>4 DEF TypeInv, Working
  <2>3. /\ \A d \in Calls : job'[d].todo \subseteq old
        /\ \A d \in Calls : at'[d] = "file" => job'[d].op = "save" /\ job'[d].id \in Ids
        /\ \A d \in Calls : at'[d] = "load" => job'[d].op = "prune"
    BY <1>1, <1>3, <1>4 DEF TypeInv, Working
  <2>4. /\ \A d \in Calls : at'[d] = "unlink" => job'[d].op = "prune" /\ job'[d].id \in old
        /\ \A d \in Calls : at'[d] \in {"lock", "read", "index"} =>
             job'[d].id \in Ids /\ (job'[d].op = "prune" => job'[d].id \in removed)
    BY <1>3, <1>4 DEF TypeInv, Working
  <2>5. \A d \in Calls : Pending(d)' => job'[d].run \in 1..run
    BY <1>0, <1>1, <1>3, <1>4 DEF TypeInv, Working, Pending
  <2>6. \A d \in Calls : at'[d] \notin {"file", "index", "done"} => io[d] = Fresh
    BY <1>4, <2>2 DEF TypeInv, Working
  <2> QED BY <2>1, <2>3, <2>4, <2>5, <2>6 DEF Working
<1> QED BY <1>1, <1>3, <1>4, <1>5, <1>6 DEF TypeInv, Others

\* A call that goes on with the next deletion, or is done.
LEMMA ProceedWorking ==
  ASSUME TypeInv, NEW c \in Calls, NEW todo \in SUBSET old, Proceed(c, todo),
         job[c].op = "prune", Pending(c), UNCHANGED <<run, old>>, removed \subseteq removed',
         \A d \in Calls \ {c} : io'[d] = io[d],
         io'[c] = Fresh
  PROVE  Working'
<1>1. /\ at' \in [Calls -> Locations] /\ Others(c) /\ Kept(c) /\ job'[c].todo \subseteq todo
      /\ at'[c] = "done" \/ (at'[c] = "unlink" /\ job'[c].id \in todo)
  BY ProceedFacts DEF TypeInv
<1> QED BY <1>1 DEF TypeInv, Working, Others, Kept, Pending, Writing

LEMMA LoadedTypes ==
  ASSUME TypeInv, NEW c \in Calls, Loaded(c)
  PROVE  TypeInv' /\ Others(c) /\ Kept(c) /\ at'[c] \in {"done", "unlink"}
<1>1. PICK seen \in {Entries, {}} : Proceed(c, seen \cap old)
  BY DEF Loaded
<1>2. /\ at' \in [Calls -> Locations] /\ job' \in [Calls -> Job] /\ Others(c) /\ Kept(c)
      /\ at'[c] \in {"done", "unlink"}
  BY <1>1, ProceedFacts DEF TypeInv
<1>3. io[c] = Fresh /\ job[c].op = "prune" /\ Pending(c)
  BY DEF Loaded, TypeInv, Working, Writing, Pending
<1>4. Working'
  BY <1>1, <1>3, ProceedWorking DEF Loaded, runVars, histVars
<1>5. Types'
  BY <1>2 DEF Loaded, TypeInv, Types, fileVars, runVars, histVars
<1> QED BY <1>2, <1>4, <1>5 DEF TypeInv

LEMMA UnlinkTypes ==
  ASSUME TypeInv, NEW c \in Calls, Unlink(c)
  PROVE  TypeInv' /\ Others(c) /\ Kept(c) /\ at'[c] \in {"done", "unlink", "lock"}
<1> DEFINE k == job[c].id
<1>1. k \in old /\ k \in Ids /\ job[c].op = "prune" /\ Pending(c) /\ io[c] = Fresh /\ job[c].todo \subseteq old
  BY DEF Unlink, TypeInv, Types, Working, Pending, Writing
<1>2. CASE Proceed(c, job[c].todo) /\ UNCHANGED <<disk, removed>>
  <2>1. /\ at' \in [Calls -> Locations] /\ job' \in [Calls -> Job] /\ Others(c) /\ Kept(c)
        /\ at'[c] \in {"done", "unlink"}
    BY <1>1, <1>2, ProceedFacts DEF TypeInv
  <2>2. Working'
    BY <1>1, <1>2, ProceedWorking DEF Unlink, runVars
  <2>3. Types'
    BY <1>2, <2>1 DEF Unlink, TypeInv, Types, runVars
  <2> QED BY <2>1, <2>2, <2>3 DEF TypeInv
<1>3. CASE disk' = [disk EXCEPT ![k] = Absent] /\ removed' = removed \cup {k} /\ Move(c, "lock") /\ UNCHANGED job
  <2>1. at' \in [Calls -> Locations] /\ at'[c] = "lock" /\ \A d \in Calls \ {c} : at'[d] = at[d]
    BY <1>3, MoveFacts DEF TypeInv, Locations
  <2>2. Absent \in Value
    BY DEF Absent, Value
  <2>3. Types'
    BY <1>1, <1>3, <2>1, <2>2 DEF Unlink, TypeInv, Types, runVars
  <2>4. Working'
    BY <1>1, <1>3, <2>1 DEF Unlink, TypeInv, Working, Pending, Writing, runVars
  <2> QED BY <1>3, <2>1, <2>3, <2>4 DEF TypeInv, Others, Kept
<1> QED BY <1>2, <1>3 DEF Unlink

LEMMA AcquireTypes ==
  ASSUME TypeInv, NEW c \in Calls, Acquire(c)
  PROVE  TypeInv' /\ job' = job /\ at'[c] = "read" /\ \A d \in Calls \ {c} : at'[d] = at[d]
<1>1. at' \in [Calls -> Locations] /\ at'[c] = "read" /\ \A d \in Calls \ {c} : at'[d] = at[d]
  BY MoveFacts DEF Acquire, TypeInv, Locations
<1>2. Types'
  BY <1>1 DEF Acquire, TypeInv, Types, fileVars, runVars, histVars
<1>3. Working'
  BY <1>1 DEF Acquire, TypeInv, Working, Pending, Writing, fileVars, runVars, histVars
<1> QED BY <1>1, <1>2, <1>3 DEF Acquire, TypeInv

LEMMA UpdatedType ==
  ASSUME TypeInv, NEW c \in Calls, at[c] \in {"read", "index"}, NEW ids \in SUBSET Ids
  PROVE  Updated(c, ids) \subseteq Ids
BY DEF TypeInv, Working, Updated

\* The call goes on to write what it has made of the index.
LEMMA ReadTypes ==
  ASSUME TypeInv, NEW c \in Calls, NEW ids \in SUBSET Ids, at[c] = "read",
         Move(c, "index"), job' = [job EXCEPT ![c].data = Updated(c, ids)],
         UNCHANGED <<fileVars, io, runVars, acked, removed, doubled, holder>>, spoiled' \in BOOLEAN
  PROVE  TypeInv' /\ Others(c) /\ Kept(c) /\ at'[c] = "index" /\ job'[c].id = job[c].id
         /\ job'[c].data = Updated(c, ids)
<1> DEFINE j == [job[c] EXCEPT !.data = Updated(c, ids)]
<1>0. job[c] \in Job /\ Updated(c, ids) \subseteq Ids
  BY UpdatedType DEF TypeInv, Types
<1>1. /\ j \in Job /\ j.op = job[c].op /\ j.id = job[c].id /\ j.run = job[c].run
      /\ j.awaited = job[c].awaited /\ j.left = job[c].left /\ j.todo = job[c].todo
      /\ j.data = Updated(c, ids)
  BY <1>0 DEF Job
<1>2. job' = [job EXCEPT ![c] = j]
  OBVIOUS
<1> HIDE DEF j
<1>3. job' \in [Calls -> Job] /\ job'[c] = j /\ \A d \in Calls \ {c} : job'[d] = job[d]
  BY <1>1, <1>2, NewJob DEF TypeInv
<1>4. at' \in [Calls -> Locations] /\ at'[c] = "index" /\ \A d \in Calls \ {c} : at'[d] = at[d]
  BY MoveFacts DEF TypeInv, Locations
<1>5. Types'
  BY <1>3, <1>4 DEF TypeInv, Types, fileVars, runVars
<1>6. Working'
  BY <1>1, <1>3, <1>4 DEF TypeInv, Working, Pending, Writing, fileVars, runVars
<1> QED BY <1>1, <1>3, <1>4, <1>5, <1>6 DEF TypeInv, Others, Kept

LEMMA ReadIndexTypes ==
  ASSUME TypeInv, NEW c \in Calls, ReadIndex(c)
  PROVE  TypeInv' /\ Others(c) /\ Kept(c) /\ at'[c] \in {"index", "done", "unlink"}
<1>1. Entries \subseteq Ids /\ {} \subseteq Ids /\ spoiled \in BOOLEAN /\ TRUE \in BOOLEAN
  BY EntriesType DEF TypeInv, Types
<1>2. CASE Move(c, "index") /\ job' = [job EXCEPT ![c].data = Updated(c, Entries)] /\ UNCHANGED <<holder, spoiled>>
  BY <1>1, <1>2, ReadTypes DEF ReadIndex
<1>3. CASE Move(c, "index") /\ job' = [job EXCEPT ![c].data = Updated(c, {})] /\ spoiled' = TRUE /\ UNCHANGED holder
  <2>1. spoiled' \in BOOLEAN /\ {} \in SUBSET Ids /\ at[c] = "read"
    BY <1>3 DEF ReadIndex
  <2>2. UNCHANGED <<fileVars, io, runVars, acked, removed, doubled, holder>>
    BY <1>3 DEF ReadIndex
  <2> QED BY <1>3, <2>1, <2>2, ReadTypes
<1>4. CASE job[c].op = "prune" /\ Proceed(c, job[c].todo) /\ Release(c) /\ UNCHANGED spoiled
  <2>1. io[c] = Fresh /\ Pending(c) /\ job[c].todo \subseteq old
    BY DEF ReadIndex, TypeInv, Working, Writing, Pending
  <2>2. /\ at' \in [Calls -> Locations] /\ job' \in [Calls -> Job] /\ Others(c) /\ Kept(c)
        /\ at'[c] \in {"done", "unlink"}
    BY <1>4, <2>1, ProceedFacts DEF TypeInv
  <2>3. Working'
    BY <1>4, <2>1, ProceedWorking DEF ReadIndex, runVars
  <2>4. holder' \in [1..MaxRuns -> SUBSET Calls]
    BY <1>4, ReleaseFacts DEF TypeInv
  <2>5. Types'
    BY <1>4, <2>2, <2>4 DEF ReadIndex, TypeInv, Types, fileVars, runVars
  <2> QED BY <2>2, <2>3, <2>5 DEF TypeInv
<1> QED BY <1>2, <1>3, <1>4 DEF ReadIndex

LEMMA TargetType ==
  ASSUME TypeInv, NEW c \in Calls, Writing(c)
  PROVE  /\ Target(c) \in Files /\ Content(c) \in Value
         /\ at[c] = "file" => Target(c) = job[c].id /\ Target(c) \in Ids /\ Target(c) # Index
         /\ at[c] = "index" => Target(c) = Index
<1>1. job[c].data \subseteq Ids /\ (at[c] = "file" => job[c].id \in Ids)
  BY DEF TypeInv, Types, Job, Working
<1>2. Whole({}) \in Value /\ Whole(job[c].data) \in Value
  BY <1>1, Values
<1> QED BY <1>1, <1>2, StoreConstants DEF Writing, Target, Content, Files

LEMMA OpenTypes ==
  ASSUME TypeInv, NEW c \in Calls, Open(c)
  PROVE  /\ TypeInv' /\ UNCHANGED <<disk, at, job>>
         /\ temp'[Target(c)] = Empty /\ \A f \in Files \ {Target(c)} : temp'[f] = temp[f]
         /\ io'[c] = [stage |-> "write", into |-> "temp"] /\ \A d \in Calls \ {c} : io'[d] = io[d]
<1>1. Target(c) \in Files /\ Empty \in Value /\ Writing(c)
  BY TargetType, Values DEF Open
<1>2. /\ temp' \in [Files -> Value] /\ temp'[Target(c)] = Empty
      /\ \A f \in Files \ {Target(c)} : temp'[f] = temp[f]
  BY <1>1 DEF Open, TypeInv, Types
<1> DEFINE i == [stage |-> "write", into |-> "temp"]
<1>3. i \in [stage : Stages, into : Places]
  BY DEF Stages, Places
<1>4. io' = [io EXCEPT ![c] = i]
  BY DEF Open
<1>4a. io' \in [Calls -> [stage : Stages, into : Places]] /\ io'[c] = i /\ \A d \in Calls \ {c} : io'[d] = io[d]
  BY <1>3, <1>4 DEF TypeInv, Types
<1> HIDE DEF i
<1>5. Types'
  BY <1>2, <1>4a DEF Open, TypeInv, Types, runVars, histVars
<1>6. Working'
  BY <1>1, <1>4a DEF Open, TypeInv, Working, Pending, Writing, runVars, histVars
<1> QED BY <1>2, <1>4a, <1>5, <1>6 DEF Open, TypeInv, i

LEMMA WrittenType ==
  ASSUME TypeInv, NEW c \in Calls, Writing(c), NEW v, NEW w \in Written(c, v)
  PROVE  w \in Value /\ w \in {Content(c), Torn} /\ (v = Empty /\ ~Sharing(c) => w = Content(c))
<1>1. Content(c) \in Value /\ Torn \in Value
  BY TargetType, Values
<1> QED BY <1>1 DEF Written

LEMMA WriteTypes ==
  ASSUME TypeInv, NEW c \in Calls, Write(c)
  PROVE  /\ TypeInv' /\ UNCHANGED <<at, job>>
         /\ \A f \in Files \ {Target(c)} : temp'[f] = temp[f] /\ disk'[f] = disk[f]
         /\ io[c].into = "temp" => /\ disk' = disk
                                   /\ temp'[Target(c)] \in Written(c, temp[Target(c)])
         /\ io[c].into = "disk" => /\ temp' = temp
                                   /\ disk'[Target(c)] \in Written(c, disk[Target(c)])
         /\ io[c].into \notin {"temp", "disk"} => UNCHANGED fileVars
         /\ io'[c].stage = "replace" /\ io'[c].into = io[c].into
         /\ \A d \in Calls \ {c} : io'[d] = io[d]
<1>1. Target(c) \in Files /\ Writing(c)
  BY TargetType DEF Write
<1>2. /\ temp' \in [Files -> Value] /\ disk' \in [Files -> Value]
      /\ \A f \in Files \ {Target(c)} : temp'[f] = temp[f] /\ disk'[f] = disk[f]
      /\ io[c].into = "temp" => disk' = disk /\ temp'[Target(c)] \in Written(c, temp[Target(c)])
      /\ io[c].into = "disk" => temp' = temp /\ disk'[Target(c)] \in Written(c, disk[Target(c)])
      /\ io[c].into \notin {"temp", "disk"} => UNCHANGED fileVars
  <2>1. CASE io[c].into = "temp" /\ UNCHANGED disk
    <3>1. PICK w \in Written(c, temp[Target(c)]) : temp' = [temp EXCEPT ![Target(c)] = w]
      BY <2>1 DEF Write
    <3>2. w \in Value
      BY <1>1, WrittenType
    <3> QED BY <1>1, <2>1, <3>1, <3>2 DEF TypeInv, Types
  <2>2. CASE io[c].into = "disk" /\ UNCHANGED temp
    <3>1. PICK w \in Written(c, disk[Target(c)]) : disk' = [disk EXCEPT ![Target(c)] = w]
      BY <2>2 DEF Write
    <3>2. w \in Value
      BY <1>1, WrittenType
    <3> QED BY <1>1, <2>2, <3>1, <3>2 DEF TypeInv, Types
  <2>3. CASE io[c].into = "gone" /\ UNCHANGED fileVars
    BY <2>3 DEF TypeInv, Types, fileVars
  <2> QED BY <2>1, <2>2, <2>3 DEF Write
<1>3. /\ io' \in [Calls -> [stage : Stages, into : Places]]
      /\ io'[c].stage = "replace" /\ io'[c].into = io[c].into
      /\ \A d \in Calls \ {c} : io'[d] = io[d]
  BY DEF Write, TypeInv, Types, Stages
<1>4. Types'
  BY <1>2, <1>3 DEF Write, TypeInv, Types, runVars, histVars
<1>5. Working'
  BY <1>1, <1>3 DEF Write, TypeInv, Working, Pending, Writing, runVars, histVars
<1> QED BY <1>2, <1>3, <1>4, <1>5 DEF Write, TypeInv

\* Where a write that has succeeded leaves the call.
LEMMA AfterWriteFacts ==
  ASSUME TypeInv, NEW c \in Calls, Writing(c), AfterWrite(c)
  PROVE  /\ at' \in [Calls -> Locations] /\ job' \in [Calls -> Job] /\ Others(c) /\ Kept(c)
         /\ holder' \in [1..MaxRuns -> SUBSET Calls]
         /\ job'[c].todo \subseteq old
         /\ at[c] = "file" => /\ UNCHANGED <<job, holder, acked>>
                              /\ at'[c] = IF job[c].left THEN "done" ELSE "lock"
         /\ at[c] = "index" => /\ Release(c)
                               /\ \/ at'[c] = "done"
                                  \/ at'[c] = "unlink" /\ job[c].op = "prune" /\ job'[c].id \in old
                               /\ acked' = IF job[c].op = "save" /\ ~job[c].left
                                           THEN acked \cup {job[c].id} ELSE acked
<1>1. {"done", "lock"} \subseteq Locations /\ job[c].todo \subseteq old /\ job[c].op \in {"save", "prune"}
  BY DEF Locations, TypeInv, Types, Working, Job
<1>2. CASE at[c] = "file"
  <2>1. Move(c, IF job[c].left THEN "done" ELSE "lock") /\ UNCHANGED <<job, holder, acked>>
    BY <1>2 DEF AfterWrite
  <2>2. /\ at' \in [Calls -> Locations] /\ \A d \in Calls \ {c} : at'[d] = at[d]
        /\ at'[c] = IF job[c].left THEN "done" ELSE "lock"
    BY <1>1, <2>1, MoveFacts DEF TypeInv
  <2> QED BY <1>1, <1>2, <2>1, <2>2 DEF TypeInv, Types, Others, Kept
<1>3. CASE at[c] = "index"
  <2>1. /\ Release(c)
        /\ acked' = IF job[c].op = "save" /\ ~job[c].left THEN acked \cup {job[c].id} ELSE acked
        /\ \/ Move(c, "done") /\ UNCHANGED job
           \/ job[c].op = "prune" /\ Proceed(c, job[c].todo)
    BY <1>1, <1>3 DEF AfterWrite
  <2>2. holder' \in [1..MaxRuns -> SUBSET Calls]
    BY <2>1, ReleaseFacts DEF TypeInv
  <2>3. CASE Move(c, "done") /\ UNCHANGED job
    <3>1. at' \in [Calls -> Locations] /\ at'[c] = "done" /\ \A d \in Calls \ {c} : at'[d] = at[d]
      BY <1>1, <2>3, MoveFacts DEF TypeInv
    <3> QED BY <1>1, <1>3, <2>1, <2>2, <2>3, <3>1 DEF TypeInv, Types, Others, Kept
  <2>4. CASE job[c].op = "prune" /\ Proceed(c, job[c].todo)
    <3>1. /\ at' \in [Calls -> Locations] /\ job' \in [Calls -> Job] /\ Others(c) /\ Kept(c)
          /\ job'[c].todo \subseteq job[c].todo
          /\ at'[c] = "done" \/ (at'[c] = "unlink" /\ job'[c].id \in job[c].todo)
      BY <1>1, <2>4, ProceedFacts DEF TypeInv
    <3> QED BY <1>1, <1>3, <2>1, <2>2, <2>4, <3>1
  <2> QED BY <2>1, <2>3, <2>4
<1> QED BY <1>2, <1>3 DEF Writing

LEMMA ReplaceTypes ==
  ASSUME TypeInv, NEW c \in Calls, Replace(c)
  PROVE  /\ TypeInv' /\ Others(c) /\ Kept(c)
         /\ disk'[Target(c)] = temp[Target(c)] /\ temp'[Target(c)] = Absent
         /\ \A f \in Files \ {Target(c)} : temp'[f] = temp[f] /\ disk'[f] = disk[f]
         /\ io'[c] = Fresh
         /\ \A d \in Calls \ {c} : ~(Writing(d) /\ Target(d) = Target(c)) => io'[d] = io[d]
<1>1. Target(c) \in Files /\ Absent \in Value /\ Writing(c)
  BY TargetType, Values DEF Replace
<1>2. /\ temp' \in [Files -> Value] /\ disk' \in [Files -> Value]
      /\ disk'[Target(c)] = temp[Target(c)] /\ temp'[Target(c)] = Absent
      /\ \A f \in Files \ {Target(c)} : temp'[f] = temp[f] /\ disk'[f] = disk[f]
  BY <1>1 DEF Replace, TypeInv, Types
<1>3. /\ io' \in [Calls -> [stage : Stages, into : Places]] /\ io'[c] = Fresh
      /\ \A d \in Calls \ {c} : ~(Writing(d) /\ Target(d) = Target(c)) => io'[d] = io[d]
      /\ \A d \in Calls \ {c} : ~Writing(d) => io'[d] = io[d]
  <2> DEFINE place == [temp |-> "disk", disk |-> "gone"]
  <2>1. \A p \in DOMAIN place : place[p] \in Places
    BY DEF Places
  <2>2. io' = Moved(c, Target(c), place)
    BY DEF Replace
  <2> HIDE DEF place
  <2> QED BY <2>1, <2>2, MovedFacts DEF TypeInv
<1>4. /\ at' \in [Calls -> Locations] /\ job' \in [Calls -> Job] /\ Others(c) /\ Kept(c)
      /\ holder' \in [1..MaxRuns -> SUBSET Calls]
      /\ job'[c].todo \subseteq old
      /\ at[c] = "file" => /\ UNCHANGED <<job, holder, acked>>
                           /\ at'[c] = IF job[c].left THEN "done" ELSE "lock"
      /\ at[c] = "index" => /\ \/ at'[c] = "done"
                               \/ at'[c] = "unlink" /\ job[c].op = "prune" /\ job'[c].id \in old
                            /\ acked' = IF job[c].op = "save" /\ ~job[c].left
                                        THEN acked \cup {job[c].id} ELSE acked
  BY <1>1, AfterWriteFacts DEF Replace
<1>5. acked' \subseteq Ids
  BY <1>1, <1>4 DEF TypeInv, Types, Working, Writing
<1>6. Types'
  BY <1>2, <1>3, <1>4, <1>5 DEF Replace, TypeInv, Types, runVars
<1>7. Working'
  <2>1. UNCHANGED <<run, old, removed>>
    BY DEF Replace, runVars
  <2>2. \/ at'[c] = "done"
        \/ at'[c] = "lock" /\ job' = job /\ job[c].op = "save" /\ job[c].id \in Ids
        \/ at'[c] = "unlink" /\ job'[c].op = "prune" /\ job'[c].id \in old
    BY <1>1, <1>4 DEF TypeInv, Working, Writing, Kept
  <2>3. job'[c].run = job[c].run /\ job[c].run \in 1..run
    BY <1>1, <1>4 DEF TypeInv, Working, Writing, Pending, Kept
  <2>4. \A d \in Calls \ {c} : at'[d] = at[d] /\ job'[d] = job[d] /\ (~Writing(d) => io'[d] = io[d])
    BY <1>3, <1>4 DEF Others
  <2>5. \A d \in Calls : job'[d].todo \subseteq old
    BY <1>4, <2>4 DEF TypeInv, Working
  <2>6. \A d \in Calls : at'[d] \notin {"file", "index", "done"} => io'[d] = Fresh
    BY <1>3, <2>4 DEF TypeInv, Working, Writing
  <2>7. \A d \in Calls : Pending(d)' => job'[d].run \in 1..run
    BY <2>3, <2>4 DEF TypeInv, Working, Pending
  <2>8. \A d \in Calls \ {c} :
           /\ at'[d] = "file" => job'[d].op = "save" /\ job'[d].id \in Ids
           /\ at'[d] = "load" => job'[d].op = "prune"
           /\ at'[d] = "unlink" => job'[d].op = "prune" /\ job'[d].id \in old
           /\ at'[d] \in {"lock", "read", "index"} =>
                job'[d].id \in Ids /\ (job'[d].op = "prune" => job'[d].id \in removed)
    BY <2>4 DEF TypeInv, Working
  <2> QED BY <2>1, <2>2, <2>5, <2>6, <2>7, <2>8 DEF Working
<1> QED BY <1>2, <1>3, <1>4, <1>6, <1>7 DEF TypeInv

LEMMA FailsTypes ==
  ASSUME TypeInv, NEW c \in Calls, Fails(c)
  PROVE  /\ TypeInv' /\ UNCHANGED <<job, disk>> /\ at'[c] = "done"
         /\ \A d \in Calls \ {c} : at'[d] = at[d]
         /\ temp'[Target(c)] = Absent /\ \A f \in Files \ {Target(c)} : temp'[f] = temp[f]
         /\ \A d \in Calls \ {c} : ~(Writing(d) /\ Target(d) = Target(c)) => io'[d] = io[d]
<1>1. Target(c) \in Files /\ Absent \in Value /\ Writing(c)
  BY TargetType, Values DEF Fails
<1>2. /\ temp' \in [Files -> Value] /\ temp'[Target(c)] = Absent
      /\ \A f \in Files \ {Target(c)} : temp'[f] = temp[f]
  BY <1>1 DEF Fails, TypeInv, Types
<1>3. /\ io' \in [Calls -> [stage : Stages, into : Places]] /\ io'[c] = Fresh
      /\ \A d \in Calls \ {c} : ~(Writing(d) /\ Target(d) = Target(c)) => io'[d] = io[d]
      /\ \A d \in Calls \ {c} : ~Writing(d) => io'[d] = io[d]
  <2> DEFINE place == [temp |-> "gone"]
  <2>1. \A p \in DOMAIN place : place[p] \in Places
    BY DEF Places
  <2>2. io' = Moved(c, Target(c), place)
    BY DEF Fails
  <2> HIDE DEF place
  <2> QED BY <2>1, <2>2, MovedFacts DEF TypeInv
<1>4. at' \in [Calls -> Locations] /\ at'[c] = "done" /\ \A d \in Calls \ {c} : at'[d] = at[d]
  BY MoveFacts DEF Fails, TypeInv, Locations
<1>5. holder' \in [1..MaxRuns -> SUBSET Calls]
  BY ReleaseFacts DEF Fails, TypeInv
<1>6. Types'
  BY <1>2, <1>3, <1>4, <1>5 DEF Fails, TypeInv, Types, runVars, histVars
<1>7. Working'
  BY <1>1, <1>3, <1>4 DEF Fails, TypeInv, Working, Pending, Writing, runVars, histVars
<1> QED BY <1>2, <1>3, <1>4, <1>6, <1>7 DEF Fails, TypeInv

LEMMA AbandonTypes ==
  ASSUME TypeInv, NEW c \in Calls, Abandon(c)
  PROVE  /\ TypeInv' /\ \A d \in Calls \ {c} : at'[d] = at[d] /\ job'[d] = job[d]
         /\ at'[c] = "done" \/ (at'[c] = at[c] /\ Writing(c))
         /\ job'[c].id = job[c].id /\ job'[c].data = job[c].data /\ job'[c].op = job[c].op
         /\ job'[c].run = job[c].run /\ job'[c].left
<1> DEFINE j == [job[c] EXCEPT !.left = TRUE]
<1>0. job[c] \in Job
  BY DEF TypeInv, Types
<1>1. /\ j \in Job /\ j.op = job[c].op /\ j.id = job[c].id /\ j.run = job[c].run /\ j.left
      /\ j.todo = job[c].todo /\ j.data = job[c].data
  BY <1>0 DEF Job
<1>2. job' = [job EXCEPT ![c] = j]
  BY DEF Abandon
<1> HIDE DEF j
<1>3. job' \in [Calls -> Job] /\ job'[c] = j /\ \A d \in Calls \ {c} : job'[d] = job[d]
  BY <1>1, <1>2, NewJob DEF TypeInv
<1>4. PICK started \in {TRUE, io[c].stage # "open"} :
         at' = [at EXCEPT ![c] = IF Writing(c) /\ started THEN @ ELSE "done"]
  BY DEF Abandon
<1>5. at' \in [Calls -> Locations] /\ \A d \in Calls \ {c} : at'[d] = at[d]
  BY <1>4 DEF TypeInv, Types, Locations
<1>6. (at'[c] = "done" /\ io[c].stage = "open") \/ (at'[c] = "done" /\ ~Writing(c)) \/ (at'[c] = at[c] /\ Writing(c))
  BY <1>4 DEF TypeInv, Types
<1>7. holder' \in [1..MaxRuns -> SUBSET Calls]
  BY ReleaseFacts DEF Abandon, TypeInv
<1>8. spoiled' \in BOOLEAN
  BY DEF Abandon
<1>9. Types'
  BY <1>3, <1>5, <1>7, <1>8 DEF Abandon, TypeInv, Types, fileVars
<1>10. Working'
  BY <1>1, <1>3, <1>5, <1>6 DEF Abandon, TypeInv, Working, Pending, Writing, fileVars
<1> QED BY <1>1, <1>3, <1>5, <1>6, <1>9, <1>10 DEF TypeInv

LEMMA NextRunTypes == ASSUME TypeInv, NextRun PROVE TypeInv'
<1>1. run' \in 1..MaxRuns /\ 1..run \subseteq 1..run'
  BY StoreConstants DEF NextRun, TypeInv, Types
<1>2. spoiled' \in BOOLEAN
  BY DEF NextRun
<1>3. Types'
  BY <1>1, <1>2 DEF NextRun, TypeInv, Types, fileVars, callVars
<1>4. Working'
  BY <1>1 DEF NextRun, TypeInv, Working, Pending, fileVars, callVars
<1> QED BY <1>3, <1>4 DEF TypeInv

LEMMA CrashTypes ==
  ASSUME TypeInv, Crash
  PROVE  TypeInv' /\ \A c \in Calls : at'[c] \in {"unused", "done"}
<1>1. at' \in [Calls -> Locations] /\ \A c \in Calls : at'[c] \in {"unused", "done"}
  BY DEF Crash, TypeInv, Types, Locations, Pending
<1>2. Types'
  BY <1>1, FreshType DEF Crash, TypeInv, Types, fileVars, histVars
<1>3. Working'
  BY <1>1 DEF Crash, TypeInv, Working, Pending, fileVars, histVars
<1> QED BY <1>1, <1>2, <1>3 DEF TypeInv

LEMMA AgeTypes == ASSUME TypeInv, NEW k \in Ids, Age(k) PROVE TypeInv'
<1>1. Types'
  BY DEF Age, TypeInv, Types, fileVars, callVars, histVars
<1>2. Working'
  BY DEF Age, TypeInv, Working, Pending, fileVars, callVars, histVars
<1> QED BY <1>1, <1>2 DEF TypeInv

LEMMA TypeStep == ASSUME TypeInv, [Next]_vars PROVE TypeInv'
<1>1. CASE UNCHANGED vars
  BY <1>1 DEF vars, fileVars, callVars, runVars, histVars, TypeInv, Types, Working, Pending
<1>2. ASSUME NEW c \in Calls, NEW k \in Ids, NEW awaited \in BOOLEAN, Save(c, k, awaited) PROVE TypeInv'
  BY <1>2, SaveTypes
<1>3. ASSUME NEW c \in Calls, Prune(c) \/ CallStep(c) \/ Abandon(c) PROVE TypeInv'
  BY <1>3, PruneTypes, LoadedTypes, UnlinkTypes, AcquireTypes, ReadIndexTypes, OpenTypes, WriteTypes,
     ReplaceTypes, FailsTypes, AbandonTypes DEF CallStep
<1> QED BY <1>1, <1>2, <1>3, AgeTypes, NextRunTypes, CrashTypes DEF Next

----------------------------------------------------------------------------
(* The lock.                                                               *)

InSection(c) == at[c] \in {"read", "index"}

\* The lock is held by the call that reads and replaces the index, unless the call was
\* left; then the run is over, and no other call is under way.
Locked ==
  /\ \A r \in 1..MaxRuns : \A c, d \in holder[r] : c = d
  /\ \A r \in 1..MaxRuns : \A c \in holder[r] : InSection(c) /\ ~job[c].left /\ job[c].run = r
  /\ \A c \in Calls : InSection(c) /\ ~job[c].left => c \in holder[job[c].run]
  /\ \A c \in Calls : Pending(c) /\ job[c].left => Writing(c)

Ordered ==
  ~spoiled =>
    /\ \A c \in Calls : Pending(c) => job[c].run = run
    /\ \A c \in Calls : Pending(c) /\ job[c].left =>
         ~alive /\ (at[c] = "index" => \A d \in Calls \ {c} : ~Pending(d))

LockInv == TypeInv /\ Locked /\ Ordered

\* Two calls are never both between reading the index and replacing it.
LEMMA OneSection ==
  ASSUME LockInv, ~spoiled, NEW c \in Calls, NEW d \in Calls, InSection(c), InSection(d)
  PROVE  c = d
<1>1. Pending(c) /\ Pending(d)
  BY DEF InSection, Pending
<1>2. job[c].run = run /\ job[d].run = run /\ run \in 1..MaxRuns
  BY <1>1 DEF LockInv, Ordered, TypeInv, Types
<1>3. CASE ~job[c].left /\ ~job[d].left
  BY <1>2, <1>3 DEF LockInv, Locked
<1>4. CASE job[c].left
  BY <1>1, <1>4 DEF LockInv, Locked, Ordered, InSection, Writing
<1>5. CASE job[d].left
  BY <1>1, <1>5 DEF LockInv, Locked, Ordered, InSection, Writing
<1> QED BY <1>3, <1>4, <1>5

LEMMA RunsInRange == ASSUME TypeInv, NEW c \in Calls, Pending(c) PROVE job[c].run \in 1..MaxRuns
<1>1. job[c].run \in 1..run /\ run \in 1..MaxRuns
  BY DEF TypeInv, Types, Working
<1> QED BY <1>1, StoreConstants

\* A step of one call that neither takes nor leaves the index.
LEMMA OutsideKeeps ==
  ASSUME LockInv, TypeInv', NEW c \in Calls, Others(c), ~InSection(c), ~InSection(c)',
         UNCHANGED <<run, holder, alive, spoiled>>,
         job'[c].run = job[c].run, job'[c].left = job[c].left, Pending(c),
         job[c].left => at'[c] \in {at[c], "done"}
  PROVE  LockInv'
<1>1. Locked'
  <2>1. \A d \in Calls \ {c} : at'[d] = at[d] /\ job'[d] = job[d]
    BY DEF Others
  <2>2. \A r \in 1..MaxRuns : \A d \in holder[r] : d \in Calls \ {c}
    BY DEF LockInv, Locked, TypeInv, Types
  <2>3. \A d \in Calls : Pending(d)' /\ job'[d].left => Writing(d)'
    BY <2>1 DEF LockInv, Locked, Pending, Writing
  <2> QED BY <2>1, <2>2, <2>3 DEF LockInv, Locked, InSection
<1>2. Ordered'
  BY DEF LockInv, Ordered, Others, InSection, Pending, Writing
<1> QED BY <1>1, <1>2 DEF LockInv

\* A step in which a call lets go of the index, or had not taken it.
LEMMA ReleaseKeeps ==
  ASSUME LockInv, TypeInv', NEW c \in Calls, Others(c), Release(c), ~InSection(c)',
         UNCHANGED <<run, alive>>, spoiled => spoiled',
         job'[c].run = job[c].run, job'[c].left = job[c].left, Pending(c),
         job[c].left => at'[c] = "done"
  PROVE  LockInv'
<1>1. \A r \in 1..MaxRuns : holder'[r] = holder[r] \ {c}
  BY ReleaseFacts DEF LockInv, TypeInv
<1>2. \A d \in Calls : job[d].run \in 0..MaxRuns
  BY DEF LockInv, TypeInv, Types, Job
<1>3. Locked'
  <2>1. \A r \in 1..MaxRuns : \A d \in holder'[r] : d \in Calls \ {c} /\ d \in holder[r]
    BY <1>1 DEF LockInv, TypeInv, Types
  <2>2. \A d \in Calls \ {c} : at'[d] = at[d] /\ job'[d] = job[d]
    BY DEF Others
  <2>3. \A d \in Calls : InSection(d)' /\ ~job'[d].left => d \in holder'[job'[d].run]
    <3> SUFFICES ASSUME NEW d \in Calls, InSection(d)', ~job'[d].left PROVE d \in holder'[job'[d].run]
      OBVIOUS
    <3>1. d # c /\ InSection(d) /\ ~job[d].left /\ job'[d] = job[d]
      BY <2>2 DEF InSection
    <3>2. d \in holder[job[d].run] /\ job[d].run \in 1..MaxRuns
      BY <3>1, RunsInRange DEF LockInv, Locked, InSection, Pending
    <3> QED BY <1>1, <3>1, <3>2
  <2>4. \A d \in Calls : Pending(d)' /\ job'[d].left => Writing(d)'
    BY <2>2 DEF LockInv, Locked, Pending, Writing
  <2> QED BY <2>1, <2>2, <2>3, <2>4 DEF LockInv, Locked, InSection
<1>4. Ordered'
  BY DEF LockInv, Ordered, Others, InSection, Pending, Writing
<1> QED BY <1>3, <1>4 DEF LockInv

LEMMA InitLock == ASSUME Init PROVE LockInv
<1>1. TypeInv
  BY InitTypes
<1>2. Locked /\ Ordered
  BY DEF Init, Locked, Ordered, InSection, Pending
<1> QED BY <1>1, <1>2 DEF LockInv

\* A call begins while the run may begin calls, so that none is left.
LEMMA BeginKeeps ==
  ASSUME LockInv, TypeInv', NEW c \in Calls, MayBegin(c), Others(c), at'[c] \in {"file", "load"},
         job'[c].run = run, ~job'[c].left, UNCHANGED <<run, alive, holder, spoiled>>
  PROVE  LockInv'
<1>1. \A d \in Calls \ {c} : at'[d] = at[d] /\ job'[d] = job[d]
  BY DEF Others
<1>2. \A r \in 1..MaxRuns : \A d \in holder[r] : d \in Calls \ {c}
  BY DEF LockInv, Locked, TypeInv, Types, MayBegin, InSection
<1>3. Locked'
  <2>1. \A d \in Calls : Pending(d)' /\ job'[d].left => Writing(d)'
    BY <1>1 DEF LockInv, Locked, Pending, Writing
  <2> QED BY <1>1, <1>2, <2>1 DEF LockInv, Locked, InSection
<1>4. Ordered'
  BY <1>1 DEF LockInv, Ordered, MayBegin, Pending
<1> QED BY <1>3, <1>4 DEF LockInv

LEMMA AcquireKeeps == ASSUME LockInv, NEW c \in Calls, Acquire(c) PROVE LockInv'
<1>1. TypeInv' /\ job' = job /\ at'[c] = "read" /\ \A d \in Calls \ {c} : at'[d] = at[d]
  BY AcquireTypes DEF LockInv
<1>2. at[c] = "lock" /\ ~job[c].left /\ job[c].run \in 1..MaxRuns
  BY RunsInRange DEF Acquire, LockInv, Locked, Pending, Writing
<1>3. /\ holder[job[c].run] = {} /\ holder'[job[c].run] = {c}
      /\ \A q \in 1..MaxRuns : q # job[c].run => holder'[q] = holder[q]
  BY <1>2 DEF Acquire, LockInv, TypeInv, Types
<1>4. Locked'
  <2>1. \A r \in 1..MaxRuns : \A d \in holder'[r] : (d = c /\ r = job[c].run) \/ (d \in holder[r] /\ d \in Calls \ {c})
    <3>1. \A r \in 1..MaxRuns : \A d \in holder[r] : d \in Calls \ {c}
      BY <1>2 DEF LockInv, Locked, TypeInv, Types, InSection
    <3>2. ASSUME NEW r \in 1..MaxRuns, NEW d \in holder'[r]
          PROVE  (d = c /\ r = job[c].run) \/ (d \in holder[r] /\ d \in Calls \ {c})
      <4>1. CASE r = job[c].run
        <5>1. holder'[r] = {c}
          BY <1>3, <4>1
        <5>2. d = c
          BY <5>1
        <5> QED BY <4>1, <5>2
      <4>2. CASE r # job[c].run
        <5>1. holder'[r] = holder[r]
          BY <1>3, <4>2
        <5> QED BY <3>1, <3>2, <5>1
      <4> QED BY <4>1, <4>2
    <3> QED BY <3>2
  <2>2. \A r \in 1..MaxRuns : \A d, e \in holder'[r] : d = e
    BY <1>3 DEF LockInv, Locked
  <2>3. \A d \in Calls \ {c} : InSection(d) /\ ~job[d].left => d \in holder'[job[d].run]
    <3> SUFFICES ASSUME NEW d \in Calls \ {c}, InSection(d), ~job[d].left PROVE d \in holder'[job[d].run]
      OBVIOUS
    <3>1. d \in holder[job[d].run] /\ job[d].run \in 1..MaxRuns
      BY RunsInRange DEF LockInv, Locked, InSection, Pending
    <3> QED BY <1>3, <3>1
  <2>4. \A d \in Calls : Pending(d)' /\ job'[d].left => Writing(d)'
    BY <1>1, <1>2 DEF LockInv, Locked, Pending, Writing
  <2>5. \A r \in 1..MaxRuns : \A d \in holder'[r] : InSection(d)' /\ ~job'[d].left /\ job'[d].run = r
    BY <1>1, <1>2, <2>1 DEF Locked, LockInv, InSection
  <2>6. \A d \in Calls : InSection(d)' /\ ~job'[d].left => d \in holder'[job'[d].run]
    BY <1>1, <1>3, <2>3 DEF InSection
  <2> QED BY <2>2, <2>4, <2>5, <2>6 DEF Locked
<1>5. Ordered'
  BY <1>1, <1>2 DEF Acquire, LockInv, Ordered, Pending, histVars, runVars
<1> QED BY <1>1, <1>4, <1>5 DEF LockInv

\* A step in which all calls stay in or out of the section.
LEMMA SameKeeps ==
  ASSUME LockInv, TypeInv', NEW c \in Calls, Others(c), InSection(c) <=> InSection(c)', Pending(c),
         job'[c].run = job[c].run, job'[c].left = job[c].left, job[c].left => at'[c] = at[c],
         UNCHANGED <<run, alive, holder>>, spoiled => spoiled', at'[c] # "done"
  PROVE  LockInv'
<1>1. \A d \in Calls \ {c} : at'[d] = at[d] /\ job'[d] = job[d]
  BY DEF Others
<1>2. \A d \in Calls : Pending(d)' /\ job'[d].left => Writing(d)'
  BY <1>1 DEF LockInv, Locked, Pending, Writing
<1>3. \A r \in 1..MaxRuns : \A d \in holder[r] : d \in Calls
  BY DEF LockInv, TypeInv, Types
<1>4. Locked'
  BY <1>1, <1>2, <1>3 DEF LockInv, Locked, InSection
<1>5. Ordered'
  BY <1>1 DEF LockInv, Ordered, Pending
<1> QED BY <1>4, <1>5 DEF LockInv

LEMMA NotLeft ==
  ASSUME LockInv, NEW c \in Calls, Pending(c), ~Writing(c)
  PROVE  ~job[c].left
BY DEF LockInv, Locked

LEMMA ReadIndexKeeps == ASSUME LockInv, NEW c \in Calls, ReadIndex(c) PROVE LockInv'
<1>1. TypeInv' /\ Others(c) /\ Kept(c) /\ at'[c] \in {"index", "done", "unlink"}
  BY ReadIndexTypes DEF LockInv
<1>2. at[c] = "read" /\ Pending(c) /\ ~job[c].left /\ UNCHANGED <<run, alive>> /\ (spoiled => spoiled')
  BY NotLeft DEF ReadIndex, Pending, Writing, runVars
<1>3. CASE Move(c, "index") /\ UNCHANGED holder
  <2>1. at'[c] = "index"
    BY <1>3, MoveFacts DEF LockInv, TypeInv, Locations
  <2> QED BY <1>1, <1>2, <1>3, <2>1, SameKeeps DEF InSection, Kept
<1>4. CASE Proceed(c, job[c].todo) /\ Release(c)
  <2>1. at'[c] \in {"done", "unlink"}
    BY <1>4, ProceedFacts DEF LockInv, TypeInv, Working
  <2> QED BY <1>1, <1>2, <1>4, <2>1, ReleaseKeeps DEF InSection, Kept
<1> QED BY <1>3, <1>4 DEF ReadIndex

LEMMA ReplaceKeeps == ASSUME LockInv, NEW c \in Calls, Replace(c) PROVE LockInv'
<1>1. TypeInv' /\ Others(c) /\ Kept(c)
  BY ReplaceTypes DEF LockInv
<1>2. Writing(c) /\ AfterWrite(c) /\ UNCHANGED <<run, alive, spoiled>> /\ Pending(c)
  BY DEF Replace, runVars, Writing, Pending
<1>3. CASE at[c] = "file"
  <2>1. UNCHANGED holder /\ at'[c] = IF job[c].left THEN "done" ELSE "lock"
    BY <1>2, <1>3, AfterWriteFacts DEF LockInv
  <2> QED BY <1>1, <1>2, <1>3, <2>1, OutsideKeeps DEF InSection, Kept
<1>4. CASE at[c] = "index"
  <2>1. Release(c) /\ at'[c] \in {"done", "unlink"} /\ (job[c].left => at'[c] = "done")
    <3>1. Release(c) /\ at'[c] \in {"done", "unlink"}
      BY <1>2, <1>4, AfterWriteFacts DEF LockInv
    <3>2. ASSUME job[c].left PROVE at'[c] = "done"
      BY <1>2, <1>4, <3>2, MoveFacts DEF AfterWrite, LockInv, TypeInv, Locations
    <3> QED BY <3>1, <3>2
  <2> QED BY <1>1, <1>2, <2>1, ReleaseKeeps DEF InSection, Kept
<1> QED BY <1>2, <1>3, <1>4 DEF Writing

LEMMA FailsKeeps == ASSUME LockInv, NEW c \in Calls, Fails(c) PROVE LockInv'
<1>1. TypeInv' /\ job' = job /\ at'[c] = "done" /\ \A d \in Calls \ {c} : at'[d] = at[d]
  BY FailsTypes DEF LockInv
<1>2. Pending(c) /\ Release(c) /\ UNCHANGED <<run, alive, spoiled>>
  BY DEF Fails, Pending, Writing, runVars, histVars
<1> QED BY <1>1, <1>2, ReleaseKeeps DEF Others, InSection

LEMMA AbandonKeeps == ASSUME LockInv, NEW c \in Calls, Abandon(c) PROVE LockInv'
<1>1. /\ TypeInv' /\ \A d \in Calls \ {c} : at'[d] = at[d] /\ job'[d] = job[d]
      /\ at'[c] = "done" \/ (at'[c] = at[c] /\ Writing(c))
      /\ job'[c].run = job[c].run /\ job'[c].left
  BY AbandonTypes DEF LockInv
<1>2. \A r \in 1..MaxRuns : holder'[r] = holder[r] \ {c}
  BY ReleaseFacts DEF Abandon, LockInv, TypeInv
<1>3. \A r \in 1..MaxRuns : \A d \in holder[r] : d \in Calls
  BY DEF LockInv, TypeInv, Types
<1>4. Locked'
  <2>1. \A d \in Calls : InSection(d)' /\ ~job'[d].left => d \in holder'[job'[d].run]
    <3> SUFFICES ASSUME NEW d \in Calls, InSection(d)', ~job'[d].left PROVE d \in holder'[job'[d].run]
      OBVIOUS
    <3>1. d # c /\ InSection(d) /\ ~job[d].left /\ job'[d] = job[d]
      BY <1>1 DEF InSection
    <3>2. d \in holder[job[d].run] /\ job[d].run \in 1..MaxRuns
      BY <3>1, RunsInRange DEF LockInv, Locked, InSection, Pending
    <3> QED BY <1>2, <3>1, <3>2
  <2>2. \A d \in Calls : Pending(d)' /\ job'[d].left => Writing(d)'
    BY <1>1 DEF LockInv, Locked, Pending, Writing
  <2> QED BY <1>1, <1>2, <1>3, <2>1, <2>2 DEF LockInv, Locked, InSection
<1>5. Ordered'
  BY <1>1 DEF Abandon, LockInv, Ordered, Pending
<1> QED BY <1>1, <1>4, <1>5 DEF LockInv

LEMMA NextRunKeeps == ASSUME LockInv, NextRun PROVE LockInv'
<1>1. TypeInv'
  BY NextRunTypes DEF LockInv
<1>2. Locked'
  BY DEF NextRun, LockInv, Locked, callVars, InSection, Pending, Writing
<1>3. Ordered'
  BY DEF NextRun, LockInv, Ordered, callVars, Pending
<1> QED BY <1>1, <1>2, <1>3 DEF LockInv

LEMMA CrashKeeps == ASSUME LockInv, Crash PROVE LockInv'
<1>1. TypeInv' /\ \A c \in Calls : at'[c] \in {"unused", "done"}
  BY CrashTypes DEF LockInv
<1>2. \A r \in 1..MaxRuns : holder'[r] = {}
  BY DEF Crash
<1>3. Locked' /\ Ordered'
  BY <1>1, <1>2 DEF Locked, Ordered, InSection, Pending
<1> QED BY <1>1, <1>3 DEF LockInv

LEMMA LockStep == ASSUME LockInv, [Next]_vars PROVE LockInv'
<1>0. TypeInv /\ TypeInv'
  BY TypeStep DEF LockInv
<1>1. ASSUME UNCHANGED <<at, job, holder, run, alive, spoiled>> PROVE LockInv'
  BY <1>0, <1>1 DEF LockInv, Locked, Ordered, InSection, Pending, Writing
<1>2. CASE UNCHANGED vars
  BY <1>1, <1>2 DEF vars, callVars, runVars, histVars
<1>3. ASSUME NEW c \in Calls, NEW k \in Ids, NEW awaited \in BOOLEAN, Save(c, k, awaited) PROVE LockInv'
  <2>1. Others(c) /\ at'[c] = "file" /\ job'[c].run = run /\ ~job'[c].left
    BY <1>0, <1>3, SaveTypes
  <2>2. MayBegin(c) /\ UNCHANGED <<run, alive, holder, spoiled>>
    BY <1>3 DEF Save, runVars
  <2> QED BY <1>0, <2>1, <2>2, BeginKeeps
<1>4. ASSUME NEW c \in Calls, Prune(c) PROVE LockInv'
  <2>1. Others(c) /\ at'[c] = "load" /\ job'[c].run = run /\ ~job'[c].left
    BY <1>0, <1>4, PruneTypes
  <2>2. MayBegin(c) /\ UNCHANGED <<run, alive, holder, spoiled>>
    BY <1>4 DEF Prune, runVars, histVars
  <2> QED BY <1>0, <2>1, <2>2, BeginKeeps
<1>5. ASSUME NEW c \in Calls, Loaded(c) \/ Unlink(c) PROVE LockInv'
  <2>1. Others(c) /\ Kept(c) /\ at'[c] \in {"done", "unlink", "lock"}
    BY <1>0, <1>5, LoadedTypes, UnlinkTypes
  <2>2. at[c] \in {"load", "unlink"} /\ UNCHANGED <<run, alive, holder, spoiled>>
    BY <1>5 DEF Loaded, Unlink, runVars, histVars
  <2>3. Pending(c) /\ ~job[c].left
    BY <2>2, NotLeft DEF Pending, Writing
  <2> QED BY <1>0, <2>1, <2>2, <2>3, OutsideKeeps DEF InSection, Kept
<1>6. ASSUME NEW c \in Calls, Open(c) \/ Write(c) PROVE LockInv'
  BY <1>1, <1>6 DEF Open, Write, runVars, histVars
<1>7. ASSUME NEW k \in Ids, Age(k) PROVE LockInv'
  BY <1>1, <1>7 DEF Age, callVars, histVars
<1> QED BY <1>2, <1>3, <1>4, <1>5, <1>6, <1>7, AcquireKeeps, ReadIndexKeeps, ReplaceKeeps, FailsKeeps,
           AbandonKeeps, NextRunKeeps, CrashKeeps DEF Next, CallStep

----------------------------------------------------------------------------
(* Writers that have their temporary file to themselves.                   *)

\* The index is written by one call at a time unless it is spoiled, a file unless its
\* id was saved by two calls.
Sole(c) == (at[c] = "index" /\ ~spoiled) \/ (at[c] = "file" /\ job[c].id \notin doubled)

Alone(c) == \A d \in Calls \ {c} : ~(Writing(d) /\ Target(d) = Target(c))

\* The temporary file holds what the call has made of it.
Sound(c) ==
  \/ io[c].stage = "open"
  \/ io[c].into = "temp" /\ temp[Target(c)] = IF io[c].stage = "write" THEN Empty ELSE Content(c)

WritersInv == LockInv /\ \A c \in Calls : Sole(c) => Alone(c) /\ Sound(c)

\* What decides over Target, Content and Updated.
SameCall(c) == /\ at'[c] = at[c] /\ job'[c].id = job[c].id
               /\ job'[c].data = job[c].data /\ job'[c].op = job[c].op

LEMMA SameTarget ==
  ASSUME NEW c, SameCall(c)
  PROVE  Target(c)' = Target(c) /\ Content(c)' = Content(c) /\ (Writing(c)' <=> Writing(c))
BY DEF SameCall, Target, Content, Writing

LEMMA SoundKept ==
  ASSUME NEW c, SameCall(c), io'[c] = io[c], temp'[Target(c)] = temp[Target(c)], Sound(c)
  PROVE  Sound(c)'
<1>1. Target(c)' = Target(c) /\ Content(c)' = Content(c)
  BY SameTarget
<1> QED BY <1>1 DEF Sound

\* A step in which no call begins to write.
NoNewWriter ==
  /\ \A c \in Calls : Writing(c)' => SameCall(c)
  /\ doubled' = doubled /\ (spoiled => spoiled')

LEMMA StillAlone ==
  ASSUME WritersInv, NoNewWriter, NEW c \in Calls, Sole(c)'
  PROVE  Sole(c) /\ SameCall(c) /\ Alone(c) /\ Sound(c) /\ Alone(c)' /\ Writing(c)
<1>1. Writing(c)' /\ SameCall(c)
  BY DEF Sole, Writing, NoNewWriter
<1>2. Sole(c) /\ Writing(c)
  BY <1>1 DEF Sole, SameCall, NoNewWriter, Writing
<1>3. Alone(c) /\ Sound(c)
  BY <1>2 DEF WritersInv
<1>4. ASSUME NEW d \in Calls \ {c}, Writing(d)', Target(d)' = Target(c)' PROVE FALSE
  <2>1. SameCall(d)
    BY <1>4 DEF NoNewWriter
  <2>2. Writing(d) /\ Target(d) = Target(c)
    BY <1>1, <1>4, <2>1, SameTarget
  <2> QED BY <1>3, <2>2 DEF Alone
<1> QED BY <1>1, <1>2, <1>3, <1>4 DEF Alone

LEMMA NoWriteKeeps ==
  ASSUME WritersInv, LockInv', NoNewWriter, UNCHANGED temp,
         \A c \in Calls : Writing(c)' => io'[c] = io[c]
  PROVE  WritersInv'
<1> SUFFICES ASSUME NEW c \in Calls, Sole(c)' PROVE Alone(c)' /\ Sound(c)'
  BY DEF WritersInv
<1>1. SameCall(c) /\ Sound(c) /\ Alone(c)' /\ io'[c] = io[c]
  BY StillAlone DEF Sole, Writing
<1> QED BY <1>1, SoundKept

\* A step of one writer: those that are alone do not notice.
LEMMA WriterKeeps ==
  ASSUME WritersInv, LockInv', NoNewWriter, NEW w \in Calls, Writing(w),
         Sole(w)' => Sound(w)',
         \A f \in Files \ {Target(w)} : temp'[f] = temp[f],
         \A d \in Calls \ {w} : ~(Writing(d) /\ Target(d) = Target(w)) => io'[d] = io[d]
  PROVE  WritersInv'
<1> SUFFICES ASSUME NEW c \in Calls, Sole(c)' PROVE Alone(c)' /\ Sound(c)'
  BY DEF WritersInv
<1>1. SameCall(c) /\ Alone(c) /\ Sound(c) /\ Alone(c)' /\ Writing(c)
  BY StillAlone
<1>2. CASE c = w
  BY <1>1, <1>2
<1>3. CASE c # w
  <2>1. Target(w) # Target(c) /\ Target(c) \in Files
    BY <1>1, <1>3, TargetType DEF Alone, WritersInv, LockInv
  <2>2. io'[c] = io[c] /\ temp'[Target(c)] = temp[Target(c)]
    BY <1>3, <2>1
  <2> QED BY <1>1, <2>2, SoundKept
<1> QED BY <1>2, <1>3

\* The step of a call that leaves all others where they are.
LEMMA OneCallMoves ==
  ASSUME NEW c \in Calls, Others(c), Writing(c)' => SameCall(c), doubled' = doubled, spoiled => spoiled'
  PROVE  NoNewWriter
BY DEF NoNewWriter, Others, SameCall

LEMMA SaveWriters ==
  ASSUME WritersInv, LockInv', NEW c \in Calls, NEW k \in Ids, NEW awaited \in BOOLEAN, Save(c, k, awaited)
  PROVE  WritersInv'
<1>1. /\ Others(c) /\ at[c] = "unused" /\ at'[c] = "file" /\ job'[c].id = k
  BY SaveTypes DEF WritersInv, LockInv
<1>2. UNCHANGED <<temp, io, spoiled>> /\ doubled \subseteq doubled'
      /\ (k \notin doubled' => \A d \in Calls : ~(at[d] = "file" /\ job[d].id = k))
  BY DEF Save, fileVars
<1>3. \A d \in Calls \ {c} : SameCall(d)
  BY <1>1 DEF Others, SameCall
<1>4. Target(c)' = k
  BY <1>1 DEF Target
<1>5. TypeInv /\ TypeInv'
  BY DEF WritersInv, LockInv
<1> SUFFICES ASSUME NEW d \in Calls, Sole(d)' PROVE Alone(d)' /\ Sound(d)'
  BY DEF WritersInv
<1>6. CASE d = c
  <2>1. k \notin doubled'
    BY <1>1, <1>6 DEF Sole
  <2>2. ASSUME NEW e \in Calls \ {c}, Writing(e)', Target(e)' = k PROVE FALSE
    <3>1. Writing(e) /\ Target(e) = k
      BY <1>3, <2>2, SameTarget
    <3>2. at[e] = "file" /\ job[e].id = k
      BY <1>5, <3>1, TargetType, StoreConstants DEF Writing
    <3> QED BY <1>2, <2>1, <3>2
  <2>3. io'[c].stage = "open"
    BY <1>1, <1>2, <1>5, FreshType DEF TypeInv, Working
  <2> QED BY <1>4, <1>6, <2>2, <2>3 DEF Alone, Sound
<1>7. CASE d # c
  <2>1. SameCall(d) /\ Sole(d) /\ Writing(d)
    BY <1>2, <1>3, <1>7 DEF Sole, SameCall, Writing
  <2>2. Alone(d) /\ Sound(d)
    BY <2>1 DEF WritersInv
  <2>3. Sound(d)'
    BY <1>2, <2>1, <2>2, SoundKept
  <2>4. Target(d)' = Target(d)
    BY <2>1, SameTarget
  <2>5. ASSUME NEW e \in Calls \ {d}, Writing(e)', Target(e)' = Target(d)' PROVE FALSE
    <3>1. CASE e = c
      <4>1. Target(d) = k /\ d \in Calls
        BY <1>4, <2>4, <2>5, <3>1
      <4>2. at[d] = "file" /\ job[d].id = k
        BY <1>5, <2>1, <4>1, TargetType, StoreConstants DEF Writing
      <4>3. job'[d].id \notin doubled'
        BY <2>1, <4>2 DEF Sole, SameCall
      <4> QED BY <1>2, <2>1, <4>2, <4>3 DEF SameCall
    <3>2. CASE e # c
      <4>1. Writing(e) /\ Target(e) = Target(d)
        BY <1>3, <2>4, <2>5, <3>2, SameTarget
      <4> QED BY <2>2, <2>5, <4>1 DEF Alone
    <3> QED BY <3>1, <3>2
  <2> QED BY <2>3, <2>5 DEF Alone
<1> QED BY <1>6, <1>7

\* Steps that neither write nor begin to write.
LEMMA MoveWriters ==
  ASSUME WritersInv, LockInv', NEW c \in Calls, Others(c), ~Writing(c), ~Writing(c)',
         UNCHANGED <<temp, io, doubled>>, spoiled => spoiled'
  PROVE  WritersInv'
BY OneCallMoves, NoWriteKeeps

LEMMA AbandonWriters ==
  ASSUME WritersInv, LockInv', NEW c \in Calls, Abandon(c)
  PROVE  WritersInv'
<1>1. /\ \A d \in Calls \ {c} : at'[d] = at[d] /\ job'[d] = job[d]
      /\ at'[c] = "done" \/ at'[c] = at[c]
      /\ job'[c].id = job[c].id /\ job'[c].data = job[c].data /\ job'[c].op = job[c].op
  BY AbandonTypes DEF WritersInv, LockInv
<1>2. UNCHANGED <<temp, io, doubled>> /\ (spoiled => spoiled')
  BY DEF Abandon, fileVars
<1>3. Others(c) /\ (Writing(c)' => SameCall(c))
  BY <1>1 DEF Others, Writing, SameCall
<1> QED BY <1>2, <1>3, OneCallMoves, NoWriteKeeps

\* The call that read the index is the only one to write it.
LEMMA ReadIndexWriters ==
  ASSUME WritersInv, LockInv', NEW c \in Calls, ReadIndex(c)
  PROVE  WritersInv'
<1>1. Others(c) /\ at'[c] \in {"index", "done", "unlink"} /\ at[c] = "read"
  BY ReadIndexTypes DEF WritersInv, LockInv, ReadIndex
<1>2. UNCHANGED <<temp, io, doubled>> /\ (spoiled => spoiled') /\ TypeInv /\ TypeInv'
  BY DEF ReadIndex, fileVars, WritersInv, LockInv
<1>3. CASE at'[c] # "index"
  BY <1>1, <1>2, <1>3, MoveWriters DEF Writing
<1>4. CASE at'[c] = "index"
  <2>1. \A d \in Calls \ {c} : SameCall(d)
    BY <1>1 DEF Others, SameCall
  <2>2. io'[c].stage = "open"
    BY <1>1, <1>2, FreshType DEF TypeInv, Working
  <2> SUFFICES ASSUME NEW d \in Calls, Sole(d)' PROVE Alone(d)' /\ Sound(d)'
    BY DEF WritersInv
  <2>3. CASE d = c
    <3>1. ~spoiled' /\ Target(c)' = Index
      BY <1>4, <2>3 DEF Sole, Target
    <3>2. ASSUME NEW e \in Calls \ {c}, Writing(e)', Target(e)' = Index PROVE FALSE
      <4>1. at'[e] = "index"
        BY <1>2, <3>2, StoreConstants DEF Writing, Target, TypeInv, Working
      <4>2. ~spoiled /\ InSection(e) /\ InSection(c)
        BY <1>1, <1>2, <2>1, <3>1, <4>1 DEF InSection, SameCall
      <4>3. e = c
        BY <4>2, OneSection DEF WritersInv
      <4> QED BY <3>2, <4>3
    <3> QED BY <2>2, <2>3, <3>1, <3>2 DEF Alone, Sound
  <2>4. CASE d # c
    <3>1. SameCall(d) /\ Sole(d) /\ Writing(d)
      BY <1>2, <2>1, <2>4 DEF Sole, SameCall, Writing
    <3>2. Alone(d) /\ Sound(d)
      BY <3>1 DEF WritersInv
    <3>3. Sound(d)' /\ Target(d)' = Target(d)
      BY <1>2, <3>1, <3>2, SoundKept, SameTarget
    <3>4. ASSUME NEW e \in Calls \ {d}, Writing(e)', Target(e)' = Target(d)' PROVE FALSE
      <4>1. CASE e = c
        <5>1. Target(d)' = Index /\ Writing(d)'
          BY <1>4, <3>1, <3>4, <4>1, SameTarget DEF Target
        <5>2. at'[d] = "index"
          BY <1>2, <5>1, StoreConstants DEF Writing, Target, TypeInv, Working
        <5>3. ~spoiled'
          BY <5>2 DEF Sole
        <5>4. ~spoiled /\ InSection(d) /\ InSection(c)
          BY <1>1, <1>2, <3>1, <5>2, <5>3 DEF InSection, SameCall
        <5>5. d = c
          BY <5>4, OneSection DEF WritersInv
        <5> QED BY <2>4, <5>5
      <4>2. CASE e # c
        <5>1. Writing(e) /\ Target(e) = Target(d)
          BY <2>1, <3>3, <3>4, <4>2, SameTarget
        <5> QED BY <3>2, <3>4, <5>1 DEF Alone
      <4> QED BY <4>1, <4>2
    <3> QED BY <3>3, <3>4 DEF Alone
  <2> QED BY <2>3, <2>4
<1> QED BY <1>3, <1>4

LEMMA OpenWriters ==
  ASSUME WritersInv, LockInv', NEW c \in Calls, Open(c)
  PROVE  WritersInv'
<1>1. /\ UNCHANGED <<disk, at, job, doubled, spoiled>>
      /\ temp'[Target(c)] = Empty /\ \A f \in Files \ {Target(c)} : temp'[f] = temp[f]
      /\ io'[c] = [stage |-> "write", into |-> "temp"] /\ \A d \in Calls \ {c} : io'[d] = io[d]
  BY OpenTypes DEF WritersInv, LockInv, Open, histVars
<1>2. \A d \in Calls : SameCall(d)
  BY <1>1 DEF SameCall
<1>3. NoNewWriter
  BY <1>1, <1>2 DEF NoNewWriter
<1>4. Sound(c)'
  BY <1>1, <1>2, SameTarget DEF Sound
<1>5. Writing(c)
  BY DEF Open
<1> QED BY <1>1, <1>3, <1>4, <1>5, WriterKeeps

LEMMA WriteWriters ==
  ASSUME WritersInv, LockInv', NEW c \in Calls, Write(c)
  PROVE  WritersInv'
<1>1. /\ UNCHANGED <<at, job, doubled, spoiled>> /\ Writing(c) /\ io[c].stage = "write"
      /\ \A f \in Files \ {Target(c)} : temp'[f] = temp[f]
      /\ io[c].into = "temp" => temp'[Target(c)] \in Written(c, temp[Target(c)])
      /\ io'[c].stage = "replace" /\ io'[c].into = io[c].into
      /\ \A d \in Calls \ {c} : io'[d] = io[d]
  BY WriteTypes DEF WritersInv, LockInv, Write, histVars
<1>2. \A d \in Calls : SameCall(d)
  BY <1>1 DEF SameCall
<1>3. NoNewWriter
  BY <1>1, <1>2 DEF NoNewWriter
<1>4. ASSUME Sole(c)' PROVE Sound(c)'
  <2>1. Alone(c) /\ Sound(c) /\ SameCall(c)
    BY <1>3, <1>4, StillAlone
  <2>2. io[c].into = "temp" /\ temp[Target(c)] = Empty /\ ~Sharing(c)
    BY <1>1, <2>1 DEF Alone, Sound, Sharing
  <2>3. temp'[Target(c)] = Content(c)
    BY <1>1, <2>2 DEF Written
  <2> QED BY <1>1, <2>1, <2>2, <2>3, SameTarget DEF Sound
<1> QED BY <1>1, <1>3, <1>4, WriterKeeps

LEMMA ReplaceWriters ==
  ASSUME WritersInv, LockInv', NEW c \in Calls, Replace(c)
  PROVE  WritersInv'
<1>1. /\ Others(c) /\ Writing(c) /\ UNCHANGED <<doubled, spoiled>>
      /\ \A f \in Files \ {Target(c)} : temp'[f] = temp[f]
      /\ \A d \in Calls \ {c} : ~(Writing(d) /\ Target(d) = Target(c)) => io'[d] = io[d]
  BY ReplaceTypes DEF WritersInv, LockInv, Replace
<1>2. ~Writing(c)'
  BY <1>1, AfterWriteFacts DEF Replace, Writing, WritersInv, LockInv
<1>3. NoNewWriter
  BY <1>1, <1>2, OneCallMoves
<1> QED BY <1>1, <1>2, <1>3, WriterKeeps DEF Sole, Writing

LEMMA FailsWriters ==
  ASSUME WritersInv, LockInv', NEW c \in Calls, Fails(c)
  PROVE  WritersInv'
<1>1. /\ job' = job /\ at'[c] = "done" /\ \A d \in Calls \ {c} : at'[d] = at[d]
      /\ \A f \in Files \ {Target(c)} : temp'[f] = temp[f]
      /\ \A d \in Calls \ {c} : ~(Writing(d) /\ Target(d) = Target(c)) => io'[d] = io[d]
      /\ Writing(c) /\ UNCHANGED <<doubled, spoiled>>
  BY FailsTypes DEF WritersInv, LockInv, Fails, histVars
<1>2. ~Writing(c)' /\ Others(c)
  BY <1>1 DEF Writing, Others
<1>3. NoNewWriter
  BY <1>1, <1>2, OneCallMoves
<1> QED BY <1>1, <1>2, <1>3, WriterKeeps DEF Sole, Writing

LEMMA WritersStep ==
  ASSUME WritersInv, [Next]_vars
  PROVE  WritersInv'
<1>0. LockInv /\ TypeInv /\ LockInv'
  BY LockStep DEF WritersInv, LockInv
<1>1. ASSUME UNCHANGED <<at, job, temp, io, doubled>>, spoiled => spoiled' PROVE WritersInv'
  BY <1>0, <1>1, NoWriteKeeps DEF NoNewWriter, SameCall
<1>2. CASE UNCHANGED vars
  BY <1>1, <1>2 DEF vars, callVars, fileVars, histVars
<1>3. ASSUME NEW k \in Ids, Age(k) PROVE WritersInv'
  BY <1>1, <1>3 DEF Age, callVars, fileVars, histVars
<1>4. CASE NextRun
  BY <1>1, <1>4 DEF NextRun, callVars, fileVars
<1>5. CASE Crash
  <2>1. \A c \in Calls : ~Writing(c)'
    BY <1>0, <1>5, CrashTypes DEF Writing
  <2> QED BY <1>0, <2>1 DEF WritersInv, Sole, Writing
<1>6. ASSUME NEW c \in Calls, Prune(c) PROVE WritersInv'
  <2>1. Others(c) /\ at[c] = "unused" /\ at'[c] = "load"
    BY <1>0, <1>6, PruneTypes
  <2>2. UNCHANGED <<temp, io, doubled, spoiled>>
    BY <1>6 DEF Prune, fileVars, histVars
  <2> QED BY <1>0, <2>1, <2>2, MoveWriters DEF Writing
<1>7. ASSUME NEW c \in Calls, Loaded(c) \/ Unlink(c) PROVE WritersInv'
  <2>1. Others(c) /\ at'[c] \in {"done", "unlink", "lock"}
    BY <1>0, <1>7, LoadedTypes, UnlinkTypes
  <2>2. at[c] \in {"load", "unlink"} /\ UNCHANGED <<temp, io, doubled, spoiled>>
    BY <1>7 DEF Loaded, Unlink, fileVars, histVars
  <2> QED BY <1>0, <2>1, <2>2, MoveWriters DEF Writing
<1>8. ASSUME NEW c \in Calls, Acquire(c) PROVE WritersInv'
  <2>1. job' = job /\ at'[c] = "read" /\ \A d \in Calls \ {c} : at'[d] = at[d]
    BY <1>0, <1>8, AcquireTypes
  <2>2. at[c] = "lock" /\ UNCHANGED <<temp, io, doubled, spoiled>>
    BY <1>8 DEF Acquire, fileVars, histVars
  <2> QED BY <1>0, <2>1, <2>2, MoveWriters DEF Writing, Others
<1> QED BY <1>0, <1>2, <1>3, <1>4, <1>5, <1>6, <1>7, <1>8, SaveWriters, AbandonWriters, ReadIndexWriters,
           OpenWriters, WriteWriters, ReplaceWriters, FailsWriters DEF Next, CallStep

----------------------------------------------------------------------------
(* The index follows the calls.                                            *)

\* An unspoiled index can be parsed, and what is about to replace it is what the call
\* makes of the entries as they are now.
IndexInv ==
  ~spoiled =>
    /\ disk[Index] \in {Absent, Whole(Entries)}
    /\ \A c \in Calls : at[c] = "index" => job[c].data = Updated(c, Entries)

\* What a step does to a file: a sole writer replaces it as a whole when it has done.
LEMMA DiskStep ==
  ASSUME WritersInv, [Next]_vars, NEW f \in Files, disk'[f] # disk[f]
  PROVE  \/ f \in removed'
         \/ \E c \in Calls : /\ Writing(c) /\ Target(c) = f
                             /\ Sole(c) => Replace(c) /\ disk'[f] = Content(c)
<1>0. LockInv /\ TypeInv
  BY DEF WritersInv, LockInv
<1>1. PICK c \in Calls : Unlink(c) \/ Write(c) \/ Replace(c)
  <2>1. disk' # disk
    OBVIOUS
  <2> QED BY <2>1 DEF Next, CallStep, Save, Prune, Loaded, Acquire, ReadIndex, Open, Fails, Abandon,
             NextRun, Crash, Age, vars, fileVars
<1>2. CASE Unlink(c)
  <2>1. PICK k \in Files : disk' = [disk EXCEPT ![k] = Absent] /\ k \in removed'
    BY <1>0, <1>2 DEF Unlink, TypeInv, Types, Working, Files
  <2>2. f = k
    BY <1>0, <2>1 DEF TypeInv, Types
  <2> QED BY <2>1, <2>2
<1>3. CASE Write(c)
  <2>1. /\ Writing(c) /\ io[c].stage = "write"
        /\ \A g \in Files \ {Target(c)} : disk'[g] = disk[g]
        /\ io[c].into = "temp" => disk' = disk
    BY <1>0, <1>3, WriteTypes DEF Write
  <2>2. Sole(c) => io[c].into = "temp"
    BY <2>1 DEF WritersInv, Sound
  <2> QED BY <2>1, <2>2
<1>4. CASE Replace(c)
  <2>1. /\ Writing(c) /\ io[c].stage = "replace"
        /\ disk'[Target(c)] = temp[Target(c)]
        /\ \A g \in Files \ {Target(c)} : disk'[g] = disk[g]
    BY <1>0, <1>4, ReplaceTypes DEF Replace
  <2>2. Sole(c) => temp[Target(c)] = Content(c)
    BY <2>1 DEF WritersInv, Sound
  <2> QED BY <1>4, <2>1, <2>2
<1> QED BY <1>1, <1>2, <1>3, <1>4

\* The index changes by the replacement of what one call has made of it.
LEMMA IndexStep ==
  ASSUME WritersInv, IndexInv, [Next]_vars, ~spoiled, disk'[Index] # disk[Index]
  PROVE  \E c \in Calls : /\ at[c] = "index" /\ Replace(c) /\ Sole(c)
                          /\ disk'[Index] = Whole(Updated(c, Entries))
<1>1. Index \in Files /\ TypeInv /\ TypeInv'
  BY TypeStep DEF Files, WritersInv, LockInv
<1>2. Index \notin removed'
  BY <1>1, StoreConstants DEF TypeInv, Types
<1>3. PICK c \in Calls : /\ Writing(c) /\ Target(c) = Index
                         /\ Sole(c) => Replace(c) /\ disk'[Index] = Content(c)
  BY <1>1, <1>2, DiskStep
<1>4. at[c] = "index" /\ Sole(c)
  BY <1>1, <1>3, TargetType DEF Writing, Sole
<1> QED BY <1>3, <1>4 DEF IndexInv, Content

\* No call begins to replace the index, which is as it was.
LEMMA IndexKept ==
  ASSUME IndexInv, disk'[Index] = disk[Index], spoiled => spoiled',
         \A c \in Calls : at'[c] = "index" => SameCall(c)
  PROVE  IndexInv'
<1> SUFFICES ASSUME ~spoiled'
             PROVE  /\ disk'[Index] \in {Absent, Whole(Entries')}
                    /\ \A c \in Calls : at'[c] = "index" => job'[c].data = Updated(c, Entries)'
  BY DEF IndexInv, Absent, Whole
<1>1. Entries' = Entries
  BY DEF Entries
<1>2. ~spoiled
  OBVIOUS
<1>3. ASSUME NEW c \in Calls, at'[c] = "index" PROVE job'[c].data = Updated(c, Entries)'
  <2>1. at[c] = "index" /\ SameCall(c)
    BY <1>3 DEF SameCall
  <2>2. job[c].data = Updated(c, Entries)
    BY <1>2, <2>1 DEF IndexInv
  <2>3. Updated(c, Entries)' = Updated(c, Entries)
    BY <1>1, <2>1 DEF Updated, SameCall
  <2> QED BY <2>1, <2>2, <2>3 DEF SameCall
<1>4. disk'[Index] \in {Absent, Whole(Entries')}
  BY <1>1, <1>2 DEF IndexInv, Absent, Whole
<1> QED BY <1>3, <1>4

LEMMA IndexInvStep ==
  ASSUME WritersInv, IndexInv, [Next]_vars
  PROVE  IndexInv'
<1>0. LockInv /\ TypeInv /\ LockInv' /\ TypeInv' /\ Index \in Files
  BY LockStep DEF WritersInv, LockInv, Files
<1>1. spoiled => spoiled'
  BY HistoryGrows
<1>2. CASE spoiled
  BY <1>1, <1>2 DEF IndexInv
<1>3. CASE ~spoiled /\ disk'[Index] # disk[Index]
  <2>1. PICK c \in Calls : /\ at[c] = "index" /\ Replace(c)
                           /\ disk'[Index] = Whole(Updated(c, Entries))
    BY <1>3, IndexStep
  <2>2. Others(c) /\ at'[c] # "index"
    BY <1>0, <2>1, ReplaceTypes, AfterWriteFacts DEF Replace
  <2>3. \A d \in Calls : at'[d] # "index"
    <3> SUFFICES ASSUME NEW d \in Calls \ {c}, at[d] = "index" PROVE FALSE
      BY <2>2 DEF Others
    <3> QED BY <1>0, <1>3, <2>1, OneSection DEF InSection
  <2>4. Entries' = Updated(c, Entries)
    BY <2>1 DEF Entries, Whole
  <2> QED BY <2>1, <2>3, <2>4 DEF IndexInv, Whole
<1>4. ASSUME disk'[Index] = disk[Index], \A c \in Calls : at'[c] = "index" => SameCall(c) PROVE IndexInv'
  BY <1>1, <1>4, IndexKept
<1>5. CASE UNCHANGED <<disk, at, job>>
  BY <1>4, <1>5 DEF SameCall
<1>6. CASE UNCHANGED vars
  BY <1>5, <1>6 DEF vars, fileVars, callVars
<1>7. CASE Crash
  <2>1. \A c \in Calls : at'[c] # "index"
    BY <1>0, <1>7, CrashTypes
  <2> QED BY <1>4, <1>7, <2>1 DEF Crash, fileVars
<1>8. ASSUME NEW c \in Calls, NEW k \in Ids, NEW awaited \in BOOLEAN, Save(c, k, awaited) PROVE IndexInv'
  <2>1. Others(c) /\ at'[c] # "index" /\ disk' = disk
    BY <1>0, <1>8, SaveTypes DEF Save, fileVars
  <2> QED BY <1>4, <2>1 DEF Others, SameCall
<1>9. ASSUME NEW c \in Calls, Others(c), at'[c] # "index", disk'[Index] = disk[Index] PROVE IndexInv'
  BY <1>4, <1>9 DEF Others, SameCall
<1>10. ASSUME NEW c \in Calls, Prune(c) \/ Loaded(c) PROVE IndexInv'
  <2>1. Others(c) /\ at'[c] # "index"
    BY <1>0, <1>10, PruneTypes, LoadedTypes
  <2> QED BY <1>9, <1>10, <2>1 DEF Prune, Loaded, fileVars
<1>11. ASSUME NEW c \in Calls, ~spoiled, disk'[Index] = disk[Index], Unlink(c) \/ Replace(c) PROVE IndexInv'
  <2>1. Others(c) /\ at'[c] # "index"
    BY <1>0, <1>11, UnlinkTypes, ReplaceTypes, AfterWriteFacts DEF Replace, Writing
  <2> QED BY <1>9, <1>11, <2>1
<1>12. ASSUME NEW c \in Calls, Acquire(c) \/ Fails(c) PROVE IndexInv'
  <2>1. Others(c) /\ at'[c] # "index"
    BY <1>0, <1>12, AcquireTypes, FailsTypes DEF Others
  <2> QED BY <1>9, <1>12, <2>1 DEF Acquire, Fails, fileVars
<1>13. ASSUME NEW c \in Calls, Abandon(c) PROVE IndexInv'
  <2>1. \A d \in Calls : at'[d] = "index" => SameCall(d)
    BY <1>0, <1>13, AbandonTypes DEF SameCall
  <2> QED BY <1>4, <1>13, <2>1 DEF Abandon, fileVars
<1>14. ASSUME NEW c \in Calls, ReadIndex(c) PROVE IndexInv'
  <2>1. Others(c) /\ Kept(c) /\ disk' = disk /\ at[c] = "read"
    BY <1>0, <1>14, ReadIndexTypes DEF ReadIndex, fileVars
  <2>2. CASE at'[c] # "index"
    BY <1>9, <2>1, <2>2
  <2>3. CASE at'[c] = "index"
    <3>1. PICK ids \in {Entries, {}} : /\ Move(c, "index") /\ job' = [job EXCEPT ![c].data = Updated(c, ids)]
                                       /\ ids = Entries \/ spoiled'
      <4>1. ASSUME Proceed(c, job[c].todo) PROVE FALSE
        <5>1. job[c].todo \subseteq old
          BY <1>0 DEF TypeInv, Working
        <5> QED BY <1>0, <2>3, <4>1, <5>1, ProceedFacts DEF TypeInv
      <4> QED BY <1>14, <4>1 DEF ReadIndex
    <3>2. job'[c].data = Updated(c, ids) /\ job'[c].id = job[c].id
      <4> DEFINE j == [job[c] EXCEPT !.data = Updated(c, ids)]
      <4>1. j.data = Updated(c, ids) /\ j.id = job[c].id
        BY <1>0 DEF TypeInv, Types, Job
      <4>2. job' = [job EXCEPT ![c] = j]
        BY <3>1
      <4> HIDE DEF j
      <4> QED BY <1>0, <4>1, <4>2 DEF TypeInv, Types
    <3> SUFFICES ASSUME ~spoiled' PROVE IndexInv'
      BY DEF IndexInv
    <3>3. Entries' = Entries /\ ids = Entries
      BY <2>1, <3>1 DEF Entries
    <3>4. \A d \in Calls \ {c} : at'[d] # "index"
      BY <1>0, <1>1, <2>1, OneSection DEF Others, InSection
    <3>5. job'[c].data = Updated(c, Entries)'
      BY <2>1, <3>2, <3>3 DEF Updated, Kept
    <3> QED BY <1>1, <2>1, <3>3, <3>4, <3>5 DEF IndexInv, Absent, Whole
  <2> QED BY <2>2, <2>3
<1> QED
  <2>1. ASSUME ~spoiled, disk'[Index] = disk[Index], [Next]_vars PROVE IndexInv'
    <3>1. ASSUME NEW c \in Calls, Open(c) \/ Write(c) PROVE IndexInv'
      BY <1>4, <2>1, <3>1 DEF Open, Write, SameCall
    <3>2. ASSUME NEW k \in Ids, Age(k) PROVE IndexInv'
      BY <1>5, <3>2 DEF Age, fileVars, callVars
    <3>3. CASE NextRun
      BY <1>5, <3>3 DEF NextRun, fileVars, callVars
    <3> QED BY <1>6, <1>7, <1>8, <1>10, <1>11, <1>12, <1>13, <1>14, <2>1, <3>1, <3>2, <3>3 DEF Next, CallStep
  <2> QED BY <1>2, <1>3, <2>1

----------------------------------------------------------------------------
(* What the index names can be loaded.                                     *)

Loadable == {k \in Ids : k \in removed \cup doubled \/ disk[k].kind = "whole"}

\* All that the index has, or may come to have, can be loaded.
EntriesInv ==
  /\ disk[Index].ids \subseteq Loadable /\ temp[Index].ids \subseteq Loadable
  /\ \A c \in Calls : at[c] = "index" => job[c].data \subseteq Loadable
  /\ \A c \in Calls : at[c] \in {"lock", "read", "index"} => job[c].id \in Loadable

AckedInv == spoiled \/ acked \subseteq Entries \cup removed

StoreInv == WritersInv /\ IndexInv /\ EntriesInv /\ AckedInv

\* What can be loaded stays so, unless it is removed or saved by two calls.
LEMMA LoadableGrows ==
  ASSUME WritersInv, [Next]_vars
  PROVE  Loadable \subseteq Loadable'
<1>1. removed \subseteq removed' /\ doubled \subseteq doubled'
  BY HistoryGrows
<1> SUFFICES ASSUME NEW k \in Ids, k \in Loadable, k \notin removed' \cup doubled', disk'[k] # disk[k]
             PROVE  disk'[k].kind = "whole"
  BY <1>1 DEF Loadable
<1>2. PICK c \in Calls : /\ Writing(c) /\ Target(c) = k
                         /\ Sole(c) => disk'[k] = Content(c)
  BY DiskStep DEF Files
<1>3. at[c] = "file" /\ job[c].id = k
  BY <1>2, StoreConstants DEF Target, Writing
<1>4. disk'[k] = Whole({})
  BY <1>1, <1>2, <1>3 DEF Sole, Content
<1> QED BY <1>4 DEF Whole

\* A step that adds no entry that was not good.
LEMMA EntriesKept ==
  ASSUME EntriesInv, Loadable \subseteq Loadable',
         disk'[Index] = disk[Index], temp'[Index] = temp[Index],
         \A c \in Calls : at'[c] \in {"lock", "read", "index"} =>
           at[c] \in {"lock", "read", "index"} /\ job'[c].id = job[c].id,
         \A c \in Calls : at'[c] = "index" => at[c] = "index" /\ job'[c].data = job[c].data
  PROVE  EntriesInv'
BY DEF EntriesInv

\* The step of one call that does not come near the index.
LEMMA EntriesOutside ==
  ASSUME WritersInv, EntriesInv, [Next]_vars, NEW c \in Calls, Others(c),
         at'[c] \notin {"lock", "read", "index"},
         disk'[Index] = disk[Index], temp'[Index] = temp[Index]
  PROVE  EntriesInv'
<1>1. Loadable \subseteq Loadable'
  BY LoadableGrows
<1> QED BY <1>1, EntriesKept DEF Others

\* What a call makes of the entries.
LEMMA UpdatedLoadable ==
  ASSUME TypeInv, EntriesInv, NEW c \in Calls, at[c] = "read", NEW ids \in SUBSET Loadable
  PROVE  Updated(c, ids) \subseteq Loadable
BY DEF EntriesInv, Updated

LEMMA ReadIndexEntries ==
  ASSUME WritersInv, EntriesInv, NEW c \in Calls, ReadIndex(c)
  PROVE  EntriesInv'
<1>0. TypeInv /\ Loadable \subseteq Loadable'
  BY LoadableGrows DEF WritersInv, LockInv, Next, CallStep
<1>1. /\ Others(c) /\ at[c] = "read" /\ at'[c] \in {"index", "done", "unlink"}
      /\ disk' = disk /\ temp' = temp /\ [Next]_vars
  BY <1>0, ReadIndexTypes DEF ReadIndex, fileVars, Next, CallStep
<1>2. CASE at'[c] # "index"
  BY <1>1, <1>2, EntriesOutside
<1>3. CASE at'[c] = "index"
  <2>1. PICK ids \in {Entries, {}} : job' = [job EXCEPT ![c].data = Updated(c, ids)]
    <3>1. ASSUME Proceed(c, job[c].todo) PROVE FALSE
      <4>1. job[c].todo \subseteq old
        BY <1>0 DEF TypeInv, Working
      <4> QED BY <1>0, <1>3, <3>1, <4>1, ProceedFacts DEF TypeInv
    <3> QED BY <3>1 DEF ReadIndex
  <2>2. job'[c].data = Updated(c, ids) /\ job'[c].id = job[c].id
    <3> DEFINE j == [job[c] EXCEPT !.data = Updated(c, ids)]
    <3>1. j.data = Updated(c, ids) /\ j.id = job[c].id
      BY <1>0 DEF TypeInv, Types, Job
    <3>2. job' = [job EXCEPT ![c] = j]
      BY <2>1
    <3> HIDE DEF j
    <3> QED BY <1>0, <3>1, <3>2 DEF TypeInv, Types
  <2>3. ids \subseteq Loadable
    BY DEF EntriesInv, Entries
  <2>4. job'[c].data \subseteq Loadable' /\ job'[c].id \in Loadable'
    BY <1>0, <1>1, <2>2, <2>3, UpdatedLoadable DEF EntriesInv
  <2>5. \A d \in Calls \ {c} : at'[d] = at[d] /\ job'[d] = job[d]
    BY <1>1 DEF Others
  <2> QED BY <1>0, <1>1, <2>4, <2>5 DEF EntriesInv
<1> QED BY <1>2, <1>3

\* Files other than the index are not the index; the index gets what a call has made
\* of it, or nothing that can be parsed.
LEMMA WriterEntries ==
  ASSUME WritersInv, EntriesInv, NEW c \in Calls, Open(c) \/ Write(c)
  PROVE  EntriesInv'
<1>0. TypeInv /\ Loadable \subseteq Loadable' /\ Index \in Files
  BY LoadableGrows DEF WritersInv, LockInv, Next, CallStep, Files
<1>1. Writing(c) /\ UNCHANGED <<at, job>>
  BY DEF Open, Write
<1>2. CASE at[c] = "file"
  <2>1. Target(c) # Index
    BY <1>0, <1>1, <1>2, TargetType
  <2>2. disk'[Index] = disk[Index] /\ temp'[Index] = temp[Index]
    BY <1>0, <2>1, OpenTypes, WriteTypes
  <2> QED BY <1>0, <1>1, <2>2, EntriesKept
<1>3. CASE at[c] = "index"
  <2>1. Target(c) = Index /\ Content(c).ids \subseteq Loadable /\ Torn.ids = {} /\ Empty.ids = {}
    BY <1>3 DEF Target, Content, EntriesInv, Whole, Torn, Empty
  <2>2. ASSUME NEW v, v \in Written(c, temp[Index]) \/ v \in Written(c, disk[Index]) \/ v = Empty
        PROVE  v.ids \subseteq Loadable
    BY <2>1, <2>2 DEF Written
  <2>3. disk'[Index].ids \subseteq Loadable /\ temp'[Index].ids \subseteq Loadable
    <3>1. CASE Open(c)
      <4>1. disk' = disk /\ temp'[Index] = Empty
        BY <1>0, <2>1, <3>1, OpenTypes
      <4> QED BY <2>1, <4>1 DEF EntriesInv
    <3>2. CASE Write(c)
      <4>1. /\ temp'[Index] = temp[Index] \/ temp'[Index] \in Written(c, temp[Index])
            /\ disk'[Index] = disk[Index] \/ disk'[Index] \in Written(c, disk[Index])
        BY <1>0, <2>1, <3>2, WriteTypes DEF fileVars
      <4> QED BY <2>2, <4>1 DEF EntriesInv
    <3> QED BY <3>1, <3>2
  <2> QED BY <1>0, <1>1, <2>3 DEF EntriesInv
<1> QED BY <1>1, <1>2, <1>3 DEF Writing

LEMMA ReplaceEntries ==
  ASSUME WritersInv, EntriesInv, NEW c \in Calls, Replace(c)
  PROVE  EntriesInv'
<1>0. LockInv /\ TypeInv /\ Loadable \subseteq Loadable' /\ Index \in Files /\ [Next]_vars
  BY LoadableGrows DEF WritersInv, LockInv, Next, CallStep, Files
<1>1. /\ Others(c) /\ Writing(c) /\ io[c].stage = "replace"
      /\ disk'[Target(c)] = temp[Target(c)] /\ temp'[Target(c)] = Absent
      /\ \A f \in Files \ {Target(c)} : temp'[f] = temp[f] /\ disk'[f] = disk[f]
  BY <1>0, ReplaceTypes DEF Replace
<1>2. CASE at[c] = "file"
  <2>1. Target(c) # Index /\ Target(c) = job[c].id /\ job[c].id \in Ids
    BY <1>0, <1>1, <1>2, TargetType
  <2>2. disk'[Index] = disk[Index] /\ temp'[Index] = temp[Index]
    BY <1>0, <1>1, <2>1
  <2>3. job' = job /\ at'[c] \in {"done", "lock"}
    BY <1>0, <1>1, <1>2, AfterWriteFacts DEF Replace
  <2>4. job[c].id \in Loadable'
    <3>1. CASE job[c].id \in doubled
      BY <2>1, <3>1 DEF Loadable, Replace
    <3>2. CASE job[c].id \notin doubled
      <4>1. temp[Target(c)] = Content(c)
        BY <1>1, <1>2, <3>2 DEF WritersInv, Sole, Sound
      <4>2. disk'[job[c].id].kind = "whole"
        BY <1>1, <1>2, <2>1, <4>1 DEF Content, Whole
      <4> QED BY <2>1, <4>2 DEF Loadable
    <3> QED BY <3>1, <3>2
  <2>5. \A d \in Calls \ {c} : at'[d] = at[d]
    BY <1>1 DEF Others
  <2>6. \A d \in Calls : at'[d] \in {"lock", "read", "index"} => job'[d].id \in Loadable'
    BY <1>0, <2>3, <2>4, <2>5 DEF EntriesInv
  <2>7. \A d \in Calls : at'[d] = "index" => job'[d].data \subseteq Loadable'
    BY <1>0, <2>3, <2>5 DEF EntriesInv
  <2> QED BY <1>0, <2>2, <2>6, <2>7 DEF EntriesInv
<1>3. CASE at[c] = "index"
  <2>1. Target(c) = Index
    BY <1>3 DEF Target
  <2>2. disk'[Index].ids \subseteq Loadable' /\ temp'[Index].ids \subseteq Loadable'
    BY <1>0, <1>1, <2>1 DEF EntriesInv, Absent
  <2>3. at'[c] \in {"done", "unlink"}
    BY <1>0, <1>1, <1>3, AfterWriteFacts DEF Replace
  <2> QED BY <1>0, <1>1, <2>2, <2>3 DEF EntriesInv, Others
<1> QED BY <1>1, <1>2, <1>3 DEF Writing

LEMMA UnlinkEntries ==
  ASSUME WritersInv, EntriesInv, NEW c \in Calls, Unlink(c)
  PROVE  EntriesInv'
<1>0. TypeInv /\ TypeInv' /\ Loadable \subseteq Loadable' /\ [Next]_vars
  BY LoadableGrows, TypeStep DEF WritersInv, LockInv, Next, CallStep
<1>1. Others(c) /\ at'[c] \in {"done", "unlink", "lock"} /\ temp' = temp
  BY <1>0, UnlinkTypes DEF Unlink
<1>2. disk'[Index] = disk[Index]
  <2>1. job[c].id \in Ids /\ Index \in Files
    BY <1>0 DEF Unlink, TypeInv, Types, Working, Files
  <2> QED BY <1>0, <2>1, StoreConstants DEF Unlink, TypeInv, Types
<1>3. CASE at'[c] # "lock"
  BY <1>0, <1>1, <1>2, <1>3, EntriesOutside
<1>4. CASE at'[c] = "lock"
  <2>1. job'[c].id \in removed' /\ job'[c].id \in Ids
    <3>1. ASSUME Proceed(c, job[c].todo) PROVE FALSE
      <4>1. job[c].todo \subseteq old
        BY <1>0 DEF TypeInv, Working
      <4> QED BY <1>0, <1>4, <3>1, <4>1, ProceedFacts DEF TypeInv
    <3> QED BY <1>0, <1>4, <3>1 DEF Unlink, TypeInv, Types, Working
  <2>2. job'[c].id \in Loadable'
    BY <2>1 DEF Loadable
  <2> QED BY <1>0, <1>1, <1>2, <1>4, <2>2 DEF EntriesInv, Others
<1> QED BY <1>3, <1>4

LEMMA EntriesStep == ASSUME WritersInv, EntriesInv, [Next]_vars PROVE EntriesInv'
<1>0. TypeInv /\ LockInv /\ Loadable \subseteq Loadable' /\ Index \in Files
  BY LoadableGrows DEF WritersInv, LockInv, Files
<1>1. ASSUME UNCHANGED <<disk, temp, at, job>> PROVE EntriesInv'
  BY <1>0, <1>1, EntriesKept
<1>2. CASE UNCHANGED vars
  BY <1>1, <1>2 DEF vars, fileVars, callVars
<1>3. ASSUME NEW k \in Ids, Age(k) PROVE EntriesInv'
  BY <1>1, <1>3 DEF Age, fileVars, callVars
<1>4. CASE NextRun
  BY <1>1, <1>4 DEF NextRun, fileVars, callVars
<1>5. CASE Crash
  <2>1. \A c \in Calls : at'[c] \in {"unused", "done"}
    BY <1>0, <1>5, CrashTypes
  <2> QED BY <1>0, <1>5, <2>1, EntriesKept DEF Crash, fileVars
<1>6. ASSUME NEW c \in Calls, NEW k \in Ids, NEW awaited \in BOOLEAN, Save(c, k, awaited) PROVE EntriesInv'
  <2>1. Others(c) /\ at'[c] = "file"
    BY <1>0, <1>6, SaveTypes
  <2> QED BY <1>6, <2>1, EntriesOutside DEF Save, fileVars
<1>7. ASSUME NEW c \in Calls, Prune(c) \/ Loaded(c) PROVE EntriesInv'
  <2>1. Others(c) /\ at'[c] \notin {"lock", "read", "index"}
    BY <1>0, <1>7, PruneTypes, LoadedTypes
  <2> QED BY <1>7, <2>1, EntriesOutside DEF Prune, Loaded, fileVars
<1>8. ASSUME NEW c \in Calls, Acquire(c) PROVE EntriesInv'
  <2>1. job' = job /\ at'[c] = "read" /\ at[c] = "lock" /\ \A d \in Calls \ {c} : at'[d] = at[d]
    BY <1>0, <1>8, AcquireTypes DEF Acquire
  <2> QED BY <1>0, <1>8, <2>1, EntriesKept DEF Acquire, fileVars
<1>9. ASSUME NEW c \in Calls, Fails(c) PROVE EntriesInv'
  <2>1. /\ UNCHANGED <<job, disk>> /\ at'[c] = "done" /\ \A d \in Calls \ {c} : at'[d] = at[d]
        /\ temp'[Index] = temp[Index] \/ temp'[Index] = Absent
    BY <1>0, <1>9, FailsTypes
  <2>2. temp'[Index].ids \subseteq Loadable
    BY <2>1 DEF EntriesInv, Absent
  <2> QED BY <1>0, <2>1, <2>2 DEF EntriesInv
<1>10. ASSUME NEW c \in Calls, Abandon(c) PROVE EntriesInv'
  <2>1. \A d \in Calls : /\ at'[d] = "done" \/ at'[d] = at[d]
                         /\ job'[d].id = job[d].id /\ job'[d].data = job[d].data
    BY <1>0, <1>10, AbandonTypes
  <2> QED BY <1>0, <1>10, <2>1, EntriesKept DEF Abandon, fileVars
<1> QED BY <1>2, <1>3, <1>4, <1>5, <1>6, <1>7, <1>8, <1>9, <1>10, ReadIndexEntries, WriterEntries,
           ReplaceEntries, UnlinkEntries DEF Next, CallStep

\* A save returns when the index has its entry, and an entry goes when the file has gone.
LEMMA AckedStep ==
  ASSUME WritersInv, IndexInv, AckedInv, [Next]_vars
  PROVE  AckedInv'
<1>0. LockInv /\ TypeInv
  BY DEF WritersInv, LockInv
<1>1. (spoiled => spoiled') /\ removed \subseteq removed'
  BY HistoryGrows
<1> SUFFICES ASSUME ~spoiled PROVE AckedInv'
  BY <1>1 DEF AckedInv
<1>2. acked \subseteq Entries \cup removed
  BY DEF AckedInv
<1>3. ASSUME NEW c \in Calls, Replace(c), at[c] = "index" PROVE AckedInv'
  <2>1. /\ acked' = IF job[c].op = "save" /\ ~job[c].left THEN acked \cup {job[c].id} ELSE acked
        /\ job[c].op = "prune" => job[c].id \in removed
        /\ job[c].op \in {"save", "prune"} /\ io[c].stage = "replace" /\ Target(c) = Index
    BY <1>0, <1>3, AfterWriteFacts DEF Replace, TypeInv, Types, Working, Job, Writing, Target
  <2>2. disk'[Index] = Whole(Updated(c, Entries))
    <3>1. disk'[Index] = temp[Index]
      BY <1>0, <1>3, <2>1, ReplaceTypes
    <3>2. Sound(c) /\ Sole(c)
      BY <1>3 DEF WritersInv, Sole
    <3>3. temp[Index] = Content(c)
      BY <2>1, <3>2 DEF Sound
    <3> QED BY <1>3, <3>1, <3>3 DEF Content, IndexInv
  <2>3. Entries' = Updated(c, Entries)
    BY <2>2 DEF Entries, Whole
  <2> QED BY <1>1, <1>2, <2>1, <2>3 DEF AckedInv, Updated
<1>4. ASSUME disk'[Index] = disk[Index], acked' = acked PROVE AckedInv'
  BY <1>1, <1>2, <1>4 DEF AckedInv, Entries
<1>5. ASSUME \A c \in Calls : ~(Replace(c) /\ at[c] = "index") PROVE AckedInv'
  <2>1. disk'[Index] = disk[Index]
    BY <1>5, IndexStep
  <2>2. \A c \in Calls : Replace(c) => acked' = acked
    BY <1>0, <1>5, AfterWriteFacts DEF Replace, Writing
  <2>3. acked' = acked
    BY <2>2 DEF Next, CallStep, Save, Prune, Loaded, Unlink, Acquire, ReadIndex, Open, Write, Fails,
           Abandon, NextRun, Crash, Age, vars, histVars
  <2> QED BY <1>4, <2>1, <2>3
<1> QED BY <1>3, <1>5

LEMMA InitStore == ASSUME Init PROVE StoreInv
<1>1. WritersInv
  BY InitLock DEF Init, WritersInv, Sole
<1>2. IndexInv /\ EntriesInv /\ AckedInv
  BY DEF Init, IndexInv, EntriesInv, AckedInv, Files, Absent
<1> QED BY <1>1, <1>2 DEF StoreInv

LEMMA StoreStep == ASSUME StoreInv, [Next]_vars PROVE StoreInv'
BY WritersStep, IndexInvStep, EntriesStep, AckedStep DEF StoreInv

LEMMA StoreAlways == Spec => []StoreInv
<1>1. Init => StoreInv
  BY InitStore
<1>2. StoreInv /\ [Next]_vars => StoreInv'
  BY StoreStep
<1> QED BY <1>1, <1>2, PTL DEF Spec

----------------------------------------------------------------------------
(* The theorems.                                                           *)

\* Files, calls and locks have their types, and a lock is held by one call at most.
THEOREM TypeCorrect == Spec => []TypeOK
<1>1. StoreInv => TypeOK
  BY DEF StoreInv, WritersInv, LockInv, TypeInv, Types, Locked, TypeOK
<1> QED BY <1>1, StoreAlways, PTL

\* A checkpoint whose save has returned is found again, however saves, prunings, failed
\* writes, cancellations and crashes interleave: the index has it, and what the index
\* has can be loaded, with the exceptions that Restorable names.
THEOREM SavedIsRestorable == Spec => []Restorable
<1>1. StoreInv => Restorable
  BY DEF StoreInv, EntriesInv, AckedInv, Restorable, Loadable, Entries
<1> QED BY <1>1, StoreAlways, PTL

\* Reading, changing and replacing the index is as good as one step, for any number of
\* calls and of runs, unless it was spoiled.
THEOREM IndexIsSerial == Spec => IndexFollows
<1>1. ASSUME StoreInv, [Next]_vars, ~spoiled, disk'[Index] # disk[Index]
      PROVE  \E c \in Calls : /\ at[c] = "index" /\ at'[c] # "index"
                              /\ disk'[Index] = Whole(Updated(c, Entries))
  <2>1. PICK c \in Calls : /\ at[c] = "index" /\ Replace(c)
                           /\ disk'[Index] = Whole(Updated(c, Entries))
    BY <1>1, IndexStep DEF StoreInv
  <2>2. TypeInv /\ Writing(c) /\ AfterWrite(c)
    BY <1>1, <2>1 DEF Replace, StoreInv, WritersInv, LockInv
  <2>3. at'[c] # "index"
    BY <2>1, <2>2, AfterWriteFacts
  <2> QED BY <2>1, <2>3
<1>2. StoreInv /\ [Next]_vars => [Follows]_vars
  BY <1>1 DEF Follows
<1> QED BY <1>2, StoreAlways, PTL DEF Spec, IndexFollows
=============================================================================
