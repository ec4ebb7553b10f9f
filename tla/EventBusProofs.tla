--------------------------- MODULE EventBusProofs ---------------------------
(***************************************************************************)
(* Proofs about EventBus: the slots of the semaphore are conserved, and    *)
(* what a publication has returned for is in the browser's stream, in      *)
(* order, unless the browser is told to reconnect.                         *)
(***************************************************************************)
EXTENDS EventBus, FiniteSetTheorems, SequenceTheorems, TLAPS

----------------------------------------------------------------------------
(* What events, tasks and the client's queue are.                          *)

BusTypes ==
  /\ history \in Seq(Kinds) /\ Len(history) <= MaxEvents
  /\ parent \in Seq(0..MaxEvents) /\ Len(parent) = Len(history)
  /\ cur \in [Publishers -> 0..Len(history)]
  /\ tasks \subseteq Task
  /\ permits \in Nat
  /\ returned \subseteq 1..Len(history)

ClientTypes ==
  /\ client \in {"off", "preparing", "open", "closed", "abandoned"}
  /\ queue \in Seq(Entry) /\ Len(queue) <= QueueMax
  /\ sent \subseteq 1..Len(history)
  /\ full \in BOOLEAN /\ since \in 0..Len(history)

Types == BusTypes /\ ClientTypes

SlotsConserved ==
  /\ IsFiniteSet(Holding)
  /\ permits + Cardinality(Holding) = Slots

\* An event has one task for each handler; the client's do not suspend in their slot,
\* and only the queen's publish.
TaskInv ==
  /\ \A t \in tasks : t.ev \in 1..Len(history)
  /\ \A t, u \in tasks : t.ev = u.ev /\ t.h = u.h => t = u
  /\ \A t \in tasks : t.h = "client" => t.st = "queued"
  /\ \A t \in tasks : t.st = "publishing" => t.h = "queen"

\* Publishers publish events of their own; a handler that waits has published nothing;
\* what has returned has no handlers left.
ParentInv ==
  /\ \A e \in 1..Len(history) : parent[e] \in 0..Len(history)
  /\ \A p \in Publishers : cur[p] # 0 => parent[cur[p]] = 0
  /\ \A p, q \in Publishers : cur[p] # 0 /\ cur[p] = cur[q] => p = q
  /\ \A t \in tasks : t.h = "queen" /\ t.st = "queued" => \A e \in 1..Len(history) : parent[e] # t.ev
  /\ \A e \in returned : Over(e)

BusInv == Types /\ SlotsConserved /\ TaskInv /\ ParentInv

LEMMA BusConstants ==
  /\ QueueMax \in Nat /\ HistoryMax \in Nat /\ Slots \in Nat /\ MaxEvents \in Nat
  /\ 0 < QueueMax /\ 0 < Slots
BY BusAssumption

LEMMA InitBus == Init => BusInv
<1>. SUFFICES ASSUME Init PROVE BusInv
  OBVIOUS
<1>1. Holding = {} /\ IsFiniteSet({}) /\ Cardinality({}) = 0
  BY FS_EmptySet DEF Init, Holding
<1>2. SlotsConserved
  BY <1>1, BusConstants DEF Init, SlotsConserved
<1>3. Types
  <2>1. history = <<>> /\ parent = <<>> /\ queue = <<>> /\ Len(<<>>) = 0
    BY DEF Init
  <2>2. history \in Seq(Kinds) /\ parent \in Seq(0..MaxEvents) /\ queue \in Seq(Entry)
    BY <2>1
  <2>3. /\ cur \in [Publishers -> 0..0] /\ tasks = {} /\ permits = Slots /\ returned = {} /\ client = "off"
        /\ sent = {} /\ full = FALSE /\ since = 0
    BY DEF Init
  <2>4. Len(history) = 0 /\ Len(parent) = 0 /\ Len(queue) = 0
    BY <2>1
  <2>5. cur \in [Publishers -> 0..Len(history)]
    BY <2>3, <2>4
  <2>6. Len(history) <= MaxEvents /\ Len(queue) <= QueueMax /\ Slots \in Nat /\ 0 \in 0..Len(history)
    BY <2>4, BusConstants
  <2>. QED
    BY <2>2, <2>3, <2>4, <2>5, <2>6 DEF Types, BusTypes, ClientTypes
<1>4. TaskInv /\ ParentInv
  BY DEF Init, TaskInv, ParentInv
<1>. QED
  BY <1>2, <1>3, <1>4 DEF BusInv

\* Recording an event leaves the earlier ones as they are.
LEMMA RecordFacts ==
  ASSUME Types, NEW kind \in Kinds, NEW by \in 0..Len(history), Record(kind, by)
  PROVE  /\ Len(history) \in Nat /\ Len(history') = Len(history) + 1 /\ Len(history') <= MaxEvents
         /\ history' \in Seq(Kinds) /\ history'[Len(history')] = kind
         /\ \A e \in 1..Len(history) : history'[e] = history[e] /\ parent'[e] = parent[e]
         /\ parent' \in Seq(0..MaxEvents) /\ Len(parent') = Len(history') /\ parent'[Len(history')] = by
<1>. DEFINE n == Len(history)
<1>1. n \in Nat /\ n < MaxEvents /\ history \in Seq(Kinds) /\ history' = Append(history, kind)
      /\ parent' = Append(parent, by)
  BY BusConstants DEF Types, BusTypes, ClientTypes, Record
<1>2. parent \in Seq(0..MaxEvents) /\ Len(parent) = n
  BY <1>1 DEF Types, BusTypes, ClientTypes
<1>3. by \in 0..MaxEvents
  BY <1>1, BusConstants
<1>4. /\ history' \in Seq(Kinds) /\ Len(history') = n + 1 /\ history'[n + 1] = kind
      /\ \A e \in 1..n : history'[e] = history[e]
  BY <1>1, AppendProperties
<1>5. /\ parent' \in Seq(0..MaxEvents) /\ Len(parent') = n + 1 /\ parent'[n + 1] = by
      /\ \A e \in 1..n : parent'[e] = parent[e]
  BY <1>1, <1>2, <1>3, AppendProperties
<1>6. n + 1 <= MaxEvents
  BY <1>1, BusConstants
<1>. QED
  BY <1>1, <1>4, <1>5, <1>6

\* The tasks of a new event are new, and wait.
LEMMA NewTasksFacts ==
  ASSUME Types, TaskInv, Len(history) < MaxEvents, NEW kind \in Kinds
  PROVE  /\ NewTasks(kind) \subseteq Task
         /\ \A t \in NewTasks(kind) : /\ t.ev = Len(history) + 1 /\ t.st = "queued"
                                      /\ t.h = "queen" => kind = "completed"
         /\ \A t, u \in NewTasks(kind) : t.h = u.h => t = u
         /\ Subscribed => \E t \in NewTasks(kind) : t.h = "client"
         /\ NewTasks(kind) \cap tasks = {}
<1>1. Len(history) \in Nat /\ Len(history) + 1 \in Events
  BY BusConstants DEF Types, BusTypes, ClientTypes, Events
<1>2. Matching(kind) \subseteq Handlers /\ ("queen" \in Matching(kind) => kind = "completed")
      /\ (Subscribed => "client" \in Matching(kind))
  BY DEF Matching, Handlers
<1>3. \A t \in NewTasks(kind) : /\ t \in Task /\ t.ev = Len(history) + 1 /\ t.st = "queued"
                                /\ t.h \in Matching(kind)
                                /\ t = [ev |-> Len(history) + 1, h |-> t.h, st |-> "queued"]
  <2>1. ASSUME NEW h \in Matching(kind)
        PROVE  LET t == [ev |-> Len(history) + 1, h |-> h, st |-> "queued"]
               IN  t \in Task /\ t.ev = Len(history) + 1 /\ t.st = "queued" /\ t.h = h
    BY <1>1, <1>2 DEF Task
  <2>. QED
    BY <2>1 DEF NewTasks
<1>4. Subscribed => \E t \in NewTasks(kind) : t.h = "client"
  <2>1. "client" \in Matching(kind) => [ev |-> Len(history) + 1, h |-> "client", st |-> "queued"] \in NewTasks(kind)
    BY DEF NewTasks
  <2>. QED
    BY <1>2, <2>1
<1>5. \A t \in NewTasks(kind) : t \notin tasks
  BY <1>1, <1>3 DEF TaskInv
<1>. QED
  BY <1>2, <1>3, <1>4, <1>5

\* A task in its slot is another task.
LEMMA TaskMoves ==
  ASSUME Types, NEW t \in tasks, NEW st \in {"busy", "publishing"}
  PROVE  LET u == [t EXCEPT !.st = st] IN u \in Task /\ u.ev = t.ev /\ u.h = t.h /\ u.st = st
BY DEF Types, BusTypes, ClientTypes, Task

\* How steps change the set of tasks in a slot.
LEMMA SlotTaken ==
  ASSUME SlotsConserved, NEW u, u \notin Holding, Holding' = Holding \cup {u}, permits' = permits - 1,
         permits \in Nat
  PROVE  SlotsConserved'
<1>1. IsFiniteSet(Holding') /\ Cardinality(Holding') = Cardinality(Holding) + 1
      /\ Cardinality(Holding) \in Nat
  BY FS_AddElement, FS_CardinalityType DEF SlotsConserved
<1>. QED
  BY <1>1 DEF SlotsConserved

LEMMA SlotLeft ==
  ASSUME SlotsConserved, NEW u \in Holding, Holding' = Holding \ {u}, permits' = permits + 1,
         permits \in Nat
  PROVE  SlotsConserved'
<1>1. IsFiniteSet(Holding') /\ Cardinality(Holding') = Cardinality(Holding) - 1
      /\ Cardinality(Holding) \in Nat
  BY FS_RemoveElement, FS_CardinalityType DEF SlotsConserved
<1>. QED
  BY <1>1 DEF SlotsConserved

LEMMA SlotsSwept ==
  ASSUME SlotsConserved, NEW S, Holding' = Holding \ S, permits' = permits + Cardinality(S \cap Holding),
         permits \in Nat
  PROVE  SlotsConserved' /\ permits' \in Nat
<1>1. IsFiniteSet(Holding')
  BY FS_Difference DEF SlotsConserved
<1>2. IsFiniteSet(S \cap Holding) /\ Holding \cap S = S \cap Holding
  BY FS_Intersection DEF SlotsConserved
<1>3. Cardinality(Holding') = Cardinality(Holding) - Cardinality(S \cap Holding)
  BY <1>2, FS_Difference DEF SlotsConserved
<1>4. Cardinality(S \cap Holding) \in Nat /\ Cardinality(Holding) \in Nat
  BY <1>2, FS_CardinalityType DEF SlotsConserved
<1>. QED
  BY <1>1, <1>3, <1>4 DEF SlotsConserved

----------------------------------------------------------------------------
(* The steps of the bus.                                                   *)

\* What is left of the invariant when tasks go.
LEMMA FewerTasks ==
  ASSUME BusInv, tasks' \subseteq tasks, UNCHANGED <<history, parent, returned>>,
         \A p \in Publishers : cur'[p] \in {0, cur[p]}, cur' \in [Publishers -> 0..Len(history)],
         permits' \in Nat
  PROVE  BusTypes' /\ TaskInv' /\ ParentInv'
<1>1. BusTypes'
  BY DEF BusInv, Types, BusTypes
<1>2. TaskInv'
  BY DEF BusInv, TaskInv
<1>3. ParentInv'
  BY DEF BusInv, ParentInv, Over
<1>. QED
  BY <1>1, <1>2, <1>3

\* An event is recorded, and its tasks are made; a publisher or a handler awaits them.
LEMMA RecordTypes ==
  ASSUME Types, NEW kind \in Kinds, NEW by \in 0..Len(history), Record(kind, by),
         cur' \in [Publishers -> 0..Len(history')], tasks' \subseteq Task, permits' \in Nat,
         returned' = returned
  PROVE  BusTypes'
BY RecordFacts DEF Types, BusTypes

LEMMA PublishKeeps ==
  ASSUME BusInv, NEW p \in Publishers, NEW kind \in Kinds, Publish(p, kind)
  PROVE  BusTypes' /\ SlotsConserved' /\ TaskInv' /\ ParentInv'
<1>. DEFINE n == Len(history)
            New == NewTasks(kind)
<1>1. /\ Types /\ TaskInv /\ ParentInv /\ cur[p] = 0 /\ Record(kind, 0) /\ n < MaxEvents
      /\ cur' = [cur EXCEPT ![p] = Len(history')] /\ tasks' = tasks \cup New
      /\ permits' = permits /\ returned' = returned
  BY DEF BusInv, Publish, Record
<1>2. n \in Nat /\ 0 \in 0..n
  BY <1>1 DEF Types, BusTypes
<1>3. /\ Len(history') = n + 1 /\ Len(history') <= MaxEvents /\ parent'[n + 1] = 0
      /\ \A e \in 1..n : parent'[e] = parent[e]
  BY <1>1, <1>2, RecordFacts
<1>4. /\ New \subseteq Task /\ New \cap tasks = {}
      /\ \A t \in New : t.ev = n + 1 /\ t.st = "queued"
      /\ \A t, u \in New : t.h = u.h => t = u
  BY <1>1, NewTasksFacts
<1>. HIDE DEF New
<1>5. /\ cur'[p] = n + 1 /\ (\A q \in Publishers \ {p} : cur'[q] = cur[q])
      /\ cur' \in [Publishers -> 0..Len(history')] /\ \A q \in Publishers : cur[q] \in 0..n
  BY <1>1, <1>2, <1>3 DEF Types, BusTypes
<1>6. BusTypes'
  BY <1>1, <1>2, <1>4, <1>5, RecordTypes DEF Types, BusTypes
<1>7. Holding' = Holding
  BY <1>1, <1>4 DEF Holding
<1>8. SlotsConserved'
  BY <1>1, <1>7 DEF BusInv, SlotsConserved
<1>9. \A t \in tasks : t.ev \in 1..n
  BY <1>1 DEF TaskInv
<1>10. TaskInv'
  <2>1. \A t \in tasks' : t.ev \in 1..Len(history')
    BY <1>1, <1>2, <1>3, <1>4, <1>9
  <2>2. ASSUME NEW t \in tasks', NEW u \in tasks', t.ev = u.ev, t.h = u.h PROVE t = u
    <3>1. CASE t \in tasks /\ u \in tasks
      BY <1>1, <2>2, <3>1 DEF TaskInv
    <3>2. CASE t \in New /\ u \in New
      BY <1>4, <2>2, <3>2
    <3>3. CASE (t \in tasks /\ u \in New) \/ (t \in New /\ u \in tasks)
      BY <1>2, <1>4, <1>9, <2>2, <3>3
    <3>. QED
      BY <1>1, <3>1, <3>2, <3>3
  <2>. QED
    BY <1>1, <1>4, <2>1, <2>2 DEF TaskInv
<1>11. \A e \in 1..Len(history') : parent'[e] \in 0..n
  BY <1>1, <1>2, <1>3 DEF ParentInv
<1>12. ParentInv'
  <2>1. \A e \in 1..Len(history') : parent'[e] \in 0..Len(history')
    BY <1>2, <1>3, <1>11
  <2>2. \A q \in Publishers : cur'[q] # 0 => parent'[cur'[q]] = 0
    BY <1>1, <1>2, <1>3, <1>5 DEF ParentInv
  <2>3. \A q, r \in Publishers : cur'[q] # 0 /\ cur'[q] = cur'[r] => q = r
    BY <1>1, <1>2, <1>5 DEF ParentInv
  <2>4. ASSUME NEW t \in tasks', t.h = "queen", t.st = "queued", NEW e \in 1..Len(history')
        PROVE  parent'[e] # t.ev
    <3>1. CASE t \in New
      BY <1>2, <1>4, <1>11, <3>1
    <3>2. CASE t \in tasks /\ e \in 1..n
      BY <1>1, <1>3, <2>4, <3>2 DEF ParentInv
    <3>3. CASE t \in tasks /\ e = n + 1
      BY <1>2, <1>3, <1>9, <3>3
    <3>. QED
      BY <1>1, <1>2, <1>3, <3>1, <3>2, <3>3
  <2>5. ASSUME NEW e \in returned' PROVE Over(e)'
    <3>1. e \in 1..n /\ Over(e)
      BY <1>1, <2>5 DEF ParentInv, Types, BusTypes
    <3>. QED
      BY <1>1, <1>2, <1>4, <3>1 DEF Over
  <2>. QED
    BY <2>1, <2>2, <2>3, <2>4, <2>5 DEF ParentInv
<1>. QED
  BY <1>6, <1>8, <1>10, <1>12

LEMMA PublishPhaseKeeps ==
  ASSUME BusInv, NEW t \in tasks, PublishPhase(t)
  PROVE  BusTypes' /\ SlotsConserved' /\ TaskInv' /\ ParentInv'
<1>. DEFINE n == Len(history)
            New == NewTasks("phase")
            u == [t EXCEPT !.st = "publishing"]
<1>1. /\ Types /\ TaskInv /\ ParentInv /\ Record("phase", t.ev) /\ n < MaxEvents
      /\ t.h = "queen" /\ t.st = "queued" /\ permits > 0
      /\ tasks' = (tasks \ {t}) \cup {u} \cup New
      /\ permits' = permits - 1 /\ returned' = returned /\ cur' = cur
  BY DEF BusInv, PublishPhase, Record, First
<1>2. n \in Nat /\ t.ev \in 1..n /\ t.ev \in 0..n /\ "phase" \in Kinds /\ permits \in Nat
  BY <1>1 DEF Types, BusTypes, TaskInv, Kinds
<1>3. /\ Len(history') = n + 1 /\ Len(history') <= MaxEvents /\ parent'[n + 1] = t.ev
      /\ \A e \in 1..n : parent'[e] = parent[e]
  BY <1>1, <1>2, RecordFacts
<1>4. /\ New \subseteq Task /\ New \cap tasks = {}
      /\ \A v \in New : v.ev = n + 1 /\ v.st = "queued" /\ v.h # "queen"
      /\ \A v, w \in New : v.h = w.h => v = w
  BY <1>1, <1>2, NewTasksFacts
<1>5. u \in Task /\ u.ev = t.ev /\ u.h = "queen" /\ u.st = "publishing"
  BY <1>1, TaskMoves
<1>. HIDE DEF New, u
<1>6. cur' \in [Publishers -> 0..Len(history')] /\ \A q \in Publishers : cur[q] \in 0..n
  BY <1>1, <1>2, <1>3 DEF Types, BusTypes
<1>7. permits' \in Nat /\ tasks' \subseteq Task
  BY <1>1, <1>2, <1>4, <1>5 DEF Types, BusTypes
<1>8. BusTypes'
  BY <1>1, <1>2, <1>6, <1>7, RecordTypes
<1>9. u \notin tasks
  BY <1>1, <1>5 DEF TaskInv
<1>10. Holding' = Holding \cup {u} /\ u \notin Holding
  BY <1>1, <1>4, <1>5, <1>9 DEF Holding
<1>11. SlotsConserved'
  BY <1>1, <1>2, <1>10, SlotTaken DEF BusInv
<1>12. \A v \in tasks : v.ev \in 1..n
  BY <1>1 DEF TaskInv
<1>13. TaskInv'
  <2>1. \A v \in tasks' : v.ev \in 1..Len(history')
    BY <1>1, <1>2, <1>3, <1>4, <1>5, <1>12
  <2>2. ASSUME NEW v \in tasks', NEW w \in tasks', v.ev = w.ev, v.h = w.h PROVE v = w
    <3>1. \A x \in tasks \ {t} : ~(x.ev = u.ev /\ x.h = u.h)
      BY <1>1, <1>5 DEF TaskInv
    <3>2. CASE v \in New /\ w \in New
      BY <1>4, <2>2, <3>2
    <3>3. CASE v \notin New /\ w \notin New
      <4>1. v \in (tasks \ {t}) \cup {u} /\ w \in (tasks \ {t}) \cup {u}
        BY <1>1, <3>3
      <4>. QED
        BY <1>1, <2>2, <3>1, <4>1 DEF TaskInv
    <3>4. \A x \in tasks' : x \notin New => x.ev # n + 1
      BY <1>1, <1>2, <1>5, <1>12
    <3>. QED
      BY <1>4, <2>2, <3>2, <3>3, <3>4
  <2>. QED
    BY <1>1, <1>4, <1>5, <2>1, <2>2 DEF TaskInv
<1>14. \A e \in 1..Len(history') : parent'[e] \in 0..n
  BY <1>1, <1>2, <1>3 DEF ParentInv
<1>15. ParentInv'
  <2>1. \A e \in 1..Len(history') : parent'[e] \in 0..Len(history')
    BY <1>2, <1>3, <1>14
  <2>2. \A q \in Publishers : cur'[q] # 0 => parent'[cur'[q]] = 0
    BY <1>1, <1>2, <1>3, <1>6 DEF ParentInv
  <2>3. \A q, x \in Publishers : cur'[q] # 0 /\ cur'[q] = cur'[x] => q = x
    BY <1>1 DEF ParentInv
  <2>4. ASSUME NEW v \in tasks', v.h = "queen", v.st = "queued", NEW e \in 1..Len(history')
        PROVE  parent'[e] # v.ev
    <3>1. v \in tasks /\ v # t
      BY <1>1, <1>4, <1>5, <2>4
    <3>2. v.ev # t.ev
      BY <1>1, <2>4, <3>1 DEF TaskInv
    <3>3. CASE e \in 1..n
      BY <1>1, <1>3, <2>4, <3>1, <3>3 DEF ParentInv
    <3>4. CASE e = n + 1
      BY <1>3, <3>2, <3>4
    <3>. QED
      BY <1>2, <1>3, <3>3, <3>4
  <2>5. ASSUME NEW e \in returned' PROVE Over(e)'
    <3>1. e \in 1..n /\ Over(e)
      BY <1>1, <2>5 DEF ParentInv, Types, BusTypes
    <3>. QED
      BY <1>1, <1>2, <1>4, <1>5, <3>1 DEF Over
  <2>. QED
    BY <2>1, <2>2, <2>3, <2>4, <2>5 DEF ParentInv
<1>. QED
  BY <1>8, <1>11, <1>13, <1>15

LEMMA PublishDoneKeeps ==
  ASSUME BusInv, NEW p \in Publishers, PublishDone(p)
  PROVE  BusTypes' /\ SlotsConserved' /\ TaskInv' /\ ParentInv'
<1>1. /\ cur[p] # 0 /\ Over(cur[p]) /\ cur' = [cur EXCEPT ![p] = 0] /\ returned' = returned \cup {cur[p]}
      /\ UNCHANGED <<history, parent, tasks, permits>>
  BY DEF PublishDone
<1>2. cur[p] \in 0..Len(history) /\ Len(history) \in Nat
  BY DEF BusInv, Types, BusTypes
<1>3. cur' \in [Publishers -> 0..Len(history)] /\ cur'[p] = 0 /\ \A q \in Publishers \ {p} : cur'[q] = cur[q]
  BY <1>1, <1>2 DEF BusInv, Types, BusTypes
<1>4. returned' \subseteq 1..Len(history)
  <2>1. cur[p] \in 1..Len(history)
    BY <1>1, <1>2
  <2>. QED
    BY <1>1, <2>1 DEF BusInv, Types, BusTypes
<1>5. BusTypes'
  BY <1>1, <1>3, <1>4 DEF BusInv, Types, BusTypes
<1>6. SlotsConserved' /\ TaskInv'
  BY <1>1 DEF BusInv, SlotsConserved, Holding, TaskInv
<1>7. ParentInv'
  BY <1>1, <1>3 DEF BusInv, ParentInv, Over
<1>. QED
  BY <1>5, <1>6, <1>7

LEMMA CancelledKeeps ==
  ASSUME BusInv, NEW p \in Publishers, PublisherCancelled(p)
  PROVE  BusTypes' /\ SlotsConserved' /\ TaskInv' /\ ParentInv'
<1>. DEFINE S == Under(cur[p])
<1>1. /\ cur' = [cur EXCEPT ![p] = 0] /\ tasks' = tasks \ S
      /\ permits' = permits + Cardinality(S \cap Holding) /\ UNCHANGED <<history, parent, returned>>
  BY DEF PublisherCancelled
<1>. HIDE DEF S
<1>2. /\ cur' \in [Publishers -> 0..Len(history)] /\ \A q \in Publishers : cur'[q] \in {0, cur[q]}
      /\ permits \in Nat
  BY <1>1 DEF BusInv, Types, BusTypes
<1>3. Holding' = Holding \ S
  BY <1>1 DEF Holding
<1>4. SlotsConserved' /\ permits' \in Nat
  BY <1>1, <1>2, <1>3, SlotsSwept DEF BusInv
<1>. QED
  BY <1>1, <1>2, <1>4, FewerTasks

\* A handler that has come to its end, in its slot or without having waited in it.
LEMMA TaskEnds ==
  ASSUME BusInv, NEW t \in tasks, tasks' = tasks \ {t}, UNCHANGED <<history, parent, cur, returned>>,
         \/ t.st = "queued" /\ permits' = permits
         \/ t.st # "queued" /\ permits' = permits + 1
  PROVE  BusTypes' /\ SlotsConserved' /\ TaskInv' /\ ParentInv'
<1>1. permits \in Nat /\ permits' \in Nat /\ cur \in [Publishers -> 0..Len(history)]
  BY DEF BusInv, Types, BusTypes
<1>2. BusTypes' /\ TaskInv' /\ ParentInv'
  BY <1>1, FewerTasks
<1>3. CASE t.st = "queued" /\ permits' = permits
  <2>1. Holding' = Holding
    BY <1>3 DEF Holding
  <2>. QED
    BY <1>2, <1>3, <2>1 DEF BusInv, SlotsConserved
<1>4. CASE t.st # "queued" /\ permits' = permits + 1
  <2>1. Holding' = Holding \ {t} /\ t \in Holding
    BY <1>4 DEF Holding
  <2>. QED
    BY <1>1, <1>2, <1>4, <2>1, SlotLeft DEF BusInv
<1>. QED
  BY <1>3, <1>4

LEMMA HandleEntryKeeps ==
  ASSUME BusInv, NEW t \in tasks, HandleEntry(t)
  PROVE  BusTypes' /\ SlotsConserved' /\ TaskInv' /\ ParentInv'
<1>. DEFINE u == [t EXCEPT !.st = "busy"]
<1>1. /\ t.h = "entry" /\ t.st = "queued" /\ permits > 0 /\ tasks' = (tasks \ {t}) \cup {u}
      /\ permits' = permits - 1 /\ UNCHANGED <<history, parent, cur, returned>>
  BY DEF HandleEntry, First
<1>2. u \in Task /\ u.ev = t.ev /\ u.h = "entry" /\ u.st = "busy"
  BY <1>1, TaskMoves DEF BusInv
<1>. HIDE DEF u
<1>3. permits \in Nat /\ permits' \in Nat
  BY <1>1 DEF BusInv, Types, BusTypes
<1>4. BusTypes'
  BY <1>1, <1>2, <1>3 DEF BusInv, Types, BusTypes
<1>5. u \notin tasks
  BY <1>1, <1>2 DEF BusInv, TaskInv
<1>6. Holding' = Holding \cup {u} /\ u \notin Holding
  BY <1>1, <1>2, <1>5 DEF Holding
<1>7. SlotsConserved'
  BY <1>1, <1>3, <1>6, SlotTaken DEF BusInv
<1>8. TaskInv'
  BY <1>1, <1>2 DEF BusInv, TaskInv
<1>9. ParentInv'
  BY <1>1, <1>2 DEF BusInv, ParentInv, Over
<1>. QED
  BY <1>4, <1>7, <1>8, <1>9

LEMMA PhasePublishedKeeps ==
  ASSUME BusInv, NEW t \in tasks, PhasePublished(t)
  PROVE  BusTypes' /\ SlotsConserved' /\ TaskInv' /\ ParentInv'
<1>1. PICK e \in Events : e <= Len(history) /\ Over(e) /\ returned' = returned \cup {e}
  BY DEF PhasePublished
<1>2. /\ t.st = "publishing" /\ tasks' = tasks \ {t} /\ permits' = permits + 1
      /\ UNCHANGED <<history, parent, cur>>
  BY DEF PhasePublished
<1>3. permits \in Nat /\ permits' \in Nat /\ returned' \subseteq 1..Len(history)
  BY <1>1, <1>2, BusConstants DEF BusInv, Types, BusTypes, Events
<1>4. BusTypes'
  BY <1>2, <1>3 DEF BusInv, Types, BusTypes
<1>5. Holding' = Holding \ {t} /\ t \in Holding
  BY <1>2 DEF Holding
<1>6. SlotsConserved'
  BY <1>2, <1>3, <1>5, SlotLeft DEF BusInv
<1>7. TaskInv'
  BY <1>2 DEF BusInv, TaskInv
<1>8. ParentInv'
  BY <1>1, <1>2 DEF BusInv, ParentInv, Over
<1>. QED
  BY <1>4, <1>6, <1>7, <1>8

LEMMA StepKeepsBus ==
  ASSUME BusInv, [Next]_vars
  PROVE  BusTypes' /\ SlotsConserved' /\ TaskInv' /\ ParentInv'
<1>1. ASSUME NEW p \in Publishers, NEW kind \in {"delta", "started", "completed"}, Publish(p, kind)
      PROVE  BusTypes' /\ SlotsConserved' /\ TaskInv' /\ ParentInv'
  BY <1>1, PublishKeeps DEF Kinds
<1>2. ASSUME NEW p \in Publishers, PublishDone(p) \/ PublisherCancelled(p)
      PROVE  BusTypes' /\ SlotsConserved' /\ TaskInv' /\ ParentInv'
  BY <1>2, PublishDoneKeeps, CancelledKeeps
<1>3. ASSUME NEW t \in tasks, HandleClient(t) \/ IgnoreDone(t)
      PROVE  BusTypes' /\ SlotsConserved' /\ TaskInv' /\ ParentInv'
  BY <1>3, TaskEnds DEF HandleClient, IgnoreDone, First
<1>4. ASSUME NEW t \in tasks, EntryDone(t)
      PROVE  BusTypes' /\ SlotsConserved' /\ TaskInv' /\ ParentInv'
  BY <1>4, TaskEnds DEF EntryDone
<1>5. ASSUME NEW t \in tasks, HandleEntry(t) \/ PublishPhase(t) \/ PhasePublished(t)
      PROVE  BusTypes' /\ SlotsConserved' /\ TaskInv' /\ ParentInv'
  BY <1>5, HandleEntryKeeps, PublishPhaseKeeps, PhasePublishedKeeps
<1>6. ASSUME UNCHANGED busVars
      PROVE  BusTypes' /\ SlotsConserved' /\ TaskInv' /\ ParentInv'
  BY <1>6 DEF BusInv, busVars, Types, BusTypes, SlotsConserved, Holding, TaskInv, ParentInv, Over
<1>7. CASE Connect \/ Prepared \/ PrepareFails \/ Send \/ Close \/ UNCHANGED vars
  BY <1>6, <1>7 DEF Connect, Prepared, PrepareFails, Send, Close, vars
<1>. QED
  BY <1>1, <1>2, <1>3, <1>4, <1>5, <1>7 DEF Next, HandlerStep

----------------------------------------------------------------------------
(* The stream of the client: what it has been sent, and what its queue     *)
(* holds of live events.                                                   *)

Stream == sent \cup {queue[i].ev : i \in Live}

InSequence ==
  \A i \in Live : /\ \A e \in sent : e < queue[i].ev
                  /\ \A j \in Live : i < j => queue[i].ev < queue[j].ev

LEMMA QueueFacts ==
  ASSUME ClientTypes
  PROVE  /\ Len(queue) \in Nat /\ DOMAIN queue = 1..Len(queue) /\ Live \subseteq 1..Len(queue)
         /\ \A i \in 1..Len(queue) : queue[i] \in Entry
         /\ \A i \in 1..Len(queue) : queue[i].ev \in Events /\ queue[i].live \in BOOLEAN
<1>1. queue \in Seq(Entry)
  BY DEF ClientTypes
<1>2. Len(queue) \in Nat /\ DOMAIN queue = 1..Len(queue) /\ \A i \in 1..Len(queue) : queue[i] \in Entry
  BY <1>1
<1>3. \A x \in Entry : x.ev \in Events /\ x.live \in BOOLEAN
  BY DEF Entry
<1>. QED
  BY <1>2, <1>3 DEF Live

\* An event is appended that is later than all of the stream.
LEMMA StreamGrows ==
  ASSUME ClientTypes, InSequence, NEW e \in Events, \A x \in Stream : x < e, Len(queue) < QueueMax,
         queue' = Append(queue, [ev |-> e, live |-> TRUE]), sent' = sent
  PROVE  Stream' = Stream \cup {e} /\ InSequence' /\ queue' \in Seq(Entry) /\ Len(queue') <= QueueMax
<1>. DEFINE n == Len(queue)
            r == [ev |-> e, live |-> TRUE]
<1>1. r \in Entry /\ r.ev = e /\ r.live = TRUE
  BY DEF Entry
<1>. HIDE DEF r
<1>2. n \in Nat /\ Live \subseteq 1..n /\ queue \in Seq(Entry) /\ n + 1 <= QueueMax
  BY QueueFacts, BusConstants DEF ClientTypes
<1>3. /\ queue' \in Seq(Entry) /\ Len(queue') = n + 1 /\ queue'[n + 1] = r
      /\ \A i \in 1..n : queue'[i] = queue[i]
  BY <1>1, <1>2, AppendProperties DEF r
<1>4. DOMAIN queue' = 1..(n + 1) /\ DOMAIN queue = 1..n
  BY <1>2, <1>3
<1>5. Live' = Live \cup {n + 1}
  BY <1>1, <1>2, <1>3, <1>4 DEF Live
<1>6. Stream' = Stream \cup {e}
  BY <1>1, <1>2, <1>3, <1>5 DEF Stream
<1>7. InSequence'
  <2>1. \A i \in Live : queue[i].ev < e
    BY DEF Stream
  <2>2. \A x \in sent : x < e
    BY DEF Stream
  <2>3. ASSUME NEW i \in Live' PROVE \A x \in sent' : x < queue'[i].ev
    BY <1>1, <1>2, <1>3, <1>5, <2>2, <2>3 DEF InSequence
  <2>4. ASSUME NEW i \in Live', NEW j \in Live', i < j PROVE queue'[i].ev < queue'[j].ev
    <3>1. i \in Live /\ i \in 1..n
      BY <1>2, <1>5, <2>4
    <3>2. CASE j \in Live
      BY <1>2, <1>3, <2>4, <3>1, <3>2 DEF InSequence
    <3>3. CASE j = n + 1
      BY <1>1, <1>3, <2>1, <3>1, <3>3
    <3>. QED
      BY <1>5, <3>2, <3>3
  <2>. QED
    BY <2>3, <2>4 DEF InSequence
<1>. QED
  BY <1>2, <1>3, <1>6, <1>7

\* What is replayed joins no stream.
LEMMA ReplayKeepsStream ==
  ASSUME Types, InSequence, Prepared
  PROVE  Stream' = Stream /\ InSequence' /\ queue' \in Seq(Entry) /\ Len(queue') <= QueueMax
<1>1. PICK old \in [1..Cardinality(Recent) -> Recent] : queue' = Replay(old)
  BY DEF Prepared
<1>2. Len(history) \in Nat /\ Len(history) <= MaxEvents /\ Recent \subseteq 1..Len(history)
  BY DEF Types, BusTypes, Recent
<1>3. IsFiniteSet(1..Len(history))
  BY <1>2, FS_Interval
<1>4. Cardinality(Recent) \in Nat
  BY <1>2, <1>3, FS_Subset, FS_CardinalityType
<1>5. old \in Seq(Recent) /\ Len(old) = Cardinality(Recent) /\ Len(old) \in Nat
  BY <1>4
<1>6. \A i \in 1..Len(old) : old[i] \in Events
  <2>1. \A i \in 1..Len(old) : old[i] \in 1..Len(history)
    BY <1>2, <1>5
  <2>. QED
    BY <1>2, <2>1, BusConstants DEF Events
<1>. DEFINE n == Len(queue)
<1>7. n \in Nat /\ n <= QueueMax /\ Live \subseteq 1..n /\ queue \in Seq(Entry) /\ QueueMax \in Nat
  <2>1. ClientTypes
    BY DEF Types
  <2>. QED
    BY <2>1, QueueFacts, BusConstants DEF ClientTypes
<1>8. PICK fit : fit = IF Len(old) < QueueMax - n THEN Len(old) ELSE QueueMax - n
  OBVIOUS
<1>9. fit \in Nat /\ fit <= Len(old) /\ n + fit <= QueueMax
  BY <1>5, <1>7, <1>8
<1>10. PICK tail : tail = [i \in 1..fit |-> [ev |-> old[i], live |-> FALSE]]
  OBVIOUS
<1>11. queue' = queue \o tail
  BY <1>1, <1>8, <1>10 DEF Replay
<1>12. \A i \in 1..fit : tail[i] \in Entry /\ tail[i].live = FALSE
  BY <1>5, <1>6, <1>9, <1>10 DEF Entry
<1>13. tail \in Seq(Entry) /\ Len(tail) = fit
  BY <1>9, <1>10, <1>12
<1>14. queue' \in Seq(Entry) /\ Len(queue') = n + fit
  <2>1. queue \o tail \in Seq(Entry) /\ Len(queue \o tail) = Len(queue) + Len(tail)
    BY <1>7, <1>13, ConcatProperties
  <2>. QED
    BY <1>11, <1>13, <2>1
<1>15. /\ \A i \in 1..n : queue'[i] = queue[i]
       /\ \A i \in 1..(n + fit) : i > n => queue'[i] = tail[i - n] /\ i - n \in 1..fit
  BY <1>7, <1>9, <1>11, <1>13
<1>16. DOMAIN queue' = 1..(n + fit) /\ DOMAIN queue = 1..n
  BY <1>7, <1>14
<1>17. Live' = Live
  <2>1. ASSUME NEW i \in 1..(n + fit), queue'[i].live PROVE i \in Live
    BY <1>7, <1>9, <1>12, <1>15, <1>16, <2>1 DEF Live
  <2>2. ASSUME NEW i \in Live PROVE i \in Live'
    BY <1>7, <1>9, <1>15, <1>16 DEF Live
  <2>. QED
    BY <1>16, <2>1, <2>2 DEF Live
<1>18. sent' = sent /\ \A i \in Live : queue'[i] = queue[i]
  BY <1>7, <1>15 DEF Prepared
<1>19. Stream' = Stream
  BY <1>17, <1>18 DEF Stream
<1>20. InSequence'
  BY <1>17, <1>18 DEF InSequence
<1>. QED
  BY <1>7, <1>9, <1>14, <1>19, <1>20

\* Sending takes an event from one part of the stream to the other.
LEMMA SendKeepsStream ==
  ASSUME ClientTypes, InSequence, Send
  PROVE  Stream' = Stream /\ InSequence' /\ queue' \in Seq(Entry) /\ Len(queue') <= QueueMax
<1>. DEFINE n == Len(queue)
<1>1. n \in Nat /\ n # 0 /\ n <= QueueMax /\ Live \subseteq 1..n /\ queue \in Seq(Entry) /\ queue # <<>>
  BY QueueFacts DEF ClientTypes, Send
<1>2. queue' = Tail(queue) /\ sent' = sent \cup {x.ev : x \in {y \in {queue[1]} : y.live}}
  BY <1>1 DEF Send
<1>3. /\ queue' \in Seq(Entry) /\ Len(queue') = n - 1
      /\ \A i \in 1..(n - 1) : queue'[i] = queue[i + 1]
  BY <1>1, <1>2
<1>4. DOMAIN queue' = 1..(n - 1) /\ DOMAIN queue = 1..n
  BY <1>1, <1>3
<1>5. \A i \in 1..(n - 1) : i \in Live' <=> i + 1 \in Live
  BY <1>1, <1>3, <1>4 DEF Live
<1>6. Live' \subseteq 1..(n - 1)
  BY <1>4 DEF Live
<1>7. \A e : e \in sent' <=> (e \in sent \/ (1 \in Live /\ e = queue[1].ev))
  BY <1>1, <1>2, <1>4 DEF Live
<1>8. Stream' = Stream
  <2>1. ASSUME NEW e \in Stream' PROVE e \in Stream
    <3>1. CASE e \in sent'
      BY <1>7, <3>1 DEF Stream
    <3>2. ASSUME NEW i \in Live', e = queue'[i].ev PROVE e \in Stream
      <4>1. i + 1 \in Live /\ e = queue[i + 1].ev
        BY <1>3, <1>5, <1>6, <3>2
      <4>. QED
        BY <4>1 DEF Stream
    <3>. QED
      BY <2>1, <3>1, <3>2 DEF Stream
  <2>2. ASSUME NEW e \in Stream PROVE e \in Stream'
    <3>1. CASE e \in sent
      BY <1>7, <3>1 DEF Stream
    <3>2. ASSUME NEW i \in Live, e = queue[i].ev PROVE e \in Stream'
      <4>1. CASE i = 1
        BY <1>7, <3>2, <4>1 DEF Stream
      <4>2. CASE i # 1
        <5>1. i - 1 \in 1..(n - 1) /\ (i - 1) + 1 = i
          BY <1>1, <4>2
        <5>2. i - 1 \in Live' /\ queue'[i - 1].ev = e
          BY <1>3, <1>5, <3>2, <5>1
        <5>. QED
          BY <5>2 DEF Stream
      <4>. QED
        BY <4>1, <4>2
    <3>. QED
      BY <2>2, <3>1, <3>2 DEF Stream
  <2>. QED
    BY <2>1, <2>2
<1>9. InSequence'
  <2>1. ASSUME NEW i \in Live', NEW e \in sent' PROVE e < queue'[i].ev
    <3>1. i + 1 \in Live /\ queue'[i] = queue[i + 1] /\ i + 1 > 1 /\ i \in 1..(n - 1)
      BY <1>1, <1>3, <1>5, <1>6
    <3>. QED
      BY <1>7, <2>1, <3>1 DEF InSequence
  <2>2. ASSUME NEW i \in Live', NEW j \in Live', i < j PROVE queue'[i].ev < queue'[j].ev
    <3>1. i \in 1..(n - 1) /\ j \in 1..(n - 1) /\ i + 1 < j + 1 /\ i + 1 \in Live /\ j + 1 \in Live
      BY <1>1, <1>5, <1>6, <2>2
    <3>. QED
      BY <1>3, <3>1 DEF InSequence
  <2>. QED
    BY <2>1, <2>2 DEF InSequence
<1>. QED
  BY <1>1, <1>3, <1>8, <1>9, BusConstants

\* The stream holds events that were published, those that are still to be handled
\* for the client are later than all of it, and it is in order.
StreamInv ==
  /\ Stream \subseteq 1..Len(history)
  /\ \A t \in tasks : t.h = "client" => \A e \in Stream : e < t.ev
  /\ InSequence

\* Events are recorded once, and the client has new tasks for new events only.
LEMMA HistoryGrows ==
  ASSUME BusInv, [Next]_vars
  PROVE  /\ Len(history) \in Nat /\ Len(history') \in Nat /\ Len(history) <= Len(history')
         /\ \A e \in 1..Len(history) : history'[e] = history[e] /\ parent'[e] = parent[e]
         /\ \A v \in tasks' : v.h = "client" => v \in tasks \/ v.ev = Len(history) + 1
<1>. DEFINE Goal ==
       /\ Len(history) \in Nat /\ Len(history') \in Nat /\ Len(history) <= Len(history')
       /\ \A e \in 1..Len(history) : history'[e] = history[e] /\ parent'[e] = parent[e]
       /\ \A v \in tasks' : v.h = "client" => v \in tasks \/ v.ev = Len(history) + 1
<1>1. /\ Types /\ TaskInv /\ Len(history) \in Nat /\ 0 \in 0..Len(history)
      /\ \A t \in tasks : t.ev \in 0..Len(history)
  BY DEF BusInv, Types, BusTypes, TaskInv
<1>2. ASSUME NEW p \in Publishers, NEW kind \in {"delta", "started", "completed"}, Publish(p, kind)
      PROVE  Goal
  <2>1. kind \in Kinds /\ Record(kind, 0) /\ tasks' = tasks \cup NewTasks(kind) /\ Len(history) < MaxEvents
    BY <1>2 DEF Publish, Kinds, Record
  <2>2. Len(history') = Len(history) + 1
        /\ \A e \in 1..Len(history) : history'[e] = history[e] /\ parent'[e] = parent[e]
    BY <1>1, <2>1, RecordFacts
  <2>3. \A v \in NewTasks(kind) : v.ev = Len(history) + 1
    BY <1>1, <2>1, NewTasksFacts
  <2>. QED
    BY <1>1, <2>1, <2>2, <2>3
<1>3. ASSUME NEW t \in tasks, PublishPhase(t)
      PROVE  Goal
  <2>1. /\ "phase" \in Kinds /\ Record("phase", t.ev) /\ Len(history) < MaxEvents /\ t.h = "queen"
    BY <1>3 DEF PublishPhase, Kinds, Record, First
  <2>2. Len(history') = Len(history) + 1
        /\ \A e \in 1..Len(history) : history'[e] = history[e] /\ parent'[e] = parent[e]
    BY <1>1, <2>1, RecordFacts
  <2>3. \A v \in NewTasks("phase") : v.ev = Len(history) + 1
    BY <1>1, <2>1, NewTasksFacts
  <2>4. PICK u : u = [t EXCEPT !.st = "publishing"]
    OBVIOUS
  <2>5. u.h # "client"
    BY <1>1, <2>1, <2>4, TaskMoves
  <2>6. tasks' = (tasks \ {t}) \cup {u} \cup NewTasks("phase")
    BY <1>3, <2>4 DEF PublishPhase
  <2>. QED
    BY <1>1, <2>2, <2>3, <2>5, <2>6
<1>4. ASSUME NEW t \in tasks, HandleEntry(t)
      PROVE  Goal
  <2>1. PICK u : u = [t EXCEPT !.st = "busy"]
    OBVIOUS
  <2>2. t.h = "entry" /\ tasks' = (tasks \ {t}) \cup {u} /\ UNCHANGED <<history, parent>>
    BY <1>4, <2>1 DEF HandleEntry
  <2>3. u.h # "client"
    BY <1>1, <2>1, <2>2, TaskMoves
  <2>. QED
    BY <1>1, <2>2, <2>3
<1>5. ASSUME tasks' \subseteq tasks, UNCHANGED <<history, parent>>
      PROVE  Goal
  BY <1>1, <1>5
<1>6. ASSUME NEW p \in Publishers, PublishDone(p) \/ PublisherCancelled(p)
      PROVE  Goal
  BY <1>5, <1>6 DEF PublishDone, PublisherCancelled
<1>7. ASSUME NEW t \in tasks, HandleClient(t) \/ EntryDone(t) \/ IgnoreDone(t) \/ PhasePublished(t)
      PROVE  Goal
  BY <1>5, <1>7 DEF HandleClient, EntryDone, IgnoreDone, PhasePublished
<1>8. CASE Connect \/ Prepared \/ PrepareFails \/ Send \/ Close \/ UNCHANGED vars
  BY <1>5, <1>8 DEF Connect, Prepared, PrepareFails, Send, Close, vars, busVars
<1>. QED
  BY <1>2, <1>3, <1>4, <1>6, <1>7, <1>8 DEF Next, HandlerStep

\* An event that is handled for the client joins its stream, or it is no lifecycle
\* event, or the client is told to reconnect.
LEMMA HandledForClient ==
  ASSUME BusInv, StreamInv, NEW t \in tasks, HandleClient(t)
  PROVE  /\ queue' \in Seq(Entry) /\ Len(queue') <= QueueMax /\ full' \in BOOLEAN /\ InSequence'
         /\ \/ Stream' = Stream \cup {t.ev}
            \/ Stream' = Stream /\ (full' \/ history[t.ev] \notin Critical)
         /\ full => full'
<1>1. /\ t.h = "client" /\ OnEvent(t.ev) /\ UNCHANGED <<history, client, sent, since>> /\ ClientTypes
      /\ InSequence /\ \A x \in Stream : x < t.ev
  BY DEF HandleClient, BusInv, Types, StreamInv
<1>2. t.ev \in Events
  BY DEF BusInv, Types, BusTypes, Task
<1>3. CASE ~full /\ Len(queue) < QueueMax
  <2>1. queue' = Append(queue, [ev |-> t.ev, live |-> TRUE]) /\ full' = full
    BY <1>1, <1>3 DEF OnEvent
  <2>2. Stream' = Stream \cup {t.ev} /\ InSequence' /\ queue' \in Seq(Entry) /\ Len(queue') <= QueueMax
    BY <1>1, <1>2, <1>3, <2>1, StreamGrows
  <2>. QED
    BY <1>1, <2>1, <2>2 DEF ClientTypes
<1>4. CASE ~(~full /\ Len(queue) < QueueMax)
  <2>1. queue' = queue /\ full' = (full \/ history[t.ev] \in Critical)
    BY <1>1, <1>4 DEF OnEvent
  <2>2. Stream' = Stream /\ InSequence'
    BY <1>1, <2>1 DEF Stream, InSequence, Live
  <2>. QED
    BY <1>1, <2>1, <2>2 DEF ClientTypes
<1>. QED
  BY <1>3, <1>4

\* The other steps leave the stream as it is.
LEMMA StreamStep ==
  ASSUME BusInv, StreamInv, [Next]_vars
  PROVE  /\ ClientTypes' /\ InSequence'
         /\ Stream' = Stream \/ \E t \in tasks : HandleClient(t) /\ Stream' = Stream \cup {t.ev}
         /\ Stream' \subseteq 1..Len(history)
<1>. DEFINE Kept == /\ queue' \in Seq(Entry) /\ Len(queue') <= QueueMax /\ full' \in BOOLEAN /\ InSequence'
                    /\ client' \in {"off", "preparing", "open", "closed", "abandoned"}
                    /\ since' \in 0..Len(history')
            Same == Kept /\ Stream' = Stream
            Goal == Kept /\ (Stream' = Stream \/ \E t \in tasks : HandleClient(t) /\ Stream' = Stream \cup {t.ev})
<1>1. /\ Types /\ ClientTypes /\ InSequence /\ Stream \subseteq 1..Len(history)
      /\ Len(history) \in Nat /\ Len(history') \in Nat /\ Len(history) <= Len(history')
  BY HistoryGrows DEF BusInv, Types, StreamInv
<1>2. since \in 0..Len(history') /\ client \in {"off", "preparing", "open", "closed", "abandoned"}
  BY <1>1 DEF ClientTypes
<1>3. ASSUME queue' = queue, sent' = sent, full' = full,
             client' \in {client, "preparing", "open", "closed", "abandoned"}, since' \in {since, Len(history')}
      PROVE  Same
  <2>1. queue' \in Seq(Entry) /\ Len(queue') <= QueueMax /\ full' \in BOOLEAN
    BY <1>1, <1>3 DEF ClientTypes
  <2>2. Stream' = Stream /\ InSequence'
    BY <1>1, <1>3 DEF Stream, InSequence, Live
  <2>3. since' \in 0..Len(history')
    BY <1>1, <1>2, <1>3
  <2>. QED
    BY <1>2, <1>3, <2>1, <2>2, <2>3
<1>4. ASSUME Prepared \/ Send
      PROVE  Same
  <2>1. Stream' = Stream /\ InSequence' /\ queue' \in Seq(Entry) /\ Len(queue') <= QueueMax
    BY <1>1, <1>4, ReplayKeepsStream, SendKeepsStream
  <2>2. full' \in BOOLEAN /\ since' = since /\ client' \in {client, "open"}
    BY <1>1, <1>4 DEF Prepared, Send, ClientTypes
  <2>. QED
    BY <1>2, <2>1, <2>2
<1>5. ASSUME NEW t \in tasks, HandleClient(t)
      PROVE  Kept /\ (Stream' = Stream \/ Stream' = Stream \cup {t.ev})
  <2>1. client' = client /\ since' = since
    BY <1>5 DEF HandleClient
  <2>. QED
    BY <1>2, <1>5, <2>1, HandledForClient
<1>6. ASSUME NEW p \in Publishers, NEW kind \in {"delta", "started", "completed"},
             Publish(p, kind) \/ PublishDone(p) \/ PublisherCancelled(p)
      PROVE  Same
  BY <1>3, <1>6 DEF Publish, PublishDone, PublisherCancelled, clientVars
<1>7. ASSUME NEW t \in tasks, HandlerStep(t), ~HandleClient(t)
      PROVE  Same
  BY <1>3, <1>7 DEF HandlerStep, HandleEntry, EntryDone, IgnoreDone, PublishPhase, PhasePublished, clientVars
<1>8. ASSUME Connect \/ PrepareFails \/ Close \/ UNCHANGED vars
      PROVE  Same
  BY <1>3, <1>8 DEF Connect, PrepareFails, Close, vars, busVars, clientVars
<1>9. Same \/ \E t \in tasks : HandleClient(t)
  <2>. HIDE DEF Same
  <2>. QED
    BY <1>4, <1>6, <1>7, <1>8 DEF Next
<1>10. Goal
  BY <1>5, <1>9
<1>11. Stream' \subseteq 1..Len(history)
  <2>1. CASE Stream' = Stream
    BY <1>1, <2>1
  <2>2. ASSUME NEW t \in tasks, Stream' = Stream \cup {t.ev} PROVE Stream' \subseteq 1..Len(history)
    BY <1>1, <2>2 DEF BusInv, TaskInv
  <2>. QED
    BY <1>10, <2>1, <2>2
<1>12. sent' \subseteq 1..Len(history')
  <2>1. sent' \subseteq Stream'
    BY DEF Stream
  <2>. QED
    BY <1>1, <1>11, <2>1
<1>. QED
  BY <1>10, <1>11, <1>12 DEF ClientTypes

LEMMA StepKeepsStream ==
  ASSUME BusInv, StreamInv, [Next]_vars
  PROVE  StreamInv'
<1>1. /\ Len(history) \in Nat /\ Len(history') \in Nat /\ Len(history) <= Len(history')
      /\ \A v \in tasks' : v.h = "client" => v \in tasks \/ v.ev = Len(history) + 1
  BY HistoryGrows
<1>2. /\ InSequence' /\ Stream' \subseteq 1..Len(history)
      /\ Stream' = Stream \/ \E t \in tasks : HandleClient(t) /\ Stream' = Stream \cup {t.ev}
  BY StreamStep
<1>3. /\ Stream \subseteq 1..Len(history)
      /\ \A t \in tasks : t.ev \in 1..Len(history)
      /\ \A t \in tasks : t.h = "client" => \A e \in Stream : e < t.ev
  BY DEF BusInv, TaskInv, StreamInv
<1>4. Stream' \subseteq 1..Len(history')
  BY <1>1, <1>2
<1>5. ASSUME NEW v \in tasks', v.h = "client", NEW e \in Stream' PROVE e < v.ev
  <2>1. CASE v.ev = Len(history) + 1
    BY <1>1, <1>2, <1>5, <2>1
  <2>2. CASE v \in tasks /\ e \in Stream
    BY <1>3, <1>5, <2>2
  <2>3. CASE v \in tasks /\ e \notin Stream
    <3>1. PICK t \in tasks : HandleClient(t) /\ e = t.ev
      BY <1>2, <1>5, <2>3
    <3>2. t.h = "client" /\ tasks' = tasks \ {t} /\ \A u \in tasks : u.st = "queued" => u.ev >= t.ev
      BY <3>1 DEF HandleClient, First
    <3>3. v.ev # t.ev /\ v.st = "queued"
      BY <1>5, <2>3, <3>2 DEF BusInv, TaskInv
    <3>. QED
      BY <1>3, <2>3, <3>1, <3>2, <3>3
  <2>. QED
    BY <1>1, <1>5, <2>1, <2>2, <2>3
<1>. QED
  BY <1>2, <1>4, <1>5 DEF StreamInv

----------------------------------------------------------------------------
(* Lifecycle events.                                                       *)

\* An event whose publish() has returned, or is under way.
Pending(e) ==
  \/ e \in returned
  \/ \E p \in Publishers : cur[p] = e
  \/ \E t \in tasks : t.st = "publishing" /\ parent[e] = t.ev

InHand(e) == \E t \in tasks : t.h = "client" /\ t.ev = e

\* Such a lifecycle event is in the client's stream, or will be handled for it.
DeliveryInv ==
  client \in {"preparing", "open"} /\ ~full =>
    \A e \in 1..Len(history) :
      e > since /\ history[e] \in Critical /\ Pending(e) => e \in Stream \/ InHand(e)

\* Who becomes pending was recorded just now, or was pending already.
LEMMA PendingBefore ==
  ASSUME BusInv, [Next]_vars, NEW e \in 1..Len(history), Pending(e)'
  PROVE  Pending(e)
<1>1. /\ Types /\ TaskInv /\ ParentInv
      /\ \A t \in tasks : t.ev \in 0..Len(history)
  BY DEF BusInv, Types, BusTypes, TaskInv
<1>2. parent'[e] = parent[e] /\ Len(history) \in Nat
  BY HistoryGrows
<1>3. ASSUME tasks' \subseteq tasks, returned' \subseteq returned, \A p \in Publishers : cur'[p] \in {0, cur[p]}
      PROVE  Pending(e)
  BY <1>2, <1>3 DEF Pending
<1>4. ASSUME NEW p \in Publishers, NEW kind \in {"delta", "started", "completed"}, Publish(p, kind)
      PROVE  Pending(e)
  <2>1. /\ kind \in Kinds /\ Record(kind, 0) /\ Len(history) < MaxEvents /\ tasks' = tasks \cup NewTasks(kind)
        /\ cur' = [cur EXCEPT ![p] = Len(history')] /\ returned' = returned
    BY <1>4 DEF Publish, Kinds, Record
  <2>2. Len(history') = Len(history) + 1 /\ \A v \in NewTasks(kind) : v.st = "queued"
    BY <1>1, <1>2, <2>1, RecordFacts, NewTasksFacts
  <2>3. \A q \in Publishers : cur'[q] = e => cur[q] = e
    BY <1>1, <1>2, <2>1, <2>2 DEF Types, BusTypes
  <2>. QED
    BY <1>2, <2>1, <2>2, <2>3 DEF Pending
<1>5. ASSUME NEW t \in tasks, PublishPhase(t)
      PROVE  Pending(e)
  <2>1. PICK u : u = [t EXCEPT !.st = "publishing"]
    OBVIOUS
  <2>2. /\ "phase" \in Kinds /\ Record("phase", t.ev) /\ Len(history) < MaxEvents /\ t.h = "queen"
        /\ t.st = "queued" /\ tasks' = (tasks \ {t}) \cup {u} \cup NewTasks("phase")
        /\ cur' = cur /\ returned' = returned
    BY <1>5, <2>1 DEF PublishPhase, Kinds, Record, First
  <2>3. u.ev = t.ev /\ \A v \in NewTasks("phase") : v.st = "queued"
    BY <1>1, <2>1, <2>2, TaskMoves, NewTasksFacts
  <2>4. parent[e] # u.ev
    BY <1>1, <2>2, <2>3 DEF ParentInv
  <2>. QED
    BY <1>2, <2>2, <2>3, <2>4 DEF Pending
<1>6. ASSUME NEW t \in tasks, HandleEntry(t)
      PROVE  Pending(e)
  <2>1. PICK u : u = [t EXCEPT !.st = "busy"]
    OBVIOUS
  <2>2. tasks' = (tasks \ {t}) \cup {u} /\ cur' = cur /\ returned' = returned
    BY <1>6, <2>1 DEF HandleEntry
  <2>3. u.st = "busy"
    BY <1>1, <2>1, TaskMoves
  <2>. QED
    BY <1>2, <2>2, <2>3 DEF Pending
<1>7. ASSUME NEW p \in Publishers, PublishDone(p)
      PROVE  Pending(e)
  <2>1. tasks' = tasks /\ returned' = returned \cup {cur[p]} /\ \A q \in Publishers : cur'[q] \in {0, cur[q]}
    BY <1>1, <1>7 DEF PublishDone, Types, BusTypes
  <2>. QED
    BY <1>2, <2>1 DEF Pending
<1>8. ASSUME NEW p \in Publishers, PublisherCancelled(p)
      PROVE  Pending(e)
  <2>1. tasks' \subseteq tasks /\ returned' = returned /\ \A q \in Publishers : cur'[q] \in {0, cur[q]}
    BY <1>1, <1>8 DEF PublisherCancelled, Types, BusTypes
  <2>. QED
    BY <1>3, <2>1
<1>9. ASSUME NEW t \in tasks, HandleClient(t) \/ EntryDone(t) \/ IgnoreDone(t)
      PROVE  Pending(e)
  BY <1>3, <1>9 DEF HandleClient, EntryDone, IgnoreDone
<1>10. ASSUME NEW t \in tasks, PhasePublished(t)
      PROVE  Pending(e)
  <2>1. PICK d \in Events : parent[d] = t.ev /\ returned' = returned \cup {d}
    BY <1>10 DEF PhasePublished
  <2>2. t.st = "publishing" /\ tasks' = tasks \ {t} /\ cur' = cur
    BY <1>10 DEF PhasePublished
  <2>. QED
    BY <1>2, <2>1, <2>2 DEF Pending
<1>11. CASE Connect \/ Prepared \/ PrepareFails \/ Send \/ Close \/ UNCHANGED vars
  BY <1>3, <1>11 DEF Connect, Prepared, PrepareFails, Send, Close, vars, busVars
<1>. QED
  BY <1>4, <1>5, <1>6, <1>7, <1>8, <1>9, <1>10, <1>11 DEF Next, HandlerStep

\* The task that handles a pending event for the client is cancelled only with what
\* waits for it.
LEMMA StillInHand ==
  ASSUME BusInv, [Next]_vars, NEW e \in 1..Len(history), Pending(e)', InHand(e),
         \A t \in tasks : HandleClient(t) => t.ev # e
  PROVE  InHand(e)'
<1>1. PICK v \in tasks : v.h = "client" /\ v.ev = e /\ v.st = "queued"
  BY DEF InHand, BusInv, TaskInv
<1>2. /\ Types /\ TaskInv /\ ParentInv /\ Len(history) \in Nat
  BY HistoryGrows DEF BusInv
<1>3. SUFFICES ASSUME v \notin tasks' PROVE FALSE
  BY <1>1 DEF InHand
<1>4. PICK p \in Publishers : PublisherCancelled(p)
  <2>1. ASSUME NEW t \in tasks, HandlerStep(t) PROVE FALSE
    <3>1. t # v \/ HandleClient(t)
      BY <1>1, <2>1 DEF HandlerStep, First, HandleEntry, EntryDone, IgnoreDone, PublishPhase, PhasePublished
    <3>2. tasks \ {t} \subseteq tasks'
      BY <2>1 DEF HandlerStep, HandleClient, HandleEntry, EntryDone, IgnoreDone, PublishPhase, PhasePublished
    <3>. QED
      BY <1>1, <1>3, <3>1, <3>2
  <2>2. ~(Connect \/ Prepared \/ PrepareFails \/ Send \/ Close \/ UNCHANGED vars)
    BY <1>1, <1>3 DEF Connect, Prepared, PrepareFails, Send, Close, vars, busVars
  <2>3. ~\E q \in Publishers : PublishDone(q) \/ \E kind \in {"delta", "started", "completed"} : Publish(q, kind)
    BY <1>1, <1>3 DEF PublishDone, Publish
  <2>. QED
    BY <2>1, <2>2, <2>3 DEF Next
<1>. DEFINE c == cur[p]
<1>5. /\ c # 0 /\ cur' = [cur EXCEPT ![p] = 0] /\ tasks' = tasks \ Under(c) /\ UNCHANGED <<parent, returned>>
  BY <1>4 DEF PublisherCancelled
<1>6. e = c \/ parent[e] = c
  BY <1>1, <1>3, <1>5 DEF Under
<1>7. c \in 1..Len(history) /\ parent[c] = 0
  BY <1>2, <1>5 DEF Types, BusTypes, ParentInv
<1>8. e \notin returned'
  BY <1>1, <1>2, <1>5 DEF ParentInv, Over
<1>9. ASSUME NEW q \in Publishers, cur'[q] = e PROVE FALSE
  <2>1. q # p /\ cur[q] = e
    BY <1>2, <1>5, <1>9 DEF Types, BusTypes
  <2>2. e # c /\ parent[e] = 0
    BY <1>2, <2>1 DEF ParentInv
  <2>. QED
    BY <1>5, <1>6, <2>2
<1>10. ASSUME NEW t \in tasks', parent[e] = t.ev PROVE FALSE
  <2>1. t \in tasks /\ t.ev # c /\ t.ev \in 1..Len(history)
    BY <1>2, <1>5, <1>10 DEF Under, TaskInv
  <2>. QED
    BY <1>2, <1>6, <1>7, <1>10, <2>1
<1>. QED
  BY <1>5, <1>8, <1>9, <1>10 DEF Pending

\* A new event is handled for the client as long as it is subscribed.
LEMMA NewInHand ==
  ASSUME BusInv, [Next]_vars, NEW e \in 1..Len(history'), e \notin 1..Len(history), Subscribed
  PROVE  InHand(e)'
<1>1. Types /\ TaskInv /\ Len(history) \in Nat /\ 0 \in 0..Len(history) /\ Len(history') # Len(history)
  BY HistoryGrows DEF BusInv
<1>2. ASSUME NEW kind \in Kinds, NEW by \in 0..Len(history), Record(kind, by), NewTasks(kind) \subseteq tasks'
      PROVE  InHand(e)'
  <2>1. Len(history') = Len(history) + 1 /\ Len(history) < MaxEvents
    BY <1>1, <1>2, RecordFacts DEF Record
  <2>2. PICK v \in NewTasks(kind) : v.h = "client" /\ v.ev = Len(history) + 1
    BY <1>1, <1>2, <2>1, NewTasksFacts
  <2>3. e = Len(history) + 1
    BY <1>1, <2>1
  <2>. QED
    BY <1>2, <2>2, <2>3 DEF InHand
<1>3. ASSUME NEW p \in Publishers, NEW kind \in {"delta", "started", "completed"}, Publish(p, kind)
      PROVE  InHand(e)'
  BY <1>1, <1>2, <1>3 DEF Publish, Kinds
<1>4. ASSUME NEW t \in tasks, PublishPhase(t)
      PROVE  InHand(e)'
  <2>1. t.ev \in 0..Len(history) /\ "phase" \in Kinds
    BY <1>1 DEF TaskInv, Kinds
  <2>. QED
    BY <1>2, <1>4, <2>1 DEF PublishPhase
<1>5. ASSUME UNCHANGED history
      PROVE  InHand(e)'
  BY <1>1, <1>5
<1>6. ASSUME NEW p \in Publishers, PublishDone(p) \/ PublisherCancelled(p)
      PROVE  InHand(e)'
  BY <1>5, <1>6 DEF PublishDone, PublisherCancelled
<1>7. ASSUME NEW t \in tasks, HandleClient(t) \/ HandleEntry(t) \/ EntryDone(t) \/ IgnoreDone(t) \/ PhasePublished(t)
      PROVE  InHand(e)'
  BY <1>5, <1>7 DEF HandleClient, HandleEntry, EntryDone, IgnoreDone, PhasePublished
<1>8. CASE Connect \/ Prepared \/ PrepareFails \/ Send \/ Close \/ UNCHANGED vars
  BY <1>5, <1>8 DEF Connect, Prepared, PrepareFails, Send, Close, vars, busVars
<1>. QED
  BY <1>3, <1>4, <1>6, <1>7, <1>8 DEF Next, HandlerStep

\* The client is told to reconnect for good, and subscribes once.
LEMMA ClientStep ==
  ASSUME BusInv, StreamInv, [Next]_vars, ~Connect, client' \in {"preparing", "open"}, ~full'
  PROVE  client \in {"preparing", "open"} /\ ~full /\ since' = since
<1>1. ASSUME NEW p \in Publishers, NEW kind \in {"delta", "started", "completed"},
             Publish(p, kind) \/ PublishDone(p) \/ PublisherCancelled(p)
      PROVE  UNCHANGED <<client, full, since>>
  BY <1>1 DEF Publish, PublishDone, PublisherCancelled, clientVars
<1>2. ASSUME NEW t \in tasks, HandlerStep(t), ~HandleClient(t)
      PROVE  UNCHANGED <<client, full, since>>
  BY <1>2 DEF HandlerStep, HandleEntry, EntryDone, IgnoreDone, PublishPhase, PhasePublished, clientVars
<1>3. ASSUME NEW t \in tasks, HandleClient(t)
      PROVE  client' = client /\ since' = since /\ (full => full')
  <2>1. client' = client /\ since' = since
    BY <1>3 DEF HandleClient
  <2>. QED
    BY <1>3, <2>1, HandledForClient
<1>4. ASSUME Prepared \/ Send
      PROVE  client \in {"preparing", "open"} /\ UNCHANGED <<full, since>>
  BY <1>4 DEF Prepared, Send
<1>5. ~(PrepareFails \/ Close)
  BY DEF PrepareFails, Close
<1>6. CASE UNCHANGED vars
  BY <1>6 DEF vars, clientVars
<1>. QED
  BY <1>1, <1>2, <1>3, <1>4, <1>5, <1>6 DEF Next

LEMMA StepKeepsDelivery ==
  ASSUME BusInv, StreamInv, DeliveryInv, [Next]_vars
  PROVE  DeliveryInv'
<1>1. SUFFICES ASSUME client' \in {"preparing", "open"}, ~full', NEW e \in 1..Len(history'), e > since',
                      history'[e] \in Critical, Pending(e)'
               PROVE  e \in Stream' \/ InHand(e)'
  BY DEF DeliveryInv
<1>2. /\ Len(history) \in Nat /\ Len(history') \in Nat
      /\ \A d \in 1..Len(history) : history'[d] = history[d]
  BY HistoryGrows
<1>3. CASE Connect
  <2>1. since' = Len(history) /\ history' = history
    BY <1>3 DEF Connect, busVars
  <2>. QED
    BY <1>1, <1>2, <2>1
<1>4. CASE ~Connect /\ e \notin 1..Len(history)
  <2>1. Subscribed
    BY <1>1, <1>4, ClientStep DEF Subscribed
  <2>. QED
    BY <1>1, <1>4, <2>1, NewInHand
<1>5. CASE ~Connect /\ e \in 1..Len(history)
  <2>1. client \in {"preparing", "open"} /\ ~full /\ since' = since
    BY <1>1, <1>5, ClientStep
  <2>2. history[e] \in Critical /\ Pending(e)
    BY <1>1, <1>2, <1>5, PendingBefore
  <2>3. e \in Stream \/ InHand(e)
    BY <1>1, <1>5, <2>1, <2>2 DEF DeliveryInv
  <2>4. Stream \subseteq Stream'
    BY StreamStep
  <2>5. ASSUME NEW t \in tasks, HandleClient(t), t.ev = e
        PROVE  e \in Stream'
    BY <1>1, <2>2, <2>5, HandledForClient
  <2>6. CASE InHand(e) /\ \A t \in tasks : HandleClient(t) => t.ev # e
    BY <1>1, <1>5, <2>6, StillInHand
  <2>. QED
    BY <2>3, <2>4, <2>5, <2>6
<1>. QED
  BY <1>3, <1>4, <1>5

----------------------------------------------------------------------------
(* The theorems.                                                           *)

EventBusInv == BusInv /\ StreamInv /\ DeliveryInv

LEMMA InitEventBus == Init => EventBusInv
<1>. SUFFICES ASSUME Init PROVE EventBusInv
  OBVIOUS
<1>1. BusInv
  BY InitBus
<1>2. Live = {} /\ Stream = {}
  BY DEF Init, Live, Stream
<1>3. StreamInv
  BY <1>2 DEF StreamInv, InSequence
<1>4. DeliveryInv
  BY DEF Init, DeliveryInv
<1>. QED
  BY <1>1, <1>3, <1>4 DEF EventBusInv

LEMMA StepEventBus == EventBusInv /\ [Next]_vars => EventBusInv'
<1>. SUFFICES ASSUME BusInv, StreamInv, DeliveryInv, [Next]_vars PROVE EventBusInv'
  BY DEF EventBusInv
<1>1. BusInv'
  BY StepKeepsBus, StreamStep DEF BusInv, Types
<1>2. StreamInv' /\ DeliveryInv'
  BY StepKeepsStream, StepKeepsDelivery
<1>. QED
  BY <1>1, <1>2 DEF EventBusInv

LEMMA EventBusInvariant == FairSpec => []EventBusInv
BY InitEventBus, StepEventBus, PTL DEF FairSpec

\* Types are kept, and a slot of the semaphore is free or held by a handler that is at
\* work, whatever is published, handled and cancelled.
THEOREM TypeCorrect == FairSpec => []TypeOK
<1>1. EventBusInv => TypeOK
  <2>. SUFFICES ASSUME EventBusInv PROVE TypeOK
    OBVIOUS
  <2>1. BusTypes /\ ClientTypes /\ permits + Cardinality(Holding) = Slots
    BY DEF EventBusInv, BusInv, Types, SlotsConserved
  <2>2. Len(history) \in Nat /\ Len(history) <= MaxEvents /\ MaxEvents \in Nat
    BY <2>1, BusConstants DEF BusTypes
  <2>3. 1..Len(history) \subseteq Events /\ 0..Len(history) \subseteq 0..MaxEvents
    BY <2>2 DEF Events
  <2>. QED
    BY <2>1, <2>3 DEF TypeOK, BusTypes, ClientTypes
<1>. QED
  BY <1>1, EventBusInvariant, PTL

\* What publish() has returned for is in the browser's stream, in the order of
\* publication, if it is a lifecycle event and the browser is not told to reconnect:
\* for any number of publishers, of slots (more than publishers) and of events, and
\* any size of the queue.
THEOREM LifecycleDelivered == FairSpec => []CriticalDelivered
<1>1. EventBusInv => CriticalDelivered
  <2>. SUFFICES ASSUME EventBusInv PROVE CriticalDelivered
    OBVIOUS
  <2>1. InSequence /\ ParentInv /\ DeliveryInv /\ returned \subseteq 1..Len(history)
    BY DEF EventBusInv, BusInv, Types, BusTypes, StreamInv
  <2>2. ASSUME client \in {"preparing", "open"}, ~full, NEW e \in returned, e > since, history[e] \in Critical
        PROVE  e \in sent \/ \E i \in Live : queue[i].ev = e
    <3>1. Pending(e) /\ ~InHand(e)
      BY <2>1, <2>2 DEF Pending, InHand, ParentInv, Over
    <3>2. e \in Stream
      BY <2>1, <2>2, <3>1 DEF DeliveryInv
    <3>. QED
      BY <3>2 DEF Stream
  <2>. QED
    BY <2>1, <2>2 DEF CriticalDelivered, InSequence
<1>. QED
  BY <1>1, EventBusInvariant, PTL
=============================================================================
