------------------------ MODULE GraphExecutorProofs ------------------------
(***************************************************************************)
(* Theorems about GraphExecutor and GraphSession for every graph, every    *)
(* limit and every configuration of checkpoints, branches and              *)
(* conversations.                                                          *)
(***************************************************************************)
EXTENDS GraphSession, FiniteSetTheorems, TLAPS

\* A running node has been counted as a step, so a retry can give it back.
StepCounted == pc = "node" => steps >= 1

\* The visit of a running node, or of one that waits to be retried, is open.
VisitOpen == pc \in {"node", "backoff"} => entered[current] >= 1

\* The retry flag lives from a back-off to the next step.
RetryAtHead == isRetry => pc \in {"top", "pausing", "closing", "ended"}

\* Every visit executed was counted; the one about to be repeated as well.
Repeating(n) == IF isRetry /\ n = current THEN 1 ELSE 0

EnteredCounted == \A n \in Nodes : entered[n] + Repeating(n) <= visits[n]

Inv ==
  /\ TypeOK
  /\ StepCounted
  /\ VisitOpen
  /\ RetryAtHead
  /\ EnteredCounted
  /\ VisitsWithinLimit

-----------------------------------------------------------------------------
(***************************************************************************)
(* What the helpers return.                                                *)
(***************************************************************************)

\* The assumptions without those about edges.
LEMMA SimpleConstants ==
  EntryNode \in Nodes /\ MaxSteps \in Nat /\ MaxWork \in Nat
BY GraphAssumption

LEMMA OutType ==
  ASSUME NEW n
  PROVE  Out(n) \subseteq DOMAIN Edges
BY DEF Out

LEMMA TargetType ==
  ASSUME NEW e \in DOMAIN Edges
  PROVE  Edges[e].target \in Nodes
<1> DEFINE E == [source : Nodes, target : Nodes, condition : Condition, priority : Int]
<1>1. Edges \in Seq(E)
  BY GraphAssumption
<1>2. Edges[e] \in E
  <2> HIDE DEF E
  <2>. QED
    BY <1>1
<1>. QED
  BY <1>2

LEMMA OpenType ==
  ASSUME NEW n, NEW success \in BOOLEAN, NEW yes \in SUBSET Judged(n)
  PROVE  Open(n, success, yes) \subseteq DOMAIN Edges
BY OutType DEF Open

\* Following edges leads to a node of the graph, or nowhere.
LEMMA FollowType ==
  ASSUME NEW n, NEW success \in BOOLEAN, NEW yes \in SUBSET Judged(n)
  PROVE  Follow(n, success, yes) \subseteq Nodes \cup {NoNode}
BY OpenType, TargetType DEF Follow

LEMMA TraversableType ==
  ASSUME NEW n, NEW yes \in SUBSET Judged(n)
  PROVE  Traversable(n, yes) \subseteq DOMAIN Edges
BY OpenType DEF Traversable

LEMMA ConvergenceType ==
  ASSUME NEW branches \in SUBSET DOMAIN Edges
  PROVE  ConvergenceNode(branches) \subseteq Nodes \cup {NoNode}
<1> DEFINE hops == {h \in branches \X DOMAIN Edges : h[2] \in Out(Edges[h[1]].target)}
           Leading(h) == Cardinality({g \in hops : Edges[g[2]].target = Edges[h[2]].target})
           best == IF \E h \in hops : Leading(h) = Cardinality(branches)
                   THEN {h \in hops : Leading(h) = Cardinality(branches)}
                   ELSE {h \in hops : \A g \in hops : Leading(g) <= Leading(h)}
           Earlier(h, g) == Before(h[1], g[1]) \/ (h[1] = g[1] /\ Before(h[2], g[2]))
           first == {h \in best : \A g \in best \ {h} : Earlier(h, g)}
<1>1. \A h \in hops : Edges[h[2]].target \in Nodes
  BY TargetType
<1>2. first \subseteq hops
  OBVIOUS
<1>3. ConvergenceNode(branches) =
        IF hops = {} THEN {NoNode} ELSE {Edges[h[2]].target : h \in first}
  BY DEF ConvergenceNode
<1> HIDE DEF hops, best, Leading, Earlier, first
<1>. QED
  BY <1>1, <1>2, <1>3

LEMMA CountsType ==
  /\ None \in Counts
  /\ \A f \in Counts, n \in Nodes : f[n] \in Nat
  /\ \A f \in Counts, n \in Nodes : [f EXCEPT ![n] = f[n] + 1] \in Counts
BY DEF Counts, None

LEMMA CleanType ==
  ASSUME TypeOK
  PROVE  Clean \in BOOLEAN
BY DEF Clean

LEMMA CheckpointType ==
  ASSUME TypeOK, NEW n \in Nodes, NEW next \in Nodes \cup {NoNode}
  PROVE  NewCheckpoint(n, next) \in Checkpoint
BY CleanType DEF TypeOK, NewCheckpoint, Checkpoint

LEMMA SaveType ==
  ASSUME TypeOK, NEW configured, NEW n \in Nodes, NEW next \in Nodes \cup {NoNode},
         SaveLater(configured, n, next)
  PROVE  created' \in Nat /\ saving' \subseteq Checkpoint
BY CheckpointType DEF SaveLater, TypeOK

\* The checkpoint an exception marks for the resume has an id, or is none.
LEMMA LatestType ==
  ASSUME TypeOK
  PROVE  LatestClean \subseteq Nat
<1>1. \A i \in DOMAIN index : index[i] \in Checkpoint
  BY DEF TypeOK
<1>2. \A i \in DOMAIN index : index[i].id \in Nat
  BY <1>1 DEF Checkpoint
<1>. QED
  BY <1>2 DEF LatestClean

LEMMA ResultType ==
  ASSUME TypeOK, NEW kind \in Kinds, NEW at \in Nodes \cup {NoNode},
         NEW from \in Nodes \cup {NoNode}, NEW checkpoint \in Nat
  PROVE  ResultOf(kind, at, from, checkpoint) \in Result
BY DEF TypeOK, ResultOf, Result

LEMMA CloseType ==
  ASSUME TypeOK, NEW kind \in Kinds, NEW at \in Nodes \cup {NoNode},
         NEW from \in Nodes \cup {NoNode}, Close(kind, at, from)
  PROVE  pc' = "closing" /\ out' \in Result
BY ResultType DEF Close

LEMMA EndType ==
  ASSUME TypeOK, NEW kind \in Kinds, NEW at \in Nodes \cup {NoNode},
         NEW from \in Nodes \cup {NoNode}, NEW checkpoint \in Nat,
         End(kind, at, from, checkpoint)
  PROVE  pc' = "ended" /\ out' \in Result
BY ResultType DEF End

\* A run that is given no session state begins at the entry node with no visits.
LEMMA FreshType ==
  /\ StartNode(Fresh) = EntryNode
  /\ RestoredVisits(Fresh) = None
BY GraphAssumption DEF StartNode, RestoredVisits, Fresh, None

-----------------------------------------------------------------------------
(***************************************************************************)
(* Every action keeps the types.                                           *)
(***************************************************************************)

LEMMA InitInv == Init => Inv
<1> SUFFICES ASSUME Init
             PROVE  Inv
  OBVIOUS
<1>. USE DEF Init
<1>1. TypeOK
  <2>1. /\ pc \in {"idle", "top", "ended"} \cup Awaits /\ current \in Nodes
        /\ steps \in 0..MaxSteps /\ work \in 0..MaxWork /\ created \in Nat
    BY SimpleConstants
  <2>2. /\ visits \in Counts /\ retries \in Counts /\ tries \in Counts /\ progress \in Counts
        /\ entered \in Counts /\ completed \in Counts
    BY CountsType
  <2>3. out \in Result \cup {NoResult} /\ saving \subseteq Checkpoint
    OBVIOUS
  <2>4. index \in Seq(Checkpoint)
    OBVIOUS
  <2>. QED
    BY <2>1, <2>2, <2>3, <2>4 DEF TypeOK
<1>2. StepCounted /\ VisitOpen /\ RetryAtHead
  BY DEF StepCounted, VisitOpen, RetryAtHead
<1>3. EnteredCounted /\ VisitsWithinLimit
  <2>1. \A n \in Nodes : entered[n] = 0 /\ visits[n] = 0 /\ Repeating(n) = 0
    BY DEF None, Repeating
  <2>2. \A n \in Nodes : MaxVisits[n] \in Nat
    BY GraphAssumption
  <2>. QED
    BY <2>1, <2>2 DEF EnteredCounted, VisitsWithinLimit
<1>. QED
  BY <1>1, <1>2, <1>3 DEF Inv

LEMMA ExecuteType ==
  ASSUME Inv, Execute
  PROVE  TypeOK'
<1>. USE DEF Inv, Execute, Begin
<1>1. /\ current' \in Nodes /\ steps' \in 0..MaxSteps /\ work' \in 0..MaxWork
  BY FreshType, SimpleConstants
<1>2. /\ visits' \in Counts /\ retries' \in Counts /\ tries' \in Counts /\ entered' \in Counts
  BY FreshType, CountsType
<1>3. out' \in Result \cup {NoResult}
  OBVIOUS
<1>. QED
  BY <1>1, <1>2, <1>3 DEF TypeOK

LEMMA HeadType ==
  ASSUME Inv, StepsExhausted \/ PauseSeen \/ PauseSaved \/ EnterNode \/ SkipOver
  PROVE  TypeOK'
<1>. USE SimpleConstants
     DEF Inv, TypeOK, Awaits, loopVars, branchVars, storeVars, histVars
<1>1. CASE StepsExhausted
  BY <1>1, CloseType DEF StepsExhausted, Kinds
<1>2. CASE PauseSeen
  BY <1>2 DEF PauseSeen, StepsLeft
<1>3. CASE PauseSaved
  <2>1. [NewCheckpoint(current, current) EXCEPT !.clean = TRUE] \in Checkpoint
    <3>1. NewCheckpoint(current, current) \in Checkpoint
      BY CheckpointType
    <3> HIDE DEF Inv, TypeOK
    <3>. QED
      BY <3>1 DEF Checkpoint
  <2>2. CASE CheckpointStore
    <3>1. /\ created' = created + 1
          /\ index' = Append(index, [NewCheckpoint(current, current) EXCEPT !.clean = TRUE])
          /\ End("paused", current, NoNode, created + 1)
      BY <1>3, <2>2 DEF PauseSaved
    <3>2. index' \in Seq(Checkpoint)
      BY <2>1, <3>1
    <3>3. pc' = "ended" /\ out' \in Result
      <4>1. created + 1 \in Nat /\ "paused" \in Kinds
        BY DEF Kinds
      <4>. QED
        BY <3>1, <4>1, EndType
    <3>. QED
      BY <1>3, <3>1, <3>2, <3>3 DEF PauseSaved
  <2>3. CASE ~CheckpointStore
    BY <1>3, <2>3, EndType DEF PauseSaved, Kinds
  <2>. QED
    BY <2>2, <2>3
<1>4. CASE EnterNode
  <2> DEFINE cnt == IF isRetry THEN visits[current] ELSE visits[current] + 1
  <2> HIDE DEF Inv, TypeOK
  <2>0. /\ current \in Nodes /\ visits \in Counts /\ entered \in Counts
        /\ steps \in 0..MaxSteps /\ work \in 0..MaxWork
    BY DEF Inv, TypeOK
  <2>1. steps' \in 0..MaxSteps /\ visits' \in Counts /\ isRetry' \in BOOLEAN
    <3>1. cnt \in Nat
      BY <2>0 DEF Counts
    <3>2. visits' = [visits EXCEPT ![current] = cnt] /\ steps' = steps + 1 /\ isRetry' = FALSE
      BY <1>4 DEF EnterNode, RetryFlagCleared
    <3>3. steps < MaxSteps
      BY <1>4 DEF EnterNode, StepsLeft
    <3>4. steps' \in 0..MaxSteps
      BY <2>0, <3>2, <3>3
    <3>5. visits' \in Counts
      <4> HIDE DEF cnt
      <4>. QED
        BY <2>0, <3>1, <3>2 DEF Counts
    <3>. QED
      BY <3>2, <3>4, <3>5
  <2>2. UNCHANGED <<current, retries, pauseRequested, branchVars, out, index, progress, completed>>
    BY <1>4 DEF EnterNode
  <2>3. CASE WithinLimit(current, cnt)
    <3>1. /\ pc' = "node"
          /\ work' = IF work < MaxWork THEN work + 1 ELSE work
          /\ entered' = [entered EXCEPT ![current] = @ + 1]
          /\ SaveLater(CheckpointStart, current, NoNode)
      BY <1>4, <2>3 DEF EnterNode
    <3>2. created' \in Nat /\ saving' \subseteq Checkpoint
      BY <2>0, <3>1, SaveType DEF Inv
    <3>3. entered' \in Counts /\ work' \in 0..MaxWork
      BY <2>0, <3>1 DEF Counts
    <3>. QED
      BY <2>1, <2>2, <3>1, <3>2, <3>3 DEF Inv, TypeOK
  <2>4. CASE ~WithinLimit(current, cnt)
    <3>1. pc' = "skipping" /\ UNCHANGED <<work, entered, created, saving>>
      BY <1>4, <2>4 DEF EnterNode
    <3>. QED
      BY <2>1, <2>2, <3>1 DEF Inv, TypeOK
  <2>. QED
    BY <2>3, <2>4
<1>5. CASE SkipOver
  <2>1. PICK yes \in SUBSET Judged(current) : \E next \in Follow(current, TRUE, yes) :
          IF next = NoNode
            THEN Close("completed", NoNode, NoNode) /\ UNCHANGED current
            ELSE current' = next /\ pc' = "top" /\ UNCHANGED out
    BY <1>5 DEF SkipOver
  <2>2. Follow(current, TRUE, yes) \subseteq Nodes \cup {NoNode}
    BY FollowType
  <2>3. current' \in Nodes /\ pc' \in {"top", "closing"} /\ out' \in Result \cup {NoResult}
    BY <2>1, <2>2, CloseType DEF Kinds
  <2>. QED
    BY <1>5, <2>3 DEF SkipOver
<1>. QED
  BY <1>1, <1>2, <1>3, <1>4, <1>5

LEMMA NodeType ==
  ASSUME Inv, NodeSucceeds \/ NodeFails \/ BackoffOver \/ RouteFailure
  PROVE  TypeOK'
<1>. USE SimpleConstants
     DEF Inv, TypeOK, Awaits, loopVars, branchVars, storeVars, histVars
<1>1. CASE NodeSucceeds
  <2>1. pc' \in {"closing", "routing"} /\ out' \in Result \cup {NoResult}
    BY <1>1, CloseType DEF NodeSucceeds, Kinds
  <2>2. completed' \in Counts
    BY <1>1, CountsType DEF NodeSucceeds
  <2>. QED
    BY <1>1, <2>1, <2>2 DEF NodeSucceeds
<1>2. CASE NodeFails
  <2>1. steps \in 1..MaxSteps
    BY <1>2 DEF NodeFails, StepCounted
  <2>2. retries' \in Counts
    BY <1>2, CountsType DEF NodeFails, CountRetry
  <2>3. steps' \in 0..MaxSteps /\ pc' \in {"backoff", "failing"}
    BY <1>2, <2>1 DEF NodeFails
  <2>. QED
    BY <1>2, <2>2, <2>3 DEF NodeFails
<1>3. CASE BackoffOver
  <2>1. entered[current] \in Nat /\ entered[current] - 1 \in Nat
    <3>1. entered[current] >= 1
      BY <1>3 DEF BackoffOver, VisitOpen
    <3>2. entered[current] \in Nat
      BY CountsType
    <3>. QED
      BY <3>1, <3>2
  <2>2. entered' \in Counts
    <3>1. entered \in Counts /\ entered' = [entered EXCEPT ![current] = entered[current] - 1]
      BY <1>3 DEF BackoffOver
    <3> HIDE DEF Inv, TypeOK
    <3>. QED
      BY <2>1, <3>1 DEF Counts
  <2>. QED
    BY <1>3, <2>2 DEF BackoffOver
<1>4. CASE RouteFailure
  <2>1. PICK yes \in SUBSET Judged(current) : \E next \in Follow(current, FALSE, yes) :
          IF next = NoNode
            THEN /\ Close("failed", NoNode, current)
                 /\ UNCHANGED <<current, completed>>
            ELSE /\ current' = next /\ pc' = "top"
                 /\ completed' = [completed EXCEPT ![current] = @ + 1]
                 /\ UNCHANGED out
    BY <1>4 DEF RouteFailure
  <2>2. Follow(current, FALSE, yes) \subseteq Nodes \cup {NoNode}
    BY FollowType
  <2>3. /\ current' \in Nodes /\ pc' \in {"top", "closing"}
        /\ out' \in Result \cup {NoResult} /\ completed' \in Counts
    BY <2>1, <2>2, CloseType, CountsType DEF Kinds
  <2>. QED
    BY <1>4, <2>3 DEF RouteFailure
<1>. QED
  BY <1>1, <1>2, <1>3, <1>4

LEMMA RouteType ==
  ASSUME Inv, RouteExplicitly \/ NoEdge \/ FollowEdge
  PROVE  TypeOK'
<1>. USE SimpleConstants
     DEF Inv, TypeOK, Awaits, loopVars, branchVars, storeVars, histVars
<1>1. CASE RouteExplicitly
  <2>1. current' \in Nodes /\ pc' \in {"handover", "top"} /\ progress' = visits
    <3>1. RouterTargets[current] \subseteq Nodes
      BY GraphAssumption
    <3>. QED
      BY <1>1, <3>1 DEF RouteExplicitly, GoOn, WriteProgress
  <2>. QED
    BY <1>1, <2>1 DEF RouteExplicitly
<1>2. CASE NoEdge
  BY <1>2, CloseType DEF NoEdge, Kinds
<1>3. CASE FollowEdge
  <2>1. PICK yes \in SUBSET Judged(current), again \in SUBSET Judged(current) :
          \E next \in Follow(current, TRUE, again) :
            IF next = NoNode
              THEN /\ Close("completed", NoNode, NoNode)
                   /\ UNCHANGED <<current, created, saving, progress>>
              ELSE /\ GoOn(next)
                   /\ WriteProgress
                   /\ SaveLater(CheckpointComplete, current, next)
                   /\ UNCHANGED out
    BY <1>3 DEF FollowEdge
  <2>2. PICK next \in Nodes \cup {NoNode} :
          IF next = NoNode
            THEN /\ Close("completed", NoNode, NoNode)
                 /\ UNCHANGED <<current, created, saving, progress>>
            ELSE /\ GoOn(next)
                 /\ WriteProgress
                 /\ SaveLater(CheckpointComplete, current, next)
                 /\ UNCHANGED out
    BY <2>1, FollowType
  <2>3. CASE next = NoNode
    BY <1>3, <2>2, <2>3, CloseType DEF FollowEdge, Kinds
  <2>4. CASE next # NoNode
    <3>1. created' \in Nat /\ saving' \subseteq Checkpoint
      BY <2>2, <2>4, SaveType
    <3>2. current' \in Nodes /\ pc' \in {"handover", "top"} /\ progress' = visits
          /\ UNCHANGED out
      BY <2>2, <2>4 DEF GoOn, WriteProgress
    <3>. QED
      BY <1>3, <3>1, <3>2 DEF FollowEdge
  <2>. QED
    BY <2>3, <2>4
<1>. QED
  BY <1>1, <1>2, <1>3

LEMMA BranchType ==
  ASSUME Inv,
         \/ FanOut
         \/ \E n \in Nodes, success \in BOOLEAN : BranchAttempt(n, success)
         \/ \E n \in Nodes : BranchRaises(n)
         \/ BranchesJoined
  PROVE  TypeOK'
<1>. USE SimpleConstants
     DEF Inv, TypeOK, Awaits, loopVars, branchVars, storeVars, histVars
<1>1. CASE FanOut
  <2>1. PICK yes \in SUBSET Judged(current) :
          LET branches == Traversable(current, yes)
              targets  == {Edges[e].target : e \in branches}
          IN  /\ running' = {n \in targets : BranchAttempts(n) > 0}
              /\ branchFailed' = (\E n \in targets : BranchAttempts(n) = 0)
              /\ fanIn' \in ConvergenceNode(branches)
    BY <1>1 DEF FanOut
  <2>2. Traversable(current, yes) \subseteq DOMAIN Edges
    BY TraversableType
  <2>3. running' \subseteq Nodes
    BY <2>1, <2>2, TargetType
  <2>4. branchFailed' \in BOOLEAN
    BY <2>1
  <2>5. fanIn' \in Nodes \cup {NoNode}
    BY <2>1, <2>2, ConvergenceType
  <2>. QED
    BY <1>1, <2>3, <2>4, <2>5, CountsType DEF FanOut
<1>2. ASSUME NEW n \in Nodes, NEW success \in BOOLEAN, BranchAttempt(n, success)
      PROVE  TypeOK'
  <2>1. tries' \in Counts
    <3>1. tries' = [tries EXCEPT ![n] = tries[n] + 1]
      BY <1>2 DEF BranchAttempt
    <3>. QED
      BY <3>1, CountsType
  <2>2. running' \subseteq Nodes /\ branchFailed' \in BOOLEAN
    BY <1>2 DEF BranchAttempt
  <2>. QED
    BY <1>2, <2>1, <2>2 DEF BranchAttempt
<1>3. ASSUME NEW n \in Nodes, BranchRaises(n)
      PROVE  TypeOK'
  BY <1>3 DEF BranchRaises
<1>4. CASE BranchesJoined
  <2>1. CASE branchFailed /\ FailAll
    <3>1. PICK id \in LatestClean : End("error", NoNode, current, id)
      BY <1>4, <2>1 DEF BranchesJoined
    <3>2. pc' = "ended" /\ out' \in Result
      BY <3>1, LatestType, EndType DEF Kinds
    <3>. QED
      BY <1>4, <2>1, <3>2 DEF BranchesJoined
  <2>2. CASE ~(branchFailed /\ FailAll) /\ fanIn = NoNode
    BY <1>4, <2>2, CloseType DEF BranchesJoined, Kinds
  <2>3. CASE ~(branchFailed /\ FailAll) /\ fanIn # NoNode
    BY <1>4, <2>3 DEF BranchesJoined, GoOn, WriteProgress
  <2>. QED
    BY <2>1, <2>2, <2>3
<1>. QED
  BY <1>1, <1>2, <1>3, <1>4

LEMMA EndingType ==
  ASSUME Inv, HandedOver \/ Closed \/ Raises \/ EnvironmentStep
  PROVE  TypeOK'
<1>. USE SimpleConstants
     DEF Inv, TypeOK, Awaits, loopVars, branchVars, storeVars, histVars
<1>1. CASE HandedOver \/ Closed
  BY <1>1 DEF HandedOver, Closed
<1>2. CASE Raises
  <2>1. PICK id \in LatestClean : End("error", NoNode, current, id)
    BY <1>2 DEF Raises
  <2>2. pc' = "ended" /\ out' \in Result
    BY <2>1, LatestType, EndType DEF Kinds
  <2>. QED
    BY <1>2, <2>2 DEF Raises
<1>3. CASE Cancel
  BY <1>3, EndType DEF Cancel, Kinds
<1>4. CASE RequestPause
  BY <1>4 DEF RequestPause
<1>5. CASE CheckpointSaved \/ CheckpointLost
  <2>1. index' \in Seq(Checkpoint) /\ saving' \subseteq Checkpoint
    BY <1>5 DEF CheckpointSaved, CheckpointLost
  <2>. QED
    BY <1>5, <2>1 DEF CheckpointSaved, CheckpointLost
<1>. QED
  BY <1>1, <1>2, <1>3, <1>4, <1>5 DEF EnvironmentStep

LEMMA StepType ==
  ASSUME Inv, [Next]_vars
  PROVE  TypeOK'
<1>1. CASE Next
  BY <1>1, ExecuteType, HeadType, NodeType, RouteType, BranchType, EndingType
     DEF Next, LoopStep
<1>2. CASE UNCHANGED vars
  BY <1>2 DEF Inv, TypeOK, vars, loopVars, branchVars, storeVars, histVars
<1>. QED
  BY <1>1, <1>2

-----------------------------------------------------------------------------
(***************************************************************************)
(* What the visit counts are worth: every action but the entering of a     *)
(* node, the end of a back-off and the start of the run leaves them alone. *)
(***************************************************************************)

\* The part of the invariant that is about visits.
VisitInv == StepCounted /\ VisitOpen /\ RetryAtHead /\ EnteredCounted /\ VisitsWithinLimit

\* A step that leaves the counts of visits alone keeps them right.
LEMMA QuietStep ==
  ASSUME Inv, UNCHANGED <<visits, entered>>,
         \/ ~isRetry'
         \/ UNCHANGED <<isRetry, current>>
  PROVE  EnteredCounted' /\ VisitsWithinLimit'
<1>1. VisitsWithinLimit'
  BY DEF Inv, VisitsWithinLimit
<1>2. ASSUME NEW n \in Nodes
      PROVE  (entered[n] + Repeating(n) <= visits[n])'
  <2>1. entered[n] + Repeating(n) <= visits[n] /\ entered[n] \in Nat /\ visits[n] \in Nat
    BY CountsType DEF Inv, EnteredCounted, TypeOK
  <2>2. Repeating(n)' \in {0, Repeating(n)} /\ Repeating(n) \in {0, 1}
    BY DEF Repeating
  <2>3. (entered[n] + Repeating(n) <= visits[n])' <=> entered[n] + Repeating(n)' <= visits[n]
    OBVIOUS
  <2>. QED
    BY <2>1, <2>2, <2>3
<1>. QED
  BY <1>1, <1>2 DEF EnteredCounted

LEMMA EnterNodeVisits ==
  ASSUME Inv, EnterNode
  PROVE  VisitInv'
<1> DEFINE cnt == IF isRetry THEN visits[current] ELSE visits[current] + 1
<1>1. /\ current \in Nodes /\ visits \in Counts /\ entered \in Counts /\ steps \in Nat
  BY SimpleConstants DEF Inv, TypeOK
<1>2. \A n \in Nodes : entered[n] \in Nat /\ visits[n] \in Nat /\ MaxVisits[n] \in Nat
  BY <1>1, CountsType, GraphAssumption
<1>3. /\ visits' = [visits EXCEPT ![current] = cnt]
      /\ steps' = steps + 1 /\ ~isRetry' /\ current' = current
  BY DEF EnterNode, RetryFlagCleared
<1>4. visits[current] <= cnt /\ entered[current] + 1 <= cnt /\ cnt \in Nat
  <2>1. entered[current] + Repeating(current) <= visits[current]
    BY <1>1 DEF Inv, EnteredCounted
  <2>. QED
    BY <1>1, <1>2, <2>1 DEF Repeating
<1>5. \A n \in Nodes : /\ visits'[n] = IF n = current THEN cnt ELSE visits[n]
                       /\ Repeating(n)' = 0
  <2> HIDE DEF cnt
  <2>. QED
    BY <1>1, <1>3 DEF Counts, Repeating
<1>6. \A n \in Nodes : entered[n] <= visits[n]
  <2> SUFFICES ASSUME NEW n \in Nodes
               PROVE  entered[n] <= visits[n]
    OBVIOUS
  <2>1. entered[n] + Repeating(n) <= visits[n] /\ Repeating(n) \in {0, 1}
    BY DEF Inv, EnteredCounted, Repeating
  <2>. QED
    BY <1>2, <2>1
<1> HIDE DEF cnt
<1>7. CASE WithinLimit(current, cnt)
  <2>1. pc' = "node" /\ entered' = [entered EXCEPT ![current] = entered[current] + 1]
    BY <1>7 DEF EnterNode, cnt
  <2>2. \A n \in Nodes : entered'[n] = IF n = current THEN entered[current] + 1 ELSE entered[n]
    BY <1>1, <2>1 DEF Counts
  <2>3. EnteredCounted'
    <3> SUFFICES ASSUME NEW n \in Nodes
                 PROVE  entered'[n] + Repeating(n)' <= visits'[n]
      BY DEF EnteredCounted
    <3>. QED
      BY <1>2, <1>4, <1>5, <1>6, <2>2
  <2>4. VisitsWithinLimit'
    <3> SUFFICES ASSUME NEW n \in Nodes, MaxVisits[n] > 0
                 PROVE  entered'[n] <= MaxVisits[n]
      BY DEF VisitsWithinLimit
    <3>1. CASE n = current
      BY <1>1, <1>2, <1>4, <1>7, <2>2, <3>1 DEF WithinLimit
    <3>2. CASE n # current
      BY <2>2, <3>2 DEF Inv, VisitsWithinLimit
    <3>. QED
      BY <3>1, <3>2
  <2>5. StepCounted' /\ RetryAtHead'
    BY <1>1, <1>3 DEF StepCounted, RetryAtHead
  <2>6. VisitOpen'
    BY <1>1, <1>2, <1>3, <2>2 DEF VisitOpen
  <2>. QED
    BY <2>3, <2>4, <2>5, <2>6 DEF VisitInv
<1>8. CASE ~WithinLimit(current, cnt)
  <2>1. pc' = "skipping" /\ entered' = entered
    BY <1>8 DEF EnterNode, cnt
  <2>2. EnteredCounted'
    <3> SUFFICES ASSUME NEW n \in Nodes
                 PROVE  entered'[n] + Repeating(n)' <= visits'[n]
      BY DEF EnteredCounted
    <3>. QED
      BY <1>1, <1>2, <1>4, <1>5, <1>6, <2>1
  <2>3. VisitsWithinLimit'
    BY <2>1 DEF Inv, VisitsWithinLimit
  <2>4. StepCounted' /\ RetryAtHead' /\ VisitOpen'
    BY <1>3, <2>1 DEF StepCounted, RetryAtHead, VisitOpen
  <2>. QED
    BY <2>2, <2>3, <2>4 DEF VisitInv
<1>. QED
  BY <1>7, <1>8

\* The visit a back-off takes back is the one the retry makes again.
LEMMA BackoffVisits ==
  ASSUME Inv, BackoffOver
  PROVE  VisitInv'
<1>1. /\ current \in Nodes /\ visits \in Counts /\ entered \in Counts
  BY DEF Inv, TypeOK
<1>2. \A n \in Nodes : entered[n] \in Nat /\ visits[n] \in Nat /\ MaxVisits[n] \in Nat
  BY <1>1, CountsType, GraphAssumption
<1>3. /\ pc = "backoff" /\ pc' = "top" /\ isRetry' /\ current' = current /\ visits' = visits
      /\ entered' = [entered EXCEPT ![current] = entered[current] - 1]
  BY DEF BackoffOver
<1>4. \A n \in Nodes : /\ entered'[n] = IF n = current THEN entered[current] - 1 ELSE entered[n]
                       /\ Repeating(n)' = IF n = current THEN 1 ELSE 0
  BY <1>1, <1>3 DEF Counts, Repeating
<1>5. \A n \in Nodes : entered[n] <= visits[n]
  <2> SUFFICES ASSUME NEW n \in Nodes
               PROVE  entered[n] <= visits[n]
    OBVIOUS
  <2>1. entered[n] + Repeating(n) <= visits[n] /\ Repeating(n) \in {0, 1}
    BY DEF Inv, EnteredCounted, Repeating
  <2>. QED
    BY <1>2, <2>1
<1>6. EnteredCounted'
  <2> SUFFICES ASSUME NEW n \in Nodes
               PROVE  entered'[n] + Repeating(n)' <= visits[n]
    BY <1>3 DEF EnteredCounted
  <2>. QED
    BY <1>1, <1>2, <1>4, <1>5
<1>7. VisitsWithinLimit'
  <2> SUFFICES ASSUME NEW n \in Nodes, MaxVisits[n] > 0
               PROVE  entered'[n] <= MaxVisits[n]
    BY DEF VisitsWithinLimit
  <2>1. entered[n] <= MaxVisits[n]
    BY DEF Inv, VisitsWithinLimit
  <2>. QED
    BY <1>1, <1>2, <1>4, <2>1
<1>8. StepCounted' /\ VisitOpen' /\ RetryAtHead'
  BY <1>3 DEF StepCounted, VisitOpen, RetryAtHead
<1>. QED
  BY <1>6, <1>7, <1>8 DEF VisitInv

LEMMA ExecuteVisits ==
  ASSUME Inv, Execute
  PROVE  VisitInv'
<1>1. pc' = "top" /\ ~isRetry' /\ entered' = None /\ visits' = None
  BY FreshType DEF Execute, Begin
<1>2. \A n \in Nodes : entered'[n] = 0 /\ visits'[n] = 0 /\ Repeating(n)' = 0
  BY <1>1 DEF None, Repeating
<1>3. EnteredCounted' /\ VisitsWithinLimit'
  BY <1>2, GraphAssumption DEF EnteredCounted, VisitsWithinLimit
<1>. QED
  BY <1>1, <1>3 DEF VisitInv, StepCounted, VisitOpen, RetryAtHead

LEMMA OtherVisits ==
  ASSUME Inv, Next, ~Execute, ~EnterNode, ~BackoffOver
  PROVE  VisitInv'
<1>1. UNCHANGED <<visits, entered, isRetry>>
  BY DEF Next, LoopStep, EnvironmentStep, StepsExhausted, PauseSeen, PauseSaved, SkipOver,
         NodeSucceeds, NodeFails, RouteFailure, RouteExplicitly, NoEdge, FollowEdge, FanOut,
         BranchAttempt, BranchRaises, BranchesJoined, HandedOver, Closed, Raises, Cancel,
         RequestPause, CheckpointSaved, CheckpointLost, loopVars, histVars
<1>2. \/ pc' \notin {"node", "backoff"}
      \/ pc' = "backoff" /\ pc = "node" /\ UNCHANGED current
      \/ UNCHANGED <<pc, current, steps>>
  BY DEF Next, LoopStep, EnvironmentStep, StepsExhausted, PauseSeen, PauseSaved, SkipOver,
         NodeSucceeds, NodeFails, RouteFailure, RouteExplicitly, NoEdge, FollowEdge, FanOut,
         BranchAttempt, BranchRaises, BranchesJoined, HandedOver, Closed, Raises, Cancel,
         RequestPause, CheckpointSaved, CheckpointLost, loopVars, Close, End, GoOn
<1>3. isRetry => pc' \in {"top", "pausing", "closing", "ended"} /\ UNCHANGED current
  <2>1. isRetry => pc \in {"top", "pausing", "closing", "ended"}
    BY DEF Inv, RetryAtHead
  <2>. QED
    BY <2>1
       DEF Next, LoopStep, EnvironmentStep, StepsExhausted, PauseSeen, PauseSaved, SkipOver,
         NodeSucceeds, NodeFails, RouteFailure, RouteExplicitly, NoEdge, FollowEdge, FanOut,
         BranchAttempt, BranchRaises, BranchesJoined, HandedOver, Closed, Raises, Cancel,
         RequestPause, CheckpointSaved, CheckpointLost, loopVars, Close, End
<1>4. StepCounted' /\ VisitOpen' /\ RetryAtHead'
  BY <1>1, <1>2, <1>3 DEF Inv, StepCounted, VisitOpen, RetryAtHead
<1>5. EnteredCounted' /\ VisitsWithinLimit'
  BY <1>1, <1>3, QuietStep
<1>. QED
  BY <1>4, <1>5 DEF VisitInv

\* Inv is inductive.
LEMMA StepInv ==
  ASSUME Inv, [Next]_vars
  PROVE  Inv'
<1>1. TypeOK'
  BY StepType
<1>2. CASE UNCHANGED vars
  <2>1. UNCHANGED <<pc, steps, current, visits, entered, isRetry>>
    BY <1>2 DEF vars, loopVars, histVars
  <2>2. StepCounted' /\ VisitOpen' /\ RetryAtHead'
    BY <2>1 DEF Inv, StepCounted, VisitOpen, RetryAtHead
  <2>3. EnteredCounted' /\ VisitsWithinLimit'
    BY <2>1, QuietStep
  <2>. QED
    BY <1>1, <2>2, <2>3 DEF Inv
<1>3. CASE Next
  <2>1. VisitInv'
    BY <1>3, ExecuteVisits, EnterNodeVisits, BackoffVisits, OtherVisits
  <2>. QED
    BY <1>1, <2>1 DEF Inv, VisitInv
<1>. QED
  BY <1>2, <1>3

-----------------------------------------------------------------------------
(***************************************************************************)
(* The work of a run: a step that is given back adds one pair to Redone.   *)
(***************************************************************************)

WorkInv == IsFiniteSet(Redone) /\ WorkBounded

\* Without a retry there is nothing redone, and nothing is when a run begins.
LEMMA NothingRedone ==
  ASSUME retries = None
  PROVE  Redone = {}
BY DEF None, Redone

LEMMA BeginWork ==
  ASSUME steps = 0, work = 0, retries = None
  PROVE  WorkInv
BY NothingRedone, FS_EmptySet DEF WorkInv, WorkBounded

LEMMA NodeFailsWork ==
  ASSUME Inv, WorkInv, NodeFails
  PROVE  WorkInv'
<1> DEFINE pair == <<current, retries[current] + 1>>
<1>1. /\ current \in Nodes /\ retries \in Counts /\ retries[current] \in Nat
      /\ steps \in Int /\ work \in Int /\ work' = work
      /\ retries' = [retries EXCEPT ![current] = retries[current] + 1]
  <2>1. /\ current \in Nodes /\ retries \in Counts /\ retries[current] \in Nat
        /\ steps \in Int /\ work \in Int
    BY CountsType, SimpleConstants DEF Inv, TypeOK
  <2>2. work' = work
    BY DEF NodeFails, histVars
  <2>3. retries' = [retries EXCEPT ![current] = retries[current] + 1]
    BY DEF NodeFails, CountRetry
  <2>. QED
    BY <2>1, <2>2, <2>3
<1>2. \A n \in Nodes : retries'[n] = IF n = current THEN retries[n] + 1 ELSE retries[n]
  BY <1>1 DEF Counts
<1>3. Redone' = UNION {{n} \X {k \in 1..retries'[n] : k < Retries(n)} : n \in Nodes}
  BY DEF Redone, Retries
<1>4. IsFiniteSet(Redone) /\ Cardinality(Redone) \in Nat /\ work <= steps + Cardinality(Redone)
  BY FS_CardinalityType DEF WorkInv, WorkBounded
<1>5. CASE retries[current] + 1 < Retries(current)
  <2>1. steps' = steps - 1
    BY <1>5 DEF NodeFails
  <2>2. Redone' = Redone \cup {pair}
    <3>1. ASSUME NEW n \in Nodes
          PROVE  {k \in 1..retries'[n] : k < Retries(n)} =
                   {k \in 1..retries[n] : k < Retries(n)}
                     \cup (IF n = current THEN {retries[current] + 1} ELSE {})
      <4>1. CASE n = current
        <5>1. \A k : k \in 1..retries[current] + 1 <=> k \in 1..retries[current] \/ k = retries[current] + 1
          BY <1>1
        <5>. QED
          BY <1>2, <1>5, <4>1, <5>1
      <4>2. CASE n # current
        BY <1>2, <4>2
      <4>. QED
        BY <4>1, <4>2
    <3>. QED
      BY <1>1, <1>3, <3>1 DEF Redone
  <2>3. pair \notin Redone
    BY <1>1 DEF Redone
  <2> HIDE DEF pair
  <2>4. IsFiniteSet(Redone') /\ Cardinality(Redone') = Cardinality(Redone) + 1
    BY <1>4, <2>2, <2>3, FS_AddElement
  <2>. QED
    BY <1>1, <1>4, <2>1, <2>4 DEF WorkInv, WorkBounded
<1>6. CASE ~(retries[current] + 1 < Retries(current))
  <2>1. steps' = steps
    BY <1>6 DEF NodeFails
  <2>2. Redone' = Redone
    <3>1. Retries(current) \in Nat
      BY <1>1, GraphAssumption DEF Retries
    <3>2. ASSUME NEW n \in Nodes
          PROVE  {k \in 1..retries'[n] : k < Retries(n)} = {k \in 1..retries[n] : k < Retries(n)}
      <4>1. CASE n = current
        <5>1. \A k : k \in 1..retries[current] + 1 <=> k \in 1..retries[current] \/ k = retries[current] + 1
          BY <1>1
        <5>. QED
          BY <1>1, <1>2, <1>6, <3>1, <4>1, <5>1
      <4>2. CASE n # current
        BY <1>2, <4>2
      <4>. QED
        BY <4>1, <4>2
    <3>. QED
      BY <1>3, <3>2 DEF Redone
  <2>. QED
    BY <1>1, <1>4, <2>1, <2>2 DEF WorkInv, WorkBounded
<1>. QED
  BY <1>5, <1>6

LEMMA StepWork ==
  ASSUME Inv, WorkInv, [Next]_vars
  PROVE  WorkInv'
<1>1. /\ IsFiniteSet(Redone) /\ Cardinality(Redone) \in Nat /\ work <= steps + Cardinality(Redone)
      /\ steps \in Int /\ work \in Int /\ MaxWork \in Int
  BY FS_CardinalityType, SimpleConstants DEF WorkInv, WorkBounded, Inv, TypeOK
<1>2. CASE Execute
  <2>1. steps' = 0 /\ work' = 0 /\ retries' = None
    BY <1>2 DEF Execute, Begin
  <2>2. Redone' = {}
    BY <2>1 DEF None, Redone
  <2>. QED
    BY <2>1, <2>2, FS_EmptySet DEF WorkInv, WorkBounded
<1>3. CASE NodeFails
  BY <1>3, NodeFailsWork
<1>4. CASE EnterNode \/ PauseSeen \/ UNCHANGED <<steps, work, retries>>
  <2>1. UNCHANGED retries
    BY <1>4 DEF EnterNode, PauseSeen
  <2>2. UNCHANGED Redone
    BY <2>1 DEF Redone, Retries
  <2>3. \/ steps' = steps + 1 /\ work' \in {work, work + 1}
        \/ UNCHANGED <<steps, work>>
    BY <1>4 DEF EnterNode, PauseSeen, histVars
  <2>. QED
    BY <1>1, <2>2, <2>3 DEF WorkInv, WorkBounded
<1>5. ~Execute /\ ~NodeFails /\ ~EnterNode /\ ~PauseSeen => UNCHANGED <<steps, work, retries>>
  BY DEF Next, LoopStep, EnvironmentStep, StepsExhausted, PauseSaved, SkipOver, NodeSucceeds,
         BackoffOver, RouteFailure, RouteExplicitly, NoEdge, FollowEdge, FanOut, BranchAttempt,
         BranchRaises, BranchesJoined, HandedOver, Closed, Raises, Cancel, RequestPause,
         CheckpointSaved, CheckpointLost, vars, loopVars, histVars
<1>. QED
  BY <1>2, <1>3, <1>4, <1>5

-----------------------------------------------------------------------------
(***************************************************************************)
(* The theorems.                                                           *)
(***************************************************************************)

\* Inv holds in every state of a run of GraphExecutor.execute().
THEOREM InvCorrect == Spec => []Inv
<1>. QED
  BY InitInv, StepInv, PTL DEF Spec

\* The variables of a run of GraphExecutor.execute() have their types.
THEOREM TypeCorrect == Spec => []TypeOK
<1>1. Inv => TypeOK
  BY DEF Inv
<1>. QED
  BY InvCorrect, <1>1, PTL

\* For every graph, however execute() loops, retries, fails over or fans out, its
\* main loop visits a node at most max_node_visits times.
THEOREM LimitsKept == Spec => []VisitsWithinLimit
<1>1. Inv => VisitsWithinLimit
  BY DEF Inv
<1>. QED
  BY InvCorrect, <1>1, PTL

\* Retries give their step back, so max_steps alone does not bound a run: its main
\* loop executes no more nodes than it counted steps and was allowed retries, for
\* every graph and every limit.
THEOREM WorkIsBounded == Spec => []WorkBounded
<1>1. Init => WorkInv
  BY BeginWork DEF Init
<1>2. WorkInv => WorkBounded
  BY DEF WorkInv
<1>. QED
  BY InvCorrect, <1>1, <1>2, StepWork, PTL DEF Spec

-----------------------------------------------------------------------------
(***************************************************************************)
(* Sessions.  A run that is given a session state keeps Inv, and so does   *)
(* one that is forgotten.                                                  *)
(***************************************************************************)

LEMMA StartType ==
  ASSUME TypeOK, NEW ss \in SessionState
  PROVE  StartNode(ss) \in Nodes /\ RestoredVisits(ss) \in Counts
<1>1. /\ ss.pausedAt \in Nodes \cup {NoNode} /\ ss.resumeFrom \in Nodes \cup {NoNode}
      /\ ss.visits \in Counts
  BY DEF SessionState
<1>2. RestoredVisits(ss) \in Counts
  <2>1. \A n \in Nodes : ss.visits[n] \in Nat
    BY <1>1, CountsType
  <2>2. \A n \in Nodes : (IF n = ss.pausedAt /\ ss.visits[n] > 0
                          THEN ss.visits[n] - 1 ELSE ss.visits[n]) \in Nat
    BY <2>1
  <2>. QED
    BY <2>2 DEF RestoredVisits, Counts
<1>3. \A i \in DOMAIN index : index[i].at \in Nodes /\ index[i].next \in Nodes \cup {NoNode}
  <2>1. \A i \in DOMAIN index : index[i] \in Checkpoint
    BY DEF TypeOK
  <2>. QED
    BY <2>1 DEF Checkpoint
<1>4. ASSUME Loadable(ss.checkpoint)
      PROVE  \E i \in DOMAIN index : Loaded(ss.checkpoint) = index[i]
  BY <1>4 DEF Loadable, Loaded
<1>. QED
  BY <1>1, <1>2, <1>3, <1>4, SimpleConstants DEF StartNode

LEMMA BeginInv ==
  ASSUME Inv, NEW ss \in SessionState, Begin(ss), progress' \in Counts, completed' \in Counts
  PROVE  Inv'
<1>1. current' \in Nodes /\ visits' \in Counts
  BY StartType DEF Inv, Begin
<1>2. TypeOK'
  <2>1. /\ pc' = "top" /\ steps' = 0 /\ retries' = None /\ isRetry' = FALSE
        /\ pauseRequested' = FALSE /\ out' = NoResult /\ work' = 0 /\ entered' = None
        /\ running' = {} /\ tries' = None /\ branchFailed' = FALSE /\ fanIn' = NoNode
        /\ UNCHANGED <<created, saving, index>>
    BY DEF Begin
  <2>2. /\ created \in Nat /\ saving \subseteq Checkpoint /\ index \in Seq(Checkpoint)
    BY DEF Inv, TypeOK
  <2>3. /\ pc' \in {"idle", "top", "ended"} \cup Awaits /\ isRetry' \in BOOLEAN
        /\ pauseRequested' \in BOOLEAN /\ running' \subseteq Nodes /\ branchFailed' \in BOOLEAN
        /\ fanIn' \in Nodes \cup {NoNode} /\ out' \in Result \cup {NoResult}
    BY <2>1
  <2>4. /\ current' \in Nodes /\ steps' \in 0..MaxSteps /\ work' \in 0..MaxWork
    BY <1>1, <2>1, SimpleConstants
  <2>5. /\ visits' \in Counts /\ retries' \in Counts /\ tries' \in Counts
        /\ entered' \in Counts /\ completed' \in Counts
    BY <1>1, <2>1, <2>2, CountsType
  <2>6. /\ created' \in Nat /\ saving' \subseteq Checkpoint /\ index' \in Seq(Checkpoint)
    BY <2>1, <2>2
  <2>. QED
    BY <2>3, <2>4, <2>5, <2>6 DEF TypeOK
<1>3. StepCounted' /\ VisitOpen' /\ RetryAtHead'
  BY DEF Begin, StepCounted, VisitOpen, RetryAtHead
<1>4. EnteredCounted' /\ VisitsWithinLimit'
  <2>1. \A n \in Nodes : entered'[n] = 0 /\ Repeating(n)' = 0 /\ visits'[n] \in Nat
    BY <1>1, CountsType DEF Begin, None, Repeating
  <2>. QED
    BY <2>1, GraphAssumption DEF EnteredCounted, VisitsWithinLimit
<1>. QED
  BY <1>2, <1>3, <1>4 DEF Inv

LEMMA ForgetInv ==
  ASSUME Inv, Forget, progress' \in Counts, saving' \subseteq Checkpoint
  PROVE  Inv'
<1>1. /\ pc' = "idle" /\ current' = EntryNode /\ steps' = 0 /\ visits' = None /\ retries' = None
      /\ isRetry' = FALSE /\ pauseRequested' = FALSE /\ running' = {} /\ tries' = None
      /\ branchFailed' = FALSE /\ fanIn' = NoNode /\ out' = NoResult /\ work' = 0
      /\ entered' = None /\ UNCHANGED <<created, index, completed>>
  BY DEF Forget
<1>2. TypeOK'
  <2>1. created \in Nat /\ index \in Seq(Checkpoint) /\ completed \in Counts
    BY DEF Inv, TypeOK
  <2>3. /\ pc' \in {"idle", "top", "ended"} \cup Awaits /\ isRetry' \in BOOLEAN
        /\ pauseRequested' \in BOOLEAN /\ running' \subseteq Nodes /\ branchFailed' \in BOOLEAN
        /\ fanIn' \in Nodes \cup {NoNode} /\ out' \in Result \cup {NoResult}
    BY <1>1
  <2>4. /\ current' \in Nodes /\ steps' \in 0..MaxSteps /\ work' \in 0..MaxWork
    BY <1>1, <1>1, SimpleConstants
  <2>5. /\ visits' \in Counts /\ retries' \in Counts /\ tries' \in Counts
        /\ entered' \in Counts /\ completed' \in Counts
    BY <1>1, <1>1, <2>1, CountsType
  <2>6. /\ created' \in Nat /\ saving' \subseteq Checkpoint /\ index' \in Seq(Checkpoint)
    BY <1>1, <2>1
  <2>. QED
    BY <2>3, <2>4, <2>5, <2>6 DEF TypeOK
<1>3. StepCounted' /\ VisitOpen' /\ RetryAtHead'
  BY <1>1 DEF StepCounted, VisitOpen, RetryAtHead
<1>4. EnteredCounted' /\ VisitsWithinLimit'
  <2>1. \A n \in Nodes : entered'[n] = 0 /\ Repeating(n)' = 0 /\ visits'[n] = 0
    BY <1>1 DEF None, Repeating
  <2>. QED
    BY <2>1, GraphAssumption DEF EnteredCounted, VisitsWithinLimit
<1>. QED
  BY <1>2, <1>3, <1>4 DEF Inv

-----------------------------------------------------------------------------
(***************************************************************************)
(* What the result of a run says, and with it state.json.                  *)
(***************************************************************************)

Says(kind, paused, resume) ==
  /\ kind \in {"completed", "exhausted"} => paused = NoNode /\ resume = NoNode
  /\ kind \in {"failed", "error"} => paused = NoNode /\ resume = current
  /\ kind \in {"hitl", "paused", "cancelled"} => paused = current

\* A result says where its run stopped, and how often it visited the nodes.
ResultSays ==
  pc \in {"closing", "ended"} =>
    out \in Result /\ out.visits = visits /\ Says(out.kind, out.pausedAt, out.resumeFrom)

\* The results of a run that is in node n.
Endings(n) ==
  {<<"completed", NoNode, NoNode>>, <<"exhausted", NoNode, NoNode>>, <<"hitl", n, NoNode>>,
   <<"failed", NoNode, n>>, <<"error", NoNode, n>>, <<"paused", n, NoNode>>,
   <<"cancelled", n, NoNode>>}

Gives ==
  \E e \in Endings(current), id \in Nat : out' = ResultOf(e[1], e[2], e[3], id)

LEMMA GivesSays ==
  ASSUME TypeOK, Gives, UNCHANGED <<current, visits>>
  PROVE  ResultSays'
<1>1. PICK e \in Endings(current), id \in Nat : out' = ResultOf(e[1], e[2], e[3], id)
  BY DEF Gives
<1>2. current \in Nodes
  BY DEF TypeOK
<1>3. e[1] \in Kinds /\ e[2] \in Nodes \cup {NoNode} /\ e[3] \in Nodes \cup {NoNode}
  BY <1>2 DEF Endings, Kinds
<1>4. out' \in Result
  BY <1>1, <1>3, ResultType
<1>5. out'.kind = e[1] /\ out'.pausedAt = e[2] /\ out'.resumeFrom = e[3] /\ out'.visits = visits
  BY <1>1 DEF ResultOf
<1>6. Says(e[1], e[2], e[3])
  BY DEF Says, Endings
<1>. QED
  BY <1>4, <1>5, <1>6 DEF ResultSays, Says

\* Where a step of a run leads, as far as its end is concerned.
LEMMA StepGives ==
  ASSUME Inv, LoopStep \/ EnvironmentStep
  PROVE  \/ pc' \notin {"closing", "ended"}
         \/ UNCHANGED <<current, visits, out>> /\ pc \in {"closing", "ended"}
         \/ UNCHANGED <<current, visits>> /\ Gives
<1>0. 0 \in Nat /\ created + 1 \in Nat /\ LatestClean \subseteq Nat
  BY LatestType DEF Inv, TypeOK
<1>1. CASE StepsExhausted \/ NoEdge
  BY <1>0, <1>1 DEF StepsExhausted, NoEdge, Close, Gives, Endings, loopVars
<1>2. CASE PauseSaved
  BY <1>0, <1>2 DEF PauseSaved, End, Gives, Endings, loopVars
<1>3. CASE SkipOver
  BY <1>0, <1>3 DEF SkipOver, Close, Gives, Endings
<1>4. CASE NodeSucceeds
  BY <1>0, <1>4 DEF NodeSucceeds, Close, Gives, Endings, loopVars
<1>5. CASE RouteFailure
  BY <1>0, <1>5 DEF RouteFailure, Close, Gives, Endings
<1>6. CASE FollowEdge
  BY <1>0, <1>6 DEF FollowEdge, Close, GoOn, Gives, Endings
<1>7. CASE BranchesJoined
  BY <1>0, <1>7 DEF BranchesJoined, Close, End, GoOn, Gives, Endings
<1>8. CASE Raises \/ Cancel
  BY <1>0, <1>8 DEF Raises, Cancel, End, Gives, Endings, loopVars
<1>9. CASE Closed \/ RequestPause \/ CheckpointSaved \/ CheckpointLost
  BY <1>9 DEF Closed, RequestPause, CheckpointSaved, CheckpointLost, loopVars, Awaits
<1>10. CASE \/ PauseSeen \/ EnterNode \/ NodeFails \/ BackoffOver \/ RouteExplicitly \/ FanOut
            \/ HandedOver
            \/ \E n \in Nodes, success \in BOOLEAN : BranchAttempt(n, success)
            \/ \E n \in Nodes : BranchRaises(n)
  BY <1>10 DEF PauseSeen, EnterNode, NodeFails, BackoffOver, RouteExplicitly, FanOut, HandedOver,
               BranchAttempt, BranchRaises, GoOn
<1>. QED
  BY <1>1, <1>2, <1>3, <1>4, <1>5, <1>6, <1>7, <1>8, <1>9, <1>10 DEF LoopStep, EnvironmentStep

LEMMA RunStepResult ==
  ASSUME Inv, ResultSays, LoopStep \/ EnvironmentStep
  PROVE  ResultSays'
<1>1. CASE pc' \notin {"closing", "ended"}
  BY <1>1 DEF ResultSays
<1>2. CASE UNCHANGED <<current, visits, out>> /\ pc \in {"closing", "ended"}
  BY <1>2 DEF ResultSays, Says
<1>3. CASE UNCHANGED <<current, visits>> /\ Gives
  BY <1>3, GivesSays DEF Inv
<1>. QED
  BY <1>1, <1>2, <1>3, StepGives

-----------------------------------------------------------------------------
(***************************************************************************)
(* The invariant of a session.                                             *)
(***************************************************************************)

SessionType ==
  /\ pausedAt \in Nodes \cup {NoNode}
  /\ resumeFrom \in Nodes \cup {NoNode}
  /\ stoppedAt \in Nodes \cup {NoNode}
  /\ openAt \in Nodes \cup {NoNode}
  /\ recorded \in [Nodes -> Int] /\ forgotten \in [Nodes -> Int]
  /\ shared \in BOOLEAN /\ inVisit \in BOOLEAN
  /\ resurrections \in Nat /\ runs \in Nat

SessionInv == Inv /\ SessionType /\ ResultSays

LEMMA SessionConstants ==
  MaxResurrections \in Nat /\ MaxRuns \in Nat
BY SessionAssumption

LEMMA InitSession == SessionInit => SessionInv
<1>. SUFFICES ASSUME SessionInit PROVE SessionInv
  OBVIOUS
<1>1. Inv
  BY InitInv DEF SessionInit
<1>2. SessionType
  <2>1. None \in [Nodes -> Int]
    BY DEF None
  <2>. QED
    BY <2>1 DEF SessionInit, SessionType
<1>3. ResultSays
  BY DEF SessionInit, Init, ResultSays
<1>. QED
  BY <1>1, <1>2, <1>3 DEF SessionInv

LEMMA FreshState == Fresh \in SessionState
BY CountsType DEF Fresh, SessionState

FromFile == [pausedAt |-> ResumePoint, resumeFrom |-> NoNode, visits |-> progress, checkpoint |-> 0]

LEMMA StateOfFile ==
  ASSUME SessionInv
  PROVE  FromFile \in SessionState
BY DEF SessionInv, Inv, TypeOK, SessionType, ResumePoint, FromFile, SessionState

FromCheckpoint(i) == [Fresh EXCEPT !.checkpoint = index[i].id]

LEMMA StateOfCheckpoint ==
  ASSUME SessionInv, NEW i \in DOMAIN index
  PROVE  FromCheckpoint(i) \in SessionState
<1>1. index[i] \in Checkpoint
  BY DEF SessionInv, Inv, TypeOK
<1>2. index[i].id \in Nat
  BY <1>1 DEF Checkpoint
<1>. QED
  BY <1>2, FreshState DEF SessionState, FromCheckpoint

FromResult == [pausedAt |-> NoNode, resumeFrom |-> out.resumeFrom,
               visits |-> out.visits, checkpoint |-> out.checkpoint]

LEMMA StateOfResult ==
  ASSUME SessionInv, pc = "ended"
  PROVE  FromResult \in SessionState
<1>1. out \in Result
  BY DEF SessionInv, ResultSays
<1>. QED
  BY <1>1 DEF Result, SessionState, FromResult

LEMMA BeginSession ==
  ASSUME SessionInv, NEW ss \in SessionState, Begin(ss), progress' = progress,
         completed' \in Counts, SessionType'
  PROVE  SessionInv'
<1>1. Inv'
  BY BeginInv DEF SessionInv, Inv, TypeOK
<1>2. ResultSays'
  BY DEF Begin, ResultSays
<1>. QED
  BY <1>1, <1>2 DEF SessionInv

LEMMA KnownType ==
  ASSUME SessionInv
  PROVE  [n \in Nodes |-> Known(n)] \in [Nodes -> Int]
<1>1. \A n \in Nodes : completed[n] \in Nat
  BY CountsType DEF SessionInv, Inv, TypeOK
<1>2. \A n \in Nodes : forgotten[n] \in Int
  BY DEF SessionInv, SessionType
<1>. QED
  BY <1>1, <1>2 DEF Known

LEMMA StepSession ==
  ASSUME SessionInv, [SessionNext]_<<vars, sessionVars>>
  PROVE  SessionInv'
<1>. USE DEF sessionVars, fileVars, streamVars, lastVars
<1>0. Inv /\ SessionType /\ ResultSays /\ TypeOK /\ current \in Nodes /\ progress \in Counts
      /\ visits \in Counts /\ completed \in Counts /\ None \in Counts
  BY CountsType DEF SessionInv, Inv, TypeOK
<1>1. CASE StartSession
  <2>1. SessionType'
    BY <1>0, <1>1 DEF StartSession, SessionType
  <2>2. Begin(Fresh) /\ progress' = progress /\ completed' = completed
    BY <1>1 DEF StartSession, Execute
  <2>. QED
    BY <1>0, <2>1, <2>2, BeginSession, FreshState
<1>2. CASE RunStep
  <2>1. Inv'
    BY <1>0, <1>2, StepInv DEF RunStep, Next
  <2>2. SessionType'
    <3>1. /\ recorded' \in {recorded, [n \in Nodes |-> Known(n)]} /\ openAt' \in {openAt, NoNode}
          /\ inVisit' \in BOOLEAN /\ UNCHANGED <<fileVars, streamVars, origin, stoppedAt, forgotten>>
      BY <1>2 DEF RunStep
    <3>. QED
      BY <1>0, <3>1, KnownType DEF SessionType
  <2>3. ResultSays'
    BY <1>0, <1>2, RunStepResult DEF RunStep
  <2>. QED
    BY <2>1, <2>2, <2>3 DEF SessionInv
<1>3. CASE Resurrect
  <2>1. Begin(FromResult) /\ pc = "ended"
    BY <1>3 DEF Resurrect, FromResult
  <2>2. /\ resurrections' = resurrections + 1 /\ inVisit' = FALSE
        /\ completed' = IF inVisit THEN [completed EXCEPT ![current] = completed[current] + 1]
                        ELSE completed
        /\ UNCHANGED <<progress, fileVars, shared, runs, stoppedAt, recorded, openAt, forgotten>>
    BY <1>3 DEF Resurrect
  <2>3. completed' \in Counts
    BY <1>0, <2>2, CountsType
  <2>4. SessionType'
    <3>1. UNCHANGED <<pausedAt, resumeFrom, shared, runs, stoppedAt, recorded, openAt, forgotten>>
          /\ inVisit' = FALSE /\ resurrections' = resurrections + 1
      BY <2>2
    <3>2. SessionType /\ resurrections' \in Nat
      BY <1>0, <3>1 DEF SessionType
    <3>. QED
      BY <3>1, <3>2 DEF SessionType
  <2>. QED
    BY <2>1, <2>2, <2>3, <2>4, BeginSession, StateOfResult
<1>4. CASE Finish
  <2>1. out \in Result
    BY <1>0, <1>4 DEF ResultSays, Finish
  <2>2. /\ out.pausedAt \in Nodes \cup {NoNode} /\ out.resumeFrom \in Nodes \cup {NoNode}
        /\ out.visits \in Counts
    BY <2>1 DEF Result
  <2>3. /\ Forget /\ saving' = saving /\ forgotten' = forgotten
        /\ \/ UNCHANGED <<fileVars, progress, stoppedAt, recorded, openAt>>
           \/ /\ pausedAt' = out.pausedAt /\ resumeFrom' = out.resumeFrom /\ progress' = out.visits
              /\ stoppedAt' \in {current, NoNode} /\ openAt' \in {current, NoNode}
              /\ recorded' = [n \in Nodes |-> Known(n)]
    BY <1>4 DEF Finish, WriteFinalState
  <2>4. progress' \in Counts
    BY <1>0, <2>2, <2>3
  <2>5. Inv'
    <3>1. saving' \subseteq Checkpoint
      BY <1>0, <2>3 DEF TypeOK
    <3>. QED
      BY <1>0, <2>3, <2>4, <3>1, ForgetInv
  <2>6. SessionType'
    <3>1. recorded' \in [Nodes -> Int]
      BY <1>0, <2>3, KnownType DEF SessionType
    <3>. QED
      BY <1>0, <2>2, <2>3, <3>1 DEF SessionType, Forget
  <2>7. ResultSays'
    BY <2>3 DEF Forget, ResultSays
  <2>. QED
    BY <2>5, <2>6, <2>7 DEF SessionInv
<1>5. CASE FinishCancelled
  <2>1. /\ Forget /\ saving' = saving /\ forgotten' = forgotten
        /\ pausedAt' = NoNode /\ resumeFrom' = NoNode /\ progress' = None /\ stoppedAt' = NoNode
        /\ openAt' = NoNode /\ recorded' = None /\ recorded' \in [Nodes -> Int]
    BY <1>5 DEF FinishCancelled, None
  <2>2. Inv'
    <3>1. saving' \subseteq Checkpoint
      BY <1>0, <2>1 DEF TypeOK
    <3>. QED
      BY <1>0, <2>1, <3>1, ForgetInv
  <2>3. SessionType'
    BY <1>0, <2>1 DEF SessionType, Forget
  <2>4. ResultSays'
    BY <2>1 DEF Forget, ResultSays
  <2>. QED
    BY <2>2, <2>3, <2>4 DEF SessionInv
<1>6. CASE Crash
  <2>1. /\ Forget /\ saving' = {}
        /\ UNCHANGED <<progress, fileVars, stoppedAt, recorded, openAt, forgotten>>
    BY <1>6 DEF Crash
  <2>2. Inv'
    BY <1>0, <2>1, ForgetInv
  <2>3. SessionType'
    BY <1>0, <2>1 DEF SessionType, Forget
  <2>4. ResultSays'
    BY <2>1 DEF Forget, ResultSays
  <2>. QED
    BY <2>2, <2>3, <2>4 DEF SessionInv
<1>7. ASSUME NEW ss \in SessionState, NEW how, BeginShared(ss, how), forgotten' \in [Nodes -> Int]
      PROVE  SessionInv'
  <2>1. SessionType'
    <3>1. UNCHANGED <<pausedAt, resumeFrom, resurrections, stoppedAt, recorded, openAt>>
          /\ inVisit' = FALSE /\ shared' = TRUE /\ runs' = runs + 1
      BY <1>7 DEF BeginShared
    <3>2. SessionType /\ runs' \in Nat
      BY <1>0, <3>1 DEF SessionType
    <3>. QED
      BY <1>7, <3>1, <3>2 DEF SessionType
  <2>2. Begin(ss) /\ progress' = progress /\ completed' = completed
    BY <1>7 DEF BeginShared
  <2>. QED
    BY <1>0, <2>1, <2>2, BeginSession
<1>8. CASE Resume
  <2>1. BeginShared(FromFile, "resumed")
    BY <1>8 DEF Resume, FromFile
  <2>2. forgotten' \in [Nodes -> Int]
    <3>1. \A n \in Nodes : completed[n] \in Nat /\ recorded[n] \in Int
      BY <1>0, CountsType DEF SessionType
    <3>2. \A n \in Nodes : completed[n] - recorded[n] + (IF TakenBack(n) THEN 1 ELSE 0) \in Int
      BY <3>1
    <3>. QED
      BY <1>8, <3>2 DEF Resume
  <2>. QED
    BY <2>1, <2>2, <1>7, StateOfFile
<1>9. CASE Restore
  <2>1. PICK i \in DOMAIN index : BeginShared(FromCheckpoint(i), "restored")
    BY <1>9 DEF Restore, FromCheckpoint
  <2>2. forgotten' \in [Nodes -> Int]
    BY <1>0, <1>9 DEF Restore, Counts
  <2>. QED
    BY <2>1, <2>2, <1>7, StateOfCheckpoint
<1>10. CASE UNCHANGED <<vars, sessionVars>>
  <2>1. Inv'
    BY <1>0, <1>10, StepInv
  <2>2. SessionType'
    BY <1>0, <1>10 DEF SessionType
  <2>3. ResultSays'
    BY <1>0, <1>10 DEF ResultSays, Says, vars, loopVars
  <2>. QED
    BY <2>1, <2>2, <2>3 DEF SessionInv
<1>. QED
  BY <1>1, <1>2, <1>3, <1>4, <1>5, <1>6, <1>8, <1>9, <1>10 DEF SessionNext

\* In every run of a session the variables have their types, and the limits of
\* visits are kept, whatever session state the run was given.
THEOREM SessionCorrect == SessionSpec => [](TypeOK /\ VisitsWithinLimit)
<1>1. SessionInv => TypeOK /\ VisitsWithinLimit
  BY DEF SessionInv, Inv
<1>. QED
  BY <1>1, InitSession, StepSession, PTL DEF SessionSpec

-----------------------------------------------------------------------------
(***************************************************************************)
(* Where a resumed run starts.                                             *)
(***************************************************************************)

\* state.json says where its owner stopped short; only its owner writes that.
FileSays == stoppedAt = ResumePoint

\* How the parts of state.json that only its owner writes change.
LEMMA StepFile ==
  ASSUME SessionInv, FileSays, [SessionNext]_<<vars, sessionVars>>
  PROVE  FileSays'
<1>. USE DEF sessionVars, fileVars, streamVars, lastVars
<1>1. CASE UNCHANGED <<fileVars, stoppedAt>>
  BY <1>1 DEF FileSays, ResumePoint
<1>2. CASE Finish /\ ~shared
  <2>1. /\ pausedAt' = out.pausedAt /\ resumeFrom' = out.resumeFrom
        /\ stoppedAt' = IF Stopped THEN current ELSE NoNode
    BY <1>2 DEF Finish, WriteFinalState
  <2>2. out \in Result /\ Says(out.kind, out.pausedAt, out.resumeFrom) /\ pc = "ended"
    BY <1>2 DEF SessionInv, ResultSays, Finish
  <2>3. out.kind \in Kinds /\ current \in Nodes /\ NoNode \notin Nodes
    BY <2>2, GraphAssumption DEF Result, SessionInv, Inv, TypeOK
  <2>. QED
    BY <2>1, <2>2, <2>3 DEF FileSays, ResumePoint, Says, Stopped, Kinds
<1>3. CASE FinishCancelled
  BY <1>3 DEF FinishCancelled, FileSays, ResumePoint
<1>4. StartSession \/ RunStep \/ Resurrect \/ Crash \/ Resume \/ Restore \/ (Finish /\ shared)
        => UNCHANGED <<fileVars, stoppedAt>>
  BY DEF StartSession, RunStep, Resurrect, Crash, Resume, Restore, BeginShared, Finish
<1>5. shared \in BOOLEAN
  BY DEF SessionInv, SessionType
<1>. QED
  BY <1>1, <1>2, <1>3, <1>4, <1>5 DEF SessionNext

\* A run that has got anywhere has worked, or is at its first step.
Underway ==
  pc \in Awaits \ {"closing"} \/ (pc = "top" /\ isRetry)
    => work >= 1 \/ (pc \in {"pausing", "skipping"} /\ steps >= 1)

\* No step of a run leads to its beginning but one beside it.
LEMMA RunStepUnderway ==
  ASSUME MaxWork > 0, Inv, Underway, LoopStep \/ EnvironmentStep
  PROVE  /\ Underway'
         /\ Beginning' => Beginning /\ UNCHANGED <<current, visits, completed, isRetry>>
<1>0. /\ work \in 0..MaxWork /\ MaxWork \in Nat /\ steps \in 0..MaxSteps /\ MaxSteps \in Nat
      /\ isRetry \in BOOLEAN
      /\ (isRetry => pc \in {"top", "pausing", "closing", "ended"})
  BY SimpleConstants DEF Inv, TypeOK, RetryAtHead
<1>. USE DEF Underway, Beginning, Awaits
<1>1. CASE StepsExhausted \/ Closed \/ Raises \/ Cancel \/ PauseSaved \/ NoEdge
  BY <1>1 DEF StepsExhausted, Closed, Raises, Cancel, PauseSaved, NoEdge, Close, End
<1>2. CASE PauseSeen
  BY <1>0, <1>2 DEF PauseSeen
<1>3. CASE EnterNode
  <2>1. pc' \in {"node", "skipping"} /\ steps' = steps + 1
        /\ (pc' = "node" => work' = IF work < MaxWork THEN work + 1 ELSE work)
    BY <1>3 DEF EnterNode
  <2>. QED
    BY <1>0, <2>1
<1>4. CASE SkipOver
  <2>1. /\ pc = "skipping" /\ pc' \in {"closing", "top"}
        /\ UNCHANGED <<steps, isRetry, work>>
    BY <1>4 DEF SkipOver, Close, histVars
  <2>. QED
    BY <1>0, <2>1
<1>5. CASE NodeSucceeds \/ NodeFails \/ BackoffOver
  <2>1. /\ pc \in {"node", "backoff"} /\ UNCHANGED work
    BY <1>5 DEF NodeSucceeds, NodeFails, BackoffOver, histVars
  <2>. QED
    BY <1>0, <2>1
<1>6. CASE \/ RouteFailure \/ RouteExplicitly \/ FollowEdge \/ FanOut \/ BranchesJoined \/ HandedOver
           \/ \E n \in Nodes, success \in BOOLEAN : BranchAttempt(n, success)
           \/ \E n \in Nodes : BranchRaises(n)
  <2>1. /\ pc \in {"failing", "routing", "branches", "handover"}
        /\ UNCHANGED work
    BY <1>6 DEF RouteFailure, RouteExplicitly, FollowEdge, FanOut, BranchesJoined, HandedOver,
                BranchAttempt, BranchRaises, histVars
  <2>. QED
    BY <1>0, <2>1
<1>7. CASE RequestPause \/ CheckpointSaved \/ CheckpointLost
  <2>1. UNCHANGED <<pc, loopVars, histVars>>
    BY <1>7 DEF RequestPause, CheckpointSaved, CheckpointLost
  <2>. QED
    BY <2>1 DEF loopVars, histVars
<1>. QED
  BY <1>1, <1>2, <1>3, <1>4, <1>5, <1>6, <1>7 DEF LoopStep, EnvironmentStep

LEMMA StepResumed ==
  ASSUME MaxWork > 0, SessionInv, FileSays, Underway, ResumedWhereStopped,
         [SessionNext]_<<vars, sessionVars>>
  PROVE  Underway' /\ ResumedWhereStopped'
<1>. USE DEF sessionVars, fileVars, streamVars, lastVars
<1>1. ASSUME NEW ss, Begin(ss)
      PROVE  Underway'
  BY <1>1 DEF Begin, Underway, Awaits
<1>2. CASE StartSession \/ Resurrect \/ Restore
  <2>1. \E ss : Begin(ss)
    BY <1>2 DEF StartSession, Execute, Resurrect, Restore, BeginShared
  <2>2. origin' # "resumed"
    BY <1>2 DEF StartSession, Resurrect, Restore, BeginShared
  <2>. QED
    BY <1>1, <2>1, <2>2 DEF ResumedWhereStopped
<1>3. CASE RunStep
  <2>1. /\ Underway' /\ UNCHANGED <<origin, stoppedAt>>
        /\ Beginning' => Beginning /\ UNCHANGED current
    BY <1>3, RunStepUnderway DEF RunStep, SessionInv
  <2>. QED
    BY <2>1 DEF ResumedWhereStopped
<1>4. CASE Finish \/ FinishCancelled \/ Crash
  <2>1. pc' = "idle"
    BY <1>4 DEF Finish, FinishCancelled, Crash, Forget
  <2>. QED
    BY <2>1 DEF Underway, Awaits, ResumedWhereStopped, Beginning
<1>5. CASE Resume
  <2>1. Begin(FromFile) /\ stoppedAt' = stoppedAt
    BY <1>5 DEF Resume, FromFile, BeginShared
  <2>2. current' = IF stoppedAt # NoNode THEN stoppedAt ELSE EntryNode
    BY <2>1 DEF Begin, StartNode, FromFile, FileSays
  <2>. QED
    BY <1>1, <2>1, <2>2 DEF ResumedWhereStopped
<1>6. CASE UNCHANGED <<vars, sessionVars>>
  BY <1>6 DEF vars, loopVars, histVars, Underway, ResumedWhereStopped, Beginning
<1>. QED
  BY <1>2, <1>3, <1>4, <1>5, <1>6 DEF SessionNext

LEMMA InitResumed == SessionInit => FileSays /\ Underway /\ ResumedWhereStopped
BY DEF SessionInit, Init, FileSays, ResumePoint, Underway, Awaits, ResumedWhereStopped, Beginning

\* A resumed run continues at the node at which the owner of state.json stopped, or
\* begins anew: for every graph, however many runs the session has had, wherever
\* they were paused, cancelled, failed or killed.
THEOREM ResumesWhereStopped ==
  ASSUME MaxWork > 0 PROVE SessionSpec => []ResumedWhereStopped
<1>. QED
  BY InitSession, InitResumed, StepSession, StepFile, StepResumed, PTL DEF SessionSpec

-----------------------------------------------------------------------------
(***************************************************************************)
(* What the counts of a session are worth.  The counts of a run are those  *)
(* of the visits that are over, as far as it was told of them, and of the  *)
(* one it is in.  That is so after every resumption because the resume     *)
(* point is the node of the open visit, if one is open.                    *)
(***************************************************************************)

\* k visits of a node are over, and due ones are open; or its limit is used up, and
\* skipped visits may be counted besides.
Counted(n, count, k, due) ==
  \/ count = k + due
  \/ 0 < MaxVisits[n] /\ k = MaxVisits[n] /\ count >= k + due

Due(n) == IF inVisit /\ n = current THEN 1 ELSE 0

VisitsCounted == pc # "idle" => \A n \in Nodes : Counted(n, visits[n], Known(n), Due(n))

\* The visit a run is in was allowed, unless it is being skipped or was cancelled,
\* perhaps while it was being skipped.
Allowed == inVisit /\ pc # "skipping" /\ ~(pc = "ended" /\ out.kind = "cancelled")

VisitAllowed == Allowed /\ 0 < MaxVisits[current] => Known(current) < MaxVisits[current]

SkippedOver ==
  pc = "skipping" => 0 < MaxVisits[current] /\ Known(current) = MaxVisits[current]

KnownWithinLimit ==
  \A n \in Nodes : 0 <= Known(n) /\ (0 < MaxVisits[n] => Known(n) <= MaxVisits[n])

\* Where a run is in a visit.
VisitPlaces ==
  /\ pc \in {"idle", "routing", "branches", "handover"} => ~inVisit
  /\ pc \in {"node", "backoff", "failing", "skipping"} => inVisit
  /\ pc \in {"top", "pausing"} => inVisit = isRetry
  /\ pc \in {"closing", "ended"} /\ out.kind \in {"completed", "exhausted", "hitl"} => ~inVisit
  /\ pc = "backoff" \/ (pc = "top" /\ isRetry) => steps < MaxSteps

\* What state.json counts.
FileDue(n) == IF n = openAt THEN 1 ELSE 0

FileCounted ==
  /\ \A n \in Nodes : Counted(n, progress[n], recorded[n], FileDue(n))
  /\ \A n \in Nodes : 0 <= recorded[n] /\ (0 < MaxVisits[n] => recorded[n] <= MaxVisits[n])
  /\ openAt # NoNode => openAt = ResumePoint

\* Before the first run there has been no visit.
Unstarted == runs = 0 => pc = "idle" /\ completed = None /\ forgotten = None

CountInv ==
  /\ VisitPlaces /\ Unstarted
  /\ VisitsCounted /\ VisitAllowed /\ SkippedOver /\ KnownWithinLimit
  /\ FileCounted

\* The kinds of steps of a run, as far as visits are concerned.
Stays ==
  /\ UNCHANGED <<visits, completed, inVisit>>
  /\ inVisit => current' = current
  /\ Allowed' => Allowed
  /\ pc' = "skipping" => pc = "skipping"

Finishes ==
  /\ Allowed /\ ~inVisit' /\ pc' # "skipping" /\ visits' = visits
  /\ completed' = [completed EXCEPT ![current] = completed[current] + 1]

Skips == pc = "skipping" /\ ~inVisit' /\ pc' # "skipping" /\ UNCHANGED <<visits, completed>>

Enters ==
  /\ ~inVisit /\ inVisit' /\ UNCHANGED <<current, completed>>
  /\ visits' = [visits EXCEPT ![current] = visits[current] + 1]
  /\ pc' = IF WithinLimit(current, visits[current] + 1) THEN "node" ELSE "skipping"

\* A retry enters the node again, and is no new visit.
Reenters ==
  /\ Allowed /\ inVisit' /\ UNCHANGED <<current, completed, visits>>
  /\ pc' = IF WithinLimit(current, visits[current]) THEN "node" ELSE "skipping"

RunKinds == Stays \/ Finishes \/ Skips \/ Enters \/ Reenters

\* A step that neither counts a visit nor ends one.
LEMMA StayStep ==
  ASSUME inVisit \in BOOLEAN, inVisit' = ((inVisit \/ visits' # visits) /\ ~Leaves),
         UNCHANGED <<visits, completed>>, pc # "skipping" \/ pc' \notin {"top", "closing"}
  PROVE  inVisit' = inVisit
BY DEF Leaves

LEMMA FinishStep ==
  ASSUME inVisit' = ((inVisit \/ visits' # visits) /\ ~Leaves),
         completed \in Counts, current \in Nodes,
         completed' = [completed EXCEPT ![current] = completed[current] + 1]
  PROVE  inVisit' = FALSE
<1>1. completed'[current] = completed[current] + 1 /\ completed[current] \in Nat
  BY DEF Counts
<1>2. completed' # completed
  BY <1>1
<1>. QED
  BY <1>2 DEF Leaves

LEMMA StepKinds ==
  ASSUME Inv, inVisit \in BOOLEAN, VisitPlaces, RunStep
  PROVE  VisitPlaces' /\ RunKinds
<1>0. /\ isRetry \in BOOLEAN /\ steps \in 0..MaxSteps /\ MaxSteps \in Nat
      /\ (isRetry => pc \in {"top", "pausing", "closing", "ended"})
      /\ current \in Nodes /\ visits \in Counts /\ completed \in Counts /\ inVisit \in BOOLEAN
      /\ inVisit' = ((inVisit \/ visits' # visits) /\ ~Leaves)
      /\ LoopStep \/ EnvironmentStep
  BY SimpleConstants DEF Inv, TypeOK, RetryAtHead, RunStep
<1>1. CASE StepsExhausted \/ NoEdge
  <2>1. /\ pc = "routing" \/ (pc = "top" /\ ~(steps < MaxSteps))
        /\ pc' = "closing" /\ UNCHANGED <<current, visits, completed, isRetry>>
    BY <1>1 DEF StepsExhausted, StepsLeft, NoEdge, Close, loopVars, histVars
  <2>2. inVisit' = inVisit
    BY <1>0, <2>1, StayStep
  <2>3. ~inVisit
    BY <1>0, <2>1 DEF VisitPlaces
  <2>. QED
    BY <2>1, <2>2, <2>3 DEF VisitPlaces, RunKinds, Stays, Allowed
<1>2. CASE PauseSeen \/ PauseSaved \/ HandedOver \/ RequestPause
  <2>1. /\ UNCHANGED <<current, visits, completed, isRetry>>
        /\ \/ pc = "top" /\ pc' = "pausing"
           \/ pc = "pausing" /\ pc' = "ended" /\ out'.kind = "paused"
           \/ pc = "handover" /\ pc' = "top"
           \/ pc' = pc /\ UNCHANGED <<steps, out>>
    BY <1>2 DEF PauseSeen, PauseSaved, HandedOver, RequestPause, End, ResultOf, loopVars, histVars
  <2>2. inVisit' = inVisit
    BY <1>0, <2>1, StayStep
  <2>. QED
    BY <1>0, <2>1, <2>2 DEF VisitPlaces, RunKinds, Stays, Allowed
<1>3. CASE EnterNode
  <2>1. /\ pc = "top" /\ UNCHANGED <<current, completed>> /\ isRetry' = FALSE
        /\ visits' = [visits EXCEPT ![current] = IF isRetry THEN visits[current] ELSE visits[current] + 1]
        /\ pc' = IF WithinLimit(current, IF isRetry THEN visits[current] ELSE visits[current] + 1)
                 THEN "node" ELSE "skipping"
    BY <1>3 DEF EnterNode, RetryFlagCleared
  <2>2. CASE ~isRetry
    <3>1. visits' = [visits EXCEPT ![current] = visits[current] + 1]
      BY <2>1, <2>2
    <3>2. visits'[current] = visits[current] + 1 /\ visits[current] \in Nat
      BY <1>0, <3>1 DEF Counts
    <3>3. visits' # visits
      BY <3>2
    <3>4. inVisit' /\ ~inVisit
      BY <1>0, <2>1, <2>2, <3>3 DEF Leaves, VisitPlaces
    <3>5. VisitPlaces'
      BY <2>1, <3>4 DEF VisitPlaces
    <3>6. Enters
      BY <2>1, <2>2, <3>1, <3>4 DEF Enters
    <3>. QED
      BY <3>5, <3>6 DEF RunKinds
  <2>3. CASE isRetry
    <3>1. visits' = visits
      BY <1>0, <2>1, <2>3 DEF Counts
    <3>2. inVisit /\ inVisit' = inVisit
      BY <1>0, <2>1, <2>3, <3>1, StayStep DEF VisitPlaces
    <3>3. VisitPlaces'
      BY <2>1, <3>2 DEF VisitPlaces
    <3>4. Reenters
      BY <2>1, <2>3, <3>1, <3>2 DEF Reenters, Allowed
    <3>. QED
      BY <3>3, <3>4 DEF RunKinds
  <2>. QED
    BY <1>0, <2>2, <2>3
<1>4. CASE SkipOver
  <2>1. /\ pc = "skipping" /\ UNCHANGED <<visits, completed, isRetry>>
        /\ \/ pc' = "top"
           \/ pc' = "closing" /\ out'.kind = "completed"
    BY <1>4 DEF SkipOver, Close, ResultOf, histVars
  <2>2. ~inVisit'
    BY <1>0, <2>1 DEF Leaves
  <2>. QED
    BY <1>0, <2>1, <2>2 DEF VisitPlaces, RunKinds, Skips
<1>5. CASE NodeSucceeds
  <2>1. /\ pc = "node" /\ UNCHANGED <<visits, isRetry>>
        /\ completed' = [completed EXCEPT ![current] = completed[current] + 1]
        /\ pc' \in {"routing", "closing"}
    BY <1>5 DEF NodeSucceeds, Close, loopVars
  <2>2. inVisit /\ ~inVisit'
    BY <1>0, <2>1, FinishStep DEF VisitPlaces
  <2>. QED
    BY <1>0, <2>1, <2>2 DEF VisitPlaces, RunKinds, Finishes, Allowed
<1>6. CASE NodeFails
  <2>1. /\ pc = "node" /\ UNCHANGED <<current, visits, isRetry, completed>>
        /\ \/ pc' = "backoff" /\ steps' = steps - 1
           \/ pc' = "failing"
    BY <1>6 DEF NodeFails, histVars
  <2>2. inVisit /\ inVisit' = inVisit
    BY <1>0, <2>1, StayStep DEF VisitPlaces
  <2>3. pc' = "backoff" => steps' < MaxSteps
    BY <1>0, <2>1
  <2>. QED
    BY <2>1, <2>2, <2>3 DEF VisitPlaces, RunKinds, Stays, Allowed
<1>7. CASE BackoffOver
  <2>1. /\ pc = "backoff" /\ pc' = "top" /\ isRetry' = TRUE
        /\ UNCHANGED <<current, steps, visits, completed>>
    BY <1>7 DEF BackoffOver
  <2>2. inVisit /\ inVisit' = inVisit
    BY <1>0, <2>1, StayStep DEF VisitPlaces
  <2>. QED
    BY <1>0, <2>1, <2>2 DEF VisitPlaces, RunKinds, Stays, Allowed
<1>8. CASE RouteFailure
  <2>1. /\ pc = "failing" /\ UNCHANGED <<visits, isRetry>>
        /\ \/ pc' = "closing" /\ out'.kind = "failed" /\ UNCHANGED <<current, completed>>
           \/ pc' = "top" /\ completed' = [completed EXCEPT ![current] = completed[current] + 1]
    BY <1>8 DEF RouteFailure, Close, ResultOf
  <2>2. inVisit
    BY <2>1 DEF VisitPlaces
  <2>3. CASE pc' = "closing"
    <3>1. /\ out'.kind = "failed" /\ UNCHANGED <<current, completed>> /\ inVisit' = inVisit
      BY <1>0, <2>1, <2>3, StayStep
    <3>. QED
      BY <1>0, <2>1, <2>2, <2>3, <3>1 DEF VisitPlaces, RunKinds, Stays, Allowed
  <2>4. CASE pc' = "top"
    <3>1. ~inVisit' /\ completed' = [completed EXCEPT ![current] = completed[current] + 1]
      BY <1>0, <2>1, <2>4, FinishStep
    <3>. QED
      BY <1>0, <2>1, <2>2, <2>4, <3>1 DEF VisitPlaces, RunKinds, Finishes, Allowed
  <2>. QED
    BY <2>1, <2>3, <2>4
<1>9. CASE \/ RouteExplicitly \/ FollowEdge \/ FanOut \/ BranchesJoined
           \/ \E n \in Nodes, success \in BOOLEAN : BranchAttempt(n, success)
           \/ \E n \in Nodes : BranchRaises(n)
  <2>1. /\ pc \in {"routing", "branches"} /\ UNCHANGED <<visits, completed, isRetry>>
        /\ pc' \in {"top", "handover", "branches", "closing", "ended"}
    <3>1. CASE RouteExplicitly \/ FanOut
      BY <3>1 DEF RouteExplicitly, FanOut, GoOn, loopVars, histVars
    <3>2. CASE FollowEdge
      BY <3>2 DEF FollowEdge, Close, GoOn, histVars
    <3>3. CASE BranchesJoined
      BY <3>3 DEF BranchesJoined, Close, End, GoOn, histVars
    <3>4. CASE \/ \E n \in Nodes, success \in BOOLEAN : BranchAttempt(n, success)
               \/ \E n \in Nodes : BranchRaises(n)
      BY <3>4 DEF BranchAttempt, BranchRaises, loopVars, histVars
    <3>. QED
      BY <1>9, <3>1, <3>2, <3>3, <3>4
  <2>2. inVisit = FALSE /\ isRetry = FALSE /\ inVisit' = inVisit
    BY <1>0, <2>1, StayStep DEF VisitPlaces
  <2>. QED
    BY <2>1, <2>2 DEF VisitPlaces, RunKinds, Stays, Allowed
<1>10. CASE Closed
  <2>1. /\ pc = "closing" /\ pc' = "ended"
        /\ UNCHANGED <<current, visits, completed, isRetry, out>>
    BY <1>10 DEF Closed, loopVars, histVars
  <2>2. inVisit' = inVisit
    BY <1>0, <2>1, StayStep
  <2>. QED
    BY <2>1, <2>2 DEF VisitPlaces, RunKinds, Stays, Allowed
<1>11. CASE Raises
  <2>1. /\ pc \in {"node", "pausing", "handover"} /\ pc' = "ended" /\ out'.kind = "error"
        /\ UNCHANGED <<current, visits, completed, isRetry>>
    <3>1. PICK id \in LatestClean : End("error", NoNode, current, id)
      BY <1>11 DEF Raises
    <3>. QED
      BY <1>11, <3>1 DEF Raises, End, ResultOf, loopVars, histVars
  <2>2. inVisit' = inVisit
    BY <1>0, <2>1, StayStep
  <2>. QED
    BY <2>1, <2>2 DEF VisitPlaces, RunKinds, Stays, Allowed
<1>12. CASE Cancel
  <2>1. /\ pc' = "ended" /\ out'.kind = "cancelled"
        /\ UNCHANGED <<current, visits, completed, isRetry>>
    BY <1>12 DEF Cancel, End, ResultOf, loopVars, histVars
  <2>2. inVisit' = inVisit
    BY <1>0, <2>1, StayStep
  <2>. QED
    BY <2>1, <2>2 DEF VisitPlaces, RunKinds, Stays, Allowed
<1>13. CASE CheckpointSaved \/ CheckpointLost
  <2>1. UNCHANGED <<pc, current, steps, visits, completed, isRetry, out>>
    BY <1>13 DEF CheckpointSaved, CheckpointLost, loopVars, histVars
  <2>2. inVisit' = inVisit
    BY <1>0, <2>1, StayStep
  <2>. QED
    BY <2>1, <2>2 DEF VisitPlaces, RunKinds, Stays, Allowed
<1>. QED
  BY <1>0, <1>1, <1>2, <1>3, <1>4, <1>5, <1>6, <1>7, <1>8, <1>9, <1>10, <1>11, <1>12, <1>13
     DEF LoopStep, EnvironmentStep

\* A run writes the counts it has, and only when it leaves routing or a fan-out; when
\* none is under way, only checkpoints are.
LEMMA ProgressStep ==
  ASSUME LoopStep \/ EnvironmentStep
  PROVE  /\ progress' = IF ProgressWritten THEN visits ELSE progress
         /\ pc' = "idle" <=> pc = "idle"
         /\ pc = "idle" => completed' = completed
<1>. USE DEF ProgressWritten, storeVars
<1>1. CASE RouteExplicitly \/ FollowEdge \/ BranchesJoined
  <2>1. CASE RouteExplicitly
    BY <2>1 DEF RouteExplicitly, GoOn, WriteProgress
  <2>2. CASE FollowEdge
    BY <2>2 DEF FollowEdge, Close, GoOn, WriteProgress
  <2>3. CASE BranchesJoined
    BY <2>3 DEF BranchesJoined, Close, End, GoOn, WriteProgress
  <2>. QED
    BY <1>1, <2>1, <2>2, <2>3
<1>2. CASE \/ StepsExhausted \/ PauseSeen \/ PauseSaved \/ EnterNode \/ SkipOver
           \/ NodeSucceeds \/ NodeFails \/ BackoffOver \/ RouteFailure
  BY <1>2 DEF StepsExhausted, PauseSeen, PauseSaved, EnterNode, SkipOver, NodeSucceeds, NodeFails,
              BackoffOver, RouteFailure, Close, End
<1>3. CASE \/ NoEdge \/ FanOut \/ HandedOver \/ Closed \/ Raises \/ Cancel
           \/ \E n \in Nodes, success \in BOOLEAN : BranchAttempt(n, success)
           \/ \E n \in Nodes : BranchRaises(n)
  BY <1>3 DEF NoEdge, FanOut, HandedOver, Closed, Raises, Cancel, BranchAttempt, BranchRaises,
              Close, End, Awaits
<1>4. CASE RequestPause \/ CheckpointSaved \/ CheckpointLost
  BY <1>4 DEF RequestPause, CheckpointSaved, CheckpointLost, histVars
<1>. QED
  BY <1>1, <1>2, <1>3, <1>4 DEF LoopStep, EnvironmentStep

\* The types of the counts.
LEMMA CountTypes ==
  ASSUME SessionInv
  PROVE  /\ \A n \in Nodes : /\ visits[n] \in Nat /\ completed[n] \in Nat /\ progress[n] \in Nat
                             /\ MaxVisits[n] \in Nat /\ forgotten[n] \in Int /\ recorded[n] \in Int
                             /\ Known(n) \in Int
         /\ visits \in Counts /\ completed \in Counts /\ progress \in Counts
         /\ current \in Nodes /\ NoNode \notin Nodes /\ inVisit \in BOOLEAN
<1>1. \A n \in Nodes : visits[n] \in Nat /\ completed[n] \in Nat /\ progress[n] \in Nat
  BY CountsType DEF SessionInv, Inv, TypeOK
<1>2. \A n \in Nodes : MaxVisits[n] \in Nat /\ forgotten[n] \in Int /\ recorded[n] \in Int
  BY GraphAssumption DEF SessionInv, SessionType
<1>3. \A n \in Nodes : Known(n) \in Int
  BY <1>1, <1>2 DEF Known
<1>. QED
  BY <1>1, <1>2, <1>3, GraphAssumption DEF SessionInv, SessionType, Inv, TypeOK

\* The counts after a step of a run, from its kind.
LEMMA KindsCount ==
  ASSUME SessionInv, VisitPlaces, VisitsCounted, VisitAllowed, SkippedOver, KnownWithinLimit,
         RunKinds, forgotten' = forgotten, pc # "idle"
  PROVE  VisitsCounted' /\ VisitAllowed' /\ SkippedOver' /\ KnownWithinLimit'
<1>0. /\ \A n \in Nodes : /\ visits[n] \in Nat /\ completed[n] \in Nat /\ MaxVisits[n] \in Nat
                          /\ Known(n) \in Int /\ forgotten[n] \in Int
      /\ current \in Nodes /\ visits \in Counts /\ completed \in Counts /\ inVisit \in BOOLEAN
  BY CountTypes
<1>1. \A n \in Nodes : Counted(n, visits[n], Known(n), Due(n))
  BY DEF VisitsCounted
<1>2. CASE Stays
  <2>1. /\ UNCHANGED <<visits, completed, inVisit>> /\ (inVisit => current' = current)
        /\ (Allowed' => Allowed) /\ (pc' = "skipping" => pc = "skipping")
    BY <1>2 DEF Stays
  <2>2. \A n \in Nodes : Known(n)' = Known(n) /\ Due(n)' = Due(n)
    BY <2>1 DEF Known, Due
  <2>3. Allowed => inVisit
    BY DEF Allowed
  <2>4. VisitsCounted'
    BY <1>1, <2>1, <2>2 DEF VisitsCounted, Counted
  <2>5. KnownWithinLimit'
    BY <2>2 DEF KnownWithinLimit
  <2>6. VisitAllowed'
    BY <1>0, <2>1, <2>2, <2>3 DEF VisitAllowed
  <2>7. SkippedOver'
    <3>1. CASE inVisit
      BY <1>0, <2>1, <2>2, <3>1 DEF SkippedOver
    <3>2. CASE ~inVisit
      BY <1>0, <2>1, <3>2 DEF VisitPlaces, SkippedOver
    <3>. QED
      BY <3>1, <3>2
  <2>. QED
    BY <2>4, <2>5, <2>6, <2>7
<1>3. CASE Finishes
  <2>1. /\ Allowed /\ ~inVisit' /\ pc' # "skipping" /\ UNCHANGED <<visits, forgotten>>
        /\ completed' = [completed EXCEPT ![current] = completed[current] + 1]
    BY <1>3 DEF Finishes
  <2>2. /\ inVisit
        /\ \A n \in Nodes : Known(n)' = IF n = current THEN Known(n) + 1 ELSE Known(n)
        /\ \A n \in Nodes : Due(n)' = 0
        /\ \A n \in Nodes : Due(n) = IF n = current THEN 1 ELSE 0
    <3>1. inVisit
      BY <2>1 DEF Allowed
    <3>2. \A n \in Nodes : completed'[n] = IF n = current THEN completed[n] + 1 ELSE completed[n]
      BY <1>0, <2>1 DEF Counts
    <3>. QED
      BY <1>0, <2>1, <3>1, <3>2 DEF Known, Due
  <2>3. 0 < MaxVisits[current] => Known(current) < MaxVisits[current]
    BY <2>1 DEF VisitAllowed
  <2>4. ASSUME NEW n \in Nodes
        PROVE  Counted(n, visits[n], Known(n), Due(n))'
    <3>1. Counted(n, visits[n], Known(n), Due(n))
      BY <1>1
    <3>2. CASE n = current
      BY <1>0, <2>1, <2>2, <2>3, <3>1, <3>2 DEF Counted
    <3>3. CASE n # current
      BY <1>0, <2>1, <2>2, <3>1, <3>3 DEF Counted
    <3>. QED
      BY <3>2, <3>3
  <2>5. ASSUME NEW n \in Nodes
        PROVE  0 <= Known(n)' /\ (0 < MaxVisits[n] => Known(n)' <= MaxVisits[n])
    <3>1. 0 <= Known(n) /\ (0 < MaxVisits[n] => Known(n) <= MaxVisits[n])
      BY DEF KnownWithinLimit
    <3>. QED
      BY <1>0, <2>2, <2>3, <3>1
  <2>. QED
    BY <2>1, <2>4, <2>5 DEF VisitsCounted, VisitAllowed, SkippedOver, KnownWithinLimit, Allowed
<1>4. CASE Skips
  <2>1. pc = "skipping" /\ ~inVisit' /\ pc' # "skipping" /\ UNCHANGED <<visits, completed, forgotten>>
    BY <1>4 DEF Skips
  <2>2. \A n \in Nodes : Known(n)' = Known(n) /\ Due(n)' = 0
    BY <2>1 DEF Known, Due
  <2>3. 0 < MaxVisits[current] /\ Known(current) = MaxVisits[current]
    BY <2>1 DEF SkippedOver
  <2>4. ASSUME NEW n \in Nodes
        PROVE  Counted(n, visits[n], Known(n), Due(n))'
    <3>1. Counted(n, visits[n], Known(n), Due(n))
      BY <1>1
    <3>2. CASE n = current
      BY <1>0, <2>1, <2>2, <2>3, <3>1, <3>2 DEF Counted, Due
    <3>3. CASE n # current
      BY <1>0, <2>1, <2>2, <3>1, <3>3 DEF Counted, Due
    <3>. QED
      BY <3>2, <3>3
  <2>5. KnownWithinLimit'
    BY <2>2 DEF KnownWithinLimit
  <2>. QED
    BY <2>1, <2>4, <2>5 DEF VisitsCounted, VisitAllowed, SkippedOver, Allowed
<1>5. CASE Enters
  <2>1. /\ ~inVisit /\ inVisit' /\ UNCHANGED <<current, completed, forgotten>>
        /\ visits' = [visits EXCEPT ![current] = visits[current] + 1]
        /\ pc' = IF WithinLimit(current, visits[current] + 1) THEN "node" ELSE "skipping"
    BY <1>5 DEF Enters
  <2>2. \A n \in Nodes : visits'[n] = IF n = current THEN visits[n] + 1 ELSE visits[n]
    BY <1>0, <2>1 DEF Counts
  <2>3. \A n \in Nodes : /\ Known(n)' = Known(n)
                         /\ Due(n) = 0
                         /\ Due(n)' = IF n = current THEN 1 ELSE 0
    BY <2>1 DEF Known, Due
  <2>4. ASSUME NEW n \in Nodes
        PROVE  Counted(n, visits[n], Known(n), Due(n))'
    <3>1. Counted(n, visits[n], Known(n), 0)
      BY <1>1, <2>3
    <3>2. CASE n = current
      BY <1>0, <2>2, <2>3, <3>1, <3>2 DEF Counted
    <3>3. CASE n # current
      BY <1>0, <2>2, <2>3, <3>1, <3>3 DEF Counted
    <3>. QED
      BY <3>2, <3>3
  <2>5. KnownWithinLimit'
    BY <2>3 DEF KnownWithinLimit
  <2>6. Counted(current, visits[current], Known(current), 0)
    BY <1>0, <1>1, <2>3
  <2>7. 0 < MaxVisits[current] => Known(current) <= MaxVisits[current]
    BY <1>0 DEF KnownWithinLimit
  <2>8. /\ Known(current)' = Known(current) /\ current' = current
        /\ visits[current] \in Nat /\ MaxVisits[current] \in Nat /\ Known(current) \in Int
    BY <1>0, <2>1, <2>3
  <2>9. VisitAllowed'
    <3>1. CASE WithinLimit(current, visits[current] + 1)
      BY <2>6, <2>8, <3>1 DEF VisitAllowed, WithinLimit, Counted
    <3>2. CASE ~WithinLimit(current, visits[current] + 1)
      BY <2>1, <3>2 DEF VisitAllowed, Allowed
    <3>. QED
      BY <3>1, <3>2
  <2>10. SkippedOver'
    BY <2>1, <2>6, <2>7, <2>8 DEF SkippedOver, WithinLimit, Counted
  <2>. QED
    BY <2>4, <2>5, <2>9, <2>10 DEF VisitsCounted
<1>6. CASE Reenters
  <2>1. /\ Allowed /\ inVisit' /\ UNCHANGED <<current, completed, visits, forgotten>>
        /\ pc' = IF WithinLimit(current, visits[current]) THEN "node" ELSE "skipping"
    BY <1>6 DEF Reenters
  <2>2. \A n \in Nodes : Known(n)' = Known(n) /\ Due(n)' = Due(n)
    BY <2>1 DEF Known, Due, Allowed
  <2>3. /\ 0 < MaxVisits[current] => Known(current) < MaxVisits[current]
        /\ Counted(current, visits[current], Known(current), 1)
    <3>1. Due(current) = 1
      BY <2>1 DEF Allowed, Due
    <3>2. Counted(current, visits[current], Known(current), Due(current))
      BY <1>0, <1>1
    <3>. QED
      BY <2>1, <3>1, <3>2 DEF VisitAllowed
  <2>4. visits[current] \in Nat /\ MaxVisits[current] \in Nat /\ Known(current) \in Int
    BY <1>0
  <2>5. WithinLimit(current, visits[current])
    <3>1. 0 < MaxVisits[current] => visits[current] = Known(current) + 1
      BY <2>3, <2>4 DEF Counted
    <3>2. 0 < MaxVisits[current] => visits[current] <= MaxVisits[current]
      BY <2>3, <2>4, <3>1
    <3>. QED
      BY <2>4, <3>2 DEF WithinLimit
  <2>6. VisitsCounted'
    BY <1>1, <2>1, <2>2 DEF VisitsCounted, Counted
  <2>7. KnownWithinLimit'
    BY <2>2 DEF KnownWithinLimit
  <2>8. VisitAllowed'
    <3>1. Known(current)' = Known(current)
      BY <1>0, <2>1, <2>2
    <3>. QED
      BY <2>1, <2>3, <3>1 DEF VisitAllowed
  <2>. QED
    BY <2>1, <2>5, <2>6, <2>7, <2>8 DEF SkippedOver
<1>. QED
  BY <1>2, <1>3, <1>4, <1>5, <1>6 DEF RunKinds

LEMMA BeginCounts ==
  ASSUME NEW ss, Begin(ss), inVisit' = FALSE, runs' # 0, KnownWithinLimit', FileCounted',
         \A n \in Nodes : Counted(n, visits[n], Known(n), 0)'
  PROVE  CountInv'
<1>1. pc' = "top" /\ isRetry' = FALSE
  BY DEF Begin
<1>2. VisitPlaces' /\ Unstarted'
  BY <1>1 DEF VisitPlaces, Unstarted
<1>3. VisitsCounted'
  BY <1>1 DEF VisitsCounted, Due
<1>4. VisitAllowed' /\ SkippedOver'
  BY <1>1 DEF VisitAllowed, Allowed, SkippedOver
<1>. QED
  BY <1>2, <1>3, <1>4 DEF CountInv

LEMMA EndCounts ==
  ASSUME CountInv, Forget, pc # "idle", forgotten' = forgotten, FileCounted'
  PROVE  CountInv'
<1>1. pc' = "idle" /\ inVisit' = FALSE /\ completed' = completed /\ runs' = runs
  BY DEF Forget
<1>2. \A n \in Nodes : Known(n)' = Known(n)
  BY <1>1 DEF Known
<1>3. KnownWithinLimit'
  BY <1>2 DEF CountInv, KnownWithinLimit
<1>4. VisitPlaces' /\ Unstarted'
  BY <1>1 DEF CountInv, VisitPlaces, Unstarted
<1>. QED
  BY <1>1, <1>3, <1>4 DEF CountInv, VisitsCounted, VisitAllowed, Allowed, SkippedOver

LEMMA RunStepCounts ==
  ASSUME SessionInv, CountInv, RunStep
  PROVE  CountInv'
<1>0. /\ LoopStep \/ EnvironmentStep
      /\ UNCHANGED <<pausedAt, resumeFrom, forgotten, runs>>
      /\ IF ProgressWritten
           THEN recorded' = [n \in Nodes |-> Known(n)] /\ openAt' = NoNode
           ELSE UNCHANGED <<recorded, openAt>>
  BY DEF RunStep, fileVars, streamVars
<1>1. VisitPlaces' /\ RunKinds
  BY StepKinds, CountTypes DEF CountInv, SessionInv
<1>2. /\ progress' = IF ProgressWritten THEN visits ELSE progress
      /\ pc' = "idle" <=> pc = "idle"
      /\ pc = "idle" => completed' = completed
  BY <1>0, ProgressStep
<1>3. Unstarted'
  BY <1>0, <1>2 DEF CountInv, Unstarted
<1>4. VisitsCounted' /\ VisitAllowed' /\ SkippedOver' /\ KnownWithinLimit'
  <2>1. CASE pc # "idle"
    BY <1>0, <1>1, <2>1, KindsCount DEF CountInv
  <2>2. CASE pc = "idle"
    <3>1. pc' = "idle" /\ completed' = completed /\ ~inVisit'
      BY <1>1, <1>2, <2>2 DEF VisitPlaces
    <3>2. \A n \in Nodes : Known(n)' = Known(n)
      BY <1>0, <3>1 DEF Known
    <3>3. KnownWithinLimit'
      BY <3>2 DEF CountInv, KnownWithinLimit
    <3>. QED
      BY <3>1, <3>3 DEF VisitsCounted, VisitAllowed, Allowed, SkippedOver
  <2>. QED
    BY <2>1, <2>2
<1>5. FileCounted'
  <2>1. CASE ProgressWritten
    <3>1. progress' = visits /\ recorded' = [n \in Nodes |-> Known(n)] /\ openAt' = NoNode
      BY <1>0, <1>2, <2>1
    <3>2. ~inVisit /\ pc # "idle"
      BY <2>1 DEF ProgressWritten, CountInv, VisitPlaces
    <3>3. \A n \in Nodes : Counted(n, visits[n], Known(n), 0)
      BY <3>2 DEF CountInv, VisitsCounted, Due
    <3>4. \A n \in Nodes : FileDue(n)' = 0
      BY <3>1, CountTypes DEF FileDue
    <3>5. \A n \in Nodes : Counted(n, progress[n], recorded[n], FileDue(n))'
      BY <3>1, <3>3, <3>4 DEF Counted
    <3>6. \A n \in Nodes : 0 <= recorded'[n] /\ (0 < MaxVisits[n] => recorded'[n] <= MaxVisits[n])
      BY <3>1 DEF CountInv, KnownWithinLimit
    <3>. QED
      BY <3>1, <3>5, <3>6 DEF FileCounted
  <2>2. CASE ~ProgressWritten
    <3>1. UNCHANGED <<progress, recorded, openAt, pausedAt, resumeFrom>>
      BY <1>0, <1>2, <2>2
    <3>. QED
      BY <3>1 DEF CountInv, FileCounted, Counted, FileDue, ResumePoint
  <2>. QED
    BY <2>1, <2>2
<1>. QED
  BY <1>1, <1>3, <1>4, <1>5 DEF CountInv

\* A failed visit is given up and stays counted: it is over from now on.
LEMMA ResurrectCounts ==
  ASSUME SessionInv, CountInv, Resurrect
  PROVE  CountInv'
<1>0. /\ \A n \in Nodes : /\ visits[n] \in Nat /\ completed[n] \in Nat /\ MaxVisits[n] \in Nat
                          /\ Known(n) \in Int /\ forgotten[n] \in Int
      /\ current \in Nodes /\ completed \in Counts /\ NoNode \notin Nodes /\ inVisit \in BOOLEAN
  BY CountTypes
<1>1. /\ pc = "ended" /\ out.kind \in {"failed", "error"} /\ Begin(FromResult) /\ inVisit' = FALSE
      /\ completed' = IF inVisit THEN [completed EXCEPT ![current] = completed[current] + 1]
                      ELSE completed
      /\ UNCHANGED <<progress, pausedAt, resumeFrom, runs, recorded, openAt, forgotten>>
  BY DEF Resurrect, FromResult, fileVars
<1>2. out.visits = visits
  BY <1>1 DEF SessionInv, ResultSays
<1>3. \A n \in Nodes : visits'[n] = visits[n]
  BY <1>0, <1>1, <1>2 DEF Begin, RestoredVisits, FromResult
<1>4. \A n \in Nodes : Known(n)' = Known(n) + Due(n)
  <2>1. \A n \in Nodes : completed'[n] = completed[n] + Due(n)
    BY <1>0, <1>1 DEF Counts, Due
  <2>. QED
    BY <1>0, <1>1, <2>1 DEF Known, Due
<1>5. \A n \in Nodes : Due(n) = 1 /\ 0 < MaxVisits[n] => Known(n) < MaxVisits[n]
  <2>1. inVisit => Allowed
    BY <1>1 DEF Allowed
  <2>. QED
    BY <2>1 DEF CountInv, VisitAllowed, Due
<1>6. \A n \in Nodes : Due(n) \in {0, 1}
  BY DEF Due
<1>7. ASSUME NEW n \in Nodes
      PROVE  Counted(n, visits[n], Known(n), 0)'
  <2>1. Counted(n, visits[n], Known(n), Due(n))
    BY <1>1 DEF CountInv, VisitsCounted
  <2>2. Due(n) \in {0, 1} /\ (Due(n) = 1 /\ 0 < MaxVisits[n] => Known(n) < MaxVisits[n])
    BY <1>5, <1>6
  <2>. QED
    BY <1>0, <1>3, <1>4, <2>1, <2>2 DEF Counted
<1>8. KnownWithinLimit'
  <2>1. ASSUME NEW n \in Nodes
        PROVE  0 <= Known(n)' /\ (0 < MaxVisits[n] => Known(n)' <= MaxVisits[n])
    <3>1. 0 <= Known(n) /\ (0 < MaxVisits[n] => Known(n) <= MaxVisits[n])
      BY DEF CountInv, KnownWithinLimit
    <3>2. Due(n) \in {0, 1} /\ (Due(n) = 1 /\ 0 < MaxVisits[n] => Known(n) < MaxVisits[n])
      BY <1>5, <1>6
    <3>3. Known(n)' = Known(n) + Due(n) /\ Known(n) \in Int /\ MaxVisits[n] \in Nat
      BY <1>0, <1>4
    <3>. QED
      BY <3>1, <3>2, <3>3
  <2>. QED
    BY <2>1 DEF KnownWithinLimit
<1>9. FileCounted'
  BY <1>1 DEF CountInv, FileCounted, Counted, FileDue, ResumePoint
<1>10. runs' # 0
  BY <1>1 DEF CountInv, Unstarted
<1>. QED
  BY <1>1, <1>7, <1>8, <1>9, <1>10, BeginCounts

\* The owner of state.json writes its counts; if it was in a visit, it is that node
\* at which the session will be resumed.
LEMMA FinishCounts ==
  ASSUME SessionInv, CountInv, Finish
  PROVE  CountInv'
<1>1. pc = "ended" /\ Forget /\ forgotten' = forgotten
  BY DEF Finish
<1>2. CASE shared
  <2>1. UNCHANGED <<pausedAt, resumeFrom, progress, recorded, openAt>>
    BY <1>2 DEF Finish, fileVars
  <2>2. FileCounted'
    BY <2>1 DEF CountInv, FileCounted, Counted, FileDue, ResumePoint
  <2>. QED
    BY <1>1, <2>2, EndCounts
<1>3. CASE ~shared
  <2>1. /\ pausedAt' = out.pausedAt /\ resumeFrom' = out.resumeFrom /\ progress' = out.visits
        /\ recorded' = [n \in Nodes |-> Known(n)]
        /\ openAt' = IF inVisit THEN current ELSE NoNode
    BY <1>3 DEF Finish, WriteFinalState
  <2>2. out \in Result /\ out.visits = visits /\ Says(out.kind, out.pausedAt, out.resumeFrom)
    BY <1>1 DEF SessionInv, ResultSays
  <2>3. current \in Nodes /\ NoNode \notin Nodes /\ out.kind \in Kinds
    BY <2>2, CountTypes DEF Result
  <2>4. \A n \in Nodes : FileDue(n)' = Due(n)
    BY <2>1, <2>3 DEF FileDue, Due
  <2>5. \A n \in Nodes : Counted(n, progress[n], recorded[n], FileDue(n))'
    <3>1. \A n \in Nodes : Counted(n, visits[n], Known(n), Due(n))
      BY <1>1 DEF CountInv, VisitsCounted
    <3>. QED
      BY <2>1, <2>2, <2>4, <3>1 DEF Counted
  <2>6. \A n \in Nodes : 0 <= recorded'[n] /\ (0 < MaxVisits[n] => recorded'[n] <= MaxVisits[n])
    BY <2>1 DEF CountInv, KnownWithinLimit
  <2>7. openAt' # NoNode => openAt' = ResumePoint'
    <3>1. inVisit => out.kind \in {"failed", "error", "paused", "cancelled"}
      BY <1>1, <2>3 DEF CountInv, VisitPlaces, Kinds
    <3>. QED
      BY <2>1, <2>2, <2>3, <3>1 DEF Says, ResumePoint
  <2>8. FileCounted'
    BY <2>5, <2>6, <2>7 DEF FileCounted
  <2>. QED
    BY <1>1, <2>8, EndCounts
<1>. QED
  BY <1>2, <1>3

\* The counts a resumption starts with.
LEMMA ResumeArithmetic ==
  ASSUME NEW count \in Nat, NEW k \in Nat, NEW limit \in Nat, NEW at \in BOOLEAN, NEW due \in {0, 1},
         due = 1 => at,
         count = k + due \/ (0 < limit /\ k = limit /\ count >= k + due),
         NEW now, now = IF at /\ count > 0 THEN count - 1 ELSE count,
         NEW back, back = IF at /\ due = 0 /\ count > 0 /\ count = k THEN 1 ELSE 0
  PROVE  /\ now = k - back \/ (0 < limit /\ k - back = limit /\ now >= k - back)
         /\ 0 <= k - back /\ k - back <= k
OBVIOUS

LEMMA ResumeCounts ==
  ASSUME SessionInv, CountInv, Resume
  PROVE  CountInv'
<1>0. /\ \A n \in Nodes : /\ progress[n] \in Nat /\ completed[n] \in Nat /\ MaxVisits[n] \in Nat
                          /\ recorded[n] \in Int
      /\ NoNode \notin Nodes
  BY CountTypes
<1>1. /\ Begin(FromFile) /\ runs \in 1..(MaxRuns - 1) /\ runs' = runs + 1 /\ inVisit' = FALSE
      /\ UNCHANGED <<progress, pausedAt, resumeFrom, recorded, openAt, completed>>
      /\ forgotten' = [n \in Nodes |-> completed[n] - recorded[n] + IF TakenBack(n) THEN 1 ELSE 0]
  BY DEF Resume, FromFile, BeginShared, fileVars
<1>2. FileCounted'
  BY <1>1 DEF CountInv, FileCounted, Counted, FileDue, ResumePoint
<1> DEFINE back(n) == IF n = ResumePoint /\ FileDue(n) = 0 /\ progress[n] > 0 /\ progress[n] = recorded[n]
                      THEN 1 ELSE 0
<1>3. \A n \in Nodes : visits'[n] = IF n = ResumePoint /\ progress[n] > 0
                                    THEN progress[n] - 1 ELSE progress[n]
  BY <1>1 DEF Begin, RestoredVisits, FromFile
<1>4. \A n \in Nodes : Known(n)' = recorded[n] - back(n)
  <2>1. \A n \in Nodes : (IF TakenBack(n) THEN 1 ELSE 0) = back(n)
    BY DEF TakenBack, FileDue
  <2>2. \A n \in Nodes : forgotten'[n] = completed[n] - recorded[n] + back(n)
    BY <1>1, <2>1
  <2>3. \A n \in Nodes : back(n) \in {0, 1}
    OBVIOUS
  <2> HIDE DEF back
  <2>. QED
    BY <1>0, <1>1, <2>2, <2>3 DEF Known
<1>5. ASSUME NEW n \in Nodes
      PROVE  /\ Counted(n, visits[n], Known(n), 0)'
             /\ 0 <= Known(n)' /\ (0 < MaxVisits[n] => Known(n)' <= MaxVisits[n])
  <2>1. /\ Counted(n, progress[n], recorded[n], FileDue(n))
        /\ 0 <= recorded[n] /\ (0 < MaxVisits[n] => recorded[n] <= MaxVisits[n])
    BY DEF CountInv, FileCounted
  <2>2. FileDue(n) \in {0, 1} /\ (FileDue(n) = 1 => n = ResumePoint)
    BY <1>0 DEF CountInv, FileCounted, FileDue
  <2>3. progress[n] \in Nat /\ recorded[n] \in Nat /\ MaxVisits[n] \in Nat
    BY <1>0, <2>1
  <2>4. visits'[n] = IF n = ResumePoint /\ progress[n] > 0 THEN progress[n] - 1 ELSE progress[n]
    BY <1>3
  <2>5. Known(n)' = recorded[n] - back(n)
    BY <1>4
  <2>6. back(n) = IF n = ResumePoint /\ FileDue(n) = 0 /\ progress[n] > 0 /\ progress[n] = recorded[n]
                  THEN 1 ELSE 0
    OBVIOUS
  <2>7. \/ progress[n] = recorded[n] + FileDue(n)
        \/ 0 < MaxVisits[n] /\ recorded[n] = MaxVisits[n] /\ progress[n] >= recorded[n] + FileDue(n)
    BY <2>1 DEF Counted
  <2> DEFINE k == recorded[n] - back(n)
  <2>8. /\ \/ visits'[n] = k
           \/ 0 < MaxVisits[n] /\ k = MaxVisits[n] /\ visits'[n] >= k
        /\ 0 <= k /\ k <= recorded[n]
    <3> DEFINE at == n = ResumePoint
    <3>1. at \in BOOLEAN
      OBVIOUS
    <3> HIDE DEF back
    <3>. QED
      BY <2>2, <2>3, <2>4, <2>6, <2>7, <3>1, ResumeArithmetic
  <2>9. k \in Int
    BY <2>3, <2>6
  <2> HIDE DEF k
  <2>10. Known(n)' = k
    BY <2>5 DEF k
  <2>11. Counted(n, visits[n], Known(n), 0)'
    BY <2>8, <2>9, <2>10 DEF Counted
  <2>. QED
    BY <2>1, <2>3, <2>8, <2>9, <2>10, <2>11
<1>6. KnownWithinLimit'
  BY <1>5 DEF KnownWithinLimit
<1>7. runs' # 0
  BY <1>1, SessionConstants
<1>. QED
  BY <1>1, <1>2, <1>5, <1>6, <1>7, BeginCounts

LEMMA StepCounts ==
  ASSUME SessionInv, CountInv, [SessionNext]_<<vars, sessionVars>>
  PROVE  CountInv'
<1>. USE DEF sessionVars, fileVars, streamVars, lastVars
<1>0. \A n \in Nodes : completed[n] \in Nat /\ MaxVisits[n] \in Nat
  BY CountTypes
<1>1. CASE StartSession
  <2>1. /\ runs = 0 /\ runs' = 1 /\ Begin(Fresh) /\ visits' = None /\ inVisit' = inVisit
        /\ UNCHANGED <<progress, pausedAt, resumeFrom, recorded, openAt, forgotten, completed>>
    BY <1>1, FreshType DEF StartSession, Execute, Begin
  <2>2. completed = None /\ forgotten = None /\ pc = "idle"
    BY <2>1 DEF CountInv, Unstarted
  <2>3. inVisit' = FALSE
    BY <2>1, <2>2, CountTypes DEF CountInv, VisitPlaces
  <2>4. \A n \in Nodes : Known(n)' = 0 /\ visits'[n] = 0
    BY <2>1, <2>2 DEF Known, None
  <2>5. KnownWithinLimit' /\ \A n \in Nodes : Counted(n, visits[n], Known(n), 0)'
    BY <1>0, <2>4 DEF KnownWithinLimit, Counted
  <2>6. FileCounted'
    BY <2>1 DEF CountInv, FileCounted, Counted, FileDue, ResumePoint
  <2>7. runs' # 0
    BY <2>1
  <2>. QED
    BY <2>1, <2>3, <2>5, <2>6, <2>7, BeginCounts
<1>2. CASE FinishCancelled
  <2>1. /\ pc # "idle" /\ Forget /\ forgotten' = forgotten
        /\ progress' = None /\ recorded' = None /\ openAt' = NoNode
    BY <1>2 DEF FinishCancelled
  <2>2. \A n \in Nodes : progress'[n] = 0 /\ recorded'[n] = 0 /\ FileDue(n)' = 0
    BY <2>1, CountTypes DEF None, FileDue
  <2>3. FileCounted'
    BY <1>0, <2>1, <2>2 DEF FileCounted, Counted
  <2>. QED
    BY <2>1, <2>3, EndCounts
<1>3. CASE Crash
  <2>1. /\ pc # "idle" /\ Forget
        /\ UNCHANGED <<progress, pausedAt, resumeFrom, recorded, openAt, forgotten>>
    BY <1>3 DEF Crash
  <2>2. FileCounted'
    BY <2>1 DEF CountInv, FileCounted, Counted, FileDue, ResumePoint
  <2>. QED
    BY <2>1, <2>2, EndCounts
<1>4. CASE Restore
  <2>1. PICK i \in DOMAIN index : BeginShared(FromCheckpoint(i), "restored")
    BY <1>4 DEF Restore, FromCheckpoint
  <2>2. /\ Begin(FromCheckpoint(i)) /\ runs \in 1..(MaxRuns - 1) /\ runs' = runs + 1
        /\ inVisit' = FALSE /\ forgotten' = completed
        /\ UNCHANGED <<progress, pausedAt, resumeFrom, recorded, openAt, completed>>
    BY <1>4, <2>1 DEF BeginShared, Restore
  <2>3. \A n \in Nodes : visits'[n] = 0
    BY <2>2 DEF Begin, RestoredVisits, FromCheckpoint, Fresh, None
  <2>4. \A n \in Nodes : Known(n)' = 0
    BY <1>0, <2>2 DEF Known
  <2>5. KnownWithinLimit' /\ \A n \in Nodes : Counted(n, visits[n], Known(n), 0)'
    BY <1>0, <2>3, <2>4 DEF KnownWithinLimit, Counted
  <2>6. FileCounted'
    BY <2>2 DEF CountInv, FileCounted, Counted, FileDue, ResumePoint
  <2>7. runs' # 0
    BY <2>2, SessionConstants
  <2>. QED
    BY <2>2, <2>5, <2>6, <2>7, BeginCounts
<1>5. CASE UNCHANGED <<vars, sessionVars>>
  <2>1. UNCHANGED <<pc, current, visits, isRetry, steps, out, progress, completed>>
    BY <1>5 DEF vars, loopVars, storeVars, histVars
  <2>. QED
    BY <1>5, <2>1
       DEF CountInv, VisitPlaces, Unstarted, VisitsCounted, VisitAllowed, Allowed, SkippedOver,
           KnownWithinLimit, FileCounted, Counted, Known, Due, FileDue, ResumePoint
<1>. QED
  BY <1>1, <1>2, <1>3, <1>4, <1>5, RunStepCounts, ResurrectCounts, FinishCounts, ResumeCounts
     DEF SessionNext

LEMMA InitCounts == SessionInit => CountInv
<1>. SUFFICES ASSUME SessionInit PROVE CountInv
  OBVIOUS
<1>1. /\ pc = "idle" /\ inVisit = FALSE /\ completed = None /\ forgotten = None /\ recorded = None
      /\ progress = None /\ openAt = NoNode
  BY DEF SessionInit, Init
<1>2. \A n \in Nodes : MaxVisits[n] \in Nat /\ n # NoNode
  BY GraphAssumption
<1>3. \A n \in Nodes : Known(n) = 0 /\ recorded[n] = 0 /\ progress[n] = 0 /\ FileDue(n) = 0
  BY <1>1, <1>2 DEF None, Known, FileDue
<1>4. KnownWithinLimit /\ FileCounted
  BY <1>1, <1>2, <1>3 DEF KnownWithinLimit, FileCounted, Counted
<1>. QED
  BY <1>1, <1>4 DEF CountInv, VisitPlaces, Unstarted, VisitsCounted, VisitAllowed, Allowed, SkippedOver

\* Over all runs of a session, however often it is resurrected, resumed, killed and
\* restored, and wherever its runs stop, no node is visited more often than its
\* limit, but for the visits a run was not told of.
THEOREM SessionLimits == SessionSpec => []SessionWithinLimit
<1>1. SessionInv /\ CountInv => SessionWithinLimit
  <2>. SUFFICES ASSUME SessionInv, CountInv, NEW n \in Nodes, MaxVisits[n] > 0
                PROVE  completed[n] <= MaxVisits[n] + forgotten[n]
    BY DEF SessionWithinLimit
  <2>1. completed[n] \in Nat /\ forgotten[n] \in Int /\ MaxVisits[n] \in Nat
    BY CountTypes
  <2>2. completed[n] - forgotten[n] <= MaxVisits[n]
    BY <2>1 DEF CountInv, KnownWithinLimit, Known
  <2>. QED
    BY <2>1, <2>2
<1>. QED
  BY <1>1, InitSession, InitCounts, StepSession, StepCounts, PTL DEF SessionSpec

\* What a session resumes is what the owner of state.json left, the node and the
\* counts of visits, however many runs the session has had and wherever they stopped.
THEOREM ResumesAsLeft ==
  ASSUME MaxWork > 0 PROVE SessionSpec => []ResumedAsLeft
<1>1. SessionInv /\ Underway /\ CountInv => ResumedCounts
  <2>. SUFFICES ASSUME SessionInv, Underway, CountInv, Beginning, NEW n \in Nodes
                PROVE  \/ visits[n] = Known(n)
                       \/ 0 < MaxVisits[n] /\ Known(n) = MaxVisits[n] /\ visits[n] > MaxVisits[n]
    BY DEF ResumedCounts
  <2>1. pc = "top" /\ ~isRetry
    BY DEF Underway, Beginning
  <2>2. inVisit = isRetry
    BY <2>1 DEF CountInv, VisitPlaces
  <2>3. Counted(n, visits[n], Known(n), 0)
    BY <2>1, <2>2 DEF CountInv, VisitsCounted, Due
  <2>4. visits[n] \in Nat /\ Known(n) \in Int /\ MaxVisits[n] \in Nat
    BY CountTypes
  <2>. QED
    BY <2>3, <2>4 DEF Counted
<1>. QED
  BY <1>1, InitSession, InitResumed, InitCounts, StepSession, StepFile, StepResumed, StepCounts,
     PTL DEF SessionSpec, ResumedAsLeft
=============================================================================
