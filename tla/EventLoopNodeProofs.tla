------------------------ MODULE EventLoopNodeProofs ------------------------
(***************************************************************************)
(* Proofs about EventLoopNode: that it implements Mailbox, that acceptance *)
(* means the outputs are there, that a question is answered before the LLM *)
(* is called again, that the calls of an iteration are bounded, and that   *)
(* all of its state keeps its types and limits.                            *)
(***************************************************************************)
EXTENDS EventLoopNode, SequenceTheorems, FiniteSetTheorems, WellFoundedInduction, TLAPS

----------------------------------------------------------------------------
(* The mailbox.                                                            *)

Blocked == pc \in {"requesting", "waiting"}

\* The inductive invariant: whoever is about to sleep, or sleeps, over a message
\* has the event set.
MailInv ==
  /\ queue \in Seq(1..MaxMessages)
  /\ sent \in 0..MaxMessages
  /\ ready \in BOOLEAN
  /\ Blocked /\ ~ready => queue = <<>>

\* A step that touches neither the mailbox nor the sleep.
Quiet == ~Blocked /\ ~Blocked' /\ UNCHANGED mailVars

LEMMA MessagesAreCounted == MaxMessages \in Nat
BY LoopAssumption

LEMMA InitMail == ASSUME Init PROVE MailInv
<1>1. queue = <<>> /\ sent = 0 /\ ready = FALSE
  BY DEF Init
<1>2. queue \in Seq(1..MaxMessages)
  BY <1>1, EmptySeq
<1>3. sent \in 0..MaxMessages
  BY <1>1, MessagesAreCounted
<1> QED BY <1>1, <1>2, <1>3 DEF MailInv

LEMMA BeginQuiet == ASSUME Begin PROVE Quiet
BY DEF Begin, Quiet, Blocked, mailVars

LEMMA TopQuiet == ASSUME Top PROVE Quiet
BY DEF Top, Finish, Quiet, Blocked, mailVars

LEMMA RespondQuiet == ASSUME NEW r, Respond(r) PROVE Quiet
<1>1. pc = "stream" /\ UNCHANGED mailVars
  BY DEF Respond
<1>2. pc' \in {"turned", "tools"}
  BY DEF Respond
<1> QED BY <1>1, <1>2 DEF Quiet, Blocked

LEMMA ToolsDoneQuiet == ASSUME ToolsDone PROVE Quiet
BY DEF ToolsDone, Quiet, Blocked, mailVars

LEMMA TransientErrorQuiet == ASSUME TransientError PROVE Quiet
BY DEF TransientError, Quiet, Blocked, mailVars

LEMMA BackoffQuiet == ASSUME Backoff PROVE Quiet
BY DEF Backoff, Quiet, Blocked, mailVars

LEMMA PermanentErrorQuiet == ASSUME PermanentError PROVE Quiet
BY DEF PermanentError, Block, Finish, Quiet, Blocked, mailVars

LEMMA GhostTurnQuiet == ASSUME GhostTurn PROVE Quiet
BY DEF GhostTurn, Block, Finish, Continue, Quiet, Blocked, mailVars

LEMMA RealTurnQuiet == ASSUME RealTurn PROVE Quiet
<1>1. pc = "turned" /\ UNCHANGED mailVars
  BY DEF RealTurn
<1>2. pc' \in {"idle", "await", "recorded"}
  BY DEF RealTurn, Finish, Block
<1> QED BY <1>1, <1>2 DEF Quiet, Blocked

LEMMA RecordedQuiet == ASSUME Recorded PROVE Quiet
<1>1. pc = "recorded" /\ UNCHANGED mailVars
  BY DEF Recorded
<1>2. pc' \in {"await", "top", "judging"}
  BY DEF Recorded, Block, Continue, ToJudge
<1> QED BY <1>1, <1>2 DEF Quiet, Blocked

LEMMA JudgeQuiet == ASSUME Judge PROVE Quiet
BY DEF Judge, Finish, Continue, Quiet, Blocked, mailVars

LEMMA CancelCurrentTurnQuiet == ASSUME CancelCurrentTurn PROVE Quiet
BY DEF CancelCurrentTurn, Block, Finish, Continue, Quiet, Blocked, mailVars

\* Wherever execute() goes on after a wait, it is not blocked.
LEMMA ProceedAwake == ASSUME NEW got, Proceed(got) PROVE ~Blocked'
BY DEF Proceed, Finish, Continue, Block, ToJudge, Blocked

LEMMA QuietKeeps == ASSUME MailInv, Quiet PROVE MailInv'
BY DEF MailInv, Quiet, Blocked, mailVars

LEMMA MailStep == ASSUME MailInv, [Next]_vars PROVE MailInv'
<1>1. CASE Quiet
  BY <1>1, QuietKeeps
<1>2. CASE Drain
  <2>1. ~Blocked /\ ~Blocked' /\ UNCHANGED <<ready, sent>>
    BY <1>2 DEF Drain, Blocked
  <2>2. queue' = queue \/ (queue # <<>> /\ queue' = Tail(queue))
    BY <1>2 DEF Drain
  <2>3. queue' \in Seq(1..MaxMessages)
    BY <2>2 DEF MailInv
  <2> QED BY <2>1, <2>3 DEF MailInv
<1>3. CASE Await
  <2>1. UNCHANGED <<queue, sent>> /\ ready' \in {ready, FALSE}
    BY <1>3 DEF Await, ClearInputReady
  <2>2. Blocked' => queue = <<>>
    BY <1>3, ProceedAwake DEF Await, Finish, Blocked
  <2> QED BY <2>1, <2>2 DEF MailInv
<1>4. CASE Request
  BY <1>4 DEF Request, MailInv, Blocked, mailVars
<1>5. CASE Woken
  <2>1. UNCHANGED mailVars /\ ~Blocked'
    BY <1>5, ProceedAwake DEF Woken
  <2> QED BY <2>1 DEF MailInv, mailVars
<1>6. CASE InjectEvent
  <2>1. sent + 1 \in 1..MaxMessages
    BY <1>6, MessagesAreCounted DEF InjectEvent, MailInv
  <2>2. queue' \in Seq(1..MaxMessages)
    BY <1>6, <2>1 DEF InjectEvent, MailInv
  <2>3. sent' \in 0..MaxMessages /\ ready' = TRUE
    BY <1>6, <2>1 DEF InjectEvent
  <2> QED BY <2>2, <2>3 DEF MailInv
<1>7. CASE SignalShutdown
  <2>1. UNCHANGED <<queue, sent, pc>> /\ ready' = TRUE
    BY <1>7 DEF SignalShutdown
  <2> QED BY <2>1 DEF MailInv
<1>8. CASE CancelExecution
  <2>1. UNCHANGED mailVars /\ ~Blocked'
    BY <1>8 DEF CancelExecution, Finish, Blocked
  <2> QED BY <2>1 DEF MailInv, mailVars
<1>9. CASE RequestPause \/ UNCHANGED vars
  <2>1. UNCHANGED mailVars /\ UNCHANGED pc
    BY <1>9 DEF RequestPause, vars
  <2> QED BY <2>1 DEF MailInv, mailVars, Blocked
<1> QED
  BY <1>1, <1>2, <1>3, <1>4, <1>5, <1>6, <1>7, <1>8, <1>9,
     BeginQuiet, TopQuiet, RespondQuiet, ToolsDoneQuiet, TransientErrorQuiet, BackoffQuiet,
     PermanentErrorQuiet, GhostTurnQuiet, RealTurnQuiet, RecordedQuiet, JudgeQuiet,
     CancelCurrentTurnQuiet DEF Next, Node

LEMMA MailRefined ==
  ASSUME MailInv, [Next]_vars
  PROVE  [Mail!MailNext]_(Mail!mailVars)
<1> DEFINE Asleep == pc = "waiting" /\ ~ready
<1> USE DEF Mail!MailNext, Mail!mailVars
<1>1. CASE Quiet
  BY <1>1 DEF Quiet, Blocked, mailVars
<1>2. CASE Drain
  <2>1. ~Asleep /\ ~Asleep'
    BY <1>2 DEF Drain
  <2>2. CASE queue = <<>>
    BY <1>2, <2>1, <2>2 DEF Drain
  <2>3. CASE queue # <<>>
    <3>1. queue' = Tail(queue) /\ read' = Append(read, Head(queue))
      BY <1>2, <2>3 DEF Drain
    <3>2. Mail!Take
      BY <2>1, <2>3, <3>1 DEF Mail!Take
    <3> QED BY <3>2
  <2> QED BY <2>2, <2>3
<1>3. CASE Await
  <2>1. UNCHANGED <<queue, read>> /\ pc = "await"
    BY <1>3 DEF Await
  <2>2. pc' # "waiting"
    BY <1>3, ProceedAwake DEF Await, Finish, Blocked
  <2> QED BY <2>1, <2>2
<1>4. CASE Request
  <2>1. pc = "requesting" /\ pc' = "waiting" /\ UNCHANGED <<queue, ready, read>>
    BY <1>4 DEF Request, mailVars
  <2>2. CASE ready
    BY <2>1, <2>2
  <2>3. CASE ~ready
    <3>1. Mail!Sleep
      BY <2>1, <2>3 DEF Mail!Sleep, MailInv, Blocked
    <3> QED BY <3>1
  <2> QED BY <2>2, <2>3
<1>5. CASE Woken
  <2>1. UNCHANGED <<queue, read>> /\ ready
    BY <1>5 DEF Woken, mailVars
  <2>2. pc' # "waiting"
    BY <1>5, ProceedAwake DEF Woken, Blocked
  <2> QED BY <2>1, <2>2
<1>6. CASE InjectEvent
  <2>1. sent + 1 \in 1..MaxMessages
    BY <1>6, MessagesAreCounted DEF InjectEvent, MailInv
  <2>2. Mail!Put(sent + 1)
    BY <1>6 DEF InjectEvent, Mail!Put
  <2> QED BY <2>1, <2>2
<1>7. CASE SignalShutdown
  <2>1. UNCHANGED <<queue, read, pc>> /\ ready'
    BY <1>7 DEF SignalShutdown
  <2>2. CASE Asleep
    BY <2>1, <2>2 DEF Mail!Wake
  <2>3. CASE ~Asleep
    BY <2>1, <2>3
  <2> QED BY <2>2, <2>3
<1>8. CASE CancelExecution
  <2>1. UNCHANGED <<queue, read>> /\ pc' = "idle"
    BY <1>8 DEF CancelExecution, Finish, mailVars
  <2>2. CASE Asleep
    BY <2>1, <2>2 DEF Mail!Wake
  <2>3. CASE ~Asleep
    BY <2>1, <2>3
  <2> QED BY <2>2, <2>3
<1>9. CASE RequestPause \/ UNCHANGED vars
  BY <1>9 DEF RequestPause, vars, mailVars
<1> QED
  BY <1>1, <1>2, <1>3, <1>4, <1>5, <1>6, <1>7, <1>8, <1>9,
     BeginQuiet, TopQuiet, RespondQuiet, ToolsDoneQuiet, TransientErrorQuiet, BackoffQuiet,
     PermanentErrorQuiet, GhostTurnQuiet, RealTurnQuiet, RecordedQuiet, JudgeQuiet,
     CancelCurrentTurnQuiet DEF Next, Node

\* A node reads every injected message once and in order, and never sleeps over
\* a waiting one (inject_event(), _await_user_input(), _drain_injection_queue()).
THEOREM ImplementsMailbox == Spec => MailboxImplemented
<1>1. Init => MailInv /\ Mail!MailInit
  <2>1. Init => Mail!MailInit
    BY DEF Init, Mail!MailInit
  <2> QED BY <2>1, InitMail
<1>2. MailInv /\ [Next]_vars => MailInv'
  BY MailStep
<1>3. MailInv /\ [Next]_vars => [Mail!MailNext]_(Mail!mailVars)
  BY MailRefined
<1> QED BY <1>1, <1>2, <1>3, PTL DEF Spec, MailboxImplemented, Mail!MailSpec

----------------------------------------------------------------------------
(* Acceptance.                                                             *)

Judges == {"implicit", "criteria", "custom", "subagent", "skip"}

\* A node has no result before the visit ends.
AcceptInv ==
  /\ spec.judge \in Judges
  /\ pc # "idle" => result = "none"
  /\ AcceptedIsComplete

\* A step inside a visit that does not end it as accepted.
Inside == pc # "idle" /\ UNCHANGED spec /\ result' # "accepted" /\ (pc' # "idle" => result' = result)

LEMMA InitAccept == ASSUME Init PROVE AcceptInv
<1>1. spec.judge \in Judges
  BY LoopAssumption DEF Init, Judges
<1> QED BY <1>1 DEF Init, AcceptInv, AcceptedIsComplete

LEMMA InsideKeeps == ASSUME AcceptInv, Inside PROVE AcceptInv'
BY DEF AcceptInv, Inside, AcceptedIsComplete

LEMMA ProceedInside ==
  ASSUME AcceptInv, pc # "idle", NEW got, Proceed(got), UNCHANGED spec PROVE Inside
BY DEF AcceptInv, Proceed, Finish, Continue, Block, ToJudge, Inside

\* The judge's word is taken only for complete outputs.
LEMMA AcceptedVerdict ==
  ASSUME spec.judge \in Judges, NEW v \in Verdicts, Accepted(v) PROVE Missing = {} \/ complete
BY DEF Verdicts, Accepted, Judges, Missing

LEMMA AcceptStep == ASSUME AcceptInv, [Next]_vars PROVE AcceptInv'
<1> USE DEF Inside
<1>1. CASE Begin
  BY <1>1 DEF Begin, AcceptInv, AcceptedIsComplete
<1>2. CASE Top
  <2>1. Inside
    BY <1>2 DEF AcceptInv, Top, Finish
  <2> QED BY <2>1, InsideKeeps
<1>3. CASE Drain \/ ToolsDone \/ TransientError \/ Backoff \/ Request
  <2>1. Inside
    BY <1>3 DEF AcceptInv, Drain, ToolsDone, TransientError, Backoff, Request
  <2> QED BY <2>1, InsideKeeps
<1>4. ASSUME NEW r \in Responses[spec], Respond(r) PROVE AcceptInv'
  <2>1. pc = "stream" /\ pc' \in {"turned", "tools"} /\ UNCHANGED <<spec, result>>
    BY <1>4 DEF Respond
  <2>2. Inside
    BY <2>1 DEF AcceptInv
  <2> QED BY <2>2, InsideKeeps
<1>5. CASE PermanentError
  <2>1. Inside
    BY <1>5 DEF AcceptInv, PermanentError, Block, Finish
  <2> QED BY <2>1, InsideKeeps
<1>6. CASE GhostTurn
  <2>1. pc = "turned" /\ UNCHANGED <<spec, values, complete>>
    BY <1>6 DEF GhostTurn, flagVars
  <2>2. (Done /\ result' = "accepted" /\ pc' = "idle") \/ (result' = "ghost" /\ pc' = "idle") \/ UNCHANGED result
    BY <1>6 DEF GhostTurn, Finish
  <2> QED BY <2>1, <2>2 DEF AcceptInv, AcceptedIsComplete, Missing, Done
<1>7. CASE RealTurn
  <2>1. pc = "turned" /\ UNCHANGED spec
    BY <1>7 DEF RealTurn
  <2>2. (result' = "stalled" /\ pc' = "idle") \/ UNCHANGED result
    BY <1>7 DEF RealTurn, Finish
  <2>3. Inside
    BY <2>1, <2>2 DEF AcceptInv
  <2> QED BY <2>3, InsideKeeps
<1>8. CASE Recorded
  <2>1. pc = "recorded" /\ UNCHANGED <<spec, result>>
    BY <1>8 DEF Recorded
  <2>2. Inside
    BY <2>1 DEF AcceptInv
  <2> QED BY <2>2, InsideKeeps
<1>9. CASE Await
  <2>1. pc = "await" /\ UNCHANGED spec
    BY <1>9 DEF Await
  <2>2. CASE pc' = "requesting" /\ UNCHANGED result
    BY <2>1, <2>2, InsideKeeps DEF AcceptInv
  <2>3. CASE Finish("shutdown")
    BY <2>1, <2>3, InsideKeeps DEF Finish
  <2>4. CASE Proceed(TRUE)
    BY <2>1, <2>4, ProceedInside, InsideKeeps
  <2> QED BY <1>9, <2>2, <2>3, <2>4 DEF Await
<1>10. CASE Woken
  <2>1. pc = "waiting" /\ UNCHANGED spec /\ Proceed(~shutdown)
    BY <1>10 DEF Woken
  <2> QED BY <2>1, ProceedInside, InsideKeeps
<1>11. CASE Judge
  <2>1. pc = "judging" /\ UNCHANGED <<spec, values, complete>>
    BY <1>11 DEF Judge, flagVars
  <2>2. PICK v \in Verdicts :
          \/ Accepted(v) /\ Finish("accepted")
          \/ Finish("escalated")
          \/ UNCHANGED result
    BY <1>11 DEF Judge
  <2>3. CASE Accepted(v) /\ Finish("accepted")
    <3>1. Missing = {} \/ complete
      BY <2>3, AcceptedVerdict DEF AcceptInv
    <3> QED BY <2>1, <2>3, <3>1 DEF AcceptInv, AcceptedIsComplete, Finish, Missing
  <2>4. CASE Finish("escalated")
    BY <2>1, <2>4, InsideKeeps DEF Finish
  <2>5. CASE UNCHANGED result
    BY <2>1, <2>5, InsideKeeps DEF AcceptInv
  <2> QED BY <2>2, <2>3, <2>4, <2>5
<1>12. CASE CancelCurrentTurn
  <2>1. Inside
    BY <1>12 DEF AcceptInv, CancelCurrentTurn, Block, Continue, Finish
  <2> QED BY <2>1, InsideKeeps
<1>13. CASE CancelExecution
  <2>1. Inside
    BY <1>13 DEF CancelExecution, Finish
  <2> QED BY <2>1, InsideKeeps
<1>14. CASE InjectEvent \/ SignalShutdown \/ RequestPause \/ UNCHANGED vars
  <2>1. UNCHANGED <<spec, pc, result, values, complete>>
    BY <1>14 DEF InjectEvent, SignalShutdown, RequestPause, vars, loopVars, flagVars
  <2> QED BY <2>1 DEF AcceptInv, AcceptedIsComplete, Missing
<1> QED
  BY <1>1, <1>2, <1>3, <1>4, <1>5, <1>6, <1>7, <1>8, <1>9, <1>10, <1>11, <1>12, <1>13, <1>14
     DEF Next, Node

\* A node that ended as accepted has every required output, or a sub-agent called
\* its task complete, for whatever judge, LLM and limits (_judge_turn(), 6e, 6i).
THEOREM AcceptedOnlyComplete == Spec => []AcceptedIsComplete
<1>1. Init => AcceptInv
  BY InitAccept
<1>2. AcceptInv /\ [Next]_vars => AcceptInv'
  BY AcceptStep
<1>3. AcceptInv => AcceptedIsComplete
  BY DEF AcceptInv
<1> QED BY <1>1, <1>2, <1>3, PTL DEF Spec

----------------------------------------------------------------------------
(* Questions.                                                              *)

\* The wait ends as soon as it may: it has a message, or the node shuts down.
Wakeable == ready => queue # <<>> \/ shutdown

\* Where a node may be that asked and has not read a message since.
Owing ==
  \/ pc = "idle"
  \/ pc \in {"top", "drain", "judging"} /\ queue # <<>>
  \/ pc = "await" /\ why \in Heeding
  \/ Blocked /\ why \in Heeding /\ Wakeable

QuestionInv ==
  /\ queue \in Seq(1..MaxMessages)
  /\ cur.escalated => CanEscalate
  /\ turn.escalated => CanEscalate
  /\ owed => Owing

\* What a turn knows is not changed, or forgotten.
SameTurn ==
  /\ UNCHANGED <<spec, turn>>
  /\ cur' \in {cur, NoTurn}

LEMMA NothingEscalated == NoTurn.escalated = FALSE
BY DEF NoTurn

LEMMA TurnKeeps ==
  ASSUME QuestionInv, SameTurn
  PROVE  (cur'.escalated => CanEscalate') /\ (turn'.escalated => CanEscalate')
<1>1. CanEscalate' = CanEscalate
  BY DEF SameTurn, CanEscalate
<1>2. CASE cur' = cur
  BY <1>1, <1>2 DEF QuestionInv, SameTurn
<1>3. CASE cur' = NoTurn
  BY <1>1, <1>3, NothingEscalated DEF QuestionInv, SameTurn
<1> QED BY <1>2, <1>3 DEF SameTurn

\* After a wait at which it asked, the node has a message, waits again or ends.
LEMMA ProceedOwing ==
  ASSUME why \in Heeding, UNCHANGED <<queue, turn>>, queue # <<>>, Proceed(TRUE)
  PROVE  Owing'
<1>1. why \in {"ask", "auto"} \/ why = "guidance"
  BY DEF Heeding
<1>2. pc' \in {"top", "judging"} \/ (pc' = "await" /\ why' = "guidance")
  BY <1>1 DEF Proceed, Heeding, Continue, Block, ToJudge
<1> QED BY <1>2 DEF Owing, Heeding

LEMMA ProceedShutdown == ASSUME why \in Heeding, Proceed(FALSE) PROVE pc' = "idle"
BY DEF Proceed, Heeding, Finish

LEMMA ProceedTurn == ASSUME NEW got, Proceed(got) PROVE cur' \in {cur, NoTurn}
BY DEF Proceed, Finish

LEMMA QuestionStep == ASSUME QuestionInv, MailInv, [Next]_vars PROVE QuestionInv'
<1>0. MailInv' /\ queue' \in Seq(1..MaxMessages)
  BY MailStep DEF MailInv
<1>1. CASE Begin
  <2>1. ~owed' /\ turn' = NoTurn /\ UNCHANGED <<spec, cur>>
    BY <1>1 DEF Begin
  <2> QED BY <1>0, <2>1 DEF QuestionInv, NoTurn, CanEscalate
<1>2. CASE Top
  <2>1. SameTurn /\ UNCHANGED <<queue, owed>> /\ pc = "top" /\ pc' \in {"idle", "drain"}
    BY <1>2 DEF Top, Finish, SameTurn, mailVars
  <2> QED BY <1>0, <2>1, TurnKeeps DEF QuestionInv, Owing, Blocked
<1>3. CASE Drain
  <2>1. SameTurn /\ pc = "drain"
    BY <1>3 DEF Drain, SameTurn, turnVars
  <2>2. (queue # <<>> /\ owed' = FALSE) \/ (queue = <<>> /\ UNCHANGED owed)
    BY <1>3 DEF Drain
  <2> QED BY <1>0, <2>1, <2>2, TurnKeeps DEF QuestionInv, Owing, Blocked
<1>4. ASSUME NEW r \in Responses[spec], Respond(r) PROVE QuestionInv'
  <2>1. pc = "stream" /\ UNCHANGED <<spec, owed>> /\ turn' \in {turn, cur'}
    BY <1>4 DEF Respond
  <2>2. cur'.escalated => cur.escalated \/ CanEscalate
    BY <1>4 DEF Respond
  <2> QED BY <1>0, <2>1, <2>2 DEF QuestionInv, Owing, Blocked, CanEscalate
<1>5. CASE ToolsDone
  <2>1. pc = "tools" /\ UNCHANGED <<spec, owed, cur>> /\ turn' \in {turn, cur}
    BY <1>5 DEF ToolsDone
  <2> QED BY <1>0, <2>1 DEF QuestionInv, Owing, Blocked, CanEscalate
<1>6. CASE TransientError \/ Backoff \/ PermanentError
  <2>1. SameTurn /\ UNCHANGED owed /\ pc \in {"stream", "backoff"}
    BY <1>6 DEF TransientError, Backoff, PermanentError, Block, Finish, SameTurn, turnVars
  <2> QED BY <1>0, <2>1, TurnKeeps DEF QuestionInv, Owing, Blocked
<1>7. CASE GhostTurn \/ RealTurn
  <2>1. UNCHANGED <<spec, turn, owed>> /\ pc = "turned"
    BY <1>7 DEF GhostTurn, RealTurn
  <2>2. cur' \in {cur, NoTurn}
    BY <1>7 DEF GhostTurn, RealTurn, Finish
  <2> QED BY <1>0, <2>1, <2>2, TurnKeeps DEF SameTurn, QuestionInv, Owing, Blocked
<1>8. CASE Recorded
  <2>1. SameTurn /\ pc = "recorded"
    BY <1>8 DEF Recorded, SameTurn, turnVars
  <2>2. ~owed
    BY <2>1 DEF QuestionInv, Owing, Blocked
  <2>3. owed' => (Blocking /\ turn.asked) \/ turn.escalated
    BY <1>8, <2>2 DEF Recorded
  <2>4. AutoBlocks => ~turn.asked /\ ~turn.escalated
    BY DEF AutoBlocks, QuestionInv, CanEscalate
  <2>5. owed' => pc' = "await" /\ why' \in Heeding
    BY <1>8, <2>3, <2>4 DEF Recorded, Block, Heeding
  <2> QED BY <1>0, <2>1, <2>5, TurnKeeps DEF QuestionInv, Owing
<1>9. CASE Await
  <2>1. UNCHANGED <<spec, turn, queue, owed>> /\ pc = "await"
    BY <1>9 DEF Await
  <2>2. cur' \in {cur, NoTurn}
    BY <1>9, ProceedTurn DEF Await, Finish
  <2>3. owed => why \in Heeding
    BY <2>1 DEF QuestionInv, Owing, Blocked
  <2>4. ASSUME owed PROVE Owing'
    <3>1. CASE Finish("shutdown")
      BY <3>1 DEF Finish, Owing
    <3>2. CASE queue # <<>> /\ Proceed(TRUE)
      BY <2>1, <2>3, <2>4, <3>2, ProceedOwing
    <3>3. CASE ready' = FALSE /\ pc' = "requesting" /\ UNCHANGED why
      BY <2>3, <2>4, <3>3 DEF Owing, Blocked, Wakeable
    <3> QED BY <1>9, <3>1, <3>2, <3>3 DEF Await, ClearInputReady
  <2> QED BY <1>0, <2>1, <2>2, <2>4, TurnKeeps DEF SameTurn, QuestionInv
<1>10. CASE Request
  <2>1. SameTurn /\ UNCHANGED <<queue, ready, shutdown, owed, why>>
    BY <1>10 DEF Request, SameTurn, turnVars, mailVars, flagVars
  <2>2. pc = "requesting" /\ pc' = "waiting"
    BY <1>10 DEF Request
  <2>3. owed => Owing'
    BY <2>1, <2>2 DEF QuestionInv, Owing, Blocked, Wakeable
  <2> QED BY <1>0, <2>1, <2>3, TurnKeeps DEF QuestionInv
<1>11. CASE Woken
  <2>1. UNCHANGED <<spec, turn, queue, owed>> /\ pc = "waiting" /\ ready /\ Proceed(~shutdown)
    BY <1>11 DEF Woken, mailVars
  <2>2. cur' \in {cur, NoTurn}
    BY <2>1, ProceedTurn
  <2>3. ASSUME owed PROVE Owing'
    <3>1. why \in Heeding /\ Wakeable
      BY <2>1, <2>3 DEF QuestionInv, Owing
    <3>2. CASE shutdown
      <4>1. Proceed(FALSE)
        BY <2>1, <3>2
      <4> QED BY <3>1, <4>1, ProceedShutdown DEF Owing
    <3>3. CASE ~shutdown
      <4>1. Proceed(TRUE) /\ queue # <<>>
        BY <2>1, <3>1, <3>3 DEF Wakeable
      <4> QED BY <2>1, <3>1, <4>1, ProceedOwing
    <3> QED BY <3>2, <3>3
  <2> QED BY <1>0, <2>1, <2>2, <2>3, TurnKeeps DEF SameTurn, QuestionInv
<1>12. CASE Judge
  <2>1. UNCHANGED <<spec, turn, queue, owed>> /\ pc = "judging" /\ pc' \in {"idle", "top"}
    BY <1>12 DEF Judge, Finish, Continue, mailVars
  <2>2. cur' \in {cur, NoTurn}
    BY <1>12 DEF Judge, Finish
  <2> QED BY <1>0, <2>1, <2>2, TurnKeeps DEF SameTurn, QuestionInv, Owing, Blocked
<1>13. CASE InjectEvent
  <2>1. SameTurn /\ UNCHANGED <<pc, why, owed, shutdown>> /\ queue' = Append(queue, sent + 1)
    BY <1>13 DEF InjectEvent, SameTurn, turnVars, flagVars
  <2>2. queue' # <<>>
    BY <2>1 DEF QuestionInv
  <2>3. owed => Owing'
    BY <2>1, <2>2 DEF QuestionInv, Owing, Blocked, Wakeable
  <2> QED BY <1>0, <2>1, <2>3, TurnKeeps DEF QuestionInv
<1>14. CASE SignalShutdown
  <2>1. SameTurn /\ UNCHANGED <<pc, why, owed, queue>> /\ shutdown'
    BY <1>14 DEF SignalShutdown, SameTurn, turnVars
  <2>2. owed => Owing'
    BY <2>1 DEF QuestionInv, Owing, Blocked, Wakeable
  <2> QED BY <1>0, <2>1, <2>2, TurnKeeps DEF QuestionInv
<1>15. CASE CancelCurrentTurn
  <2>1. SameTurn /\ UNCHANGED owed /\ pc \in {"stream", "tools"}
    BY <1>15 DEF CancelCurrentTurn, Finish, SameTurn
  <2> QED BY <1>0, <2>1, TurnKeeps DEF QuestionInv, Owing, Blocked
<1>16. CASE CancelExecution
  <2>1. SameTurn /\ pc' = "idle"
    BY <1>16 DEF CancelExecution, Finish, SameTurn
  <2> QED BY <1>0, <2>1, TurnKeeps DEF QuestionInv, Owing
<1>17. CASE RequestPause \/ UNCHANGED vars
  <2>1. SameTurn /\ UNCHANGED <<pc, why, owed, queue, ready, shutdown>>
    BY <1>17 DEF RequestPause, vars, SameTurn, turnVars, mailVars, flagVars
  <2>2. owed => Owing'
    BY <2>1 DEF QuestionInv, Owing, Blocked, Wakeable
  <2> QED BY <1>0, <2>1, <2>2, TurnKeeps DEF QuestionInv
<1> QED
  BY <1>1, <1>2, <1>3, <1>4, <1>5, <1>6, <1>7, <1>8, <1>9, <1>10, <1>11, <1>12, <1>13, <1>14,
     <1>15, <1>16, <1>17 DEF Next, Node

\* Having asked the user or escalated, the node neither calls the LLM nor asks the
\* judge before a message has come, for every interleaving of messages, shutdown,
\* errors and cancelled turns (step 6h, _await_user_input()).
THEOREM QuestionsAreAnswered == Spec => []QuestionAnswered
<1>1. Init => QuestionInv /\ MailInv
  <2>1. Init => queue \in Seq(1..MaxMessages)
    BY InitMail DEF MailInv
  <2>2. Init => ~owed /\ ~cur.escalated /\ ~turn.escalated
    BY NothingEscalated DEF Init
  <2> QED BY <2>1, <2>2, InitMail DEF QuestionInv
<1>2. QuestionInv /\ MailInv /\ [Next]_vars => QuestionInv' /\ MailInv'
  BY QuestionStep, MailStep
<1>3. QuestionInv => QuestionAnswered
  BY DEF QuestionInv, Owing, Blocked, QuestionAnswered
<1> QED BY <1>1, <1>2, <1>3, PTL DEF Spec

----------------------------------------------------------------------------
(* Tool calls.                                                             *)

LEMMA LimitsAreNumbers == HardLimit \in Nat /\ MaxStreamRetries \in Nat
BY LoopAssumption

LEMMA MinOfTwo == ASSUME NEW a \in Int, NEW b \in Int PROVE Min({a, b}) = IF a <= b THEN a ELSE b
BY DEF Min

\* r retries and one attempt more.
LEMMA OneMore ==
  ASSUME NEW h \in Nat, NEW r \in Nat
  PROVE  h * r \in Nat /\ h * (r + 1) = h * r + h
OBVIOUS

LEMMA WithinAll ==
  ASSUME NEW h \in Nat, NEW r \in Nat, NEW m \in Nat, r <= m
  PROVE  h * r <= h * m
<1>1. m - r \in Nat /\ h * (m - r) \in Nat /\ h * m = h * r + h * (m - r)
  OBVIOUS
<1>2. h * r \in Nat
  OBVIOUS
<1> QED BY <1>1, <1>2

\* What the retries so far and the attempt under way may have executed.
ToolInv ==
  /\ retries \in 0..MaxStreamRetries
  /\ cur.count \in 0..HardLimit
  /\ ran \in Nat
  /\ pc = "idle" => ran = 0
  /\ pc \in {"drain", "stream", "tools", "backoff"} => ran <= HardLimit * retries + cur.count
  /\ ran <= HardLimit * retries + HardLimit

LEMMA NothingCounted == NoTurn.count = 0
BY DEF NoTurn

LEMMA ToolInvBounds == ASSUME ToolInv PROVE ToolsBounded
<1>1. retries \in Nat /\ retries <= MaxStreamRetries /\ ran \in Nat
  BY LimitsAreNumbers DEF ToolInv
<1>2. HardLimit * retries <= HardLimit * MaxStreamRetries
  BY <1>1, WithinAll, LimitsAreNumbers
<1>3. HardLimit * (MaxStreamRetries + 1) = HardLimit * MaxStreamRetries + HardLimit
  BY OneMore, LimitsAreNumbers
<1>4. HardLimit * retries \in Nat /\ HardLimit * MaxStreamRetries \in Nat
  BY <1>1, OneMore, LimitsAreNumbers
<1>5. ran <= HardLimit * retries + HardLimit
  BY DEF ToolInv
<1> QED BY <1>1, <1>2, <1>3, <1>4, <1>5, LimitsAreNumbers DEF ToolsBounded, ToolBound

\* The visit is over, or goes on without another call.
Settled ==
  /\ UNCHANGED retries
  /\ \/ pc' = "idle" /\ cur' = NoTurn /\ ran' = 0
     \/ pc' \in {"top", "turned", "recorded", "await", "requesting", "waiting", "judging"}
        /\ cur' \in {cur, NoTurn} /\ UNCHANGED ran

LEMMA SettledKeeps == ASSUME ToolInv, Settled PROVE ToolInv'
<1>1. cur'.count \in 0..HardLimit
  BY NothingCounted, LimitsAreNumbers DEF ToolInv, Settled
<1>2. HardLimit * retries \in Nat
  BY OneMore, LimitsAreNumbers DEF ToolInv
<1>3. CASE pc' = "idle" /\ cur' = NoTurn /\ ran' = 0
  BY <1>1, <1>2, <1>3, LimitsAreNumbers DEF ToolInv, Settled
<1>4. CASE UNCHANGED ran /\ pc' \notin {"idle", "drain", "stream", "tools", "backoff"}
  BY <1>1, <1>4 DEF ToolInv, Settled
<1> QED BY <1>3, <1>4 DEF Settled

LEMMA ProceedSettled == ASSUME NEW got, Proceed(got), UNCHANGED retries PROVE Settled
BY DEF Proceed, Finish, Continue, Block, ToJudge, Settled

\* A batch is the calls that fit under the limit.
LEMMA BatchFits ==
  ASSUME NEW calls \in Seq(Calls), cur.count \in 0..HardLimit
  PROVE  Len(Executed(calls)) \in Nat /\ cur.count + Len(Executed(calls)) <= HardLimit
<1> DEFINE n == Min({Len(calls), HardLimit - cur.count})
<1>1. Len(calls) \in Nat /\ HardLimit - cur.count \in Nat
  BY LimitsAreNumbers
<1>2. n \in Nat /\ n <= Len(calls) /\ n <= HardLimit - cur.count
  BY <1>1, MinOfTwo
<1> HIDE DEF n
<1>3. Len(SubSeq(calls, 1, n)) = n
  BY <1>1, <1>2
<1>4. Executed(calls) = SubSeq(calls, 1, n)
  BY DEF Executed, n
<1> QED BY <1>2, <1>3, <1>4, LimitsAreNumbers

LEMMA ToolStep == ASSUME ToolInv, spec \in Specs, [Next]_vars PROVE ToolInv'
<1>0. HardLimit * retries \in Nat /\ retries \in Nat
  BY OneMore, LimitsAreNumbers DEF ToolInv
<1>1. CASE Begin
  <2>1. pc = "idle" /\ pc' = "top" /\ retries' = 0 /\ UNCHANGED <<cur, ran>>
    BY <1>1 DEF Begin
  <2> QED BY <2>1, LimitsAreNumbers DEF ToolInv
<1>2. CASE Top
  <2>1. pc' \in {"idle", "drain"} /\ retries' = 0 /\ cur' = NoTurn /\ ran' = 0
    BY <1>2 DEF Top, Finish
  <2> QED BY <2>1, NothingCounted, LimitsAreNumbers DEF ToolInv
<1>3. CASE Drain \/ Backoff
  <2>1. pc \in {"drain", "backoff"} /\ pc' \in {"drain", "stream"} /\ UNCHANGED <<retries, cur, ran>>
    BY <1>3 DEF Drain, Backoff, loopVars, turnVars
  <2> QED BY <2>1 DEF ToolInv
<1>4. ASSUME NEW r \in Responses[spec], Respond(r) PROVE ToolInv'
  <2> DEFINE n == Len(Executed(r.calls))
  <2>1. r.calls \in Seq(Calls)
    BY LoopAssumption
  <2>2. n \in Nat /\ cur.count + n <= HardLimit
    BY <2>1, BatchFits DEF ToolInv
  <2>3. cur'.count = cur.count + n
    BY <1>4 DEF Respond
  <2>4. ran' = Min({ran + n, ToolBound + 1})
    BY <1>4 DEF Respond
  <2>5. pc = "stream" /\ pc' \in {"turned", "tools"} /\ UNCHANGED retries
    BY <1>4 DEF Respond
  <2> HIDE DEF n
  <2>6. ToolBound \in Nat
    BY OneMore, LimitsAreNumbers DEF ToolBound
  <2>7. ran' \in Nat /\ ran' <= ran + n
    BY <2>2, <2>4, <2>6, MinOfTwo DEF ToolInv
  <2>8. ran + n <= HardLimit * retries + cur'.count
    BY <1>0, <2>2, <2>3, <2>5 DEF ToolInv
  <2>9. cur'.count \in 0..HardLimit
    BY <2>2, <2>3, LimitsAreNumbers DEF ToolInv
  <2>10. ran' <= HardLimit * retries + cur'.count /\ ran' <= HardLimit * retries + HardLimit
    BY <1>0, <2>2, <2>7, <2>8, <2>9, LimitsAreNumbers DEF ToolInv
  <2> QED BY <2>5, <2>7, <2>9, <2>10 DEF ToolInv
<1>5. CASE ToolsDone
  <2>1. pc = "tools" /\ pc' \in {"turned", "stream"} /\ UNCHANGED <<retries, cur, ran>>
    BY <1>5 DEF ToolsDone, loopVars
  <2> QED BY <2>1 DEF ToolInv
<1>6. CASE TransientError
  <2>1. pc = "stream" /\ pc' = "backoff" /\ retries < MaxStreamRetries
    BY <1>6 DEF TransientError, RetryLeft
  <2>2. retries' = retries + 1 /\ cur' = NoTurn /\ UNCHANGED ran
    BY <1>6 DEF TransientError
  <2>3. HardLimit * retries' = HardLimit * retries + HardLimit
    BY <1>0, <2>2, OneMore, LimitsAreNumbers
  <2>4. cur'.count = 0 /\ ran <= HardLimit * retries + HardLimit
    BY <2>2, NothingCounted DEF ToolInv
  <2> QED BY <1>0, <2>1, <2>2, <2>3, <2>4, LimitsAreNumbers DEF ToolInv
<1>7. CASE PermanentError \/ CancelCurrentTurn
  <2>1. Settled
    BY <1>7 DEF PermanentError, CancelCurrentTurn, Block, Continue, Finish, Settled, loopVars
  <2> QED BY <2>1, SettledKeeps
<1>8. CASE GhostTurn \/ Recorded \/ Judge
  <2>1. Settled
    BY <1>8 DEF GhostTurn, Recorded, Judge, Block, Continue, Finish, ToJudge, Settled, turnVars
  <2> QED BY <2>1, SettledKeeps
<1>9. CASE RealTurn
  <2>1. UNCHANGED retries
    BY <1>9 DEF RealTurn
  <2>2. Finish("stalled") \/ (pc' \in {"await", "recorded"} /\ UNCHANGED <<cur, ran>>)
    BY <1>9 DEF RealTurn, Block
  <2> QED BY <2>1, <2>2, SettledKeeps DEF Settled, Finish
<1>10. CASE Await
  <2>1. UNCHANGED retries
    BY <1>10 DEF Await
  <2>2. Finish("shutdown") \/ Proceed(TRUE) \/ (pc' = "requesting" /\ UNCHANGED <<cur, ran>>)
    BY <1>10 DEF Await
  <2> QED BY <2>1, <2>2, ProceedSettled, SettledKeeps DEF Settled, Finish
<1>11. CASE Woken
  <2>1. Proceed(~shutdown) /\ UNCHANGED retries
    BY <1>11 DEF Woken
  <2> QED BY <2>1, ProceedSettled, SettledKeeps
<1>12. CASE Request
  BY <1>12, SettledKeeps DEF Request, Settled, loopVars, turnVars
<1>13. CASE CancelExecution
  BY <1>13, SettledKeeps DEF CancelExecution, Finish, Settled, loopVars
<1>14. CASE InjectEvent \/ SignalShutdown \/ RequestPause \/ UNCHANGED vars
  <2>1. UNCHANGED <<pc, retries, cur, ran>>
    BY <1>14 DEF InjectEvent, SignalShutdown, RequestPause, vars, loopVars, turnVars
  <2> QED BY <2>1 DEF ToolInv
<1> QED
  BY <1>1, <1>2, <1>3, <1>4, <1>5, <1>6, <1>7, <1>8, <1>9, <1>10, <1>11, <1>12, <1>13, <1>14
     DEF Next, Node

LEMMA SpecStays == ASSUME [Next]_vars PROVE UNCHANGED spec
BY DEF Next, Node, vars, Begin, Top, Drain, Respond, ToolsDone, TransientError, Backoff,
       PermanentError, GhostTurn, RealTurn, Recorded, Await, Request, Woken, Judge, InjectEvent,
       SignalShutdown, CancelCurrentTurn, CancelExecution, RequestPause

\* An iteration executes at most HardLimit tool calls for each attempt at its turn,
\* whatever the limits and the answers are (_run_single_turn()).
THEOREM ToolCallsBounded == Spec => []ToolsBounded
<1>1. Init => ToolInv /\ spec \in Specs
  <2>1. Init => /\ spec \in Specs /\ pc = "idle" /\ retries = 0 /\ ran = 0 /\ cur.count = 0
    BY NothingCounted DEF Init
  <2> QED BY <2>1, LimitsAreNumbers DEF ToolInv
<1>2. ToolInv /\ spec \in Specs /\ [Next]_vars => ToolInv' /\ (spec \in Specs)'
  BY ToolStep, SpecStays
<1>3. ToolInv => ToolsBounded
  BY ToolInvBounds
<1> QED BY <1>1, <1>2, <1>3, PTL DEF Spec

----------------------------------------------------------------------------
(* Conversational nodes.                                                   *)

Ends == {"accepted", "ghost", "escalated"}

Conversational == spec.clientFacing /\ spec.outputs = {} /\ spec.judge \in {"implicit", "skip"}

LEMMA EndsByTurnOrJudge ==
  ASSUME [Next]_vars, result' \in Ends, result' # result PROVE GhostTurn \/ Judge
<1>1. ASSUME NEW got, Proceed(got) PROVE FALSE
  BY <1>1 DEF Proceed, Finish, Ends
<1>2. ~(\E r \in Responses[spec] : Respond(r))
  BY DEF Respond
<1>3. ~Await /\ ~Woken
  BY <1>1 DEF Await, Woken, Finish, Ends
<1>4. ~(Begin \/ Top \/ PermanentError \/ RealTurn \/ CancelCurrentTurn \/ CancelExecution)
  BY DEF Begin, Top, PermanentError, RealTurn, CancelCurrentTurn, CancelExecution, Finish, Ends
<1>5. ~(Drain \/ ToolsDone \/ TransientError \/ Backoff \/ Recorded \/ Request)
  BY DEF Drain, ToolsDone, TransientError, Backoff, Recorded, Request
<1>6. ~(InjectEvent \/ SignalShutdown \/ RequestPause \/ UNCHANGED vars)
  BY DEF InjectEvent, SignalShutdown, RequestPause, vars
<1> QED BY <1>2, <1>3, <1>4, <1>5, <1>6 DEF Next, Node

LEMMA NotByTurn ==
  ASSUME Conversational, GhostTurn, result' \in Ends, result' # result PROVE FALSE
<1>1. Missing = {} /\ ~Done
  BY DEF Conversational, Missing, Done
<1> QED BY <1>1 DEF GhostTurn

LEMMA NotByJudge ==
  ASSUME Conversational, ~complete, Judge, result' \in Ends, result' # result PROVE FALSE
<1>1. Verdicts = {"RETRY"}
  <2>1. spec.judge = "skip" \/ spec.judge = "implicit"
    BY DEF Conversational
  <2>2. CASE spec.judge = "skip"
    BY <2>2 DEF Verdicts
  <2>3. CASE spec.judge = "implicit"
    BY <2>3 DEF Verdicts, Conversational
  <2> QED BY <2>1, <2>2, <2>3
<1>2. PICK v \in Verdicts : v = "ESCALATE" \/ Accepted(v)
  BY DEF Judge
<1> QED BY <1>1, <1>2 DEF Accepted

LEMMA CompleteStays == ASSUME [Next]_vars, complete PROVE complete'
BY DEF Next, Node, vars, flagVars, Begin, Top, Drain, Respond, ToolsDone, TransientError, Backoff,
       PermanentError, GhostTurn, RealTurn, Recorded, Await, Request, Woken, Judge, InjectEvent,
       SignalShutdown, CancelCurrentTurn, CancelExecution, RequestPause

\* A conversational node is never ended by silence, by talk or by its judge
\* (step 6e, _judge_turn()).
THEOREM ConversationsStayAlive == Spec => []ForeverAlive
<1>1. Init => ForeverAlive
  BY DEF Init, ForeverAlive
<1>2. ForeverAlive /\ [Next]_vars => ForeverAlive'
  <2> SUFFICES ASSUME ForeverAlive, [Next]_vars, Conversational', ~complete', result' \in Ends
               PROVE  FALSE
    BY DEF ForeverAlive, Conversational, Ends
  <2>1. Conversational /\ ~complete
    BY SpecStays, CompleteStays DEF Conversational
  <2>2. result' # result
    BY <2>1 DEF ForeverAlive, Conversational, Ends
  <2> QED BY <2>1, <2>2, EndsByTurnOrJudge, NotByTurn, NotByJudge
<1> QED BY <1>1, <1>2, PTL DEF Spec
----------------------------------------------------------------------------
(* Subsequences.                                                           *)

\* The members up to k.
UpTo(K, k) == {j \in K : j <= k}

\* A least number with a property exists.
LEMMA Least ==
  ASSUME NEW S \in SUBSET Nat, S # {} PROVE \E m \in S : \A k \in S : m <= k
<1> DEFINE Less == {ss \in Nat \X Nat : ss[1] < ss[2]}
<1>0. IsWellFoundedOn(Less, Nat)
  BY NatLessThanWellFounded DEF OpToRel
<1> HIDE DEF Less
<1>1. PICK m \in S : \A k \in S : ~(<<k, m>> \in Less)
  BY <1>0, WFMin
<1>2. ASSUME NEW k \in S PROVE m <= k
  <2>1. <<k, m>> \in Nat \X Nat /\ <<k, m>>[1] = k /\ <<k, m>>[2] = m
    OBVIOUS
  <2>2. ~(k < m)
    BY <1>1, <2>1 DEF Less
  <2> QED BY <2>2
<1> QED BY <1>2

LEMMA PlacesFinite ==
  ASSUME NEW n \in Nat, NEW K \in SUBSET (1..n)
  PROVE  IsFiniteSet(K) /\ Cardinality(K) \in Nat
<1>1. IsFiniteSet(1..n)
  BY FS_Interval, 1 \in Int, n \in Int
<1>2. IsFiniteSet(K)
  BY <1>1, FS_Subset
<1> QED BY <1>2, FS_CardinalityType

\* There is an i-th smallest.
LEMMA NthIs ==
  ASSUME NEW n \in Nat, NEW K \in SUBSET (1..n), NEW i \in 1..Cardinality(K)
  PROVE  Nth(K, i) \in K /\ Cardinality(UpTo(K, Nth(K, i))) = i
<1> DEFINE Enough == {k \in 0..n : Cardinality(UpTo(K, k)) >= i}
<1>0. IsFiniteSet(K) /\ Cardinality(K) \in Nat
  BY PlacesFinite
<1>1. UpTo(K, n) = K /\ UpTo(K, 0) = {}
  <2>1. \A j \in K : j \in Nat /\ j <= n /\ ~(j <= 0)
    OBVIOUS
  <2> QED BY <2>1 DEF UpTo
<1>2. n \in Enough /\ Enough \subseteq Nat
  BY <1>0, <1>1
<1>3. PICK m \in Enough : \A k \in Enough : m <= k
  <2> HIDE DEF Enough
  <2> QED BY <1>2, Least
<1>4. m \in 0..n /\ Cardinality(UpTo(K, m)) >= i
  OBVIOUS
<1>5. m # 0
  BY <1>1, <1>4, FS_EmptySet
<1>6. m - 1 \in 0..n /\ ~(Cardinality(UpTo(K, m - 1)) >= i)
  BY <1>3, <1>4, <1>5
<1>7. /\ UpTo(K, m) = UpTo(K, m - 1) \cup ({m} \cap K)
      /\ m \notin UpTo(K, m - 1)
  <2>1. ASSUME NEW j \in K PROVE j <= m <=> (j <= m - 1 \/ j = m)
    BY <1>4
  <2>2. ~(m <= m - 1)
    BY <1>4
  <2> QED BY <2>1, <2>2 DEF UpTo
<1>8. /\ IsFiniteSet(UpTo(K, m - 1)) /\ Cardinality(UpTo(K, m - 1)) \in Nat
      /\ Cardinality(UpTo(K, m)) \in Nat
  <2>1. UpTo(K, m - 1) \in SUBSET (1..n) /\ UpTo(K, m) \in SUBSET (1..n)
    BY DEF UpTo
  <2> QED BY <2>1, PlacesFinite
<1>9. m \in K
  <2>1. SUFFICES ASSUME m \notin K PROVE FALSE
    OBVIOUS
  <2>2. UpTo(K, m) = UpTo(K, m - 1)
    BY <1>7, <2>1
  <2> QED BY <1>4, <1>6, <2>2
<1>10. Cardinality(UpTo(K, m)) = Cardinality(UpTo(K, m - 1)) + 1
  <2>1. UpTo(K, m) = UpTo(K, m - 1) \cup {m}
    BY <1>7, <1>9
  <2> QED BY <1>7, <1>8, <2>1, FS_AddElement
<1>11. m \in K /\ Cardinality(UpTo(K, m)) = i
  BY <1>4, <1>6, <1>8, <1>9, <1>10, <1>0
<1> QED BY <1>11 DEF Nth, UpTo

LEMMA SubsequenceType ==
  ASSUME NEW S, NEW s \in Seq(S), NEW K \in SUBSET (DOMAIN s)
  PROVE  Subsequence(s, K) \in Seq(S)
<1>1. DOMAIN s = 1..Len(s) /\ Len(s) \in Nat
  OBVIOUS
<1>2. Cardinality(K) \in Nat
  BY <1>1, PlacesFinite
<1>3. ASSUME NEW i \in 1..Cardinality(K) PROVE s[Nth(K, i)] \in S
  <2>1. Nth(K, i) \in K
    BY <1>1, NthIs
  <2> QED BY <1>1, <2>1
<1>4. Subsequence(s, K) \in [1..Cardinality(K) -> S]
  BY <1>3 DEF Subsequence
<1> QED BY <1>2, <1>4
----------------------------------------------------------------------------
(* Type correctness.                                                       *)

Places == {"idle", "top", "drain", "stream", "tools", "backoff", "turned", "recorded",
           "await", "requesting", "waiting", "judging"}

\* The counters and flags of the loop.
ControlInv ==
  /\ spec \in Specs
  /\ pc \in Places /\ why \in Waits \cup {"none"}
  /\ visits \in 0..MaxVisits
  /\ iteration \in 0..MaxIterations
  /\ pc \notin {"idle", "top"} => iteration < MaxIterations
  /\ streak \in Nat /\ empties \in 0..StallThreshold
  /\ {shutdown, complete, paused, owed} \subseteq BOOLEAN
  /\ result \in Results

\* What the turns leave behind.
TurnInv ==
  /\ cur \in Turns /\ turn \in Turns
  /\ values \subseteq OutputKeys
  /\ recent \in Seq(Texts) /\ prints \in Seq(Seq(Calls))

TypeInv == ControlInv /\ TurnInv /\ MailInv /\ ToolInv /\ read \in Seq(1..MaxMessages)

LEMMA BoundsAreNumbers ==
  /\ MaxIterations \in Nat /\ GraceTurns \in Nat /\ MaxVisits \in Nat
  /\ StallThreshold \in Nat /\ StallThreshold > 0 /\ DoomThreshold \in Nat /\ DoomThreshold > 0
BY LoopAssumption

LEMMA NoTurnType == NoTurn \in Turns
<1>1. <<>> \in Seq(Calls)
  OBVIOUS
<1>2. NoText \in Texts
  BY DEF Texts
<1> QED BY <1>1, <1>2 DEF NoTurn, Turns

LEMMA TypeInvSuffices == ASSUME TypeInv PROVE TypeOK
<1>1. retries \in 0..MaxStreamRetries /\ ran \in Nat /\ ran <= ToolBound
  BY ToolInvBounds DEF TypeInv, ToolInv, ToolsBounded
<1>2. ToolBound \in Nat
  BY OneMore, LimitsAreNumbers DEF ToolBound
<1>3. ran \in 0..ToolBound + 1
  BY <1>1, <1>2
<1> QED BY <1>1, <1>3 DEF TypeInv, ControlInv, TurnInv, MailInv, TypeOK, Places

LEMMA InitType == ASSUME Init PROVE TypeInv
<1>1. MailInv
  BY InitMail
<1>2. ToolInv
  <2>1. pc = "idle" /\ retries = 0 /\ ran = 0 /\ cur.count = 0
    BY NothingCounted DEF Init
  <2> QED BY <2>1, LimitsAreNumbers DEF ToolInv
<1>3. ControlInv
  <2>1. /\ spec \in Specs /\ pc = "idle" /\ why = "none" /\ visits = 0 /\ result = "none"
        /\ iteration = 0 /\ streak = 0 /\ empties = 0
        /\ shutdown = FALSE /\ complete = FALSE /\ paused = FALSE /\ owed = FALSE
    BY DEF Init
  <2>2. {shutdown, complete, paused, owed} \subseteq BOOLEAN
    BY <2>1
  <2>3. spec \in Specs /\ pc \in Places /\ why \in Waits \cup {"none"} /\ result \in Results
    BY <2>1 DEF Places, Results
  <2>4. visits \in 0..MaxVisits /\ iteration \in 0..MaxIterations /\ streak \in Nat /\ empties \in 0..StallThreshold
    BY <2>1, BoundsAreNumbers
  <2> QED BY <2>1, <2>2, <2>3, <2>4 DEF ControlInv
<1>4. TurnInv
  <2>1. cur = NoTurn /\ turn = NoTurn /\ values = {} /\ recent = <<>> /\ prints = <<>>
    BY DEF Init
  <2> QED BY <2>1, NoTurnType DEF TurnInv
<1>5. read \in Seq(1..MaxMessages)
  BY DEF Init
<1> QED BY <1>1, <1>2, <1>3, <1>4, <1>5 DEF TypeInv

\* A step of the loop itself: where it goes, and that an iteration is begun only
\* after the one before it.
Onwards ==
  /\ UNCHANGED <<spec, visits>>
  /\ pc' \in Places /\ why' \in Waits \cup {"none"}
  /\ \/ UNCHANGED iteration /\ (pc' \in {"idle", "top"} \/ pc \notin {"idle", "top"} \/ iteration < MaxIterations)
     \/ pc \notin {"idle", "top"} /\ pc' = "top" /\ iteration' = iteration + 1
  /\ result' \in Results

LEMMA OnwardsKeeps ==
  ASSUME ControlInv, Onwards, streak' \in Nat, empties' \in 0..StallThreshold,
         {shutdown', complete', paused', owed'} \subseteq BOOLEAN
  PROVE  ControlInv'
<1>1. visits' \in 0..MaxVisits /\ spec' \in Specs
  BY DEF Onwards, ControlInv
<1>2. iteration' \in 0..MaxIterations /\ (pc' \notin {"idle", "top"} => iteration' < MaxIterations)
  BY BoundsAreNumbers DEF Onwards, ControlInv
<1> QED BY <1>1, <1>2 DEF Onwards, ControlInv

LEMMA ProceedOnwards ==
  ASSUME ControlInv, pc \in {"await", "waiting"}, NEW got, Proceed(got), UNCHANGED <<spec, visits>>
  PROVE  Onwards /\ streak' \in Nat /\ empties' \in 0..StallThreshold
<1> USE DEF Places, Waits, Results, Onwards
<1>1. CASE why \in Heeding /\ ~got /\ Finish("shutdown") /\ UNCHANGED <<iteration, streak, empties>>
  BY <1>1 DEF Finish, ControlInv
<1>2. CASE why = "error" /\ UNCHANGED <<iteration, streak, empties>>
           /\ (Finish("error") \/ (pc' = "turned" /\ why' = "none" /\ UNCHANGED result))
  BY <1>2 DEF Finish, ControlInv
<1>3. CASE empties' \in {0, empties} /\ Continue /\ UNCHANGED <<streak, result>>
  BY <1>3, BoundsAreNumbers DEF Continue, ControlInv
<1>4. CASE pc' = "recorded" /\ why' = "none" /\ UNCHANGED <<iteration, streak, empties, result>>
  BY <1>4 DEF ControlInv
<1>5. CASE /\ streak' \in {0, streak} /\ UNCHANGED <<empties, result>>
           /\ \/ Continue
              \/ pc' = "await" /\ why' = "guidance" /\ UNCHANGED iteration
              \/ pc' = "judging" /\ why' = "none" /\ UNCHANGED iteration
  BY <1>5, BoundsAreNumbers DEF Continue, ControlInv
<1>6. CASE why \in {"cancelled", "empty"} /\ Proceed(got)
  <2>1. empties' \in {0, empties} /\ Continue /\ UNCHANGED <<streak, result>>
    BY <1>6 DEF Proceed, Heeding
  <2> QED BY <2>1, <1>3
<1>7. CASE why \in {"ask", "auto", "guidance"} /\ got /\ Proceed(got)
  <2>1. /\ streak' \in {0, streak} /\ UNCHANGED <<empties, result>>
        /\ \/ Continue
           \/ pc' = "await" /\ why' = "guidance" /\ UNCHANGED iteration
           \/ pc' = "judging" /\ why' = "none" /\ UNCHANGED iteration
    BY <1>7 DEF Proceed, ToJudge, Block
  <2> QED BY <2>1, <1>5
<1>8. CASE why \in Heeding /\ ~got /\ Proceed(got)
  BY <1>1, <1>8 DEF Proceed, Heeding
<1>9. CASE why = "error" /\ Proceed(got)
  BY <1>2, <1>9 DEF Proceed, Heeding
<1>10. CASE why = "doom" /\ Proceed(got)
  BY <1>4, <1>10 DEF Proceed, Heeding
<1>11. why \in {"error", "cancelled", "empty", "doom", "ask", "auto", "guidance"}
  BY DEF Proceed, Heeding
<1> QED BY <1>6, <1>7, <1>8, <1>9, <1>10, <1>11 DEF Heeding

LEMMA ControlStep == ASSUME TypeInv, [Next]_vars PROVE ControlInv'
<1>0. ControlInv
  BY DEF TypeInv
<1>a. 0 \in Nat /\ 0 \in 0..StallThreshold /\ streak \in Nat /\ empties \in 0..StallThreshold
  BY <1>0, BoundsAreNumbers DEF ControlInv
<1>b. {shutdown, complete, paused, owed} \subseteq BOOLEAN
  BY <1>0 DEF ControlInv
<1>1. CASE Begin
  <2>1. /\ visits' = visits + 1 /\ visits < MaxVisits /\ UNCHANGED <<spec, why, flagVars>>
        /\ pc' = "top" /\ result' = "none" /\ iteration' = 0 /\ streak' = 0 /\ empties' = 0
        /\ owed' = FALSE
    BY <1>1 DEF Begin
  <2>2. {shutdown', complete', paused', owed'} \subseteq BOOLEAN
    BY <1>b, <2>1 DEF flagVars
  <2>3. spec' \in Specs /\ pc' \in Places /\ why' \in Waits \cup {"none"} /\ result' \in Results
    BY <1>0, <2>1 DEF ControlInv, Places, Results
  <2>4. /\ visits' \in 0..MaxVisits /\ iteration' \in 0..MaxIterations
        /\ streak' \in Nat /\ empties' \in 0..StallThreshold
    BY <1>0, <2>1, BoundsAreNumbers DEF ControlInv
  <2> QED BY <2>1, <2>2, <2>3, <2>4 DEF ControlInv
<1>2. CASE Top
  <2>1. Onwards
    BY <1>0, <1>2, BoundsAreNumbers DEF Top, Finish, Onwards, ControlInv, Places, Results, Waits
  <2>2. UNCHANGED <<streak, empties, flagVars, owed>>
    BY <1>2 DEF Top
  <2> QED BY <1>0, <1>a, <1>b, <2>1, <2>2, OnwardsKeeps DEF flagVars
<1>3. CASE Drain \/ Backoff \/ Request
  <2>1. /\ pc \in {"drain", "backoff", "requesting"} /\ pc' \in {"drain", "stream", "waiting"}
        /\ UNCHANGED <<spec, visits, iteration, why, result>>
    BY <1>3 DEF Drain, Backoff, Request, loopVars
  <2>2. UNCHANGED <<streak, empties, flagVars>> /\ owed' \in {FALSE, owed}
    BY <1>3 DEF Drain, Backoff, Request, loopVars
  <2>3. Onwards
    BY <1>0, <2>1 DEF Onwards, ControlInv, Places
  <2> QED BY <1>0, <1>a, <1>b, <2>2, <2>3, OnwardsKeeps DEF flagVars
<1>4. ASSUME NEW r \in Responses[spec], Respond(r) PROVE ControlInv'
  <2>1. pc = "stream" /\ pc' \in {"turned", "tools"} /\ UNCHANGED <<spec, visits, iteration, why, result>>
    BY <1>4 DEF Respond
  <2>2. UNCHANGED <<streak, empties, shutdown, paused, owed>> /\ complete' \in BOOLEAN
    BY <1>4 DEF Respond
  <2>3. Onwards
    BY <1>0, <2>1 DEF Onwards, ControlInv, Places
  <2> QED BY <1>0, <1>a, <1>b, <2>2, <2>3, OnwardsKeeps
<1>5. CASE ToolsDone
  <2>1. pc = "tools" /\ pc' \in {"turned", "stream"} /\ UNCHANGED <<spec, visits, iteration, why, result>>
    BY <1>5 DEF ToolsDone, loopVars
  <2>2. UNCHANGED <<streak, empties, flagVars, owed>>
    BY <1>5 DEF ToolsDone, loopVars
  <2>3. Onwards
    BY <1>0, <2>1 DEF Onwards, ControlInv, Places
  <2> QED BY <1>0, <1>a, <1>b, <2>2, <2>3, OnwardsKeeps DEF flagVars
<1>6. CASE TransientError
  <2>1. pc = "stream" /\ pc' = "backoff" /\ UNCHANGED <<spec, visits, iteration, why, result>>
    BY <1>6 DEF TransientError
  <2>2. UNCHANGED <<streak, empties, flagVars, owed>>
    BY <1>6 DEF TransientError
  <2>3. Onwards
    BY <1>0, <2>1 DEF Onwards, ControlInv, Places
  <2> QED BY <1>0, <1>a, <1>b, <2>2, <2>3, OnwardsKeeps DEF flagVars
<1>7. CASE PermanentError \/ CancelCurrentTurn \/ CancelExecution
  <2>1. Onwards
    BY <1>0, <1>7 DEF PermanentError, CancelCurrentTurn, CancelExecution, Block, Continue, Finish,
       Onwards, ControlInv, Places, Results, Waits, loopVars
  <2>2. UNCHANGED <<streak, empties, flagVars, owed>>
    BY <1>7 DEF PermanentError, CancelCurrentTurn, CancelExecution, loopVars
  <2> QED BY <1>0, <1>a, <1>b, <2>1, <2>2, OnwardsKeeps DEF flagVars
<1>8. CASE GhostTurn
  <2>1. Onwards
    BY <1>0, <1>8 DEF GhostTurn, Block, Continue, Finish, Onwards, ControlInv, Places, Results, Waits
  <2>2. UNCHANGED <<streak, flagVars, owed>> /\ empties' \in 0..StallThreshold
    BY <1>8, <1>a, BoundsAreNumbers DEF GhostTurn
  <2> QED BY <1>0, <1>a, <1>b, <2>1, <2>2, OnwardsKeeps DEF flagVars
<1>9. CASE RealTurn
  <2>1. pc = "turned" /\ UNCHANGED <<spec, visits, iteration, flagVars, owed>>
    BY <1>9 DEF RealTurn
  <2>2. \/ pc' = "idle" /\ why' = "none" /\ result' = "stalled"
        \/ pc' = "await" /\ why' = "doom" /\ UNCHANGED result
        \/ pc' = "recorded" /\ UNCHANGED <<why, result>>
    BY <1>9 DEF RealTurn, Finish, Block
  <2>3. empties' = 0 /\ streak' \in {0, streak}
    BY <1>9 DEF RealTurn
  <2>4. Onwards
    BY <1>0, <2>1, <2>2 DEF Onwards, ControlInv, Places, Results, Waits
  <2> QED BY <1>0, <1>a, <1>b, <2>1, <2>3, <2>4, OnwardsKeeps DEF flagVars
<1>10. CASE Recorded
  <2>1. Onwards
    BY <1>0, <1>10 DEF Recorded, Block, Continue, ToJudge, Onwards, ControlInv, Places, Waits
  <2>2. streak' \in {streak, streak + 1} /\ UNCHANGED <<empties, flagVars>>
    BY <1>10 DEF Recorded
  <2>3. owed' \in BOOLEAN
    BY <1>10 DEF Recorded
  <2> QED BY <1>0, <1>a, <1>b, <2>1, <2>2, <2>3, OnwardsKeeps DEF flagVars
<1>11. CASE Await
  <2>1. pc = "await" /\ UNCHANGED <<spec, visits, flagVars, owed>>
    BY <1>11 DEF Await
  <2>2. CASE Proceed(TRUE)
    BY <1>0, <1>b, <2>1, <2>2, ProceedOnwards, OnwardsKeeps DEF flagVars
  <2>3. CASE /\ UNCHANGED <<iteration, streak, empties>>
             /\ (Finish("shutdown") \/ (pc' = "requesting" /\ UNCHANGED <<why, result>>))
    <3>1. Onwards
      BY <1>0, <2>1, <2>3 DEF Finish, Onwards, ControlInv, Places, Results
    <3> QED BY <1>0, <1>a, <1>b, <2>1, <2>3, <3>1, OnwardsKeeps DEF flagVars
  <2> QED BY <1>11, <2>2, <2>3 DEF Await
<1>12. CASE Woken
  <2>1. pc = "waiting" /\ UNCHANGED <<spec, visits, flagVars, owed>> /\ Proceed(~shutdown)
    BY <1>12 DEF Woken
  <2> QED BY <1>0, <1>b, <2>1, ProceedOnwards, OnwardsKeeps DEF flagVars
<1>13. CASE Judge
  <2>1. Onwards
    BY <1>0, <1>13 DEF Judge, Continue, Finish, Onwards, ControlInv, Places, Results, Waits
  <2>2. UNCHANGED <<streak, empties, flagVars, owed>>
    BY <1>13 DEF Judge
  <2> QED BY <1>0, <1>a, <1>b, <2>1, <2>2, OnwardsKeeps DEF flagVars
<1>14. CASE InjectEvent \/ SignalShutdown \/ RequestPause \/ UNCHANGED vars
  <2>1. /\ UNCHANGED <<spec, visits, iteration, pc, why, result, streak, empties, complete, owed>>
        /\ shutdown' \in {TRUE, shutdown} /\ paused' \in {TRUE, paused}
    BY <1>14 DEF InjectEvent, SignalShutdown, RequestPause, vars, loopVars, flagVars
  <2> QED BY <1>0, <2>1 DEF ControlInv
<1> QED
  BY <1>1, <1>2, <1>3, <1>4, <1>5, <1>6, <1>7, <1>8, <1>9, <1>10, <1>11, <1>12, <1>13, <1>14
     DEF Next, Node

LEMMA WindowType ==
  ASSUME NEW S, NEW s \in Seq(S), NEW e \in S, NEW n \in Nat PROVE Window(s, e, n) \in Seq(S)
<1> DEFINE all == Append(s, e)
<1>1. all \in Seq(S) /\ all # <<>>
  <2>1. Len(all) = Len(s) + 1 /\ Len(s) \in Nat
    OBVIOUS
  <2>2. Len(<<>>) = 0
    OBVIOUS
  <2> QED BY <2>1, <2>2
<1>2. Tail(all) \in Seq(S)
  <2> HIDE DEF all
  <2> QED BY <1>1
<1> QED BY <1>1, <1>2 DEF Window

LEMMA PartType ==
  ASSUME NEW S, NEW s \in Seq(S), NEW m \in Nat, NEW n \in 0..Len(s)
  PROVE  SubSeq(s, m + 1, n) \in Seq(S)
<1>1. ASSUME NEW i \in (m + 1)..n PROVE i \in 1..Len(s) /\ s[i] \in S
  <2>1. i \in 1..Len(s)
    BY <1>1
  <2> QED BY <2>1
<1> QED BY <1>1, SubSeqProperties

\* The calls executed, and those discarded.
LEMMA BatchType ==
  ASSUME NEW calls \in Seq(Calls), cur.count \in 0..HardLimit
  PROVE  /\ Executed(calls) \in Seq(Calls)
         /\ SubSeq(calls, Len(Executed(calls)) + 1, Len(calls)) \in Seq(Calls)
<1> DEFINE n == Min({Len(calls), HardLimit - cur.count})
<1>1. Len(calls) \in Nat /\ HardLimit - cur.count \in Nat
  BY LimitsAreNumbers
<1>2. n \in 0..Len(calls)
  BY <1>1, MinOfTwo
<1> HIDE DEF n
<1>3. SubSeq(calls, 0 + 1, n) \in Seq(Calls)
  BY <1>2, PartType
<1>4. Executed(calls) = SubSeq(calls, 1, n)
  BY DEF Executed, n
<1>5. Len(Executed(calls)) \in Nat
  BY BatchFits
<1>6. SubSeq(calls, Len(Executed(calls)) + 1, Len(calls)) \in Seq(Calls)
  BY <1>1, <1>5, PartType
<1> QED BY <1>3, <1>4, <1>6

LEMMA OnlyType == ASSUME NEW calls \in Seq(Calls), NEW tools PROVE Only(calls, tools) \in Seq(Calls)
<1> DEFINE K == {i \in DOMAIN calls : calls[i].tool \in tools}
<1>1. K \in SUBSET (DOMAIN calls)
  OBVIOUS
<1> HIDE DEF K
<1>2. Subsequence(calls, K) \in Seq(Calls)
  BY <1>1, SubsequenceType
<1> QED BY <1>2 DEF Only, K

\* The three locals of execute() that windows keep, and the accumulator, stay; the
\* turn goes on, is given up, or returns.
Kept ==
  /\ UNCHANGED values
  /\ cur' \in {cur, NoTurn} /\ turn' \in {turn, cur, NoTurn}
  /\ recent' \in {recent, <<>>} /\ prints' \in {prints, <<>>}

LEMMA KeptKeeps == ASSUME TurnInv, Kept PROVE TurnInv'
<1>1. <<>> \in Seq(Texts) /\ <<>> \in Seq(Seq(Calls))
  OBVIOUS
<1> QED BY <1>1, NoTurnType DEF TurnInv, Kept

LEMMA ProceedKept == ASSUME NEW got, Proceed(got), UNCHANGED <<values, turn>> PROVE Kept
<1>1. cur' \in {cur, NoTurn}
  BY ProceedTurn
<1>2. recent' \in {recent, <<>>} /\ prints' \in {prints, <<>>}
  BY DEF Proceed
<1> QED BY <1>1, <1>2 DEF Kept

LEMMA RespondType ==
  ASSUME TypeInv, NEW r \in Responses[spec], Respond(r) PROVE TurnInv'
<1> DEFINE batch   == Executed(r.calls)
           skipped == SubSeq(r.calls, Len(batch) + 1, Len(r.calls))
           log     == cur.log \o Only(batch, {"delegate"}) \o Only(batch, {"real"})
                        \o Only(skipped, {"real", "delegate", "report"})
<1>1. spec \in Specs /\ cur \in Turns /\ cur.count \in 0..HardLimit /\ TurnInv
  BY DEF TypeInv, ControlInv, TurnInv, ToolInv
<1>2. r.calls \in Seq(Calls) /\ r.text \in Texts
  BY <1>1, LoopAssumption DEF Texts
<1>3. batch \in Seq(Calls) /\ skipped \in Seq(Calls)
  BY <1>1, <1>2, BatchType
<1>4. Len(batch) \in Nat
  BY <1>1, <1>2, BatchFits
<1>5. UNCHANGED <<recent, prints>> /\ (turn' = cur' \/ UNCHANGED turn)
  BY DEF Respond
<1>6. values' = values \cup KeysSet(batch)
  BY DEF Respond
<1>7. cur' = [count     |-> cur.count + Len(batch),
              text      |-> r.text,
              set       |-> cur.set \/ KeysSet(batch) # {},
              asked     |-> Asks(batch),
              escalated |-> cur.escalated \/ (Has(batch, "escalate") /\ CanEscalate),
              reported  |-> cur.reported \/ Has(batch, "report"),
              tools     |-> Has(batch, "real"),
              limited   |-> skipped # <<>>,
              log       |-> log]
  BY DEF Respond
<1> HIDE DEF batch, skipped
<1>8. log \in Seq(Calls)
  <2>1. /\ Only(batch, {"delegate"}) \in Seq(Calls) /\ Only(batch, {"real"}) \in Seq(Calls)
        /\ Only(skipped, {"real", "delegate", "report"}) \in Seq(Calls)
    BY <1>3, OnlyType
  <2>2. cur.log \in Seq(Calls)
    BY <1>1 DEF Turns
  <2> QED BY <2>1, <2>2
<1> HIDE DEF log
<1>9. Asks(batch) \in BOOLEAN
  <2>1. cur.asked \in BOOLEAN
    BY <1>1 DEF Turns
  <2> QED BY <2>1 DEF Asks
<1>10. cur' \in Turns
  <2>1. cur.count + Len(batch) \in Nat
    BY <1>1, <1>4, LimitsAreNumbers
  <2>2. /\ (cur.set \/ KeysSet(batch) # {}) \in BOOLEAN
        /\ (cur.escalated \/ (Has(batch, "escalate") /\ CanEscalate)) \in BOOLEAN
        /\ (cur.reported \/ Has(batch, "report")) \in BOOLEAN
        /\ Has(batch, "real") \in BOOLEAN /\ (skipped # <<>>) \in BOOLEAN
    BY DEF Has
  <2> QED BY <1>2, <1>7, <1>8, <1>9, <2>1, <2>2 DEF Turns
<1>11. values' \subseteq OutputKeys
  <2>1. spec.outputs \subseteq OutputKeys
    BY <1>1, LoopAssumption
  <2> QED BY <1>1, <1>6, <2>1 DEF KeysSet, TurnInv
<1> QED BY <1>1, <1>5, <1>10, <1>11 DEF TurnInv

LEMMA RealTurnType == ASSUME TypeInv, RealTurn PROVE TurnInv'
<1>0. TurnInv
  BY DEF TypeInv
<1> DEFINE texts == Window(recent, turn.text, StallThreshold)
           logs  == IF turn.log = <<>> THEN <<>> ELSE Window(prints, turn.log, DoomThreshold)
<1>1. turn.text \in Texts /\ turn.log \in Seq(Calls)
  BY <1>0 DEF TurnInv, Turns
<1>2. texts \in Seq(Texts)
  BY <1>0, <1>1, WindowType, BoundsAreNumbers DEF TurnInv
<1>3. logs \in Seq(Seq(Calls))
  <2>1. Window(prints, turn.log, DoomThreshold) \in Seq(Seq(Calls))
    BY <1>0, <1>1, WindowType, BoundsAreNumbers DEF TurnInv
  <2> QED BY <2>1
<1>4. /\ recent' \in {texts, <<>>} /\ prints' \in {prints, logs, <<>>}
      /\ cur' \in {cur, NoTurn} /\ UNCHANGED <<turn, values>>
  BY DEF RealTurn, Finish
<1> HIDE DEF texts, logs
<1>5. <<>> \in Seq(Texts) /\ <<>> \in Seq(Seq(Calls))
  OBVIOUS
<1> QED BY <1>0, <1>2, <1>3, <1>4, <1>5, NoTurnType DEF TurnInv

LEMMA TurnStep == ASSUME TypeInv, [Next]_vars PROVE TurnInv'
<1>0. TurnInv
  BY DEF TypeInv
<1> USE DEF Kept
<1>1. CASE Begin
  <2>1. UNCHANGED cur /\ turn' = NoTurn /\ values' = {} /\ recent' = <<>> /\ prints' = <<>>
    BY <1>1 DEF Begin
  <2>2. <<>> \in Seq(Texts) /\ <<>> \in Seq(Seq(Calls))
    OBVIOUS
  <2> QED BY <1>0, <2>1, <2>2, NoTurnType DEF TurnInv
<1>2. CASE Top \/ Drain \/ ToolsDone \/ TransientError \/ Backoff \/ PermanentError \/ Request
  <2>1. Kept
    BY <1>2 DEF Top, Finish, Drain, ToolsDone, TransientError, Backoff, PermanentError, Request, loopVars, turnVars
  <2> QED BY <1>0, <2>1, KeptKeeps
<1>3. ASSUME NEW r \in Responses[spec], Respond(r) PROVE TurnInv'
  BY <1>3, RespondType
<1>4. CASE RealTurn
  BY <1>4, RealTurnType
<1>5. CASE GhostTurn \/ Recorded \/ Judge
  <2>1. Kept
    BY <1>5 DEF GhostTurn, Recorded, Judge, Finish, turnVars
  <2> QED BY <1>0, <2>1, KeptKeeps
<1>6. CASE Await
  <2>1. UNCHANGED <<values, turn>>
    BY <1>6 DEF Await
  <2>2. Proceed(TRUE) \/ (UNCHANGED <<recent, prints>> /\ cur' \in {cur, NoTurn})
    BY <1>6 DEF Await, Finish
  <2> QED BY <1>0, <2>1, <2>2, ProceedKept, KeptKeeps
<1>7. CASE Woken
  <2>1. UNCHANGED <<values, turn>> /\ Proceed(~shutdown)
    BY <1>7 DEF Woken
  <2> QED BY <1>0, <2>1, ProceedKept, KeptKeeps
<1>8. CASE CancelCurrentTurn \/ CancelExecution
  <2>1. Kept
    BY <1>8 DEF CancelCurrentTurn, CancelExecution, Finish, loopVars
  <2> QED BY <1>0, <2>1, KeptKeeps
<1>9. CASE InjectEvent \/ SignalShutdown \/ RequestPause \/ UNCHANGED vars
  <2>1. Kept
    BY <1>9 DEF InjectEvent, SignalShutdown, RequestPause, vars, loopVars, turnVars
  <2> QED BY <1>0, <2>1, KeptKeeps
<1> QED
  BY <1>1, <1>2, <1>3, <1>4, <1>5, <1>6, <1>7, <1>8, <1>9 DEF Next, Node

LEMMA ReadStep == ASSUME TypeInv, [Next]_vars PROVE read' \in Seq(1..MaxMessages)
<1>1. queue \in Seq(1..MaxMessages) /\ read \in Seq(1..MaxMessages)
  BY DEF TypeInv, MailInv
<1>2. CASE queue # <<>> /\ read' = Append(read, Head(queue))
  <2>1. Head(queue) \in 1..MaxMessages
    BY <1>1, <1>2, HeadTailProperties
  <2> QED BY <1>1, <1>2, <2>1
<1>3. UNCHANGED read \/ (queue # <<>> /\ read' = Append(read, Head(queue)))
  BY DEF Next, Node, vars, mailVars, Begin, Top, Drain, Respond, ToolsDone, TransientError,
     Backoff, PermanentError, GhostTurn, RealTurn, Recorded, Await, Request, Woken, Judge,
     InjectEvent, SignalShutdown, CancelCurrentTurn, CancelExecution, RequestPause
<1> QED BY <1>1, <1>2, <1>3

\* The node's state has its types, the retries and empty turns are within their
\* limits, and no iteration begins beyond the last, whatever the limits are.
THEOREM TypeCorrect == Spec => []TypeOK
<1>1. Init => TypeInv
  BY InitType
<1>2. TypeInv /\ [Next]_vars => TypeInv'
  <2> SUFFICES ASSUME TypeInv, [Next]_vars PROVE TypeInv'
    OBVIOUS
  <2>1. MailInv' /\ ToolInv'
    BY MailStep, ToolStep DEF TypeInv, ControlInv
  <2> QED BY <2>1, ControlStep, TurnStep, ReadStep DEF TypeInv
<1>3. TypeInv => TypeOK
  BY TypeInvSuffices
<1> QED BY <1>1, <1>2, <1>3, PTL DEF Spec
=============================================================================
