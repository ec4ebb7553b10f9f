--------------------------- MODULE EventLoopNode ---------------------------
(***************************************************************************)
(* EventLoopNode (core/framework/graph/event_loop_node.py): the loop that  *)
(* drains injected messages, streams an LLM turn with its tool calls,      *)
(* guards against empty, repeated and doomed turns, blocks for the user or *)
(* for the queen, and asks a judge whether the node is done.  The node     *)
(* object outlives a visit: injected messages, the shutdown flag and the   *)
(* complete flag are kept from one execute() to the next.                  *)
(*                                                                         *)
(* A location of pc is an await of the code, except "top", the head of the *)
(* for loop.  Texts and tools are names; the similarity of texts is        *)
(* equality; the conversation and its files are in module Conversation.    *)
(* Visits start afresh, as in continuous mode.                             *)
(***************************************************************************)
EXTENDS Integers, Sequences, FiniteSetsExt, Subsequences

CONSTANTS
  Specs,            \* what a node may be declared as
  Responses,        \* spec -> what the LLM may answer: [text, calls]
  OutputKeys,
  MaxIterations, JudgeEvery, StallThreshold, DoomThreshold, GraceTurns, MaxStreamRetries,  \* LoopConfig
  HardLimit,        \* max_tool_calls_per_turn with its overflow margin
  Disturbances,     \* which of "shutdown", "turn", "execution", "pause" happen
  MaxMessages,      \* bound: messages ever injected
  MaxVisits         \* bound: calls of execute()

Calls == [tool : {"set_output", "ask_user", "escalate", "delegate", "report", "real"}, arg : STRING]

ASSUME LoopAssumption ==
  /\ \A s \in Specs : \A r \in Responses[s] : r.calls \in Seq(Calls)
  /\ \A s \in Specs :
       /\ {s.clientFacing, s.eventTriggered, s.subagent, s.bus} \subseteq BOOLEAN
       /\ s.stream \in {"queen", "judge", "worker"}
       /\ s.judge \in {"implicit", "criteria", "custom", "subagent", "skip"}
       /\ s.outputs \subseteq OutputKeys /\ s.nullable \subseteq s.outputs
  /\ {MaxIterations, GraceTurns, MaxStreamRetries, HardLimit, MaxMessages, MaxVisits} \subseteq Nat
  /\ {JudgeEvery, StallThreshold, DoomThreshold} \subseteq Nat \ {0}

VARIABLES
  spec,       \* ctx.node_spec and what else is fixed for the node
  pc,         \* where execute() is suspended
  why,        \* what _await_user_input() was called for
  visits,     \* how often execute() was called
  iteration,  \* iteration
  retries,    \* _stream_retry_count
  cur,        \* the turn under way
  turn,       \* the last turn that returned: locals of execute(), or NoTurn
  values,     \* the output keys the accumulator holds
  streak,     \* _cf_text_only_streak
  empties,    \* _consecutive_empty_turns
  recent,     \* recent_responses
  prints,     \* recent_tool_fingerprints
  queue,      \* _injection_queue
  ready,      \* _input_ready
  shutdown,   \* _shutdown
  complete,   \* _mark_complete_flag
  paused,     \* ctx.pause_event
  result,     \* how the last visit ended
  sent,       \* history: number of messages injected
  read,       \* history: messages drained
  owed,       \* history: the node asked or escalated and has not read a message since
  ran         \* history: tool calls executed in this iteration

loopVars == <<iteration, retries, values, streak, empties, recent, prints>>
turnVars == <<cur, turn, ran>>
mailVars == <<queue, ready, sent, read>>
flagVars == <<shutdown, complete, paused>>
vars == <<spec, pc, why, visits, loopVars, turnVars, mailVars, flagVars, result, owed>>

NoText == ""
\* What the LLM may say.
Texts == {NoText} \cup UNION {{r.text : r \in Responses[s]} : s \in Specs}

NoTurn == [count |-> 0, text |-> NoText, set |-> FALSE, asked |-> FALSE, escalated |-> FALSE,
           reported |-> FALSE, tools |-> FALSE, limited |-> FALSE, log |-> <<>>]
Turns == [count : Nat, text : Texts, set : BOOLEAN, asked : BOOLEAN, escalated : BOOLEAN,
          reported : BOOLEAN, tools : BOOLEAN, limited : BOOLEAN, log : Seq(Calls)]
Waits   == {"error", "cancelled", "empty", "doom", "ask", "auto", "guidance"}
Results == {"none", "accepted", "shutdown", "paused", "stalled", "escalated", "exhausted",
            "ghost", "error", "cancelled"}

\* Every attempt at a turn has the whole limit; "ran" counts to one beyond.
ToolBound == HardLimit * (MaxStreamRetries + 1)

TypeOK ==
  /\ spec \in Specs
  /\ pc \in {"idle", "top", "drain", "stream", "tools", "backoff", "turned", "recorded",
             "await", "requesting", "waiting", "judging"}
  /\ why \in Waits \cup {"none"}
  /\ visits \in 0..MaxVisits /\ iteration \in 0..MaxIterations /\ retries \in 0..MaxStreamRetries
  /\ cur \in Turns /\ turn \in Turns
  /\ values \subseteq OutputKeys
  /\ streak \in Nat /\ empties \in 0..StallThreshold
  /\ recent \in Seq(Texts) /\ prints \in Seq(Seq(Calls))
  /\ queue \in Seq(1..MaxMessages) /\ read \in Seq(1..MaxMessages) /\ sent \in 0..MaxMessages
  /\ {ready, shutdown, complete, paused, owed} \subseteq BOOLEAN
  /\ result \in Results
  /\ ran \in 0..ToolBound + 1

Init ==
  /\ spec \in Specs
  /\ pc = "idle" /\ why = "none" /\ visits = 0 /\ result = "none"
  /\ iteration = 0 /\ retries = 0 /\ values = {} /\ streak = 0 /\ empties = 0
  /\ recent = <<>> /\ prints = <<>>
  /\ cur = NoTurn /\ turn = NoTurn /\ ran = 0
  /\ queue = <<>> /\ ready = FALSE /\ sent = 0 /\ read = <<>>
  /\ shutdown = FALSE /\ complete = FALSE /\ paused = FALSE
  /\ owed = FALSE

----------------------------------------------------------------------------
(* Helpers.                                                                *)

Blocking == spec.clientFacing /\ ~spec.eventTriggered
Missing  == (spec.outputs \ spec.nullable) \ values

\* s with e appended and, if that makes more than n, the first dropped.
Window(s, e, n) == LET all == Append(s, e) IN IF Len(all) > n THEN Tail(all) ELSE all

IsStalled(texts) ==
  /\ Len(texts) >= StallThreshold
  /\ texts # <<>> /\ texts[1] # NoText
  /\ \A i \in 2..Len(texts) : texts[i] = texts[i - 1]

IsDoomLoop(logs) ==
  /\ Len(logs) >= DoomThreshold
  /\ logs # <<>> /\ logs[1] # <<>>
  /\ \A i \in 2..Len(logs) : logs[i] = logs[1]

\* execute() returns or raises.
Finish(r) ==
  /\ pc' = "idle"
  /\ result' = r
  /\ why' = "none" /\ cur' = NoTurn /\ ran' = 0

\* The next iteration of the for loop.
Continue ==
  /\ pc' = "top"
  /\ iteration' = iteration + 1
  /\ why' = "none"

\* _await_user_input() is called.
Block(w) == pc' = "await" /\ why' = w

----------------------------------------------------------------------------
(* The head of the loop.                                                   *)

\* A result the executor may follow with another visit of the same object.
Returned == {"none", "accepted", "shutdown", "stalled", "escalated", "exhausted"}

Begin ==
  /\ pc = "idle" /\ visits < MaxVisits
  /\ result \in Returned
  /\ visits' = visits + 1
  /\ pc' = "top" /\ result' = "none"
  /\ iteration' = 0 /\ retries' = 0 /\ values' = {} /\ streak' = 0 /\ empties' = 0
  /\ recent' = <<>> /\ prints' = <<>>
  /\ turn' = NoTurn /\ owed' = FALSE
  /\ UNCHANGED <<spec, why, cur, ran, mailVars, flagVars>>

Top ==
  /\ pc = "top"
  /\ \/ iteration >= MaxIterations /\ Finish("exhausted")
     \/ iteration < MaxIterations /\ paused /\ Finish("paused")
     \/ iteration < MaxIterations /\ ~paused /\ pc' = "drain" /\ ran' = 0 /\ UNCHANGED <<why, result>>
  /\ retries' = 0 /\ cur' = NoTurn
  /\ UNCHANGED <<spec, visits, iteration, values, streak, empties, recent, prints, turn,
                 mailVars, flagVars, owed>>

Drain ==
  /\ pc = "drain"
  /\ \/ /\ queue # <<>>
        /\ queue' = Tail(queue)
        /\ read' = Append(read, Head(queue))
        /\ owed' = FALSE
        /\ UNCHANGED pc
     \/ /\ queue = <<>>
        /\ pc' = "stream"
        /\ UNCHANGED <<queue, read, owed>>
  /\ UNCHANGED <<spec, why, visits, loopVars, turnVars, ready, sent, flagVars, result>>

----------------------------------------------------------------------------
(* One LLM turn.                                                           *)

\* Faulty variant: the limit holds for every answer, not for the turn.
ExecutedPerAnswer(calls) == SubSeq(calls, 1, Min({Len(calls), HardLimit}))

Executed(calls) == SubSeq(calls, 1, Min({Len(calls), HardLimit - cur.count}))

Has(calls, tool) == \E i \in DOMAIN calls : calls[i].tool = tool

\* The output keys a batch sets; an undeclared key is an error.
KeysSet(calls) == {c \in spec.outputs : \E i \in DOMAIN calls : calls[i] = [tool |-> "set_output", arg |-> c]}

\* Does the batch leave the turn asking the user?  The last call decides;
\* one without options is an error unless the queen makes it.
Asks(calls) ==
  LET asks == {i \in DOMAIN calls : calls[i].tool = "ask_user"}
  IN IF asks = {} THEN cur.asked
     ELSE spec.stream = "queen" \/ calls[Max(asks)].arg = "options"

CanEscalate == spec.stream = "worker" /\ spec.bus

\* What the doom loop sees of logged_tool_calls: executed delegations and real
\* calls, and of discarded calls also reports.
Only(calls, tools) == Subsequence(calls, {i \in DOMAIN calls : calls[i].tool \in tools})

\* The LLM answers; its text and calls are recorded and the framework's tools
\* are handled in order, up to the hard limit of the turn.
Respond(r) ==
  /\ pc = "stream"
  /\ LET batch   == Executed(r.calls)
         skipped == SubSeq(r.calls, Len(batch) + 1, Len(r.calls))
     IN /\ values' = values \cup KeysSet(batch)
        /\ complete' = (complete \/ [tool |-> "report", arg |-> "complete"] \in {batch[i] : i \in DOMAIN batch})
        /\ ran' = Min({ran + Len(batch), ToolBound + 1})
        /\ cur' = [count     |-> cur.count + Len(batch),
                   text      |-> r.text,
                   set       |-> cur.set \/ KeysSet(batch) # {},
                   asked     |-> Asks(batch),
                   escalated |-> cur.escalated \/ (Has(batch, "escalate") /\ CanEscalate),
                   reported  |-> cur.reported \/ Has(batch, "report"),
                   tools     |-> Has(batch, "real"),
                   limited   |-> skipped # <<>>,
                   log       |-> cur.log \o Only(batch, {"delegate"}) \o Only(batch, {"real"})
                                  \o Only(skipped, {"real", "delegate", "report"})]
  /\ IF r.calls = <<>>
     THEN pc' = "turned" /\ turn' = cur'
     ELSE pc' = "tools" /\ UNCHANGED turn
  /\ UNCHANGED <<spec, why, visits, iteration, retries, streak, empties, recent, prints, mailVars,
                 shutdown, paused, result, owed>>

\* Real tools and sub-agents have ended and all results are recorded.  Faulty
\* variant: the count of the turn starts anew with every answer.
ToolsDoneUncounted ==
  /\ pc = "tools"
  /\ IF cur.limited \/ cur.asked \/ cur.escalated
     THEN pc' = "turned" /\ turn' = cur /\ UNCHANGED cur
     ELSE pc' = "stream" /\ cur' = [cur EXCEPT !.count = 0] /\ UNCHANGED turn
  /\ UNCHANGED <<spec, why, visits, loopVars, ran, mailVars, flagVars, result, owed>>

ToolsDone ==
  /\ pc = "tools"
  /\ IF cur.limited \/ cur.asked \/ cur.escalated
     THEN pc' = "turned" /\ turn' = cur
     ELSE pc' = "stream" /\ UNCHANGED turn
  /\ UNCHANGED <<spec, why, visits, loopVars, cur, ran, mailVars, flagVars, result, owed>>

\* Faulty variant: one retry too many.
RetryLeftOnceMore == retries <= MaxStreamRetries

RetryLeft == retries < MaxStreamRetries

TransientError ==
  /\ pc = "stream" /\ RetryLeft
  /\ retries' = retries + 1
  /\ pc' = "backoff"
  /\ cur' = NoTurn
  /\ UNCHANGED <<spec, why, visits, iteration, values, streak, empties, recent, prints, turn, ran,
                 mailVars, flagVars, result, owed>>

Backoff ==
  /\ pc = "backoff"
  /\ pc' = "stream"
  /\ UNCHANGED <<spec, why, visits, loopVars, turnVars, mailVars, flagVars, result, owed>>

\* An error that is not transient, or one too many.
PermanentError ==
  /\ pc = "stream"
  /\ IF spec.clientFacing
     THEN Block("error") /\ cur' = NoTurn /\ UNCHANGED <<ran, result>>
     ELSE Finish("error")
  /\ UNCHANGED <<spec, visits, loopVars, turn, mailVars, flagVars, owed>>

----------------------------------------------------------------------------
(* After the turn: empty turns, stalls and doom loops.                     *)

\* real_tool_results: results of the last batch, the discarded ones included.
Real == turn.tools \/ turn.limited

TrulyEmpty ==
  /\ turn.text = NoText
  /\ ~(Real \/ turn.set \/ turn.asked \/ turn.escalated \/ turn.reported)

\* Can an empty answer be taken for the end?  Faulty variant: also that of a node
\* that has nothing to set.
DoneTrivially == Missing = {}

Done == Missing = {} /\ spec.outputs # {}

\* The LLM returned nothing: accept, fail, nudge, or wait for the user.
GhostTurn ==
  /\ pc = "turned" /\ TrulyEmpty
  /\ \/ /\ Done
        /\ Finish("accepted")
        /\ UNCHANGED <<iteration, empties>>
     \/ /\ Missing # {} /\ empties + 1 >= StallThreshold
        /\ Finish("ghost")
        /\ UNCHANGED <<iteration, empties>>
     \/ /\ spec.outputs = {} /\ empties + 1 >= StallThreshold
        /\ Block("empty")
        /\ UNCHANGED <<iteration, empties, cur, ran, result>>
     \/ /\ ~Done
        /\ empties + 1 < StallThreshold
        /\ empties' = empties + 1
        /\ Continue
        /\ UNCHANGED <<cur, ran, result>>
  /\ UNCHANGED <<spec, visits, retries, values, streak, recent, prints, turn, mailVars, flagVars, owed>>

\* The turn goes into the stall window and, with its tool calls, into the doom
\* window; a turn without tool calls ends the chain of the latter.
RealTurn ==
  /\ pc = "turned" /\ ~TrulyEmpty
  /\ empties' = 0
  /\ streak' = IF Real \/ turn.set THEN 0 ELSE streak
  /\ LET texts == Window(recent, turn.text, StallThreshold)
         logs  == IF turn.log = <<>> THEN <<>> ELSE Window(prints, turn.log, DoomThreshold)
         doom  == IsDoomLoop(logs)
     IN \/ /\ IsStalled(texts)
           /\ Finish("stalled")
           /\ recent' = texts /\ UNCHANGED prints
        \/ /\ ~IsStalled(texts)
           /\ IF doom /\ Blocking /\ ~CanEscalate
              THEN Block("doom") ELSE pc' = "recorded" /\ UNCHANGED why
           /\ recent' = IF doom /\ Blocking /\ CanEscalate THEN <<>> ELSE texts
           /\ prints' = IF doom /\ ~(Blocking /\ ~CanEscalate) THEN <<>> ELSE logs
           /\ UNCHANGED <<cur, ran, result>>
  /\ UNCHANGED <<spec, visits, iteration, retries, values, turn, mailVars, flagVars, owed>>

----------------------------------------------------------------------------
(* Blocking for the user or the queen.                                     *)

\* A text-only turn of the queen.
AutoBlocks == Blocking /\ ~turn.asked /\ spec.stream = "queen" /\ ~Real /\ ~turn.set

ShouldJudge == spec.subagent \/ (iteration + 1) % JudgeEvery = 0 \/ ~Real

\* 6i: ask the judge, or go on without.
ToJudge ==
  IF ShouldJudge THEN pc' = "judging" /\ why' = "none" /\ UNCHANGED iteration ELSE Continue

\* The cursor is written; does the node block?
Recorded ==
  /\ pc = "recorded"
  /\ owed' = (owed \/ (Blocking /\ turn.asked) \/ turn.escalated)
  /\ \/ /\ Blocking /\ turn.asked
        /\ Block("ask") /\ UNCHANGED <<iteration, streak>>
     \/ /\ AutoBlocks
        /\ streak' = IF Missing # {} THEN streak + 1 ELSE streak
        /\ IF Missing # {} /\ streak < GraceTurns THEN Continue ELSE Block("auto") /\ UNCHANGED iteration
     \/ /\ ~(Blocking /\ turn.asked) /\ ~AutoBlocks
        /\ UNCHANGED streak
        /\ IF turn.escalated THEN Block("guidance") /\ UNCHANGED iteration ELSE ToJudge
  /\ UNCHANGED <<spec, visits, retries, values, empties, recent, prints, turnVars, mailVars, flagVars, result>>

\* The waits at which execute() looks at _shutdown before and after.
Heeding == {"ask", "auto", "guidance"}

\* execute() goes on after _await_user_input() has returned.
Proceed(got) ==
  \/ /\ why \in Heeding /\ ~got
     /\ Finish("shutdown")
     /\ UNCHANGED <<iteration, streak, empties, recent, prints>>
  \/ /\ why = "error"
     /\ IF turn = NoTurn THEN Finish("error") ELSE pc' = "turned" /\ why' = "none" /\ UNCHANGED <<cur, ran, result>>
     /\ UNCHANGED <<iteration, streak, empties, recent, prints>>
  \/ /\ why \in {"cancelled", "empty"}
     /\ empties' = IF why = "empty" THEN 0 ELSE empties
     /\ Continue
     /\ UNCHANGED <<streak, recent, prints, cur, ran, result>>
  \/ /\ why = "doom"
     /\ recent' = <<>> /\ prints' = <<>>
     /\ pc' = "recorded" /\ why' = "none"
     /\ UNCHANGED <<iteration, streak, empties, cur, ran, result>>
  \/ /\ why \in {"ask", "auto"} /\ got
     /\ recent' = <<>>
     /\ IF why = "ask" /\ Missing # {}
        THEN streak' = 0 /\ Continue
        ELSE UNCHANGED streak /\ IF turn.escalated THEN Block("guidance") /\ UNCHANGED iteration ELSE ToJudge
     /\ UNCHANGED <<empties, prints, cur, ran, result>>
  \/ /\ why = "guidance" /\ got
     /\ recent' = <<>> /\ streak' = 0
     /\ Continue
     /\ UNCHANGED <<empties, prints, cur, ran, result>>

\* _input_ready.clear().  Faulty variant: forgotten.
InputReadyKept == ready' = ready

ClearInputReady == ready' = FALSE

Await ==
  /\ pc = "await"
  /\ \/ /\ why \in Heeding /\ shutdown
        /\ Finish("shutdown")
        /\ UNCHANGED <<iteration, streak, empties, recent, prints, ready>>
     \/ /\ ~(why \in Heeding /\ shutdown) /\ queue # <<>>
        /\ Proceed(TRUE)
        /\ UNCHANGED ready
     \/ /\ ~(why \in Heeding /\ shutdown) /\ queue = <<>>
        /\ ClearInputReady
        /\ pc' = "requesting"
        /\ UNCHANGED <<why, iteration, streak, empties, recent, prints, cur, ran, result>>
  /\ UNCHANGED <<spec, visits, retries, values, turn, queue, sent, read, flagVars, owed>>

\* CLIENT_INPUT_REQUESTED is published; its handlers may inject.  Faulty variant:
\* the event is cleared only now.
RequestThenClear ==
  /\ pc = "requesting"
  /\ pc' = "waiting"
  /\ ready' = FALSE
  /\ UNCHANGED <<spec, why, visits, loopVars, turnVars, queue, sent, read, flagVars, result, owed>>

Request ==
  /\ pc = "requesting"
  /\ pc' = "waiting"
  /\ UNCHANGED <<spec, why, visits, loopVars, turnVars, mailVars, flagVars, result, owed>>

Woken ==
  /\ pc = "waiting" /\ ready
  /\ Proceed(~shutdown)
  /\ UNCHANGED <<spec, visits, retries, values, turn, mailVars, flagVars, owed>>

----------------------------------------------------------------------------
(* The judge.                                                              *)

\* The verdicts _judge_turn() may come to.
Verdicts ==
  CASE complete -> {"ACCEPT"}
    [] ~complete /\ spec.judge = "skip" -> {"RETRY"}
    [] ~complete /\ spec.judge = "custom" -> {"ACCEPT", "RETRY", "ESCALATE"}
    [] ~complete /\ spec.judge = "subagent" -> IF Missing = {} THEN {"ACCEPT"} ELSE {"RETRY"}
    [] OTHER ->
         IF \/ Real
            \/ Missing # {}
            \/ spec.outputs # {} /\ spec.outputs = spec.nullable /\ values = {}
            \/ spec.outputs = {} /\ spec.clientFacing
         THEN {"RETRY"}
         ELSE IF spec.judge = "criteria" THEN {"ACCEPT", "RETRY", "ESCALATE"} ELSE {"ACCEPT"}

\* A custom judge's acceptance does not count while outputs are missing.  Faulty
\* variant: it does.
AcceptedAtItsWord(v) == v = "ACCEPT"

Accepted(v) ==
  v = "ACCEPT" /\ (Missing = {} \/ spec.judge \notin {"custom", "subagent"} \/ complete)

Judge ==
  /\ pc = "judging"
  /\ \E v \in Verdicts :
       \/ /\ Accepted(v)
          /\ Finish("accepted") /\ UNCHANGED iteration
       \/ /\ v = "ESCALATE"
          /\ Finish("escalated") /\ UNCHANGED iteration
       \/ /\ v # "ESCALATE" /\ ~Accepted(v)
          /\ Continue /\ UNCHANGED <<cur, ran, result>>
  /\ UNCHANGED <<spec, visits, retries, values, streak, empties, recent, prints, turn, mailVars,
                 flagVars, owed>>

----------------------------------------------------------------------------
(* What others do to the node.                                             *)

\* Faulty variant: the event is not set.
InjectSilently ==
  /\ sent < MaxMessages
  /\ sent' = sent + 1
  /\ queue' = Append(queue, sent + 1)
  /\ UNCHANGED <<spec, pc, why, visits, loopVars, turnVars, ready, read, flagVars, result, owed>>

InjectEvent ==
  /\ sent < MaxMessages
  /\ sent' = sent + 1
  /\ queue' = Append(queue, sent + 1)
  /\ ready' = TRUE
  /\ UNCHANGED <<spec, pc, why, visits, loopVars, turnVars, read, flagVars, result, owed>>

\* Faulty variant: the event is not set.
SignalShutdownSilently ==
  /\ "shutdown" \in Disturbances /\ ~shutdown
  /\ shutdown' = TRUE
  /\ UNCHANGED <<spec, pc, why, visits, loopVars, turnVars, mailVars, complete, paused, result, owed>>

SignalShutdown ==
  /\ "shutdown" \in Disturbances /\ ~shutdown
  /\ shutdown' = TRUE
  /\ ready' = TRUE
  /\ UNCHANGED <<spec, pc, why, visits, loopVars, turnVars, queue, sent, read, complete, paused, result, owed>>

\* Cancels the stream task, after which the node waits for the user, or the
\* task of the real tools, whose CancelledError nobody converts.
CancelCurrentTurn ==
  /\ "turn" \in Disturbances
  /\ \/ /\ pc = "stream"
        /\ IF Blocking THEN Block("cancelled") /\ UNCHANGED iteration ELSE Continue
        /\ cur' = NoTurn
        /\ UNCHANGED <<ran, result>>
     \/ /\ pc = "tools" /\ cur.tools
        /\ Finish("cancelled")
        /\ UNCHANGED iteration
  /\ UNCHANGED <<spec, visits, retries, values, streak, empties, recent, prints, turn,
                 mailVars, flagVars, owed>>

\* The task of the execution is cancelled at an await.
CancelExecution ==
  /\ "execution" \in Disturbances /\ pc \notin {"idle", "top"}
  /\ Finish("cancelled")
  /\ UNCHANGED <<spec, visits, loopVars, turn, mailVars, flagVars, owed>>

RequestPause ==
  /\ "pause" \in Disturbances /\ ~paused
  /\ paused' = TRUE
  /\ UNCHANGED <<spec, pc, why, visits, loopVars, turnVars, mailVars, shutdown, complete, result, owed>>

----------------------------------------------------------------------------

\* The steps the node takes by itself once it is called.
Node ==
  \/ Top \/ Drain
  \/ (\E r \in Responses[spec] : Respond(r)) \/ ToolsDone \/ TransientError \/ Backoff \/ PermanentError
  \/ GhostTurn \/ RealTurn \/ Recorded
  \/ Await \/ Request \/ Woken \/ Judge

Next ==
  \/ Begin \/ Node
  \/ InjectEvent \/ SignalShutdown \/ CancelCurrentTurn \/ CancelExecution \/ RequestPause

Spec     == Init /\ [][Next]_vars
\* The LLM, the tools, the judge and the event bus answer, in whatever way.
FairSpec == Spec /\ WF_vars(Node)

----------------------------------------------------------------------------
(* Properties.                                                             *)

\* A node is accepted only with all its required outputs, unless a sub-agent
\* marked its task as complete: by the judge, by a custom judge whose word is
\* not enough, or by an empty answer (_judge_turn(), steps 6e and 6i).
AcceptedIsComplete == result = "accepted" => Missing = {} \/ complete

\* Once the LLM has asked the user or escalated to the queen, it is not called
\* again before a message was read, and the judge is not asked before one has
\* arrived: whatever else made the node wait or skip in between (step 6h).
QuestionAnswered ==
  /\ pc = "stream" => ~owed
  /\ pc = "judging" /\ owed => queue # <<>>

\* An iteration executes no more tool calls than the hard limit allows each
\* attempt, whatever the LLM answers to the discarded ones and however often
\* the stream is retried (_run_single_turn()).
ToolsBounded == ran <= ToolBound

\* A conversational node without outputs does not end because the LLM fell
\* silent or talked: neither empty answers nor the judge's trivially complete
\* outputs end it (step 6e, _judge_turn()).
ForeverAlive ==
  spec.clientFacing /\ spec.outputs = {} /\ spec.judge \in {"implicit", "skip"} /\ ~complete
    => result \notin {"accepted", "ghost", "escalated"}

\* The promise to those who inject messages: read once, in order, and no sleep
\* over a waiting message, although the event is cleared and set in the middle
\* of it all (inject_event(), _await_user_input(), _drain_injection_queue()).
Mail == INSTANCE Mailbox WITH Messages <- 1..MaxMessages, box <- queue,
                              asleep <- pc = "waiting" /\ ~ready
MailboxImplemented == Mail!MailSpec

\* An injected message is read unless the visit ends first, also when it comes
\* while the node streams, backs off, or is about to block.
MessagesRead == queue # <<>> ~> queue = <<>> \/ pc = "idle"

\* A turn ends, whatever the LLM calls: rejected calls count against the hard
\* limit too, and retries are bounded.
TurnEnds == pc = "stream" ~> pc \notin {"stream", "tools", "backoff"}

\* A node that waits for an answer or for guidance returns when it is told to
\* shut down (signal_shutdown()).
ShutdownReleases == pc = "waiting" /\ why \in Heeding /\ shutdown ~> pc = "idle"
=============================================================================
