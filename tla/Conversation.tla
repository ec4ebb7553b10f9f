---------------------------- MODULE Conversation ----------------------------
(***************************************************************************)
(* The conversation of a session and the files that let it be resumed:     *)
(* NodeConversation (core/framework/graph/conversation.py) in memory, and  *)
(* meta.json, cursor.json and one file per message of FileConversationStore*)
(* (core/framework/storage/conversation_store.py), with the outputs that   *)
(* OutputAccumulator and _write_cursor() keep in the cursor.               *)
(*                                                                         *)
(* Every file is written by a thread while the coroutine waits, so a crash *)
(* can come between any two writes or in the middle of one, and so can the *)
(* cancellation of the execution, after which the write under way is still *)
(* completed.  "todo" holds the writes of the call under way.              *)
(*                                                                         *)
(* One conversation in continuous mode: it goes from node to node, and the *)
(* summaries and pruned texts are only known by what they stand for.       *)
(***************************************************************************)
EXTENDS Integers, SequencesExt, Subsequences

CONSTANTS
  OutputKeys,
  Keeps,       \* numbers of recent messages a compaction may keep
  MaxCalls,    \* bound: tool calls in an answer of the LLM
  MaxMessages, \* bound: messages ever added
  MaxCompacts, \* bound: compactions and prunings
  MaxStops,    \* bound: crashes and cancellations
  MaxNodes,    \* bound: nodes the session goes through
  NoCall       \* a message that is no result has no call

ASSUME ConversationAssumption ==
  /\ Keeps \subseteq Nat
  /\ {MaxCalls, MaxMessages, MaxCompacts, MaxStops} \subseteq Nat /\ MaxNodes \in Nat \ {0}
  /\ NoCall \notin Nat \X Nat

VARIABLES
  up,        \* is the session running?
  messages,  \* _messages
  nextSeq,   \* _next_seq
  metaDone,  \* _meta_persisted
  open,      \* calls of the last answer without a recorded result, in order
  values,    \* OutputAccumulator.values: its keys
  todo,      \* file operations of the call under way, in order
  adding,    \* the message the call under way adds, or 0
  rewriting, \* does the call under way replace what is in the files?
  parts,     \* parts/: seq -> message, for the files that can be read
  meta,      \* is there a readable meta.json?
  cursor,    \* cursor.json, or NoCursor if there is none that can be read
  node,      \* progress in state.json: the node the session is at
  made,      \* history: number of messages made
  compacts,  \* history: number of compactions and prunings
  stops,     \* history: number of crashes and cancellations
  acked,     \* history: messages whose add_*() has returned
  lost,      \* history: messages whose files a crash hit while they were replaced
  doubled,   \* history: messages that share their number with another one
  restarted, \* history: has the conversation begun anew over the files of its past?
  outputsSet \* history: keys whose set() has returned, in this visit of the node

memVars  == <<messages, nextSeq, metaDone, open, values>>
callVars == <<todo, adding, rewriting>>
diskVars == <<parts, meta, cursor>>
vars == <<up, memVars, callVars, diskVars, node, made, compacts, stops, acked, lost, doubled, restarted, outputsSet>>

Kinds    == {"user", "assistant", "tool", "summary", "patch"}
CallIds  == (1..MaxMessages) \X (1..MaxCalls)
Message  == [seq : Int, kind : Kinds, id : 0..MaxMessages, calls : SUBSET CallIds,
             call : CallIds \cup {NoCall}, covers : SUBSET (1..MaxMessages)]
NoCursor == [nextSeq |-> -1, outputs |-> {}]

TypeOK ==
  /\ {up, metaDone, rewriting, meta, restarted} \subseteq BOOLEAN
  /\ messages \in Seq(Message) /\ nextSeq \in Nat /\ open \in Seq(CallIds)
  /\ values \subseteq OutputKeys /\ outputsSet \subseteq OutputKeys
  /\ adding \in 0..MaxMessages
  /\ DOMAIN parts \subseteq Int /\ \A s \in DOMAIN parts : parts[s] \in Message /\ parts[s].seq = s
  /\ cursor.nextSeq \in Int /\ cursor.outputs \subseteq OutputKeys
  /\ node \in 1..MaxNodes /\ made \in 0..MaxMessages
  /\ compacts \in 0..MaxCompacts /\ stops \in 0..MaxStops
  /\ {acked, lost, doubled} \subseteq SUBSET (1..MaxMessages)

Init ==
  /\ up = TRUE /\ messages = <<>> /\ nextSeq = 0 /\ metaDone = FALSE /\ open = <<>> /\ values = {}
  /\ todo = <<>> /\ adding = 0 /\ rewriting = FALSE
  /\ parts = <<>> /\ meta = FALSE /\ cursor = NoCursor
  /\ node = 1 /\ made = 0 /\ compacts = 0 /\ stops = 0
  /\ acked = {} /\ lost = {} /\ doubled = {} /\ restarted = FALSE /\ outputsSet = {}

----------------------------------------------------------------------------
(* The files.                                                              *)

WritePart(m)   == [op |-> "part", part |-> m]
WriteMeta      == [op |-> "meta"]
WriteCursor(c) == [op |-> "cursor", cursor |-> c]
Delete(n)      == [op |-> "delete", before |-> n]

\* What the messages' writes put into the cursor: nothing but next_seq.
OnlySeq(n) == [nextSeq |-> n, outputs |-> {}]

\* The file of m, written.
Put(m) == [s \in DOMAIN parts \cup {m.seq} |-> IF s = m.seq THEN m ELSE parts[s]]

\* The file operation f, done.
Perform(f) ==
  /\ parts' = CASE f.op = "part"   -> Put(f.part)
                [] f.op = "delete" -> [s \in {t \in DOMAIN parts : t >= f.before} |-> parts[s]]
                [] OTHER           -> parts
  /\ cursor' = IF f.op = "cursor" THEN f.cursor ELSE cursor
  /\ meta' = (f.op = "meta" \/ meta)

\* A crash in the middle of f: it has not begun, or has left a file that cannot
\* be read, or has deleted some of the files.
Tear(f) ==
  \/ UNCHANGED diskVars
  \/ /\ f.op = "part"
     /\ parts' = [s \in DOMAIN parts \ {f.part.seq} |-> parts[s]]
     /\ UNCHANGED <<meta, cursor>>
  \/ /\ f.op = "cursor" /\ cursor' = NoCursor /\ UNCHANGED <<parts, meta>>
  \/ /\ f.op = "meta" /\ meta' = FALSE /\ UNCHANGED <<parts, cursor>>
  \/ /\ f.op = "delete"
     /\ \E gone \in SUBSET {s \in DOMAIN parts : s < f.before} :
          parts' = [s \in DOMAIN parts \ gone |-> parts[s]]
     /\ UNCHANGED <<meta, cursor>>

\* No call is under way.
Idle == up /\ todo = <<>>

\* The next write of the call under way is done; after the last the call returns.
Write ==
  /\ up /\ todo # <<>>
  /\ Perform(Head(todo))
  /\ todo' = Tail(todo)
  /\ IF Len(todo) = 1
     THEN /\ acked' = acked \cup ({adding} \ {0})
          /\ adding' = 0 /\ rewriting' = FALSE
     ELSE UNCHANGED <<acked, adding, rewriting>>
  /\ outputsSet' = IF Len(todo) = 1 THEN outputsSet \cup values ELSE outputsSet
  /\ UNCHANGED <<up, memVars, node, made, compacts, stops, lost, doubled, restarted>>

----------------------------------------------------------------------------
(* Messages.                                                               *)

\* _persist(): the metadata once, the message, the cursor.
Persist(m, n) ==
  IF metaDone THEN <<WritePart(m), WriteCursor(OnlySeq(n))>>
  ELSE <<WriteMeta, WritePart(m), WriteCursor(OnlySeq(n))>>

\* The messages that a message is or stands for, and those that several do.
Stands(m)   == ({m.id} \cup m.covers) \ {0}
Covered(ms) == UNION {Stands(ms[i]) : i \in DOMAIN ms}

\* With m added, the messages whose number two messages have.
Doubled(m) ==
  LET same == {i \in DOMAIN messages : messages[i].seq = m.seq}
  IN IF same = {} THEN doubled
     ELSE doubled \cup {m.id} \cup UNION {Stands(messages[i]) : i \in same}

\* add_user_message(), add_assistant_message(), add_tool_result().
Add(kind, calls, call) ==
  LET m == [seq |-> nextSeq, kind |-> kind, id |-> made + 1, calls |-> calls,
            call |-> call, covers |-> {}]
  IN /\ made < MaxMessages
     /\ messages' = Append(messages, m)
     /\ nextSeq' = nextSeq + 1
     /\ todo' = Persist(m, nextSeq + 1)
     /\ metaDone' = TRUE
     /\ adding' = made + 1
     /\ made' = made + 1
     /\ rewriting' = ~metaDone
     /\ doubled' = Doubled(m)
     /\ UNCHANGED <<up, diskVars, compacts, stops, acked, lost, restarted, outputsSet>>

\* A message of the user, an injected event, a nudge, the judge's feedback.
AddUser ==
  /\ Idle /\ open = <<>>
  /\ Add("user", {}, NoCall)
  /\ UNCHANGED <<open, values, node>>

\* The LLM answers.  It is not called with the assistant's message as the last.
AddAssistant ==
  /\ Idle /\ open = <<>>
  /\ messages # <<>> /\ (Last(messages).kind = "assistant" => Last(messages).calls # {})
  /\ \E n \in 0..MaxCalls :
       /\ Add("assistant", {made + 1} \X (1..n), NoCall)
       /\ open' = [k \in 1..n |-> <<made + 1, k>>]
  /\ UNCHANGED <<values, node>>

AddToolResult ==
  /\ Idle /\ open # <<>>
  /\ Add("tool", {}, Head(open))
  /\ open' = Tail(open)
  /\ UNCHANGED <<values, node>>

----------------------------------------------------------------------------
(* The view of the LLM: to_llm_messages(), _repair_orphaned_tool_calls().  *)

AllCalls(ms) == UNION {ms[i].calls : i \in DOMAIN ms}

\* The calls of message i that results right behind it answer.
Answered(ms, i) ==
  {ms[j].call : j \in {k \in i + 1..Len(ms) : \A l \in i + 1..k : ms[l].kind = "tool"}}

Patch(c) == [seq |-> 0, kind |-> "patch", id |-> 0, calls |-> {}, call |-> c, covers |-> {}]

\* Message i as it is sent: a result without its call is dropped, a call
\* without its result is given one.  Faulty variant: only the latter.
RepairCallsOnly(ms, i) == <<ms[i]>> \o SetToSeq({Patch(c) : c \in ms[i].calls \ Answered(ms, i)})

Repair(ms, i) ==
  IF ms[i].kind = "tool" /\ ms[i].call \notin AllCalls(ms) THEN <<>>
  ELSE <<ms[i]>> \o SetToSeq({Patch(c) : c \in ms[i].calls \ Answered(ms, i)})

View(ms) == FlattenSeq([i \in DOMAIN ms |-> Repair(ms, i)])

----------------------------------------------------------------------------
(* Outputs and the cursor.                                                 *)

\* OutputAccumulator.set(): read, change and write the cursor.
SetOutput(k) ==
  /\ Idle /\ open # <<>>
  /\ values' = values \cup {k}
  /\ todo' = <<WriteCursor([cursor EXCEPT !.outputs = @ \cup {k}])>>
  /\ UNCHANGED <<up, messages, nextSeq, metaDone, open, adding, rewriting, diskVars, node, made, compacts,
                 stops, acked, lost, doubled, restarted, outputsSet>>

\* _write_cursor(), at the end of a turn.
Checkpoint ==
  /\ Idle /\ open = <<>> /\ messages # <<>>
  /\ cursor # [nextSeq |-> nextSeq, outputs |-> values]
  /\ todo' = <<WriteCursor([nextSeq |-> nextSeq, outputs |-> values])>>
  /\ UNCHANGED <<up, memVars, adding, rewriting, diskVars, node, made, compacts, stops, acked, lost,
                 doubled, restarted, outputsSet>>

\* The node is done: the progress is written, the system prompt replaced, and
\* the transition marker opens the next node's part, with a new accumulator.
Handover ==
  /\ Idle /\ open = <<>> /\ messages # <<>> /\ node < MaxNodes
  /\ LET m == [seq |-> nextSeq, kind |-> "user", id |-> made + 1, calls |-> {}, call |-> NoCall,
               covers |-> {}]
     IN /\ made < MaxMessages
        /\ messages' = Append(messages, m)
        /\ todo' = <<WriteMeta, WritePart(m), WriteCursor(OnlySeq(nextSeq + 1))>>
        /\ doubled' = Doubled(m)
  /\ node' = node + 1
  /\ nextSeq' = nextSeq + 1 /\ adding' = made + 1 /\ made' = made + 1
  /\ metaDone' = TRUE /\ rewriting' = TRUE
  /\ values' = {} /\ outputsSet' = {}
  /\ UNCHANGED <<up, open, diskVars, compacts, stops, acked, lost, restarted>>

----------------------------------------------------------------------------
(* Compaction.                                                             *)

\* Where the recent messages begin: keep of them, but none that are results of
\* a call before them.
Split(ms, keep) ==
  LET cut == Len(ms) - keep
  IN CHOOSE i \in cut..Len(ms) :
       /\ \A j \in cut + 1..i : ms[j].kind = "tool"
       /\ i < Len(ms) => ms[i + 1].kind # "tool"

\* What a compaction deletes, by the first recent message.  Faulty variant: that
\* one too.
UpToRecent(recent, n) == Delete(IF recent = <<>> THEN n ELSE recent[1].seq + 1)

BeforeRecent(recent, n) == Delete(IF recent = <<>> THEN n ELSE recent[1].seq)

\* compact(): old messages become a summary, in front of the first recent one.
Compact ==
  /\ Idle /\ open = <<>> /\ messages # <<>> /\ compacts < MaxCompacts
  /\ \E keep \in Keeps :
       LET split  == Split(messages, Min({keep, Len(messages) - 1}))
           old    == SubSeq(messages, 1, split)
           recent == SubSeq(messages, split + 1, Len(messages))
           seq    == IF recent = <<>> THEN nextSeq ELSE recent[1].seq - 1
           m      == [seq |-> seq, kind |-> "summary", id |-> 0, calls |-> {}, call |-> NoCall,
                      covers |-> Covered(old)]
       IN /\ messages' = <<m>> \o recent
          /\ nextSeq' = IF recent = <<>> THEN nextSeq + 1 ELSE nextSeq
          /\ todo' = << BeforeRecent(recent, nextSeq'), WritePart(m), WriteCursor(OnlySeq(nextSeq')) >>
  /\ rewriting' = TRUE
  /\ compacts' = compacts + 1
  /\ UNCHANGED <<up, metaDone, open, values, adding, diskVars, node, made, stops, acked, lost, doubled,
                 restarted, outputsSet>>

\* The messages it keeps are written again.  Faulty variant: only the first.
RewrittenFirst(kept) == IF kept = <<>> THEN <<>> ELSE <<WritePart(kept[1])>>

Rewritten(kept) == [i \in DOMAIN kept |-> WritePart(kept[i])]

\* Of the first messages it keeps protected calls, the results that answer them,
\* and results that are errors.
KeptOf(split, protected, errors) ==
  LET told  == {i \in 1..split : messages[i].kind = "tool"}
      calls == UNION {messages[i].calls : i \in protected}
  IN protected \cup errors \cup {i \in told : messages[i].call \in calls}

\* In the place of all others comes a reference to the file with their texts.
Structured(split, kept) ==
  LET recent == SubSeq(messages, split + 1, Len(messages))
      keptMessages == Subsequence(messages, kept)
      rest  == Subsequence(messages, 1..split \ kept)
      seq   == IF keptMessages # <<>> THEN keptMessages[1].seq - 1
               ELSE IF recent # <<>> THEN recent[1].seq - 1 ELSE nextSeq
      m     == [seq |-> seq, kind |-> "summary", id |-> 0, calls |-> {}, call |-> NoCall, covers |-> Covered(rest)]
  IN /\ messages' = <<m>> \o keptMessages \o recent
     /\ nextSeq' = IF seq = nextSeq THEN nextSeq + 1 ELSE nextSeq
     /\ todo' = << BeforeRecent(recent, nextSeq'), WritePart(m) >> \o Rewritten(keptMessages)
                \o << WriteCursor(OnlySeq(nextSeq')) >>

\* compact_preserving_structure(): old tool calls stay; when it is aggressive
\* only those it is told to protect.
CompactStructure ==
  /\ Idle /\ open = <<>> /\ messages # <<>> /\ compacts < MaxCompacts
  /\ \E keep \in Keeps :
       LET split == Split(messages, Min({keep, Len(messages) - 1}))
       IN \E protected \in SUBSET {i \in 1..split : messages[i].calls # {}},
             errors \in SUBSET {i \in 1..split : messages[i].kind = "tool"} :
               Structured(split, KeptOf(split, protected, errors))
  /\ rewriting' = TRUE
  /\ compacts' = compacts + 1
  /\ UNCHANGED <<up, metaDone, open, values, adding, diskVars, node, made, stops, acked, lost, doubled,
                 restarted, outputsSet>>

\* prune_old_tool_results(): the file of a result is written anew, shorter.
Prune ==
  /\ Idle /\ open = <<>> /\ compacts < MaxCompacts
  /\ \E i \in DOMAIN messages :
       messages[i].kind = "tool" /\ todo' = <<WritePart(messages[i])>>
  /\ rewriting' = TRUE
  /\ compacts' = compacts + 1
  /\ UNCHANGED <<up, memVars, adding, diskVars, node, made, stops, acked, lost, doubled,
                 restarted, outputsSet>>

----------------------------------------------------------------------------
(* Stopping and resuming.                                                  *)

OnDisk(ps) == Covered(ps)

\* Memory is gone, and the writes that had not begun.
Stop ==
  /\ stops < MaxStops
  /\ stops' = stops + 1
  /\ up' = FALSE
  /\ todo' = <<>> /\ adding' = 0 /\ rewriting' = FALSE
  /\ messages' = <<>> /\ nextSeq' = 0 /\ metaDone' = FALSE /\ open' = <<>> /\ values' = {}
  /\ UNCHANGED <<node, made, compacts, acked, doubled, restarted, outputsSet>>

\* The process dies.
Crash ==
  /\ up
  /\ IF todo = <<>> THEN UNCHANGED diskVars ELSE Tear(Head(todo))
  /\ lost' = IF rewriting THEN lost \cup (IF meta' THEN acked \ OnDisk(parts') ELSE acked) ELSE lost
  /\ Stop

\* The execution is cancelled; the thread completes its write.
Cancel ==
  /\ up
  /\ IF todo = <<>> THEN UNCHANGED diskVars ELSE Perform(Head(todo))
  /\ lost' = IF rewriting THEN lost \cup (acked \ OnDisk(parts')) ELSE lost
  /\ Stop

\* read_parts(): in the order of their numbers.
Restored == Subsequence(parts, DOMAIN parts)

\* The next number; without a cursor it follows the last message.  Faulty
\* variant: the cursor is expected to be there.
CursorSeq == cursor.nextSeq

RestoredSeq ==
  IF cursor # NoCursor THEN cursor.nextSeq ELSE IF Restored # <<>> THEN Last(Restored).seq + 1 ELSE 0

\* _restore(): without metadata the conversation begins anew.
Resume ==
  /\ ~up
  /\ up' = TRUE
  /\ messages' = IF meta THEN Restored ELSE <<>>
  /\ nextSeq' = IF meta THEN RestoredSeq ELSE 0
  /\ values' = IF meta THEN cursor.outputs ELSE {}
  /\ metaDone' = meta
  /\ restarted' = (restarted \/ (~meta /\ DOMAIN parts # {}))
  /\ UNCHANGED <<open, callVars, diskVars, node, made, compacts, stops, acked, lost, doubled, outputsSet>>

\* A new event starts an execution on the session of an earlier one
\* (execute() in executor.py): the cursor is emptied, and a marker is put behind
\* the last message.  An interruption may leave the first without the second.
NewEvent ==
  /\ ~up /\ made < MaxMessages
  /\ DOMAIN parts # {} \/ meta
  /\ LET seq == IF cursor.nextSeq > 0 THEN cursor.nextSeq
                ELSE IF DOMAIN parts # {} THEN Max(DOMAIN parts) + 1 ELSE 0
         m   == [seq |-> seq, kind |-> "user", id |-> made + 1, calls |-> {}, call |-> NoCall,
                 covers |-> {}]
     IN \/ /\ parts' = Put(m)
           /\ doubled' = IF seq \in DOMAIN parts THEN doubled \cup Stands(parts[seq]) ELSE doubled
        \/ UNCHANGED <<parts, doubled>>
  /\ cursor' = NoCursor
  /\ made' = made + 1
  /\ node' = 1 /\ outputsSet' = {}
  /\ UNCHANGED <<up, memVars, callVars, meta, compacts, stops, acked, lost, restarted>>

Next ==
  \/ Write
  \/ AddUser \/ AddAssistant \/ AddToolResult
  \/ (\E k \in OutputKeys : SetOutput(k)) \/ Checkpoint \/ Handover
  \/ Compact \/ CompactStructure \/ Prune
  \/ Crash \/ Cancel \/ Resume \/ NewEvent

Spec == Init /\ [][Next]_vars

----------------------------------------------------------------------------
(* Properties.                                                             *)

\* Behind every message with tool calls come the results of exactly these
\* calls, one for each, and nowhere else is there a result.
WellFormed(v) ==
  /\ \A i \in DOMAIN v :
       LET results == {j \in i + 1..Len(v) : \A l \in i + 1..j : v[l].call # NoCall}
       IN v[i].call = NoCall =>
            /\ {v[j].call : j \in results} = v[i].calls
            /\ Cardinality(results) = Cardinality(v[i].calls)
  /\ v # <<>> => v[1].call = NoCall

\* What the LLM is sent is well formed, whenever it is looked at, although
\* cancellations leave calls without results, compactions results without calls, and
\* crashes any part of either in the files (_repair_orphaned_tool_calls()).  Excepted
\* is a conversation that, its metadata lost, counts from 0 over the files of its
\* past: they come back among the new messages, and a new one may take the number
\* of a result.
ViewWellFormed == ~restarted => WellFormed(View(messages))

\* A message whose add_*() has returned is in the files, by itself or in a
\* summary, whatever is written, compacted, cancelled or crashed later.  Three
\* things excepted: a crash while the files are being replaced, a message that
\* was given a number twice, and a conversation that counts from 0 again, in
\* which a compaction deletes by number what is newer than the files of its past.
AckedKept == ~rewriting /\ ~restarted => acked \ (lost \cup doubled) \subseteq OnDisk(parts)

\* Between two calls, what the LLM is shown is stored, also what a resumed
\* session read of messages whose add_*() had not returned: another
\* interruption would not lose it (with the last two exceptions of AckedKept).
RememberedIsStored == Idle /\ ~restarted => Covered(messages) \ doubled \subseteq OnDisk(parts)

\* OutputAccumulator writes the cursor in every set(), so that the outputs of an
\* interrupted node "survive resume": whoever resumes finds them in the cursor,
\* unless a crash in the middle of writing it has left none that can be read.
OutputsSurvive == ~up /\ cursor # NoCursor => outputsSet \subseteq cursor.outputs
=============================================================================
