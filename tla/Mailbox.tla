------------------------------ MODULE Mailbox ------------------------------
(***************************************************************************)
(* What an EventLoopNode promises to whoever injects messages into it:     *)
(* every message is read once, in the order of the calls, and the node     *)
(* does not sleep while a message waits for it.  EventLoopNode, with its   *)
(* queue, its event and its two dozen places, implements this.             *)
(***************************************************************************)
EXTENDS Sequences

CONSTANT Messages

VARIABLES
  box,    \* messages that wait, oldest first
  read,   \* messages the node has read, oldest first
  asleep  \* the node is blocked until somebody wakes it

mailVars == <<box, read, asleep>>

MailInit == box = <<>> /\ read = <<>> /\ asleep = FALSE

Put(m) ==
  /\ box' = Append(box, m)
  /\ asleep' = FALSE
  /\ UNCHANGED read

Take ==
  /\ ~asleep
  /\ box # <<>>
  /\ read' = Append(read, Head(box))
  /\ box' = Tail(box)
  /\ UNCHANGED asleep

Sleep ==
  /\ ~asleep
  /\ box = <<>>
  /\ asleep' = TRUE
  /\ UNCHANGED <<box, read>>

\* Shutdown and cancellation wake the node without a message.
Wake ==
  /\ asleep
  /\ asleep' = FALSE
  /\ UNCHANGED <<box, read>>

MailNext == (\E m \in Messages : Put(m)) \/ Take \/ Sleep \/ Wake

MailSpec == MailInit /\ [][MailNext]_mailVars
=============================================================================
