---------------------------- MODULE MailboxQueue ----------------------------
(***************************************************************************)
(* What an actor's mailbox promises to the processes that use it: the      *)
(* messages it accepts are taken by the owning actor once each, in the     *)
(* order of acceptance, until the mailbox closes (its owner exits or is    *)
(* killed), when whatever is still queued is lost.  Mailbox.tla implements *)
(* this with a ring buffer, a semaphore and a destructor.                  *)
(***************************************************************************)
EXTENDS Sequences

CONSTANT Msg        \* the messages that can be sent

VARIABLES
  queue,            \* messages accepted and not yet taken by the owner
  open              \* FALSE once the owner has exited or been killed

vars == <<queue, open>>

TypeOK ==
  /\ queue \in Seq(Msg)
  /\ open \in BOOLEAN

Init ==
  /\ queue = <<>>
  /\ open = TRUE

Accept(m) ==
  /\ open
  /\ queue' = Append(queue, m)
  /\ UNCHANGED open

Take ==
  /\ open
  /\ queue # <<>>
  /\ queue' = Tail(queue)
  /\ UNCHANGED open

Close ==
  /\ open
  /\ open' = FALSE
  /\ queue' = <<>>

Next ==
  \/ \E m \in Msg : Accept(m)
  \/ Take
  \/ Close

SafeSpec == Init /\ [][Next]_vars

(* An accepted message is eventually taken, unless the mailbox closes.     *)
Spec == SafeSpec /\ WF_vars(Take)
=============================================================================
