------------------------------ MODULE Mailbox -------------------------------
(***************************************************************************)
(* actor_model/src/mailbox.cpp: the mailbox of one process.  Several tasks *)
(* call Mailbox::send, the task of the owning process runs the loop        *)
(* receive / behaviours / release of actor.cpp, and at any moment the      *)
(* timer daemon may destroy the process (vTaskDelete, then ~Mailbox).      *)
(*                                                                         *)
(* The ring buffer is the ESP-IDF one (external, RINGBUF_TYPE_NOSPLIT): an *)
(* item that was read keeps its memory until it is returned.  A message is *)
(* its sender and its size; the ring's memory is counted in size units.    *)
(***************************************************************************)
EXTENDS Naturals, Sequences

CONSTANTS
  Sender,           \* the tasks that send to this mailbox
  Owner,            \* the task of the owning process; it may send to itself
  Size,             \* sizes of messages, item header included
  Capacity          \* size of the ring buffer (mailbox_size)

ASSUME MailboxAssumption ==
  /\ Owner \in Sender
  /\ Size \subseteq Nat \ {0}
  /\ Capacity \in Nat

VARIABLES
  ring,             \* items in the ring buffer, oldest first
  isRead,           \* the oldest item was read and not returned yet
  sem,              \* receive_semaphore: "free", "held" or "deleted"
  rpc,              \* where the owning task is in the loop of _actor_spawn
  sending,          \* size of the message each task is sending, 0 if none
  result,           \* what the last send of each task returned
  dtor,             \* where ~Process / ~Mailbox is
  killedAt          \* history: rpc when the task was deleted

vars == <<ring, isRead, sem, rpc, sending, result, dtor, killedAt>>

Msg == [from : Sender, size : Size]

(* The memory of the first n of these items *)
SizeUpTo(items) ==
  LET size[n \in 0..Len(items)] ==
        IF n = 0 THEN 0 ELSE size[n - 1] + items[n].size
  IN  size

Used == SizeUpTo(ring)[Len(ring)]

(* xRingbufferGetCurFreeSize *)
Free == Capacity - Used

LoopStep == {"receiving", "locking", "handling", "returning"}

TypeOK ==
  /\ ring \in Seq(Msg)
  /\ isRead \in BOOLEAN
  /\ sem \in {"free", "held", "deleted"}
  /\ rpc \in LoopStep \cup {"exited", "killed"}
  /\ sending \in [Sender -> Size \cup {0}]
  /\ result \in [Sender -> {"none", "true", "false"}]
  /\ dtor \in {"none", "locking", "deleting", "deleted"}
  /\ killedAt \in LoopStep \cup {"none"}

(* Mailbox::Mailbox, and the task entering its loop *)
Init ==
  /\ ring = <<>>
  /\ isRead = FALSE
  /\ sem = "free"
  /\ rpc = "receiving"
  /\ sending = [s \in Sender |-> 0]
  /\ result = [s \in Sender |-> "none"]
  /\ dtor = "none"
  /\ killedAt = "none"

-----------------------------------------------------------------------------
(* Mailbox::send *)

(* A task calls send after it found the process in the registry.  The      *)
(* owner sends from its handler, at most once per message it handles (a    *)
(* bound; the actors that re-trigger themselves send one "tick").          *)
MaySend(s) ==
  /\ sending[s] = 0
  /\ dtor = "none"
  /\ rpc # "exited"
  /\ s = Owner => rpc = "handling" /\ result[s] = "none"

(* The size check passes: the task is now in xRingbufferSend.              *)
SendChecked(s, size) ==
  /\ MaySend(s)
  /\ size < Free
  /\ sending' = [sending EXCEPT ![s] = size]
  /\ UNCHANGED <<ring, isRead, sem, rpc, result, dtor, killedAt>>

(* The size check fails: send returns false.                               *)
SendRefused(s, size) ==
  /\ MaySend(s)
  /\ ~(size < Free)
  /\ result' = [result EXCEPT ![s] = "false"]
  /\ UNCHANGED <<ring, isRead, sem, rpc, sending, dtor, killedAt>>

SendReturns(s, res) ==
  /\ sending' = [sending EXCEPT ![s] = 0]
  /\ result' = [result EXCEPT ![s] = res]

(* xRingbufferSend copies the message as soon as it fits.                  *)
SendCopied(s) ==
  /\ sending[s] # 0
  /\ sending[s] <= Free
  /\ dtor # "deleted"
  /\ ring' = Append(ring, [from |-> s, size |-> sending[s]])
  /\ SendReturns(s, "true")
  /\ UNCHANGED <<isRead, sem, rpc, dtor, killedAt>>

(* Mutant: a send that timed out is reported as sent. *)
SendTimedOut_unreported(s) ==
  /\ sending[s] > Free
  /\ dtor # "deleted"
  /\ SendReturns(s, "true")
  /\ UNCHANGED <<ring, isRead, sem, rpc, dtor, killedAt>>

(* The ring stayed too full for send_timeout_ticks.                        *)
SendTimedOut(s) ==
  /\ sending[s] > Free
  /\ dtor # "deleted"
  /\ SendReturns(s, "false")
  /\ UNCHANGED <<ring, isRead, sem, rpc, dtor, killedAt>>

(* The ring was deleted under the task that sends: undefined behaviour,    *)
(* of which the call's two results are the outcomes that do not crash.     *)
SendAfterDelete(s) ==
  /\ sending[s] # 0
  /\ dtor = "deleted"
  /\ \E res \in {"true", "false"} : SendReturns(s, res)
  /\ UNCHANGED <<ring, isRead, sem, rpc, dtor, killedAt>>

-----------------------------------------------------------------------------
(* The loop of the owning task: Mailbox::receive, the behaviours, and      *)
(* ~ReceivedMessage, which calls Mailbox::release.                         *)

(* xRingbufferReceive hands out the oldest item. *)
Receive ==
  /\ rpc = "receiving"
  /\ ring # <<>>
  /\ ~isRead
  /\ isRead' = TRUE
  /\ rpc' = "locking"
  /\ UNCHANGED <<ring, sem, sending, result, dtor, killedAt>>

(* xSemaphoreTake succeeds: the message goes to the behaviours.  (When it  *)
(* times out the item is lost; ReceiveNeverLosesItem says it never does.)  *)
Lock ==
  /\ rpc = "locking"
  /\ sem = "free"
  /\ sem' = "held"
  /\ rpc' = "handling"
  /\ result' = [result EXCEPT ![Owner] = "none"]
  /\ UNCHANGED <<ring, isRead, sending, dtor, killedAt>>

(* Mutant: release forgets to give the semaphore back. *)
ReleaseGive_forgotten ==
  /\ rpc = "handling"
  /\ sending[Owner] = 0
  /\ rpc' = "returning"
  /\ UNCHANGED <<ring, isRead, sem, sending, result, dtor, killedAt>>

(* The behaviours returned; release gives the semaphore first ...          *)
ReleaseGive ==
  /\ rpc = "handling"
  /\ sending[Owner] = 0
  /\ sem' = "free"
  /\ rpc' = "returning"
  /\ UNCHANGED <<ring, isRead, sending, result, dtor, killedAt>>

(* Mutant: release gives the semaphore and never returns the item. *)
ReleaseReturn_forgotten ==
  /\ rpc = "returning"
  /\ rpc' \in {"receiving", "exited"}
  /\ UNCHANGED <<ring, isRead, sem, sending, result, dtor, killedAt>>

(* Mutant: the item is taken for returned, but the ring still holds it. *)
ReleaseReturn_kept ==
  /\ rpc = "returning"
  /\ isRead' = FALSE
  /\ rpc' \in {"receiving", "exited"}
  /\ UNCHANGED <<ring, sem, sending, result, dtor, killedAt>>

(* ... and then returns the item.  If a behaviour returned Error the loop  *)
(* ends: the process exits, its mailbox is unreachable and never destroyed *)
(* because vTaskDelete of the running task does not return.                *)
ReleaseReturn ==
  /\ rpc = "returning"
  /\ ring' = Tail(ring)
  /\ isRead' = FALSE
  /\ rpc' \in {"receiving", "exited"}
  /\ UNCHANGED <<sem, sending, result, dtor, killedAt>>

-----------------------------------------------------------------------------
(* Destruction by the timer daemon *)

(* ~Process deletes the task wherever it is, then ~Mailbox starts.         *)
Kill ==
  /\ dtor = "none"
  /\ rpc \in LoopStep
  /\ rpc' = "killed"
  /\ killedAt' = rpc
  /\ dtor' = "locking"
  /\ sending' = [sending EXCEPT ![Owner] = 0]
  /\ UNCHANGED <<ring, isRead, sem, result>>

(* ~Mailbox acquires the semaphore and deletes it ...                      *)
DtorLock ==
  /\ dtor = "locking"
  /\ sem = "free"
  /\ sem' = "deleted"
  /\ dtor' = "deleting"
  /\ UNCHANGED <<ring, isRead, rpc, sending, result, killedAt>>

(* ... or gives up after receive_timeout_ticks, in its critical section.   *)
DtorTimedOut ==
  /\ dtor = "locking"
  /\ sem = "held"
  /\ dtor' = "deleting"
  /\ UNCHANGED <<ring, isRead, sem, rpc, sending, result, killedAt>>

(* vRingbufferDelete *)
DtorDelete ==
  /\ dtor = "deleting"
  /\ dtor' = "deleted"
  /\ ring' = <<>>
  /\ isRead' = FALSE
  /\ UNCHANGED <<sem, rpc, sending, result, killedAt>>

-----------------------------------------------------------------------------
SendStep(s) == SendCopied(s) \/ SendTimedOut(s) \/ SendAfterDelete(s)

OwnerStep == Receive \/ Lock \/ ReleaseGive \/ ReleaseReturn

DtorStep == DtorLock \/ DtorTimedOut \/ DtorDelete

Next ==
  \/ \E s \in Sender, size \in Size : SendChecked(s, size) \/ SendRefused(s, size)
  \/ \E s \in Sender : SendStep(s)
  \/ OwnerStep
  \/ Kill
  \/ DtorStep

SafeSpec == Init /\ [][Next]_vars

(* The scheduler runs every ready task, handlers return and the timeouts   *)
(* are finite; nobody has to send or to kill.                              *)
Spec ==
  /\ SafeSpec
  /\ \A s \in Sender : WF_vars(SendStep(s))
  /\ WF_vars(OwnerStep)
  /\ WF_vars(DtorStep)

-----------------------------------------------------------------------------
(* Properties *)

(* mailbox.cpp:193-206: receive takes the item out of the ring before it   *)
(* takes the semaphore, and an item it cannot lock for is never returned:  *)
(* its memory would be lost for good.  So whenever the loop reaches the    *)
(* semaphore, every earlier message must have given it back.               *)
ReceiveNeverLosesItem == rpc = "locking" => sem = "free"

(* received_message.cpp:31-35, mailbox.cpp:243-259: when the loop waits    *)
(* for the next message, all the ring's memory it read was returned; a     *)
(* NOSPLIT ring with an item outstanding would never be empty again.       *)
IdleHoldsNothing == rpc = "receiving" => ~isRead

(* mailbox.cpp:56-72: the destructor waits for the semaphore inside a      *)
(* critical section.  It does so only if the process was killed while a    *)
(* behaviour was running, not for one killed on either side of it, where   *)
(* an item is out of the ring as well.                                     *)
DestructorWaitsOnlyForHandler ==
  dtor = "locking" /\ sem = "held" => killedAt = "handling"

(* The inductive invariant behind the three: where the loop is determines  *)
(* the semaphore and the item that is out of the ring, until a kill, which *)
(* freezes both for the destructor to find.                                *)
LoopInv ==
  /\ rpc = "handling" => sem = "held"
  /\ rpc \in {"receiving", "locking", "returning", "exited"} => sem = "free"
  /\ rpc \in {"receiving", "exited"} => ~isRead
  /\ rpc \in {"locking", "handling", "returning"} => isRead
  /\ isRead => ring # <<>>
  /\ dtor = "none" <=> rpc # "killed"
  /\ dtor = "locking" => /\ sem # "deleted"
                         /\ sem = "held" <=> killedAt = "handling"

(* The mailbox is a FIFO channel: accepted messages reach the behaviours   *)
(* once each and in order, and eventually, unless the process ends first.  *)
Channel == INSTANCE MailboxQueue WITH
  Msg <- Msg,
  queue <- IF rpc \in LoopStep
           THEN IF isRead THEN Tail(ring) ELSE ring
           ELSE <<>>,
  open <- rpc \in LoopStep

IsChannel == Channel!Spec

IsSafeChannel == Channel!SafeSpec

(* mailbox.cpp:165-170, actor.cpp:96: the owner is the only task that can  *)
(* make room in its ring, so a send to itself that blocks never succeeds:  *)
(* as long as the process lives it stays blocked, the ring at least as     *)
(* full as before, until the timeout returns with the message lost.        *)
BlockedSelfSendFails ==
  [][sending[Owner] # 0 /\ sending[Owner] > Free /\ dtor' = "none"
       => \/ sending'[Owner] = sending[Owner] /\ Free' <= Free
          \/ sending'[Owner] = 0 /\ result'[Owner] = "false"]_vars
=============================================================================
