--------------------------- MODULE MailboxProofs ----------------------------
(***************************************************************************)
(* Proofs about Mailbox.tla, for every set of senders, every set of        *)
(* message sizes and every ring size.                                      *)
(***************************************************************************)
EXTENDS Mailbox, Induction, SequenceTheorems, TLAPS

USE MailboxAssumption DEF MailboxAssumption, LoopStep

(* Types are only inductive together with LoopInv: ReleaseReturn takes the *)
(* tail of the ring, which has one because the item being returned is      *)
(* still in it.                                                            *)
IInv == TypeOK /\ LoopInv

LEMMA InitIInv == Init => IInv
<1> SUFFICES ASSUME Init PROVE IInv
  OBVIOUS
<1>1. ring \in Seq(Msg)
  BY EmptySeq DEF Init
<1> QED
  BY <1>1 DEF Init, IInv, TypeOK, LoopInv

(* A send copies a message behind those already in the ring.               *)
LEMMA CopyIInv ==
  ASSUME IInv, NEW s \in Sender, SendCopied(s)
  PROVE  IInv'
<1> USE DEF IInv, TypeOK, LoopInv, SendCopied, SendReturns
<1>1. [from |-> s, size |-> sending[s]] \in Msg
  BY DEF Msg
<1>2. ring' \in Seq(Msg) /\ ring' # <<>>
  BY <1>1, AppendProperties
<1> QED
  BY <1>2

(* Returning an item frees the oldest one and leaves the loop, or not.     *)
LEMMA ReturnIInv ==
  ASSUME IInv, ReleaseReturn
  PROVE  IInv'
<1> USE DEF IInv, TypeOK, LoopInv, ReleaseReturn
<1>1. ring # <<>>
  OBVIOUS
<1>2. ring' \in Seq(Msg)
  BY <1>1, HeadTailProperties
<1> QED
  BY <1>2

LEMMA NextIInv == IInv /\ [Next]_vars => IInv'
<1> SUFFICES ASSUME IInv, [Next]_vars
             PROVE  IInv'
  OBVIOUS
<1> USE DEF IInv, TypeOK, LoopInv
<1>1. ASSUME NEW s \in Sender, NEW size \in Size, SendChecked(s, size)
      PROVE  IInv'
  BY <1>1 DEF SendChecked
<1>2. ASSUME NEW s \in Sender, NEW size \in Size, SendRefused(s, size)
      PROVE  IInv'
  BY <1>2 DEF SendRefused
<1>3. ASSUME NEW s \in Sender, SendCopied(s)
      PROVE  IInv'
  BY <1>3, CopyIInv
<1>4. ASSUME NEW s \in Sender, SendTimedOut(s)
      PROVE  IInv'
  BY <1>4 DEF SendTimedOut, SendReturns
<1>5. ASSUME NEW s \in Sender, SendAfterDelete(s)
      PROVE  IInv'
  BY <1>5 DEF SendAfterDelete, SendReturns
<1>6. CASE Receive
  BY <1>6 DEF Receive
<1>7. CASE Lock
  BY <1>7 DEF Lock
<1>8. CASE ReleaseGive
  BY <1>8 DEF ReleaseGive
<1>9. CASE ReleaseReturn
  BY <1>9, ReturnIInv
<1>10. CASE Kill
  BY <1>10 DEF Kill
<1>11. CASE DtorLock
  BY <1>11 DEF DtorLock
<1>12. CASE DtorTimedOut
  BY <1>12 DEF DtorTimedOut
<1>13. CASE DtorDelete
  <2>1. ring' \in Seq(Msg)
    BY <1>13, EmptySeq DEF DtorDelete
  <2> QED
    BY <1>13, <2>1 DEF DtorDelete
<1>14. CASE UNCHANGED vars
  BY <1>14 DEF vars
<1> QED
  BY <1>1, <1>2, <1>3, <1>4, <1>5, <1>6, <1>7, <1>8, <1>9, <1>10, <1>11,
     <1>12, <1>13, <1>14
  DEF Next, SendStep, OwnerStep, DtorStep

LEMMA IInvHolds == SafeSpec => []IInv
  BY InitIInv, NextIInv, PTL DEF SafeSpec

(* Every variable keeps its type, whatever is sent and wherever the owner  *)
(* is killed.                                                              *)
THEOREM MailboxTypes == SafeSpec => []TypeOK
<1>1. IInv => TypeOK
  BY DEF IInv
<1> QED
  BY <1>1, IInvHolds, PTL

(* mailbox.cpp:193-206: the semaphore is free whenever the loop wants it,  *)
(* so receive never drops the item it has read.                            *)
THEOREM ReceiveKeepsItems == SafeSpec => []ReceiveNeverLosesItem
<1>1. IInv => ReceiveNeverLosesItem
  BY DEF IInv, LoopInv, ReceiveNeverLosesItem
<1> QED
  BY <1>1, IInvHolds, PTL

(* mailbox.cpp:243-259: all memory that was read is back in the ring when  *)
(* the loop waits for the next message.                                    *)
THEOREM NoItemLeaks == SafeSpec => []IdleHoldsNothing
<1>1. IInv => IdleHoldsNothing
  BY DEF IInv, LoopInv, IdleHoldsNothing
<1> QED
  BY <1>1, IInvHolds, PTL

(* mailbox.cpp:56-72: only the destruction of a process whose behaviour is *)
(* running waits for the semaphore.                                        *)
THEOREM DestructorWait == SafeSpec => []DestructorWaitsOnlyForHandler
<1>1. IInv => DestructorWaitsOnlyForHandler
  BY DEF IInv, TypeOK, LoopInv, DestructorWaitsOnlyForHandler
<1> QED
  BY <1>1, IInvHolds, PTL

-----------------------------------------------------------------------------
(* The refinement.  The value of the channel's queue is spelled out so     *)
(* that the sequence facts can be applied to it.                           *)
Unread == IF isRead THEN Tail(ring) ELSE ring

LEMMA CopyIsAccept ==
  ASSUME IInv, NEW s \in Sender, SendCopied(s)
  PROVE  Channel!Next \/ UNCHANGED Channel!vars
<1> USE DEF IInv, TypeOK, LoopInv, SendCopied, SendReturns
<1> DEFINE m == [from |-> s, size |-> sending[s]]
<1>1. m \in Msg
  BY DEF Msg
<1>2. CASE rpc \in LoopStep
  <2>1. Unread' = Append(Unread, m)
    BY HeadTailAppend DEF Unread
  <2>2. Channel!Accept(m)
    BY <1>2, <2>1 DEF Channel!Accept, Unread
  <2> QED
    BY <1>1, <2>2 DEF Channel!Next
<1>3. CASE rpc \notin LoopStep
  BY <1>3 DEF Channel!vars
<1> QED
  BY <1>2, <1>3

LEMMA ReceiveIsTake ==
  ASSUME IInv, Receive
  PROVE  Channel!Next
<1>1. Channel!Take
  BY DEF IInv, TypeOK, LoopInv, Receive, Channel!Take
<1> QED
  BY <1>1 DEF Channel!Next

(* Returning the item the channel no longer holds is invisible, unless the *)
(* process exits with it, which closes the channel.                        *)
LEMMA ReturnIsSilentOrClose ==
  ASSUME IInv, ReleaseReturn
  PROVE  Channel!Next \/ UNCHANGED Channel!vars
<1> USE DEF IInv, TypeOK, LoopInv, ReleaseReturn
<1>1. CASE rpc' = "receiving"
  BY <1>1 DEF Channel!vars
<1>2. CASE rpc' = "exited"
  <2>1. Channel!Close
    BY <1>2 DEF Channel!Close
  <2> QED
    BY <2>1 DEF Channel!Next
<1> QED
  BY <1>1, <1>2

LEMMA KillIsClose ==
  ASSUME IInv, Kill
  PROVE  Channel!Next
<1>1. Channel!Close
  BY DEF IInv, TypeOK, LoopInv, Kill, Channel!Close
<1> QED
  BY <1>1 DEF Channel!Next

(* mailbox.cpp, as a whole: whatever the interleaving of senders, handler  *)
(* and destructor, the mailbox is a FIFO channel that hands every accepted *)
(* message out at most once, until it closes.                              *)
THEOREM MailboxIsChannel == SafeSpec => IsSafeChannel
<1>1. Init => Channel!Init
  BY DEF Init, Channel!Init
<1>2. IInv /\ [Next]_vars => [Channel!Next]_Channel!vars
  <2> SUFFICES ASSUME IInv, [Next]_vars
               PROVE  Channel!Next \/ UNCHANGED Channel!vars
    OBVIOUS
  <2>1. ASSUME NEW s \in Sender, NEW size \in Size,
               SendChecked(s, size) \/ SendRefused(s, size)
        PROVE  UNCHANGED Channel!vars
    BY <2>1 DEF SendChecked, SendRefused, Channel!vars
  <2>2. ASSUME NEW s \in Sender, SendTimedOut(s) \/ SendAfterDelete(s)
        PROVE  UNCHANGED Channel!vars
    BY <2>2 DEF SendTimedOut, SendAfterDelete, Channel!vars
  <2>3. CASE Lock \/ ReleaseGive
    BY <2>3 DEF Lock, ReleaseGive, IInv, TypeOK, Channel!vars
  <2>4. CASE DtorStep
    BY <2>4 DEF DtorStep, DtorLock, DtorTimedOut, DtorDelete, IInv, LoopInv, Channel!vars
  <2>5. CASE UNCHANGED vars
    BY <2>5 DEF vars, Channel!vars
  <2> QED
    BY <2>1, <2>2, <2>3, <2>4, <2>5, CopyIsAccept, ReceiveIsTake,
       ReturnIsSilentOrClose, KillIsClose
    DEF Next, SendStep, OwnerStep
<1> QED
  BY <1>1, <1>2, IInvHolds, PTL DEF SafeSpec, IsSafeChannel, Channel!SafeSpec

-----------------------------------------------------------------------------
(* A send of the owner to itself.                                          *)

(* The memory of the first items is what the recursion says it is.         *)
LEMMA SizesAdd ==
  ASSUME NEW items \in Seq(Msg)
  PROVE  /\ SizeUpTo(items) \in [0..Len(items) -> Nat]
         /\ SizeUpTo(items)[0] = 0
         /\ \A n \in 1..Len(items) :
              SizeUpTo(items)[n] = SizeUpTo(items)[n - 1] + items[n].size
<1> DEFINE more(i) == IF i < Len(items) THEN items[i + 1].size ELSE 0
           step == [i \in Nat |-> [used \in Nat |-> used + more(i)]]
           Sizes(g) == g = [n \in 0..Len(items) |->
                              IF n = 0 THEN 0 ELSE g[n - 1] + items[n].size]
<1>0. Len(items) \in Nat
  OBVIOUS
<1>1. ASSUME NEW n \in 1..Len(items)
      PROVE  items[n].size \in Nat
  <2>1. items[n] \in Msg
    BY <1>0
  <2> QED
    BY <2>1 DEF Msg
<1>2. \A i \in Nat : more(i) \in Nat
  BY <1>1
<1>3. step \in [Nat -> [Nat -> Nat]]
  BY <1>2
<1>4. PICK f \in [Nat -> Nat] : \A n \in Nat : Recursive(f, 0, step, n)
  <2> HIDE DEF step
  <2> QED
    BY <1>3, RecursionExists
<1>5. f[0] = 0
  BY <1>4 DEF Recursive
<1>6. ASSUME NEW n \in 1..Len(items)
      PROVE  f[n] = f[n - 1] + items[n].size
  <2>1. n - 1 \in 0..(n - 1) /\ n - 1 \in Nat /\ n \in Nat /\ (n - 1) + 1 = n
    OBVIOUS
  <2>2. f[n] = step[n - 1][f[n - 1]]
    BY <1>4, <2>1 DEF Recursive
  <2>3. f[n - 1] \in Nat
    BY <2>1
  <2>4. step[n - 1][f[n - 1]] = f[n - 1] + more(n - 1)
    BY <2>1, <2>3
  <2>5. more(n - 1) = items[n].size
    BY <1>0, <2>1
  <2> QED
    BY <2>2, <2>4, <2>5
<1> DEFINE g == [n \in 0..Len(items) |-> f[n]]
<1>7. Sizes(g)
  <2>1. ASSUME NEW n \in 0..Len(items)
        PROVE  f[n] = IF n = 0 THEN 0 ELSE g[n - 1] + items[n].size
    <3>1. CASE n = 0
      BY <1>5, <3>1
    <3>2. CASE n # 0
      <4>1. n \in 1..Len(items) /\ n - 1 \in 0..Len(items)
        BY <1>0, <3>2
      <4> QED
        BY <1>6, <3>2, <4>1
    <3> QED
      BY <3>1, <3>2
  <2> QED
    BY <2>1
<1>8. SizeUpTo(items) = CHOOSE h : Sizes(h)
  BY DEF SizeUpTo
<1>9. Sizes(SizeUpTo(items))
  <2> HIDE DEF Sizes, g
  <2> QED
    BY <1>7, <1>8
<1> DEFINE size == SizeUpTo(items)
<1>10. size = [n \in 0..Len(items) |->
                 IF n = 0 THEN 0 ELSE size[n - 1] + items[n].size]
  BY <1>9
<1> HIDE DEF size, Sizes
<1>11. size[0] = 0
  <2>1. 0 \in 0..Len(items)
    BY <1>0
  <2> QED
    BY <1>10, <2>1
<1>12. ASSUME NEW n \in 1..Len(items)
       PROVE  size[n] = size[n - 1] + items[n].size
  <2>1. n \in 0..Len(items) /\ n # 0
    BY <1>0
  <2> QED
    BY <1>10, <2>1
<1>13. \A n \in 0..Len(items) : size[n] \in Nat
  <2> DEFINE T == {n \in Nat : n <= Len(items) => size[n] \in Nat}
  <2>1. 0 \in T
    BY <1>11
  <2>2. ASSUME NEW n \in T
        PROVE  n + 1 \in T
    <3>1. CASE n + 1 <= Len(items)
      <4>1. n + 1 \in 1..Len(items) /\ (n + 1) - 1 = n /\ n <= Len(items)
        BY <1>0, <3>1
      <4>2. size[n + 1] = size[n] + items[n + 1].size
        BY <1>12, <4>1
      <4>3. size[n] \in Nat /\ items[n + 1].size \in Nat
        BY <1>1, <4>1
      <4>. HIDE DEF T
      <4>0. \A a, b \in Nat : a + b \in Nat
        OBVIOUS
      <4>4. size[n + 1] \in Nat
        BY <4>0, <4>2, <4>3, Zenon
      <4> USE DEF T
      <4>5. n + 1 \in Nat
        OBVIOUS
      <4> QED
        BY <4>4, <4>5
    <3> QED
      BY <3>1
  <2>3. T \in SUBSET Nat
    OBVIOUS
  <2>4. T = Nat
    <3> HIDE DEF T
    <3> QED
      BY <2>1, <2>2, <2>3, SetInduction
  <2> QED
    BY <1>0, <2>4
<1>14. size \in [0..Len(items) -> Nat]
  BY <1>10, <1>13
<1> QED
  BY <1>11, <1>12, <1>14 DEF size

(* The memory in use is a number, and a message adds its size to it.       *)
LEMMA UsedIsNat ==
  ASSUME IInv
  PROVE  Used \in Nat
  BY SizesAdd DEF IInv, TypeOK, Used

LEMMA UsedByAppend ==
  ASSUME NEW items \in Seq(Msg), NEW m \in Msg
  PROVE  SizeUpTo(Append(items, m))[Len(Append(items, m))]
           = SizeUpTo(items)[Len(items)] + m.size
<1> DEFINE longer == Append(items, m)
           T == {n \in Nat : n <= Len(items) => SizeUpTo(longer)[n] = SizeUpTo(items)[n]}
<1>1. /\ longer \in Seq(Msg)
      /\ Len(longer) = Len(items) + 1
      /\ longer[Len(items) + 1] = m
      /\ \A n \in 1..Len(items) : longer[n] = items[n]
  BY AppendProperties
<1>2. 0 \in T
  BY <1>1, SizesAdd
<1>3. ASSUME NEW n \in T
      PROVE  n + 1 \in T
  <2>1. CASE n + 1 <= Len(items)
    <3>1. n + 1 \in 1..Len(items) /\ n + 1 \in 1..Len(longer) /\ (n + 1) - 1 = n
      BY <1>1, <2>1
    <3>2. SizeUpTo(longer)[n + 1] = SizeUpTo(longer)[n] + longer[n + 1].size
      BY <1>1, <3>1, SizesAdd
    <3>3. SizeUpTo(items)[n + 1] = SizeUpTo(items)[n] + items[n + 1].size
      BY <3>1, SizesAdd
    <3> QED
      BY <1>1, <2>1, <3>1, <3>2, <3>3
  <2> QED
    BY <2>1
<1>4. T = Nat
  <2>1. T \in SUBSET Nat
    OBVIOUS
  <2> HIDE DEF T
  <2> QED
    BY <1>2, <1>3, <2>1, SetInduction
<1>5. SizeUpTo(longer)[Len(items)] = SizeUpTo(items)[Len(items)]
  BY <1>4
<1>6. Len(items) + 1 \in 1..Len(longer) /\ (Len(items) + 1) - 1 = Len(items)
  BY <1>1
<1>7. SizeUpTo(longer)[Len(items) + 1]
        = SizeUpTo(longer)[Len(items)] + longer[Len(items) + 1].size
  BY <1>1, <1>6, SizesAdd
<1> QED
  BY <1>1, <1>5, <1>7

(* The owner sends from its handler only.                                  *)
SelfSendInv == sending[Owner] # 0 => rpc = "handling"

LEMMA SelfSendStep == IInv /\ SelfSendInv /\ [Next]_vars => SelfSendInv'
<1> SUFFICES ASSUME IInv, SelfSendInv, [Next]_vars
             PROVE  SelfSendInv'
  OBVIOUS
<1> USE DEF IInv, TypeOK, SelfSendInv
<1>1. ASSUME NEW s \in Sender, NEW size \in Size,
             SendChecked(s, size) \/ SendRefused(s, size)
      PROVE  SelfSendInv'
  BY <1>1 DEF SendChecked, SendRefused, MaySend
<1>2. ASSUME NEW s \in Sender, SendStep(s)
      PROVE  SelfSendInv'
  BY <1>2 DEF SendStep, SendCopied, SendTimedOut, SendAfterDelete, SendReturns
<1>3. CASE OwnerStep
  BY <1>3 DEF OwnerStep, Receive, Lock, ReleaseGive, ReleaseReturn
<1>4. CASE Kill
  BY <1>4 DEF Kill
<1>5. CASE DtorStep
  BY <1>5 DEF DtorStep, DtorLock, DtorTimedOut, DtorDelete
<1>6. CASE UNCHANGED vars
  BY <1>6 DEF vars
<1> QED
  BY <1>1, <1>2, <1>3, <1>4, <1>5, <1>6 DEF Next

(* What a step can do to a send of the owner that waits for room.          *)
SelfSend ==
  sending[Owner] # 0 /\ sending[Owner] > Free /\ dtor' = "none"
    => \/ sending'[Owner] = sending[Owner] /\ Free' <= Free
       \/ sending'[Owner] = 0 /\ result'[Owner] = "false"

LEMMA SelfSendBlocked == IInv /\ SelfSendInv /\ [Next]_vars => SelfSend
<1> SUFFICES ASSUME IInv, SelfSendInv, [Next]_vars,
                    sending[Owner] # 0, sending[Owner] > Free, dtor' = "none"
             PROVE  \/ sending'[Owner] = sending[Owner] /\ Free' <= Free
                    \/ sending'[Owner] = 0 /\ result'[Owner] = "false"
  BY DEF SelfSend
<1>1. Used \in Nat /\ sending[Owner] \in Nat /\ rpc = "handling"
  BY UsedIsNat DEF IInv, TypeOK, SelfSendInv
<1>2. ring' = ring => Free' <= Free
  BY <1>1 DEF Free, Used
<1> USE DEF IInv, TypeOK
<1>3. ASSUME NEW s \in Sender, NEW size \in Size,
             SendChecked(s, size) \/ SendRefused(s, size)
      PROVE  sending'[Owner] = sending[Owner] /\ ring' = ring
  BY <1>3 DEF SendChecked, SendRefused, MaySend
<1>4. ASSUME NEW s \in Sender, SendCopied(s)
      PROVE  sending'[Owner] = sending[Owner] /\ Free' <= Free
  <2> DEFINE m == [from |-> s, size |-> sending[s]]
  <2>1. s # Owner
    BY <1>1, <1>4 DEF SendCopied, Free
  <2>2. m \in Msg /\ m.size \in Nat
    BY <1>4 DEF SendCopied, Msg
  <2>3. Used' = Used + m.size
    BY <1>4, <2>2, UsedByAppend DEF SendCopied, Used
  <2>4. Free' <= Free
    BY <1>1, <2>2, <2>3 DEF Free
  <2> QED
    BY <1>4, <2>1, <2>4 DEF SendCopied, SendReturns
<1>5. ASSUME NEW s \in Sender, SendTimedOut(s)
      PROVE  /\ ring' = ring
             /\ \/ sending'[Owner] = sending[Owner]
                \/ sending'[Owner] = 0 /\ result'[Owner] = "false"
  BY <1>5 DEF SendTimedOut, SendReturns
<1>6. ASSUME NEW s \in Sender, SendAfterDelete(s)
      PROVE  FALSE
  BY <1>6 DEF SendAfterDelete
<1>7. ~OwnerStep
  BY <1>1 DEF OwnerStep, Receive, Lock, ReleaseGive, ReleaseReturn
<1>8. ~Kill /\ ~DtorStep
  BY DEF Kill, DtorStep, DtorLock, DtorTimedOut, DtorDelete
<1>9. CASE UNCHANGED vars
  BY <1>2, <1>9 DEF vars
<1> QED
  BY <1>2, <1>3, <1>4, <1>5, <1>6, <1>7, <1>8, <1>9 DEF Next, SendStep

(* mailbox.cpp:165-170: a send of the owner to itself that blocks stays    *)
(* blocked until it fails, whatever the other tasks send meanwhile.        *)
THEOREM SelfSendFails == SafeSpec => BlockedSelfSendFails
<1>1. Init => SelfSendInv
  BY DEF Init, SelfSendInv
<1>2. IInv /\ SelfSendInv /\ [Next]_vars => [SelfSend]_vars
  BY SelfSendBlocked
<1>3. BlockedSelfSendFails <=> [][SelfSend]_vars
  BY DEF BlockedSelfSendFails, SelfSend
<1> QED
  BY <1>1, <1>2, <1>3, IInvHolds, SelfSendStep, PTL DEF SafeSpec
=============================================================================
