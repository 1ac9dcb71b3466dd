----------------------------- MODULE NodeProofs -----------------------------
(***************************************************************************)
(* Proofs about Node.tla, for every set of processes, every length of the  *)
(* timer command queue and every choice of what the application does; and  *)
(* about Supervisor.tla, for any children: its node is a node like any     *)
(* other, a child id never has two processes, and a child is given up only *)
(* by the steps that GivenUp lists.                                        *)
(***************************************************************************)
EXTENDS Supervisor, FiniteSetTheorems, SequenceTheorems, TLAPS

-----------------------------------------------------------------------------
(* Types *)

(* Cancelling timers leaves finitely many of them, and an integer number   *)
(* of commands.                                                            *)
LEMMA CancelTimersTypes ==
  ASSUME TypeOK, NEW messages \in SUBSET timed_messages,
         NEW signals \in SUBSET timed_signals,
         CancelTimers(messages, signals)
  PROVE  /\ timed_messages' \subseteq timed_messages
         /\ timed_signals' \subseteq timed_signals
         /\ IsFiniteSet(timed_messages')
         /\ IsFiniteSet(timed_signals')
         /\ others' \in Int
<1>1. IsFiniteSet(timed_messages) /\ IsFiniteSet(timed_signals) /\ others \in Int
  BY DEF TypeOK
<1>2. ASSUME NEW S, IsFiniteSet(S)
      PROVE  IsFiniteSet(Queued(S)) /\ Cardinality(Queued(S)) \in Nat
  <2>1. Queued(S) \subseteq S
    BY DEF Queued
  <2>2. IsFiniteSet(Queued(S))
    BY <1>2, <2>1, FS_Subset
  <2> QED
    BY <2>2, FS_CardinalityType
<1>3. /\ IsFiniteSet(messages) /\ IsFiniteSet(signals)
      /\ Cardinality(messages) \in Nat /\ Cardinality(signals) \in Nat
  BY <1>1, FS_Subset, FS_CardinalityType
<1>4. /\ Cardinality(Queued(timed_messages)) \in Nat
      /\ Cardinality(Queued(timed_signals)) \in Nat
      /\ Cardinality(Queued(messages)) \in Nat
      /\ Cardinality(Queued(signals)) \in Nat
  BY <1>1, <1>2, <1>3
<1>5. QueueUsed \in Int
  BY <1>1, <1>4 DEF QueueUsed
<1>6. others' \in Int
  BY <1>1, <1>3, <1>4, <1>5, NodeAssumption DEF CancelTimers, NodeAssumption
<1>7. /\ timed_messages' \subseteq timed_messages
      /\ timed_signals' \subseteq timed_signals
  BY DEF CancelTimers
<1> QED
  BY <1>1, <1>6, <1>7, FS_Subset

(* A signal, if its timer starts, is one more entry. *)
LEMMA StartSignalTypes ==
  ASSUME TypeOK, NEW pid \in Pid, NEW from \in Pid, NEW reason \in Reason,
         StartSignal(pid, from, reason)
  PROVE  timed_signals' \subseteq Signal /\ IsFiniteSet(timed_signals')
<1> DEFINE s == [pid |-> pid, from |-> from, reason |-> reason, queued |-> TRUE]
<1>1. s \in Signal
  BY DEF Signal
<1>2. timed_signals' = timed_signals \cup {s} \/ timed_signals' = timed_signals
  BY DEF StartSignal
<1>3. timed_signals \subseteq Signal /\ IsFiniteSet(timed_signals)
  BY DEF TypeOK
<1>4. IsFiniteSet(timed_signals \cup {s})
  BY <1>3, FS_AddElement
<1> QED
  BY <1>1, <1>2, <1>3, <1>4

(* A mailbox holds messages, whether or not it had room for the last one.  *)
LEMMA DeliverTypes ==
  ASSUME TypeOK, NEW p \in Pid, NEW m \in Message, Deliver(p, m)
  PROVE  mailbox' \in [Pid -> Seq(Message)]
<1>1. mailbox[p] \in Seq(Message)
  BY DEF TypeOK
<1>2. Append(mailbox[p], m) \in Seq(Message)
  BY <1>1, AppendProperties
<1>3. mailbox \in [Pid -> Seq(Message)]
  BY DEF TypeOK
<1>4. CASE Len(mailbox[p]) < MailboxCap
  BY <1>2, <1>3, <1>4 DEF Deliver
<1>5. CASE ~(Len(mailbox[p]) < MailboxCap)
  BY <1>3, <1>5 DEF Deliver
<1> QED
  BY <1>4, <1>5

LEMMA PlainIsMessage == Plain \in Message
  BY DEF Plain, Message, Reason

(* A timer whose start command was processed is the same timer otherwise.  *)
LEMMA StartedTypes ==
  /\ \A m \in TimedMessage : [m EXCEPT !.queued = FALSE] \in TimedMessage
  /\ \A s \in Signal : [s EXCEPT !.queued = FALSE] \in Signal
  BY DEF TimedMessage, Signal

USE DEF Ctx, Reason, Terminating, Place

LEMMA InitTypes == Init => TypeOK
<1> SUFFICES ASSUME Init PROVE TypeOK
  OBVIOUS
<1>1. IsFiniteSet(timed_messages) /\ IsFiniteSet(timed_signals)
  BY FS_EmptySet DEF Init
<1>2. mailbox \in [Pid -> Seq(Message)]
  BY EmptySeq DEF Init
<1>3. /\ process_registry \subseteq Pid
      /\ named_process_registry \in [Name -> Pid \cup {NoPid}]
      /\ status \in [Pid -> {"free", "constructed", "running", "deleted"}]
      /\ links \in [Pid -> SUBSET Pid]
      /\ trap_exit \in [Pid -> BOOLEAN]
      /\ exit_reason \in [Pid -> Reason]
  BY NodeAssumption DEF Init, NodeAssumption
<1>4. /\ timed_messages \subseteq TimedMessage
      /\ next_tref \in 1..(MaxTRef + 1)
      /\ timed_signals \subseteq Signal
      /\ others \in Int
  BY NodeAssumption DEF Init, NodeAssumption
<1>5. /\ at \in [Ctx -> Place]
      /\ target \in [Ctx -> Pid \cup {NoPid}]
      /\ todo \in [Ctx -> SUBSET Pid]
      /\ sig \in Signal \cup {NoSignal}
      /\ cause \in [Ctx -> Reason]
  BY DEF Init
<1> QED
  BY <1>1, <1>2, <1>3, <1>4, <1>5 DEF TypeOK

LEMMA ApplicationTypes ==
  ASSUME TypeOK, NEW c \in Pid, Application(c)
  PROVE  TypeOK'
<1>1. ASSUME NEW p \in Pid, Send(c, p) PROVE TypeOK'
  <2>1. mailbox' \in [Pid -> Seq(Message)]
    BY <1>1, DeliverTypes, PlainIsMessage DEF Send
  <2> QED
    BY <1>1, <2>1 DEF TypeOK, Send, registries, timers, contexts
<1>2. ASSUME Receive(c) PROVE TypeOK'
  <2>1. mailbox[c] \in Seq(Message) /\ mailbox[c] # <<>>
    BY <1>2 DEF TypeOK, Receive
  <2>2. Tail(mailbox[c]) \in Seq(Message)
    BY <2>1, HeadTailProperties
  <2>3. mailbox' \in [Pid -> Seq(Message)]
    BY <1>2, <2>2 DEF TypeOK, Receive
  <2> QED
    BY <1>2, <2>3 DEF TypeOK, Receive, registries, timers, contexts
<1>3. ASSUME NEW setting \in BOOLEAN, ProcessFlag(c, setting) PROVE TypeOK'
  BY <1>3 DEF TypeOK, ProcessFlag, registries, timers, contexts
<1>4. ASSUME NEW n \in Name, NEW p \in Pid, RegisterName(c, n, p) PROVE TypeOK'
  BY <1>4 DEF TypeOK, RegisterName, processes, timers, contexts
<1>5. ASSUME NEW n \in Name, Unregister(c, n) PROVE TypeOK'
  BY <1>5 DEF TypeOK, Unregister, processes, timers, contexts
<1>6. ASSUME NEW p \in Pid, NEW is_recurring \in BOOLEAN, StartTimer(c, p, is_recurring)
      PROVE  TypeOK'
  <2> DEFINE m == [tref |-> next_tref, pid |-> p, is_recurring |-> is_recurring, queued |-> TRUE]
  <2>1. next_tref \in 1..MaxTRef /\ next_tref' \in 1..(MaxTRef + 1)
    <3>1. next_tref \in Int /\ 1 <= next_tref /\ MaxTRef \in Nat
      BY NodeAssumption DEF TypeOK, NodeAssumption
    <3>2. next_tref <= MaxTRef /\ next_tref' = next_tref + 1
      BY <1>6 DEF StartTimer
    <3> QED
      BY <3>1, <3>2
  <2>2. m \in TimedMessage
    BY <2>1 DEF TimedMessage
  <2>3. timed_messages' = timed_messages \cup {m} \/ timed_messages' = timed_messages
    BY <1>6 DEF StartTimer
  <2>4. timed_messages' \subseteq TimedMessage /\ IsFiniteSet(timed_messages')
    <3>1. timed_messages \subseteq TimedMessage /\ IsFiniteSet(timed_messages)
      BY DEF TypeOK
    <3>2. IsFiniteSet(timed_messages \cup {m})
      BY <3>1, FS_AddElement
    <3> QED
      BY <2>2, <2>3, <3>1, <3>2
  <2>5. UNCHANGED <<registries, processes, timed_signals, others, contexts>>
    BY <1>6 DEF StartTimer
  <2>6. /\ UNCHANGED <<process_registry, named_process_registry, status>>
        /\ UNCHANGED <<links, trap_exit, exit_reason, mailbox>>
        /\ UNCHANGED <<timed_signals, others, at, target, todo, sig, cause>>
    BY <2>5 DEF registries, processes, contexts
  <2> QED
    BY <2>1, <2>4, <2>6 DEF TypeOK
<1>7. ASSUME NEW m \in timed_messages, Cancel(c, m) PROVE TypeOK'
  <2>1. /\ timed_messages' \subseteq timed_messages /\ IsFiniteSet(timed_messages')
        /\ timed_signals' \subseteq timed_signals /\ IsFiniteSet(timed_signals')
        /\ others' \in Int
    BY <1>7, CancelTimersTypes DEF Cancel
  <2> QED
    BY <1>7, <2>1 DEF TypeOK, Cancel, registries, processes, contexts
<1>8. ASSUME NEW p \in Pid, NEW reason \in ApiReason, Exit(c, p, reason) PROVE TypeOK'
  <2>1. reason \in Reason
    BY NodeAssumption DEF NodeAssumption
  <2>2. timed_signals' \subseteq Signal /\ IsFiniteSet(timed_signals')
    BY <1>8, <2>1, StartSignalTypes DEF Exit
  <2> QED
    BY <1>8, <2>2 DEF TypeOK, Exit, StartSignal, registries, processes, contexts
<1>9. ASSUME NEW child \in Pid, NEW parent \in Pid \cup {NoPid}, Construct(c, child, parent)
      PROVE  TypeOK'
  <2>1. links' \in [Pid -> SUBSET Pid]
    BY <1>9 DEF TypeOK, Construct, LinkBoth
  <2> QED
    BY <1>9, <2>1 DEF TypeOK, Construct, timers
<1>10. ASSUME NEW reason \in FailReason, Fail(c, reason) PROVE TypeOK'
  <2>1. reason \in Reason
    BY NodeAssumption DEF NodeAssumption
  <2> QED
    BY <1>10, <2>1 DEF TypeOK, Fail, registries, timers
<1> QED
  BY <1>1, <1>2, <1>3, <1>4, <1>5, <1>6, <1>7, <1>8, <1>9, <1>10 DEF Application

LEMMA TaskTypes ==
  ASSUME TypeOK, NEW c \in Ctx, TaskStep(c), Emplace(c) => c \in Pid /\ target[c] \in Pid,
         at[c] = "exits" => target[c] \in Pid
  PROVE  TypeOK'
<1>1. CASE Emplace(c)
  BY <1>1 DEF TypeOK, Emplace, processes, timers
<1>2. CASE CancelMessages(c)
  <2>1. PICK done \in SomeOf({m \in timed_messages : m.pid = target[c]}) :
          CancelTimers(done, {})
    BY <1>2 DEF CancelMessages
  <2>2. /\ timed_messages' \subseteq timed_messages /\ IsFiniteSet(timed_messages')
        /\ timed_signals' \subseteq timed_signals /\ IsFiniteSet(timed_signals')
        /\ others' \in Int
    BY <2>1, CancelTimersTypes DEF SomeOf
  <2> QED
    BY <1>2, <2>2 DEF TypeOK, CancelMessages, registries, processes
<1>3. CASE CancelSignals(c)
  <2>1. PICK done \in SomeOf({s \in timed_signals : s.pid = target[c]}) :
          /\ CancelTimers({}, done)
          /\ \/ at' = [at EXCEPT ![c] = "names"]
             \/ at' = [at EXCEPT ![c] = "finish"]
    BY <1>3 DEF CancelSignals
  <2>2. /\ timed_messages' \subseteq timed_messages /\ IsFiniteSet(timed_messages')
        /\ timed_signals' \subseteq timed_signals /\ IsFiniteSet(timed_signals')
        /\ others' \in Int
    BY <2>1, CancelTimersTypes DEF SomeOf
  <2>3. at' \in [Ctx -> Place]
    BY <2>1 DEF TypeOK
  <2> QED
    BY <1>3, <2>2, <2>3 DEF TypeOK, CancelSignals, registries, processes
<1>4. CASE DropNames(c)
  BY <1>4 DEF TypeOK, DropNames, processes, timers
<1>5. CASE Erase(c)
  BY <1>5 DEF TypeOK, Erase, processes, timers
<1>6. CASE EraseNothing(c)
  BY <1>6 DEF TypeOK, EraseNothing, registries, processes, timers
<1>7. ASSUME NEW p \in Pid, SendExit(c, p) PROVE TypeOK'
  <2>1. target[c] \in Pid /\ exit_reason[target[c]] \in Reason
    BY <1>7 DEF TypeOK, SendExit
  <2>2. timed_signals' \subseteq Signal /\ IsFiniteSet(timed_signals')
    BY <1>7, <2>1, StartSignalTypes DEF SendExit
  <2> QED
    BY <1>7, <2>2 DEF TypeOK, SendExit, StartSignal, registries, processes
<1>8. CASE DeleteTask(c)
  <2>1. target[c] \in Pid
    BY <1>8 DEF DeleteTask
  <2>2. <<>> \in Seq(Message)
    BY EmptySeq
  <2>3. mailbox' \in [Pid -> Seq(Message)]
    BY <1>8, <2>1, <2>2 DEF TypeOK, DeleteTask
  <2> QED
    BY <1>8, <2>1, <2>3 DEF TypeOK, DeleteTask, timers
<1> QED
  BY <1>1, <1>2, <1>3, <1>4, <1>5, <1>6, <1>7, <1>8 DEF TaskStep, Terminate

LEMMA DaemonTypes ==
  ASSUME TypeOK, DaemonStep, at[Daemon] = "exits" => target[Daemon] \in Pid,
         at[Daemon] # "spawning"
  PROVE  TypeOK'
<1>1. CASE DrainCommand
  <2>1. ASSUME NEW m \in timed_messages,
               timed_messages' = (timed_messages \ {m}) \cup {[m EXCEPT !.queued = FALSE]}
        PROVE  timed_messages' \subseteq TimedMessage /\ IsFiniteSet(timed_messages')
    <3>1. timed_messages \subseteq TimedMessage /\ IsFiniteSet(timed_messages)
      BY DEF TypeOK
    <3>2. [m EXCEPT !.queued = FALSE] \in TimedMessage
      BY <3>1, StartedTypes
    <3>3. IsFiniteSet(timed_messages \ {m})
      BY <3>1, FS_RemoveElement
    <3>4. IsFiniteSet((timed_messages \ {m}) \cup {[m EXCEPT !.queued = FALSE]})
      BY <3>3, FS_AddElement
    <3> QED
      BY <2>1, <3>1, <3>2, <3>4
  <2>2. ASSUME NEW s \in timed_signals,
               timed_signals' = (timed_signals \ {s}) \cup {[s EXCEPT !.queued = FALSE]}
        PROVE  timed_signals' \subseteq Signal /\ IsFiniteSet(timed_signals')
    <3>1. timed_signals \subseteq Signal /\ IsFiniteSet(timed_signals)
      BY DEF TypeOK
    <3>2. [s EXCEPT !.queued = FALSE] \in Signal
      BY <3>1, StartedTypes
    <3>3. IsFiniteSet(timed_signals \ {s})
      BY <3>1, FS_RemoveElement
    <3>4. IsFiniteSet((timed_signals \ {s}) \cup {[s EXCEPT !.queued = FALSE]})
      BY <3>3, FS_AddElement
    <3> QED
      BY <2>2, <3>1, <3>2, <3>4
  <2>3. timed_messages' \subseteq TimedMessage /\ IsFiniteSet(timed_messages')
    BY <1>1, <2>1 DEF TypeOK, DrainCommand
  <2>4. timed_signals' \subseteq Signal /\ IsFiniteSet(timed_signals')
    BY <1>1, <2>2 DEF TypeOK, DrainCommand
  <2>5. others' \in Int
    BY <1>1 DEF TypeOK, DrainCommand
  <2> QED
    BY <1>1, <2>3, <2>4, <2>5 DEF TypeOK, DrainCommand, registries, processes, contexts
<1>2. ASSUME NEW m \in timed_messages, MessageTimer(m) PROVE TypeOK'
  <2>1. m.pid \in Pid
    BY DEF TypeOK, TimedMessage
  <2>2. mailbox' \in [Pid -> Seq(Message)]
    BY <1>2, <2>1, DeliverTypes, PlainIsMessage DEF MessageTimer, TypeOK
  <2>3. /\ timed_messages' \subseteq timed_messages /\ IsFiniteSet(timed_messages')
        /\ timed_signals' \subseteq timed_signals /\ IsFiniteSet(timed_signals')
        /\ others' \in Int
    BY <1>2, CancelTimersTypes DEF MessageTimer, TypeOK
  <2> QED
    BY <1>2, <2>2, <2>3 DEF TypeOK, MessageTimer, registries, contexts
<1>3. ASSUME NEW s \in timed_signals, SignalTimer(s) PROVE TypeOK'
  <2>1. s \in Signal /\ s.pid \in Pid /\ s.from \in Pid /\ s.reason \in Reason
    BY DEF TypeOK, Signal
  <2>2. UnlinkBoth(s.pid, s.from) \in [Pid -> SUBSET Pid]
    BY <2>1 DEF UnlinkBoth, TypeOK
  <2>3. CASE SignalUnknown(s)
    BY <2>1, <2>3 DEF TypeOK, SignalUnknown, SignalExpires, registries, timers
  <2>4. CASE SignalTrapped(s)
    <3>1. [type |-> "kill", from |-> s.from, reason |-> s.reason] \in Message
      BY <2>1 DEF Message
    <3>2. mailbox' \in [Pid -> Seq(Message)]
      BY <2>1, <2>4, <3>1, DeliverTypes DEF SignalTrapped
    <3> QED
      BY <2>1, <2>2, <2>4, <3>2 DEF TypeOK, SignalTrapped, SignalExpires, registries, timers
  <2>5. CASE SignalNormal(s)
    BY <2>1, <2>2, <2>5 DEF TypeOK, SignalNormal, SignalExpires, registries, timers
  <2>6. CASE SignalKills(s)
    BY <2>1, <2>2, <2>6 DEF TypeOK, SignalKills, SignalExpires, registries, timers
  <2> QED
    BY <1>3, <2>3, <2>4, <2>5, <2>6 DEF SignalTimer
<1>4. CASE FinishSignal
  <2>1. /\ timed_messages' \subseteq timed_messages /\ IsFiniteSet(timed_messages')
        /\ timed_signals' \subseteq timed_signals /\ IsFiniteSet(timed_signals')
        /\ others' \in Int
    BY <1>4, CancelTimersTypes DEF FinishSignal
  <2> QED
    BY <1>4, <2>1 DEF TypeOK, FinishSignal, registries, processes
<1>5. CASE Terminate(Daemon)
  BY <1>5, TaskTypes DEF TaskStep, Emplace
<1> QED
  BY <1>1, <1>2, <1>3, <1>4, <1>5 DEF DaemonStep

-----------------------------------------------------------------------------
(* The registry *)

LEMMA InitRegistry == Init => RegistryInv
<1> SUFFICES ASSUME Init PROVE RegistryInv
  OBVIOUS
<1>1. Root \subseteq Pid /\ Daemon \notin Pid
  BY NodeAssumption DEF NodeAssumption
<1>2. RegisteredRun /\ FreeUnlinked /\ SignalsHaveOrigin
  BY <1>1 DEF Init, RegisteredRun, FreeUnlinked, SignalsHaveOrigin
<1>3. LinksAgree
  BY <1>1 DEF Init, LinksAgree, Known
<1>4. TargetsExist /\ OneEach
  BY <1>1 DEF Init, TargetsExist, OneEach
<1> QED
  BY <1>2, <1>3, <1>4 DEF RegistryInv

(* What a step may do to the registry without disturbing it: new signals   *)
(* come from processes that ran, and a context moves from one place to     *)
(* another of the same kind, or to one without a target.                   *)
LEMMA QuietStep ==
  ASSUME TypeOK, RegistryInv,
         UNCHANGED <<process_registry, status, links>>,
         SignalsHaveOrigin',
         TargetsExist', OneEach'
  PROVE  RegistryInv'
BY DEF RegistryInv, RegisteredRun, LinksAgree, FreeUnlinked, Known

LEMMA StillStep ==
  ASSUME TypeOK, RegistryInv,
         UNCHANGED <<process_registry, status, links, at, target>>,
         SignalsHaveOrigin'
  PROVE  RegistryInv'
<1>1. TargetsExist' /\ OneEach'
  BY DEF RegistryInv, TargetsExist, OneEach
<1> QED
  BY <1>1, QuietStep

(* A context that is not at one of the places with an obligation.          *)
LEMMA MoveStep ==
  ASSUME TypeOK, RegistryInv, NEW c \in Ctx, NEW place,
         UNCHANGED <<process_registry, status, links, target>>,
         at' = [at EXCEPT ![c] = place],
         \/ place \notin Terminating \cup {"spawning", "exits"}
         \/ place \in Terminating /\ at[c] \in Terminating,
         timed_signals' \subseteq timed_signals
  PROVE  RegistryInv'
<1>1. SignalsHaveOrigin'
  BY DEF RegistryInv, SignalsHaveOrigin
<1>2. TargetsExist'
  BY DEF RegistryInv, TargetsExist, TypeOK
<1>3. OneEach'
  BY DEF RegistryInv, OneEach, TypeOK
<1> QED
  BY <1>1, <1>2, <1>3, QuietStep

LEMMA StartSignalOrigin ==
  ASSUME TypeOK, RegistryInv, NEW pid \in Pid, NEW from \in Pid, NEW reason \in Reason,
         StartSignal(pid, from, reason), status[from] = "running", UNCHANGED status
  PROVE  SignalsHaveOrigin'
<1> DEFINE s == [pid |-> pid, from |-> from, reason |-> reason, queued |-> TRUE]
<1>1. timed_signals' = timed_signals \cup {s} \/ timed_signals' = timed_signals
  BY DEF StartSignal
<1>2. status[s.from] = "running"
  OBVIOUS
<1> QED
  BY <1>1, <1>2 DEF RegistryInv, SignalsHaveOrigin

LEMMA ApplicationRegistry ==
  ASSUME TypeOK, RegistryInv, NEW c \in Pid, Application(c)
  PROVE  RegistryInv'
<1> USE DEF registries, processes, timers, contexts
<1>1. ASSUME UNCHANGED <<process_registry, status, links, at, target, timed_signals>>
      PROVE  RegistryInv'
  BY <1>1, StillStep DEF RegistryInv, SignalsHaveOrigin
<1>2. ASSUME NEW m \in timed_messages, Cancel(c, m) PROVE RegistryInv'
  <2>1. timed_signals' \subseteq timed_signals
    BY <1>2 DEF Cancel, CancelTimers
  <2>2. SignalsHaveOrigin'
    BY <1>2, <2>1 DEF Cancel, RegistryInv, SignalsHaveOrigin
  <2> QED
    BY <1>2, <2>2, StillStep DEF Cancel
<1>3. ASSUME NEW p \in Pid, NEW reason \in ApiReason, Exit(c, p, reason) PROVE RegistryInv'
  <2>1. reason \in Reason
    BY NodeAssumption DEF NodeAssumption
  <2>2. SignalsHaveOrigin'
    BY <1>3, <2>1, StartSignalOrigin DEF Exit, Running
  <2> QED
    BY <1>3, <2>2, StillStep DEF Exit
<1>4. ASSUME NEW child \in Pid, NEW parent \in Pid \cup {NoPid}, Construct(c, child, parent)
      PROVE  RegistryInv'
  <2>1. /\ status[child] = "free" /\ status[c] = "running" /\ at[c] = "run"
        /\ status' = [status EXCEPT ![child] = "constructed"]
        /\ links' = LinkBoth(child, parent)
        /\ at' = [at EXCEPT ![c] = "spawning"]
        /\ target' = [target EXCEPT ![c] = child]
        /\ UNCHANGED <<process_registry, timed_signals>>
    BY <1>4 DEF Construct, Running
  <2>2. parent # child
    BY <1>4, <2>1, NodeAssumption DEF Construct, NodeAssumption
  <2>3. process_registry \subseteq Pid /\ child \notin process_registry
    BY <2>1 DEF RegistryInv, RegisteredRun, TypeOK
  <2>4. RegisteredRun'
    BY <2>1, <2>3 DEF RegistryInv, RegisteredRun, TypeOK
  <2>5. Known' = Known \cup {child} /\ Known \subseteq Pid /\ child \notin Known
    BY <2>1, <2>3 DEF Known, TypeOK
  <2>6. LinksAgree'
    <3> SUFFICES ASSUME NEW p \in Known', NEW q \in Known'
                 PROVE  (q \in links[p] <=> p \in links[q])'
      BY DEF LinksAgree
    <3>1. p \in Pid /\ q \in Pid
      BY <2>5
    <3>2. \A r \in Pid : child \notin links[r] /\ r \notin links[child]
      BY <2>1 DEF RegistryInv, FreeUnlinked
    <3>3. p # child /\ q # child => (q \in links[p] <=> p \in links[q])
      BY <2>5 DEF RegistryInv, LinksAgree
    <3>4. CASE parent \in process_registry
      <4>1. parent \in Pid /\ links' = [links EXCEPT ![child] = @ \cup {parent}, ![parent] = @ \cup {child}]
        BY <2>1, <2>3, <3>4 DEF LinkBoth
      <4> QED
        BY <2>2, <3>1, <3>2, <3>3, <4>1 DEF TypeOK
    <3>5. CASE parent \notin process_registry
      BY <2>1, <3>1, <3>2, <3>3, <3>5 DEF LinkBoth
    <3> QED
      BY <3>4, <3>5
  <2>7. FreeUnlinked'
    <3> SUFFICES ASSUME NEW p \in Pid, NEW q \in Pid, status'[q] = "free"
                 PROVE  p \notin links'[q] /\ q \notin links'[p]
      BY DEF FreeUnlinked
    <3>1. q # child /\ status[q] = "free"
      BY <2>1 DEF TypeOK
    <3>2. q \notin process_registry
      BY <3>1 DEF RegistryInv, RegisteredRun
    <3>3. p \notin links[q] /\ q \notin links[p]
      BY <3>1 DEF RegistryInv, FreeUnlinked
    <3> QED
      BY <2>1, <2>3, <3>1, <3>2, <3>3 DEF LinkBoth, TypeOK
  <2>8. SignalsHaveOrigin'
    <3> SUFFICES ASSUME NEW s \in timed_signals PROVE status'[s.from] \in {"running", "deleted"}
      BY <2>1 DEF SignalsHaveOrigin
    <3>1. s.from \in Pid /\ status[s.from] \in {"running", "deleted"}
      BY DEF RegistryInv, SignalsHaveOrigin, TypeOK, Signal
    <3> QED
      BY <2>1, <3>1 DEF TypeOK
  <2>9. TargetsExist'
    BY <2>1 DEF RegistryInv, TargetsExist, TypeOK
  <2>10. OneEach'
    BY <2>1 DEF RegistryInv, TargetsExist, OneEach, TypeOK
  <2> QED
    BY <2>4, <2>6, <2>7, <2>8, <2>9, <2>10 DEF RegistryInv
<1>5. ASSUME NEW reason \in FailReason, Fail(c, reason) PROVE RegistryInv'
  <2>1. /\ status[c] = "running" /\ at[c] = "run"
        /\ at' = [at EXCEPT ![c] = "messages"]
        /\ target' = [target EXCEPT ![c] = c]
        /\ UNCHANGED <<process_registry, status, links, timed_signals>>
    BY <1>5 DEF Fail, Running
  <2>2. TargetsExist'
    BY <2>1 DEF RegistryInv, TargetsExist, TypeOK
  <2>3. OneEach'
    BY <2>1 DEF RegistryInv, OneEach, TypeOK
  <2>4. SignalsHaveOrigin'
    BY <2>1 DEF RegistryInv, SignalsHaveOrigin
  <2> QED
    BY <2>1, <2>2, <2>3, <2>4, QuietStep
<1>6. ASSUME NEW p \in Pid, Send(c, p) PROVE RegistryInv'
  BY <1>1, <1>6 DEF Send
<1>7. ASSUME Receive(c) PROVE RegistryInv'
  BY <1>1, <1>7 DEF Receive
<1>8. ASSUME NEW setting \in BOOLEAN, ProcessFlag(c, setting) PROVE RegistryInv'
  BY <1>1, <1>8 DEF ProcessFlag
<1>9. ASSUME NEW n \in Name, NEW p \in Pid, RegisterName(c, n, p) PROVE RegistryInv'
  BY <1>1, <1>9 DEF RegisterName
<1>10. ASSUME NEW n \in Name, Unregister(c, n) PROVE RegistryInv'
  BY <1>1, <1>10 DEF Unregister
<1>11. ASSUME NEW p \in Pid, NEW is_recurring \in BOOLEAN, StartTimer(c, p, is_recurring)
       PROVE  RegistryInv'
  BY <1>1, <1>11 DEF StartTimer
<1> QED
  BY <1>2, <1>3, <1>4, <1>5, <1>6, <1>7, <1>8, <1>9, <1>10, <1>11 DEF Application

LEMMA TaskRegistry ==
  ASSUME TypeOK, RegistryInv, NEW c \in Ctx, TaskStep(c)
  PROVE  RegistryInv'
<1> USE DEF registries, processes, timers, contexts
<1>1. CASE Emplace(c)
  <2> DEFINE child == target[c]
  <2>1. /\ at[c] = "spawning"
        /\ process_registry' = process_registry \cup {child}
        /\ status' = [status EXCEPT ![child] = "running"]
        /\ at' = [at EXCEPT ![c] = "run"]
        /\ target' = [target EXCEPT ![c] = NoPid]
        /\ UNCHANGED <<links, timed_signals>>
    BY <1>1 DEF Emplace
  <2>2. child \in Pid /\ status[child] = "constructed"
    BY <2>1 DEF RegistryInv, TargetsExist
  <2>3. RegisteredRun'
    BY <2>1, <2>2 DEF RegistryInv, RegisteredRun, TypeOK
  <2>4. Known' = Known
    BY <2>1, <2>2 DEF Known, TypeOK
  <2>5. LinksAgree'
    BY <2>1, <2>4 DEF RegistryInv, LinksAgree
  <2>6. FreeUnlinked'
    BY <2>1, <2>2 DEF RegistryInv, FreeUnlinked, TypeOK
  <2>7. SignalsHaveOrigin'
    <3> SUFFICES ASSUME NEW s \in timed_signals PROVE status'[s.from] \in {"running", "deleted"}
      BY <2>1 DEF SignalsHaveOrigin
    <3>1. s.from \in Pid /\ status[s.from] \in {"running", "deleted"}
      BY DEF RegistryInv, SignalsHaveOrigin, TypeOK, Signal
    <3> QED
      BY <2>1, <3>1 DEF TypeOK
  <2>8. TargetsExist'
    <3> SUFFICES ASSUME NEW d \in Ctx
                 PROVE  /\ at'[d] = "spawning" => d \in Pid /\ target'[d] \in Pid /\ status'[target'[d]] = "constructed"
                        /\ at'[d] \in Terminating => target'[d] \in Pid /\ status'[target'[d]] \in {"running", "deleted"}
                        /\ at'[d] = "exits" => target'[d] \in Pid \ process_registry' /\ status'[target'[d]] = "running"
      BY DEF TargetsExist
    <3>1. CASE d = c
      BY <2>1, <3>1 DEF TypeOK
    <3>2. CASE d # c
      <4>1. at'[d] = at[d] /\ target'[d] = target[d]
        BY <2>1, <3>2 DEF TypeOK
      <4>2. at[d] = "spawning" => target[d] # child
        BY <2>1, <3>2 DEF RegistryInv, OneEach
      <4> QED
        BY <2>1, <2>2, <4>1, <4>2 DEF RegistryInv, TargetsExist, TypeOK
    <3> QED
      BY <3>1, <3>2
  <2>9. OneEach'
    BY <2>1 DEF RegistryInv, OneEach, TypeOK
  <2> QED
    BY <2>3, <2>5, <2>6, <2>7, <2>8, <2>9 DEF RegistryInv
<1>2. CASE CancelMessages(c)
  <2>1. timed_signals' \subseteq timed_signals
    BY <1>2 DEF CancelMessages, CancelTimers
  <2> QED
    BY <1>2, <2>1, MoveStep DEF CancelMessages
<1>3. CASE CancelSignals(c)
  <2>1. timed_signals' \subseteq timed_signals
    BY <1>3 DEF CancelSignals, CancelTimers
  <2>2. PICK place \in {"names", "finish"} : at' = [at EXCEPT ![c] = place]
    BY <1>3 DEF CancelSignals
  <2> QED
    BY <1>3, <2>1, <2>2, MoveStep DEF CancelSignals
<1>4. CASE DropNames(c)
  BY <1>4, MoveStep DEF DropNames
<1>5. CASE Erase(c)
  <2> DEFINE p == target[c]
  <2>1. /\ at[c] = "erase" /\ p \in process_registry
        /\ process_registry' = process_registry \ {p}
        /\ at' = [at EXCEPT ![c] = "exits"]
        /\ UNCHANGED <<status, links, target, timed_signals>>
    BY <1>5 DEF Erase
  <2>2. p \in Pid /\ status[p] = "running"
    BY <2>1 DEF RegistryInv, RegisteredRun, TypeOK
  <2>3. RegisteredRun' /\ FreeUnlinked' /\ SignalsHaveOrigin'
    BY <2>1 DEF RegistryInv, RegisteredRun, FreeUnlinked, SignalsHaveOrigin
  <2>4. LinksAgree'
    BY <2>1 DEF RegistryInv, LinksAgree, Known
  <2>5. TargetsExist'
    BY <2>1, <2>2 DEF RegistryInv, TargetsExist, TypeOK
  <2>6. \A d \in Ctx : at[d] = "exits" => target[d] # p
    BY <2>1 DEF RegistryInv, TargetsExist
  <2>7. OneEach'
    BY <2>1, <2>6 DEF RegistryInv, OneEach, TypeOK
  <2> QED
    BY <2>3, <2>4, <2>5, <2>7 DEF RegistryInv
<1>6. CASE EraseNothing(c)
  <2>1. PICK place \in {"finish", "returned"} : at' = [at EXCEPT ![c] = place]
    BY <1>6 DEF EraseNothing
  <2> QED
    BY <1>6, <2>1, MoveStep DEF EraseNothing
<1>7. ASSUME NEW p \in Pid, SendExit(c, p) PROVE RegistryInv'
  <2>1. target[c] \in Pid /\ status[target[c]] = "running" /\ exit_reason[target[c]] \in Reason
    BY <1>7 DEF SendExit, RegistryInv, TargetsExist, TypeOK
  <2>2. SignalsHaveOrigin'
    BY <1>7, <2>1, StartSignalOrigin DEF SendExit
  <2> QED
    BY <1>7, <2>2, StillStep DEF SendExit
<1>8. CASE DeleteTask(c)
  <2> DEFINE p == target[c]
  <2>1. /\ at[c] = "exits"
        /\ status' = [status EXCEPT ![p] = "deleted"]
        /\ links' = [links EXCEPT ![p] = {}]
        /\ at' = [at EXCEPT ![c] = "finish", ![p] = "deleted"]
        /\ target' = [target EXCEPT ![c] = NoPid, ![p] = NoPid]
        /\ UNCHANGED <<process_registry, timed_signals>>
    BY <1>8 DEF DeleteTask
  <2>2. p \in Pid \ process_registry /\ status[p] = "running"
    BY <2>1 DEF RegistryInv, TargetsExist
  <2>3. RegisteredRun'
    BY <2>1, <2>2 DEF RegistryInv, RegisteredRun, TypeOK
  <2>4. Known' = Known /\ p \notin Known /\ Known \subseteq Pid
    BY <2>1, <2>2 DEF Known, TypeOK
  <2>5. LinksAgree'
    BY <2>1, <2>2, <2>4 DEF RegistryInv, LinksAgree, TypeOK
  <2>6. FreeUnlinked'
    BY <2>1, <2>2 DEF RegistryInv, FreeUnlinked, TypeOK
  <2>7. SignalsHaveOrigin'
    <3> SUFFICES ASSUME NEW s \in timed_signals PROVE status'[s.from] \in {"running", "deleted"}
      BY <2>1 DEF SignalsHaveOrigin
    <3>1. s.from \in Pid /\ status[s.from] \in {"running", "deleted"}
      BY DEF RegistryInv, SignalsHaveOrigin, TypeOK, Signal
    <3> QED
      BY <2>1, <3>1 DEF TypeOK
  <2>8. \A d \in Ctx : at'[d] \in {"finish", "deleted"} \/ (at'[d] = at[d] /\ target'[d] = target[d] /\ d # c)
    BY <2>1, <2>2 DEF TypeOK
  <2>9. TargetsExist'
    <3> SUFFICES ASSUME NEW d \in Ctx
                 PROVE  /\ at'[d] = "spawning" => d \in Pid /\ target'[d] \in Pid /\ status'[target'[d]] = "constructed"
                        /\ at'[d] \in Terminating => target'[d] \in Pid /\ status'[target'[d]] \in {"running", "deleted"}
                        /\ at'[d] = "exits" => target'[d] \in Pid \ process_registry' /\ status'[target'[d]] = "running"
      BY DEF TargetsExist
    <3>1. CASE at'[d] \in {"finish", "deleted"}
      BY <3>1
    <3>2. CASE at'[d] = at[d] /\ target'[d] = target[d] /\ d # c
      <4>1. at[d] = "exits" => target[d] # p
        BY <2>1, <3>2 DEF RegistryInv, OneEach
      <4> QED
        BY <2>1, <2>2, <3>2, <4>1 DEF RegistryInv, TargetsExist, TypeOK
    <3> QED
      BY <2>8, <3>1, <3>2
  <2>10. OneEach'
    BY <2>8 DEF RegistryInv, OneEach
  <2> QED
    BY <2>3, <2>5, <2>6, <2>7, <2>9, <2>10 DEF RegistryInv
<1> QED
  BY <1>1, <1>2, <1>3, <1>4, <1>5, <1>6, <1>7, <1>8 DEF TaskStep, Terminate

LEMMA DaemonRegistry ==
  ASSUME TypeOK, RegistryInv, DaemonStep
  PROVE  RegistryInv'
<1> USE DEF registries, processes, timers, contexts
<1>1. CASE DrainCommand
  <2>1. ASSUME NEW s \in timed_signals,
               timed_signals' = (timed_signals \ {s}) \cup {[s EXCEPT !.queued = FALSE]}
        PROVE  \A r \in timed_signals' : \E q \in timed_signals : r.from = q.from
    <3>1. [s EXCEPT !.queued = FALSE].from = s.from
      BY DEF TypeOK, Signal
    <3> QED
      BY <2>1, <3>1
  <2>2. \A r \in timed_signals' : \E q \in timed_signals : r.from = q.from
    BY <1>1, <2>1 DEF DrainCommand
  <2>3. SignalsHaveOrigin'
    BY <1>1, <2>2 DEF DrainCommand, RegistryInv, SignalsHaveOrigin
  <2> QED
    BY <1>1, <2>3, StillStep DEF DrainCommand
<1>2. ASSUME NEW m \in timed_messages, MessageTimer(m) PROVE RegistryInv'
  <2>1. timed_signals' \subseteq timed_signals
    BY <1>2 DEF MessageTimer, CancelTimers
  <2>2. SignalsHaveOrigin'
    BY <1>2, <2>1 DEF MessageTimer, RegistryInv, SignalsHaveOrigin
  <2> QED
    BY <1>2, <2>2, StillStep DEF MessageTimer
<1>3. ASSUME NEW s \in timed_signals, SignalTimer(s) PROVE RegistryInv'
  <2>1. s.pid \in Pid /\ s.from \in Pid /\ status[s.from] \in {"running", "deleted"}
    BY DEF RegistryInv, SignalsHaveOrigin, TypeOK, Signal
  <2>2. CASE SignalUnknown(s)
    BY <2>2, MoveStep DEF SignalUnknown, SignalExpires
  <2>3. ASSUME s.pid \in process_registry, links' = UnlinkBoth(s.pid, s.from),
               UNCHANGED <<process_registry, status>>
        PROVE  LinksAgree' /\ FreeUnlinked'
    <3>1. s.pid \in Known /\ (s.from \in Known => s.from \in process_registry)
      BY <2>1, <2>3 DEF Known
    <3>2. Known' = Known /\ Known \subseteq Pid
      BY <2>3 DEF Known, TypeOK
    <3>3. CASE s.from \in process_registry
      <4>1. links' = [links EXCEPT ![s.pid] = @ \ {s.from}, ![s.from] = @ \ {s.pid}]
        BY <2>3, <3>3 DEF UnlinkBoth
      <4>2. LinksAgree'
        BY <2>1, <3>2, <4>1 DEF RegistryInv, LinksAgree, TypeOK
      <4>3. \A r \in Pid : links'[r] \subseteq links[r]
        BY <2>1, <4>1 DEF TypeOK
      <4>4. FreeUnlinked'
        BY <2>3, <4>3 DEF RegistryInv, FreeUnlinked
      <4> QED
        BY <4>2, <4>4
    <3>4. CASE s.from \notin process_registry
      <4>1. links' = [links EXCEPT ![s.pid] = @ \ {s.from}]
        BY <2>3, <3>4 DEF UnlinkBoth
      <4>2. s.from \notin Known
        BY <3>1, <3>4
      <4>3. LinksAgree'
        BY <2>1, <3>2, <4>1, <4>2 DEF RegistryInv, LinksAgree, TypeOK
      <4>4. FreeUnlinked'
        BY <2>1, <2>3, <4>1 DEF RegistryInv, FreeUnlinked, TypeOK
      <4> QED
        BY <4>3, <4>4
    <3> QED
      BY <3>3, <3>4
  <2>4. ASSUME s.pid \in process_registry, links' = UnlinkBoth(s.pid, s.from),
               SignalExpires(s, "finish"), UNCHANGED target
        PROVE  RegistryInv'
    <3>1. RegisteredRun' /\ SignalsHaveOrigin'
      BY <2>4 DEF SignalExpires, RegistryInv, RegisteredRun, SignalsHaveOrigin
    <3>2. TargetsExist' /\ OneEach'
      BY <2>4 DEF SignalExpires, RegistryInv, TargetsExist, OneEach, TypeOK
    <3> QED
      BY <2>3, <2>4, <3>1, <3>2 DEF SignalExpires, RegistryInv
  <2>5. CASE SignalTrapped(s)
    BY <2>4, <2>5 DEF SignalTrapped
  <2>6. CASE SignalNormal(s)
    BY <2>4, <2>6 DEF SignalNormal
  <2>7. CASE SignalKills(s)
    <3>1. /\ s.pid \in process_registry
          /\ at' = [at EXCEPT ![Daemon] = "messages"]
          /\ target' = [target EXCEPT ![Daemon] = s.pid]
          /\ links' = UnlinkBoth(s.pid, s.from)
          /\ UNCHANGED <<process_registry, status, timed_signals>>
      BY <2>7 DEF SignalKills, SignalExpires
    <3>2. status[s.pid] = "running"
      BY <3>1 DEF RegistryInv, RegisteredRun
    <3>3. RegisteredRun' /\ SignalsHaveOrigin'
      BY <3>1 DEF RegistryInv, RegisteredRun, SignalsHaveOrigin
    <3>4. TargetsExist'
      BY <2>1, <3>1, <3>2 DEF RegistryInv, TargetsExist, TypeOK
    <3>5. OneEach'
      BY <3>1 DEF RegistryInv, OneEach, TypeOK
    <3> QED
      BY <2>3, <3>1, <3>3, <3>4, <3>5 DEF RegistryInv
  <2> QED
    BY <1>3, <2>2, <2>5, <2>6, <2>7 DEF SignalTimer
<1>4. CASE FinishSignal
  <2>1. timed_signals' \subseteq timed_signals
    BY <1>4 DEF FinishSignal, CancelTimers
  <2>2. /\ at' = [at EXCEPT ![Daemon] = "idle"]
        /\ target' = [target EXCEPT ![Daemon] = NoPid]
        /\ UNCHANGED <<process_registry, status, links>>
    BY <1>4 DEF FinishSignal
  <2>3. SignalsHaveOrigin'
    BY <2>1, <2>2 DEF RegistryInv, SignalsHaveOrigin
  <2>4. TargetsExist'
    BY <2>2 DEF RegistryInv, TargetsExist, TypeOK
  <2>5. OneEach'
    BY <2>2 DEF RegistryInv, OneEach, TypeOK
  <2> QED
    BY <2>2, <2>3, <2>4, <2>5, QuietStep
<1>5. CASE Terminate(Daemon)
  BY <1>5, TaskRegistry DEF TaskStep
<1> QED
  BY <1>1, <1>2, <1>3, <1>4, <1>5 DEF DaemonStep

-----------------------------------------------------------------------------
(* The theorems *)

LEMMA NodeInductive ==
  ASSUME TypeOK, RegistryInv, [Next]_vars
  PROVE  TypeOK' /\ RegistryInv'
<1>1. ASSUME NEW c \in Pid, Application(c) PROVE TypeOK' /\ RegistryInv'
  BY <1>1, ApplicationTypes, ApplicationRegistry
<1>2. ASSUME NEW c \in Pid, TaskStep(c) PROVE TypeOK' /\ RegistryInv'
  <2>1. /\ Emplace(c) => c \in Pid /\ target[c] \in Pid
        /\ at[c] = "exits" => target[c] \in Pid
    BY DEF Emplace, RegistryInv, TargetsExist
  <2> QED
    BY <1>2, <2>1, TaskTypes, TaskRegistry
<1>3. ASSUME DaemonStep PROVE TypeOK' /\ RegistryInv'
  <2>1. /\ at[Daemon] = "exits" => target[Daemon] \in Pid
        /\ at[Daemon] # "spawning"
    BY NodeAssumption DEF RegistryInv, TargetsExist, NodeAssumption
  <2> QED
    BY <1>3, <2>1, DaemonTypes, DaemonRegistry
<1>4. ASSUME UNCHANGED vars PROVE TypeOK' /\ RegistryInv'
  <2>1. UNCHANGED <<registries, processes, timers, contexts>>
    BY <1>4 DEF vars
  <2>2. TypeOK'
    BY <2>1 DEF TypeOK, registries, processes, timers, contexts
  <2>3. RegistryInv'
    BY <2>1, StillStep DEF RegistryInv, SignalsHaveOrigin, registries, processes, timers, contexts
  <2> QED
    BY <2>2, <2>3
<1> QED
  BY <1>1, <1>2, <1>3, <1>4 DEF Next

(* The types of Node.tla hold however many processes there are.            *)
THEOREM NodeTypes == SafeSpec => []TypeOK
<1>1. Init => TypeOK /\ RegistryInv
  BY InitTypes, InitRegistry
<1>2. TypeOK /\ RegistryInv /\ [Next]_vars => (TypeOK /\ RegistryInv)'
  BY NodeInductive
<1> QED
  BY <1>1, <1>2, PTL DEF SafeSpec

(* The registry is coherent: spawns, exits, signals and terminations in    *)
(* any order keep who is registered, linked, spawned and destroyed apart.  *)
THEOREM NodeRegistry == SafeSpec => []RegistryInv
<1>1. Init => TypeOK /\ RegistryInv
  BY InitTypes, InitRegistry
<1>2. TypeOK /\ RegistryInv /\ [Next]_vars => (TypeOK /\ RegistryInv)'
  BY NodeInductive
<1> QED
  BY <1>1, <1>2, PTL DEF SafeSpec

(* process.cpp:148-194: links between registered processes are always      *)
(* bidirectional, with spawn_link to any process and signals from anyone.  *)
THEOREM NodeLinks == SafeSpec => []LinksSymmetric
<1>1. RegistryInv => LinksSymmetric
  BY DEF RegistryInv, LinksAgree, LinksSymmetric, Known
<1> QED
  BY <1>1, NodeRegistry, PTL

(* node.cpp:664-667: a task and the daemon that terminate the same process *)
(* never both run its destructor, although nothing locks the registry.     *)
THEOREM NodeOneDestructor == SafeSpec => []OneDestructor
<1>1. RegistryInv => OneDestructor
  BY DEF RegistryInv, OneEach, OneDestructor
<1> QED
  BY <1>1, NodeRegistry, PTL

-----------------------------------------------------------------------------
(* Who terminates whom *)

(* A task terminates only itself. *)
OwnTarget == \A c \in Pid : at[c] \in Terminating \cup {"exits"} => target[c] = c

LEMMA OwnTargetStep ==
  ASSUME TypeOK, RegistryInv, OwnTarget, [Next]_vars
  PROVE  OwnTarget'
<1>0. /\ at \in [Ctx -> Place] /\ target \in [Ctx -> Pid \cup {NoPid}] /\ Daemon \in Ctx /\ Daemon \notin Pid
      /\ Pid \subseteq Ctx
  BY NodeAssumption DEF TypeOK, NodeAssumption, Ctx
<1> USE DEF OwnTarget, Terminating
<1>1. ASSUME NEW c \in Ctx, Terminate(c) PROVE OwnTarget'
  <2>1. CASE CancelMessages(c) \/ CancelSignals(c) \/ DropNames(c) \/ Erase(c) \/ EraseNothing(c)
    BY <1>0, <2>1 DEF CancelMessages, CancelSignals, DropNames, Erase, EraseNothing
  <2>2. CASE \E p \in Pid : SendExit(c, p)
    BY <2>2 DEF SendExit
  <2>3. CASE DeleteTask(c)
    <3>1. \A d \in Pid : at'[d] \in Terminating \cup {"exits"} =>
            at'[d] = at[d] /\ target'[d] = target[d]
      BY <1>0, <2>3 DEF DeleteTask
    <3> QED BY <3>1
  <2> QED BY <1>1, <2>1, <2>2, <2>3 DEF Terminate
<1>2. ASSUME NEW c \in Pid, Application(c) PROVE OwnTarget'
  <2>1. CASE UNCHANGED contexts
    BY <2>1 DEF contexts
  <2>2. CASE \E child \in Pid, parent \in Pid \cup {NoPid} : Construct(c, child, parent)
    BY <1>0, <2>2 DEF Construct
  <2>3. CASE \E reason \in FailReason : Fail(c, reason)
    BY <1>0, <2>3 DEF Fail
  <2> QED BY <1>2, <2>1, <2>2, <2>3 DEF Application, Send, Receive, ProcessFlag, RegisterName,
                                       Unregister, StartTimer, Cancel, Exit
<1>3. ASSUME NEW c \in Pid, Emplace(c) PROVE OwnTarget'
  BY <1>0, <1>3 DEF Emplace
<1>4. ASSUME NEW s \in timed_signals, SignalTimer(s) PROVE OwnTarget'
  BY <1>0, <1>4 DEF SignalTimer, SignalUnknown, SignalTrapped, SignalNormal, SignalKills, SignalExpires
<1>5. CASE DrainCommand \/ (\E m \in timed_messages : MessageTimer(m)) \/ UNCHANGED vars
  BY <1>5 DEF DrainCommand, MessageTimer, vars, contexts
<1>6. CASE FinishSignal
  BY <1>0, <1>6 DEF FinishSignal
<1> QED BY <1>0, <1>1, <1>2, <1>3, <1>4, <1>5, <1>6 DEF Next, TaskStep, DaemonStep

(* Only a context that erases a process takes it from the registry. *)
LEMMA WhoErases ==
  ASSUME TypeOK, RegistryInv, [Next]_vars, NEW p \in process_registry, p \notin process_registry'
  PROVE  \E c \in Ctx : Erase(c) /\ target[c] = p
<1>1. ASSUME NEW c \in Ctx, Terminate(c), ~Erase(c) PROVE process_registry' = process_registry
  BY <1>1 DEF Terminate, CancelMessages, CancelSignals, DropNames, EraseNothing, SendExit,
              DeleteTask, registries
<1>2. ASSUME NEW c \in Pid, Application(c) PROVE process_registry' = process_registry
  BY <1>2 DEF Application, Send, Receive, ProcessFlag, RegisterName, Unregister, StartTimer,
              Cancel, Exit, Construct, Fail, registries
<1>3. ASSUME NEW c \in Pid, Emplace(c) PROVE process_registry \subseteq process_registry'
  BY <1>3 DEF Emplace
<1>4. (DaemonStep /\ ~Terminate(Daemon)) \/ UNCHANGED vars => process_registry' = process_registry
  BY DEF DaemonStep, DrainCommand, MessageTimer, SignalTimer, SignalUnknown, SignalTrapped,
         SignalNormal, SignalKills, SignalExpires, FinishSignal, vars, registries
<1>5. ASSUME NEW c \in Ctx, Erase(c) PROVE target[c] = p
  BY <1>5 DEF Erase
<1> QED BY <1>1, <1>2, <1>3, <1>4, <1>5 DEF Next, TaskStep, Ctx

LEMMA FinishedStep ==
  ASSUME TypeOK, RegistryInv, FinishedInv, ~HeapReuse, [Next]_vars
  PROVE  FinishedInv'
<1> USE DEF registries, processes, timers, contexts
<1>1. ASSUME UNCHANGED <<process_registry, status, at, target>> PROVE FinishedInv'
  BY <1>1 DEF FinishedInv
<1>2. ASSUME NEW c \in Pid, Application(c) PROVE FinishedInv'
  <2>1. c # Daemon
    BY NodeAssumption DEF NodeAssumption
  <2>2. ASSUME NEW child \in Pid, NEW parent \in Pid \cup {NoPid}, Construct(c, child, parent)
        PROVE  FinishedInv'
    BY <2>1, <2>2 DEF Construct, Running, FinishedInv, TypeOK
  <2>3. ASSUME NEW reason \in FailReason, Fail(c, reason) PROVE FinishedInv'
    BY <2>1, <2>3 DEF Fail, Running, FinishedInv, TypeOK
  <2>4. CASE UNCHANGED <<process_registry, status, at, target>>
    BY <1>1, <2>4
  <2> QED
    BY <1>2, <2>2, <2>3, <2>4
      DEF Application, Send, Receive, ProcessFlag, RegisterName, Unregister,
          StartTimer, Cancel, Exit
<1>3. ASSUME NEW c \in Ctx, TaskStep(c) PROVE FinishedInv'
  <2>1. CASE Emplace(c)
    <3>1. c # Daemon /\ target[c] \in Pid /\ status[target[c]] = "constructed"
      BY <2>1, NodeAssumption DEF Emplace, RegistryInv, TargetsExist, NodeAssumption
    <3> QED
      BY <2>1, <3>1 DEF Emplace, FinishedInv, TypeOK
  <2>2. CASE CancelMessages(c)
    BY <2>2 DEF CancelMessages, FinishedInv, TypeOK
  <2>3. CASE CancelSignals(c)
    BY <2>3 DEF CancelSignals, FinishedInv, TypeOK
  <2>4. CASE DropNames(c)
    BY <2>4 DEF DropNames, FinishedInv, TypeOK
  <2>5. CASE Erase(c)
    BY <2>5 DEF Erase, FinishedInv, TypeOK
  <2>6. CASE EraseNothing(c)
    <3>1. target[c] \in Pid /\ status[target[c]] \in {"running", "deleted"}
      BY <2>6 DEF EraseNothing, RegistryInv, TargetsExist
    <3>2. PICK place \in {"finish", "returned"} : at' = [at EXCEPT ![c] = place]
      BY <2>6 DEF EraseNothing
    <3> QED
      BY <2>6, <3>1, <3>2 DEF EraseNothing, FinishedInv, TypeOK
  <2>7. CASE \E p \in Pid : SendExit(c, p)
    BY <1>1, <2>7 DEF SendExit
  <2>8. CASE DeleteTask(c)
    <3>1. target[c] \in Pid \ process_registry
      BY <2>8 DEF DeleteTask, RegistryInv, TargetsExist
    <3>2. target[c] # Daemon
      BY <3>1, NodeAssumption DEF NodeAssumption
    <3> QED
      BY <2>8, <3>1, <3>2 DEF DeleteTask, FinishedInv, TypeOK
  <2> QED
    BY <1>3, <2>1, <2>2, <2>3, <2>4, <2>5, <2>6, <2>7, <2>8 DEF TaskStep, Terminate
<1>4. CASE DrainCommand
  BY <1>1, <1>4 DEF DrainCommand
<1>5. ASSUME NEW m \in timed_messages, MessageTimer(m) PROVE FinishedInv'
  BY <1>1, <1>5 DEF MessageTimer
<1>6. ASSUME NEW s \in timed_signals, SignalTimer(s) PROVE FinishedInv'
  <2>1. CASE SignalKills(s)
    BY <2>1 DEF SignalKills, SignalExpires, FinishedInv, TypeOK
  <2>2. CASE ~SignalKills(s)
    <3>1. /\ at[Daemon] = "idle" /\ at' = [at EXCEPT ![Daemon] = "finish"]
          /\ UNCHANGED <<process_registry, status, target>>
      BY <1>6, <2>2 DEF SignalTimer, SignalUnknown, SignalTrapped, SignalNormal, SignalExpires
    <3> QED
      BY <3>1 DEF FinishedInv, TypeOK
  <2> QED
    BY <2>1, <2>2
<1>7. CASE FinishSignal
  BY <1>7 DEF FinishSignal, FinishedInv, TypeOK
<1>8. CASE UNCHANGED vars
  BY <1>1, <1>8 DEF vars
<1> QED
  BY <1>2, <1>3, <1>4, <1>5, <1>6, <1>7, <1>8 DEF Next, DaemonStep, TaskStep

(* node.cpp:593 "Remove this pid from process_registry unconditionally":   *)
(* terminate never ends with its process registered, on a heap that does   *)
(* not reuse the map node its argument points into.                        *)
THEOREM NodeTerminateErases ==
  ASSUME ~HeapReuse
  PROVE  SafeSpec => []TerminateErases
<1>1. Init => TypeOK /\ RegistryInv /\ FinishedInv
  <2>1. Init => FinishedInv
    BY NodeAssumption DEF Init, FinishedInv, NodeAssumption
  <2> QED
    BY <2>1, InitTypes, InitRegistry
<1>2. TypeOK /\ RegistryInv /\ FinishedInv /\ [Next]_vars
        => (TypeOK /\ RegistryInv /\ FinishedInv)'
  BY NodeInductive, FinishedStep
<1>3. TypeOK /\ RegistryInv /\ FinishedInv => TerminateErases
  BY NodeAssumption
    DEF TypeOK, RegistryInv, TargetsExist, FinishedInv, TerminateErases, NodeAssumption
<1> QED
  BY <1>1, <1>2, <1>3, PTL DEF SafeSpec

-----------------------------------------------------------------------------
(* Who will hear of a death *)

LEMMA NodeIsPid ==
  /\ Daemon \in Ctx /\ Daemon \notin Pid /\ NoPid \notin Pid /\ Pid \subseteq Ctx
  /\ NoSignal \notin Signal
BY NodeAssumption DEF NodeAssumption, Ctx, NoSignal, Signal

(* The daemon runs the callback of a signal that left its queue. *)
IdleHasNoSignal == at[Daemon] = "idle" => sig = NoSignal
SigTaken == sig # NoSignal => ~sig.queued

(* The news of q's death is still to come to p, or q is alive. *)
OwedTo(p, q) ==
  \/ q \in process_registry \/ status[q] = "constructed"
  \/ \E c \in Ctx : at[c] = "exits" /\ target[c] = q /\ p \in todo[c]
  \/ \E s \in timed_signals \ {sig} : s.pid = p /\ s.from = q

Ends(p) == \E c \in Ctx : at[c] \in Terminating /\ target[c] = p

RunningOrDying ==
  \A p \in Pid : status[p] = "running" =>
    p \in process_registry \/ \E c \in Ctx : at[c] = "exits" /\ target[c] = p

SpawnedOwed ==
  \A c \in Pid : at[c] = "spawning" =>
    /\ status[c] = "running"
    /\ links[target[c]] \subseteq {c}
    /\ c \in links[target[c]] => OwedTo(target[c], c)

LinkedOwed == \A p \in process_registry : \A q \in links[p] : OwedTo(p, q) \/ Ends(p)

OwedInv ==
  /\ OwnTarget /\ IdleHasNoSignal /\ SigTaken
  /\ RunningOrDying
  /\ SpawnedOwed
  /\ LinkedOwed

(* Every exit signal of a dying process finds room in the timer queue. *)
NoneDropped == \A c \in Ctx, p \in Pid : SendExit(c, p) => HasRoom

(* What a dying process owes stays owed until it is sent. *)
LEMMA TodoStays ==
  ASSUME TypeOK, RegistryInv, OwnTarget, [Next]_vars, NEW p \in Pid, \A c \in Ctx : ~SendExit(c, p),
         NEW d \in Ctx, at[d] = "exits", p \in todo[d]
  PROVE  at'[d] = "exits" /\ target'[d] = target[d] /\ p \in todo'[d]
<1> DEFINE Stays == at'[d] = "exits" /\ target'[d] = target[d] /\ p \in todo'[d]
<1>0. at \in [Ctx -> Place] /\ target \in [Ctx -> Pid \cup {NoPid}] /\ todo \in [Ctx -> SUBSET Pid]
  BY DEF TypeOK
<1>1. ASSUME NEW c \in Ctx, Terminate(c) PROVE Stays
  <2>1. CASE CancelMessages(c) \/ CancelSignals(c) \/ DropNames(c) \/ EraseNothing(c) \/ Erase(c)
    BY <1>0, <2>1 DEF CancelMessages, CancelSignals, DropNames, EraseNothing, Erase
  <2>2. ASSUME NEW q \in Pid, SendExit(c, q) PROVE Stays
    <3>1. q # p
      BY <2>2
    <3> QED BY <1>0, <2>2, <3>1 DEF SendExit
  <2>3. CASE DeleteTask(c)
    <3>1. at[c] = "exits" /\ c # d /\ target[c] \in Pid
      BY <2>3 DEF DeleteTask, RegistryInv, TargetsExist
    <3>2. target[c] # target[d]
      BY <3>1 DEF RegistryInv, OneEach
    <3>3. target[c] # d
      BY <3>1, <3>2 DEF OwnTarget
    <3> QED BY <1>0, <2>3, <3>1, <3>3 DEF DeleteTask
  <2> QED BY <1>1, <2>1, <2>2, <2>3 DEF Terminate
<1>2. ASSUME NEW c \in Pid, Application(c) PROVE Stays
  <2>1. CASE UNCHANGED contexts
    BY <2>1 DEF contexts
  <2>2. CASE \E child \in Pid, parent \in Pid \cup {NoPid} : Construct(c, child, parent)
    BY <1>0, <2>2, NodeIsPid DEF Construct, Running
  <2>3. CASE \E reason \in FailReason : Fail(c, reason)
    BY <1>0, <2>3, NodeIsPid DEF Fail, Running
  <2> QED BY <1>2, <2>1, <2>2, <2>3 DEF Application, Send, Receive, ProcessFlag, RegisterName,
                                       Unregister, StartTimer, Cancel, Exit
<1>3. ASSUME NEW c \in Pid, Emplace(c) PROVE Stays
  BY <1>0, <1>3, NodeIsPid DEF Emplace
<1>4. ASSUME NEW s \in timed_signals, SignalTimer(s) PROVE Stays
  BY <1>0, <1>4, NodeIsPid DEF SignalTimer, SignalUnknown, SignalTrapped, SignalNormal, SignalKills, SignalExpires
<1>5. CASE DrainCommand \/ (\E m \in timed_messages : MessageTimer(m)) \/ UNCHANGED vars
  BY <1>5 DEF DrainCommand, MessageTimer, vars, contexts
<1>6. CASE FinishSignal
  BY <1>0, <1>6, NodeIsPid DEF FinishSignal
<1> QED BY <1>1, <1>2, <1>3, <1>4, <1>5, <1>6, NodeIsPid DEF Next, TaskStep, DaemonStep

(* A signal that waits in a timer is taken up, or cancelled because the    *)
(* process it goes to is being terminated.                                 *)
SignalWaits(p, q) == \E s \in timed_signals \ {sig} : s.pid = p /\ s.from = q

LEMMA SignalStays ==
  ASSUME TypeOK, IdleHasNoSignal, [Next]_vars, NEW s \in timed_signals \ {sig},
         ~SignalTimer(s), \A c \in Ctx : CancelSignals(c) => target[c] # s.pid
  PROVE  SignalWaits(s.pid, s.from)'
<1> DEFINE Stays == s \in timed_signals' \ {sig'}
<1>0. s \in timed_signals /\ s # sig /\ s \in Signal /\ s # NoSignal
  BY NodeIsPid DEF TypeOK
<1>1. Stays => SignalWaits(s.pid, s.from)'
  BY DEF SignalWaits
<1>2. ASSUME NEW c \in Ctx, Terminate(c) PROVE Stays
  <2>1. CASE CancelSignals(c)
    BY <1>0, <2>1 DEF CancelSignals, CancelTimers, SomeOf
  <2> QED BY <1>0, <1>2, <2>1 DEF Terminate, CancelMessages, CancelTimers, DropNames, Erase, EraseNothing,
                                  SendExit, StartSignal, DeleteTask, timers
<1>3. ASSUME NEW c \in Pid, Application(c) PROVE Stays
  BY <1>0, <1>3 DEF Application, Send, Receive, ProcessFlag, RegisterName, Unregister, StartTimer,
              Cancel, CancelTimers, Exit, StartSignal, Construct, Fail, timers, contexts
<1>4. (\E c \in Pid : Emplace(c)) \/ (\E m \in timed_messages : MessageTimer(m)) \/ UNCHANGED vars => Stays
  BY <1>0 DEF Emplace, MessageTimer, CancelTimers, vars, timers, contexts
<1>5. ASSUME NEW t \in timed_signals, SignalTimer(t) PROVE Stays
  <2>1. t # s /\ timed_signals' = timed_signals /\ sig' = t
    BY <1>0, <1>5 DEF SignalTimer, SignalUnknown, SignalTrapped, SignalNormal, SignalKills, SignalExpires, timers
  <2> QED BY <1>0, <2>1
<1>6. FinishSignal => Stays
  BY <1>0 DEF FinishSignal, CancelTimers
<1>7. CASE DrainCommand
  <2> DEFINE sent == [s EXCEPT !.queued = FALSE]
  <2>1. sig' = NoSignal
    BY <1>7 DEF DrainCommand, IdleHasNoSignal, contexts
  <2>2. s \in timed_signals' \/ sent \in timed_signals'
    BY <1>0, <1>7 DEF DrainCommand
  <2>3. sent # NoSignal /\ sent.pid = s.pid /\ sent.from = s.from
    BY <1>0, NodeIsPid DEF Signal
  <2> HIDE DEF sent
  <2> QED BY <1>0, <2>1, <2>2, <2>3 DEF SignalWaits
<1> QED BY <1>1, <1>2, <1>3, <1>4, <1>5, <1>6, <1>7, NodeIsPid DEF Next, DaemonStep, TaskStep

(* Only a context that erases a process makes it unknown again. *)
KnownPid(q) == q \in process_registry \/ status[q] = "constructed"

LEMMA KnownStays ==
  ASSUME TypeOK, RegistryInv, [Next]_vars, NEW q \in Pid, KnownPid(q), ~KnownPid(q)'
  PROVE  q \in process_registry /\ \E c \in Ctx : Erase(c) /\ target[c] = q
<1>1. CASE q \in process_registry
  BY <1>1, WhoErases DEF KnownPid
<1>2. CASE q \notin process_registry
  <2>1. status[q] = "constructed" /\ status'[q] # "constructed" /\ q \notin process_registry'
    BY <1>2 DEF KnownPid
  <2>2. ASSUME NEW c \in Pid, Application(c) PROVE status'[q] = "constructed"
    BY <2>1, <2>2 DEF Application, Send, Receive, ProcessFlag, RegisterName, Unregister, StartTimer,
              Cancel, Exit, Construct, Fail, registries, TypeOK
  <2>3. ASSUME NEW c \in Pid, Emplace(c) PROVE status'[q] = "constructed" \/ q \in process_registry'
    BY <2>1, <2>3 DEF Emplace, TypeOK
  <2>4. ASSUME NEW c \in Ctx, Terminate(c) PROVE status'[q] = "constructed"
    <3>1. DeleteTask(c) => target[c] # q
      BY <2>1 DEF DeleteTask, RegistryInv, TargetsExist
    <3> QED BY <2>1, <2>4, <3>1 DEF Terminate, CancelMessages, CancelSignals, DropNames, Erase, EraseNothing,
               SendExit, DeleteTask, registries, TypeOK
  <2>5. (DaemonStep /\ ~Terminate(Daemon)) \/ UNCHANGED vars => status' = status
    BY DEF DaemonStep, DrainCommand, MessageTimer, SignalTimer, SignalUnknown, SignalTrapped,
         SignalNormal, SignalKills, SignalExpires, FinishSignal, vars, registries
  <2> QED BY <2>1, <2>2, <2>3, <2>4, <2>5, NodeIsPid DEF Next, TaskStep
<1> QED BY <1>1, <1>2

(* What is owed to p of q's death stays owed, whatever else goes on. *)
LEMMA OwedStep ==
  ASSUME TypeOK, RegistryInv, OwnTarget, IdleHasNoSignal, SigTaken, NoneDropped, [Next]_vars,
         NEW p \in Pid, NEW q \in Pid, OwedTo(p, q), q \in process_registry => p \in links[q]
  PROVE  \/ OwedTo(p, q)'
         \/ \E c \in Ctx : CancelSignals(c) /\ target[c] = p
         \/ \E s \in timed_signals : SignalTimer(s) /\ s.pid = p /\ s.from = q
<1>1. CASE KnownPid(q)
  <2>1. KnownPid(q)' => OwedTo(p, q)'
    BY DEF KnownPid, OwedTo
  <2>2. ASSUME NEW c \in Ctx, Erase(c), target[c] = q, q \in process_registry PROVE OwedTo(p, q)'
    <3>1. at'[c] = "exits" /\ target'[c] = q /\ todo'[c] = links[q]
      BY <2>2 DEF Erase, TypeOK
    <3> QED BY <2>2, <3>1 DEF OwedTo
  <2> QED BY <1>1, <2>1, <2>2, KnownStays
<1>2. ASSUME NEW d \in Ctx, at[d] = "exits", target[d] = q, p \in todo[d]
      PROVE  OwedTo(p, q)'
  <2>1. CASE \A c \in Ctx : ~SendExit(c, p)
    <3>1. at'[d] = "exits" /\ target'[d] = q /\ p \in todo'[d]
      BY <1>2, <2>1, TodoStays
    <3> QED BY <3>1 DEF OwedTo
  <2>2. ASSUME NEW c \in Ctx, SendExit(c, p) PROVE OwedTo(p, q)'
    <3> DEFINE new == [pid |-> p, from |-> target[c], reason |-> exit_reason[target[c]], queued |-> TRUE]
    <3>1. HasRoom
      BY <2>2 DEF NoneDropped
    <3>2. sig' = sig /\ new \in timed_signals' /\ target' = target /\ at' = at
          /\ todo' = [todo EXCEPT ![c] = @ \ {p}]
      BY <2>2, <3>1 DEF SendExit, StartSignal, StartFails
    <3>3. new # sig /\ new.pid = p /\ new.from = target[c]
      BY DEF SigTaken, NoSignal
    <3>4. CASE target[c] = q
      <4> HIDE DEF new
      <4> QED BY <3>2, <3>3, <3>4 DEF OwedTo
    <3>5. CASE target[c] # q
      <4>1. at'[d] = "exits" /\ target'[d] = q /\ p \in todo'[d]
        BY <1>2, <3>2, <3>5 DEF TypeOK
      <4> QED BY <4>1 DEF OwedTo
    <3> QED BY <3>4, <3>5
  <2> QED BY <2>1, <2>2
<1>3. ASSUME NEW s \in timed_signals \ {sig}, s.pid = p, s.from = q,
             ~SignalTimer(s), \A c \in Ctx : CancelSignals(c) => target[c] # p
      PROVE  OwedTo(p, q)'
  <2>1. SignalWaits(p, q)'
    BY <1>3, SignalStays
  <2> QED BY <2>1 DEF SignalWaits, OwedTo
<1> QED BY <1>1, <1>2, <1>3 DEF OwedTo, KnownPid

(* Only the daemon takes up signals, when it has none.                     *)
LEMMA IdleStep ==
  ASSUME TypeOK, IdleHasNoSignal, [Next]_vars
  PROVE  IdleHasNoSignal'
<1>0. Daemon \in Ctx /\ Daemon \notin Pid /\ at \in [Ctx -> Place]
  BY NodeIsPid DEF TypeOK
<1> USE DEF IdleHasNoSignal
<1>1. ASSUME NEW c \in Ctx, Terminate(c) PROVE IdleHasNoSignal'
  BY <1>0, <1>1 DEF Terminate, CancelMessages, CancelSignals, DropNames, Erase, EraseNothing,
                    SendExit, DeleteTask, timers
<1>2. ASSUME NEW c \in Pid, Application(c) PROVE IdleHasNoSignal'
  BY <1>0, <1>2 DEF Application, Send, Receive, ProcessFlag, RegisterName, Unregister, StartTimer,
                    Cancel, Exit, Construct, Fail, contexts
<1>3. ASSUME NEW c \in Pid, Emplace(c) PROVE IdleHasNoSignal'
  BY <1>0, <1>3 DEF Emplace
<1>4. ASSUME NEW s \in timed_signals, SignalTimer(s) PROVE IdleHasNoSignal'
  BY <1>0, <1>4 DEF SignalTimer, SignalUnknown, SignalTrapped, SignalNormal, SignalKills, SignalExpires
<1>5. DrainCommand \/ FinishSignal \/ (\E m \in timed_messages : MessageTimer(m)) \/ UNCHANGED vars
        => IdleHasNoSignal'
  BY <1>0 DEF DrainCommand, FinishSignal, MessageTimer, vars, contexts
<1> QED BY <1>0, <1>1, <1>2, <1>3, <1>4, <1>5 DEF Next, TaskStep, DaemonStep, Ctx

(* The daemon takes up a signal whose start command it has taken.          *)
LEMMA SigStep ==
  ASSUME [Next]_vars
  PROVE  \/ sig' = sig \/ sig' = NoSignal
         \/ \E s \in timed_signals : ~s.queued /\ sig' = s
<1>1. ASSUME NEW c \in Ctx, Terminate(c) PROVE sig' = sig
  BY <1>1 DEF Terminate, CancelMessages, CancelSignals, DropNames, Erase, EraseNothing,
              SendExit, DeleteTask
<1>2. ASSUME NEW c \in Pid, Application(c) PROVE sig' = sig
  BY <1>2 DEF Application, Send, Receive, ProcessFlag, RegisterName, Unregister, StartTimer,
              Cancel, Exit, Construct, Fail, contexts
<1>3. ASSUME NEW c \in Pid, Emplace(c) PROVE sig' = sig
  BY <1>3 DEF Emplace
<1>4. ASSUME NEW s \in timed_signals, SignalTimer(s) PROVE ~s.queued /\ sig' = s
  BY <1>4 DEF SignalTimer, SignalUnknown, SignalTrapped, SignalNormal, SignalKills, SignalExpires
<1>5. DrainCommand \/ FinishSignal \/ (\E m \in timed_messages : MessageTimer(m)) \/ UNCHANGED vars
        => sig' = sig \/ sig' = NoSignal
  BY DEF DrainCommand, FinishSignal, MessageTimer, vars, contexts
<1> QED BY <1>1, <1>2, <1>3, <1>4, <1>5, NodeIsPid DEF Next, TaskStep, DaemonStep

LEMMA SigTakenStep ==
  ASSUME SigTaken, [Next]_vars
  PROVE  SigTaken'
<1>1. NoSignal' = NoSignal
  BY DEF NoSignal
<1> QED BY <1>1, SigStep DEF SigTaken

(* Who runs and is not registered is being destroyed. *)
LEMMA RunningStep ==
  ASSUME TypeOK, RegistryInv, OwnTarget, RunningOrDying, [Next]_vars
  PROVE  RunningOrDying'
<1> SUFFICES ASSUME NEW p \in Pid, status'[p] = "running", p \notin process_registry'
             PROVE  \E c \in Ctx : at'[c] = "exits" /\ target'[c] = p
  BY DEF RunningOrDying
<1>0. at \in [Ctx -> Place] /\ target \in [Ctx -> Pid \cup {NoPid}]
      /\ status \in [Pid -> {"free", "constructed", "running", "deleted"}]
  BY DEF TypeOK
<1>1. status[p] = "running"
  <2>1. ASSUME NEW c \in Ctx, Terminate(c) PROVE status'[p] = status[p] \/ status'[p] = "deleted"
    BY <1>0, <2>1 DEF Terminate, CancelMessages, CancelSignals, DropNames, Erase, EraseNothing,
              SendExit, DeleteTask, registries
  <2>2. ASSUME NEW c \in Pid, Application(c) PROVE status'[p] = status[p] \/ status'[p] = "constructed"
    BY <1>0, <2>2 DEF Application, Send, Receive, ProcessFlag, RegisterName, Unregister, StartTimer,
              Cancel, Exit, Construct, Fail, registries
  <2>3. ASSUME NEW c \in Pid, Emplace(c) PROVE status'[p] = status[p] \/ p \in process_registry'
    BY <1>0, <2>3 DEF Emplace
  <2>4. (DaemonStep /\ ~Terminate(Daemon)) \/ UNCHANGED vars => status' = status
    BY DEF DaemonStep, DrainCommand, MessageTimer, SignalTimer, SignalUnknown, SignalTrapped,
         SignalNormal, SignalKills, SignalExpires, FinishSignal, vars, registries
  <2> QED BY <2>1, <2>2, <2>3, <2>4, NodeIsPid DEF Next, TaskStep
<1>2. CASE p \in process_registry
  <2>1. PICK c \in Ctx : Erase(c) /\ target[c] = p
    BY <1>2, WhoErases
  <2> QED BY <1>0, <2>1 DEF Erase
<1>3. CASE p \notin process_registry
  <2>1. PICK d \in Ctx : at[d] = "exits" /\ target[d] = p
    BY <1>1, <1>3 DEF RunningOrDying
  <2>2. ASSUME NEW c \in Ctx, Terminate(c) PROVE at'[d] = "exits" /\ target'[d] = p
    <3>1. CASE DeleteTask(c)
      <4>1. at[c] = "exits" /\ target[c] \in Pid /\ status' = [status EXCEPT ![target[c]] = "deleted"]
        BY <3>1 DEF DeleteTask, RegistryInv, TargetsExist
      <4>2. target[c] # p /\ c # d
        BY <1>0, <2>1, <4>1
      <4>3. target[c] # d
        BY <2>1, <4>1, <4>2 DEF OwnTarget
      <4> QED BY <1>0, <2>1, <3>1, <4>2, <4>3 DEF DeleteTask
    <3> QED BY <1>0, <2>1, <2>2, <3>1 DEF Terminate, CancelMessages, CancelSignals, DropNames, Erase,
                                          EraseNothing, SendExit
  <2>3. ASSUME NEW c \in Pid, Application(c) PROVE at'[d] = "exits" /\ target'[d] = p
    BY <1>0, <2>1, <2>3, NodeIsPid DEF Application, Send, Receive, ProcessFlag, RegisterName, Unregister,
              StartTimer, Cancel, Exit, Construct, Fail, Running, contexts
  <2>4. ASSUME NEW c \in Pid, Emplace(c) PROVE at'[d] = "exits" /\ target'[d] = p
    BY <1>0, <2>1, <2>4, NodeIsPid DEF Emplace
  <2>5. (DaemonStep /\ ~Terminate(Daemon)) \/ UNCHANGED vars => at'[d] = "exits" /\ target'[d] = p
    BY <1>0, <2>1, NodeIsPid DEF DaemonStep, DrainCommand, MessageTimer, SignalTimer, SignalUnknown, SignalTrapped,
         SignalNormal, SignalKills, SignalExpires, FinishSignal, vars, contexts
  <2> QED BY <2>1, <2>2, <2>3, <2>4, <2>5, NodeIsPid DEF Next, TaskStep
<1> QED BY <1>2, <1>3

(* What a step does to the links: a process is linked to the one that it   *)
(* spawns, or both forget each other, or the dead are forgotten.           *)
LEMMA LinkStep ==
  ASSUME TypeOK, ~LinkAny, [Next]_vars
  PROVE  \/ \A p \in Pid : links'[p] \subseteq links[p]
         \/ \E c \in Pid, child \in Pid :
              /\ Construct(c, child, c) /\ c \in process_registry
              /\ links' = [links EXCEPT ![child] = @ \cup {c}, ![c] = @ \cup {child}]
<1>0. links \in [Pid -> SUBSET Pid] /\ process_registry \subseteq Pid /\ NoPid \notin Pid
  BY NodeIsPid DEF TypeOK
<1>1. CASE links' = links
  BY <1>1
<1>2. ASSUME NEW s \in timed_signals, links' = UnlinkBoth(s.pid, s.from)
      PROVE  \A p \in Pid : links'[p] \subseteq links[p]
  <2>1. s.pid \in Pid /\ s.from \in Pid
    BY DEF TypeOK, Signal
  <2> QED BY <1>0, <1>2, <2>1 DEF UnlinkBoth
<1>3. ASSUME NEW c \in Ctx, DeleteTask(c) PROVE \A p \in Pid : links'[p] \subseteq links[p]
  <2>1. links' = [links EXCEPT ![target[c]] = {}]
    BY <1>3 DEF DeleteTask
  <2> QED BY <1>0, <2>1
<1>4. ASSUME NEW c \in Ctx, Terminate(c) PROVE links' = links \/ DeleteTask(c)
  BY <1>4 DEF Terminate, CancelMessages, CancelSignals, DropNames, Erase, EraseNothing, SendExit, processes
<1>5. ASSUME NEW c \in Pid, NEW child \in Pid, NEW parent \in Pid \cup {NoPid}, Construct(c, child, parent)
      PROVE  \/ links' = links
             \/ /\ Construct(c, child, c) /\ c \in process_registry
                /\ links' = [links EXCEPT ![child] = @ \cup {c}, ![c] = @ \cup {child}]
  <2>1. parent = c \/ parent = NoPid
    BY <1>5 DEF Construct
  <2>2. CASE parent = NoPid
    BY <1>0, <1>5, <2>2 DEF Construct, LinkBoth
  <2>3. CASE parent = c
    <3>1. links' = LinkBoth(child, c)
      BY <1>5, <2>3 DEF Construct
    <3> QED BY <1>5, <2>3, <3>1 DEF LinkBoth
  <2> QED BY <2>1, <2>2, <2>3
<1>6. ASSUME NEW c \in Pid, Application(c)
      PROVE  links' = links \/ \E child \in Pid, parent \in Pid \cup {NoPid} : Construct(c, child, parent)
  BY <1>6 DEF Application, Send, Receive, ProcessFlag, RegisterName, Unregister, StartTimer,
              Cancel, Exit, Fail, processes
<1>7. ASSUME NEW s \in timed_signals, SignalTimer(s) PROVE links' = links \/ links' = UnlinkBoth(s.pid, s.from)
  BY <1>7 DEF SignalTimer, SignalUnknown, SignalTrapped, SignalNormal, SignalKills
<1>8. DrainCommand \/ (\E m \in timed_messages : MessageTimer(m)) \/ FinishSignal \/ UNCHANGED vars
        \/ (\E c \in Pid : Emplace(c)) => links' = links
  BY DEF DrainCommand, MessageTimer, FinishSignal, Emplace, vars, processes
<1>9. CASE \E c \in Ctx : Terminate(c)
  BY <1>1, <1>3, <1>4, <1>9
<1>10. CASE \E c \in Pid : Application(c)
  BY <1>1, <1>5, <1>6, <1>10
<1>11. CASE \E s \in timed_signals : SignalTimer(s)
  BY <1>1, <1>2, <1>7, <1>11
<1> QED BY <1>1, <1>8, <1>9, <1>10, <1>11, NodeIsPid DEF Next, TaskStep, DaemonStep

(* A process is being spawned until it is emplaced, or its spawner deleted. *)
LEMMA SpawningStep ==
  ASSUME TypeOK, RegistryInv, [Next]_vars, NEW c \in Pid, at'[c] = "spawning",
         at[c] = "spawning" => status[c] = "running"
  PROVE  \/ \E child \in Pid, parent \in Pid \cup {NoPid} : Construct(c, child, parent)
         \/ at[c] = "spawning" /\ target'[c] = target[c] /\ status'[c] = "running"
<1> DEFINE Stays == at[c] = "spawning" /\ target'[c] = target[c] /\ status'[c] = status[c]
<1>0. /\ at \in [Ctx -> Place] /\ target \in [Ctx -> Pid \cup {NoPid}]
      /\ status \in [Pid -> {"free", "constructed", "running", "deleted"}]
      /\ Daemon # c /\ c \in Ctx /\ Daemon \in Ctx
  BY NodeIsPid DEF TypeOK
<1>1. ASSUME NEW d \in Ctx, Terminate(d) PROVE Stays
  <2>1. CASE DeleteTask(d)
    <3>1. c # target[d] /\ c # d
      BY <1>0, <2>1 DEF DeleteTask
    <3> QED BY <1>0, <2>1, <3>1 DEF DeleteTask
  <2> QED BY <1>0, <1>1, <2>1 DEF Terminate, CancelMessages, CancelSignals, DropNames, Erase, EraseNothing,
                                  SendExit, registries
<1>2. ASSUME NEW d \in Pid, NEW child \in Pid, NEW parent \in Pid \cup {NoPid}, Construct(d, child, parent), d # c
      PROVE  at[c] = "spawning" => Stays
  BY <1>0, <1>2, NodeIsPid DEF Construct
<1>3. ASSUME NEW d \in Pid, Application(d)
      PROVE  Stays \/ \E child \in Pid, parent \in Pid \cup {NoPid} : Construct(d, child, parent)
  BY <1>0, <1>3, NodeIsPid DEF Application, Send, Receive, ProcessFlag, RegisterName, Unregister, StartTimer,
              Cancel, Exit, Fail, registries, contexts
<1>4. ASSUME NEW d \in Pid, Emplace(d) PROVE at[c] = "spawning" => Stays
  <2>1. status[target[d]] = "constructed" /\ d \in Ctx
    BY <1>4, NodeIsPid DEF Emplace, RegistryInv, TargetsExist
  <2>2. d # c
    BY <1>0, <1>4, <2>1 DEF Emplace
  <2> QED BY <1>0, <1>4, <2>1, <2>2 DEF Emplace
<1>5. (DaemonStep /\ ~Terminate(Daemon)) \/ UNCHANGED vars => Stays
  BY <1>0 DEF DaemonStep, DrainCommand, MessageTimer, SignalTimer, SignalUnknown, SignalTrapped,
         SignalNormal, SignalKills, SignalExpires, FinishSignal, vars, registries, contexts
<1>6. ASSUME NEW d \in Pid, Emplace(d) \/ \E child \in Pid, parent \in Pid \cup {NoPid} : Construct(d, child, parent)
      PROVE  \/ d = c /\ \E child \in Pid, parent \in Pid \cup {NoPid} : Construct(c, child, parent)
             \/ at[c] = "spawning"
  BY <1>0, <1>6, NodeIsPid DEF Emplace, Construct
<1> QED BY <1>1, <1>2, <1>3, <1>4, <1>5, <1>6, NodeIsPid DEF Next, TaskStep

LEMMA SpawnedOwedStep ==
  ASSUME TypeOK, RegistryInv, OwedInv, ~LinkAny, NoneDropped, [Next]_vars
  PROVE  SpawnedOwed'
<1> SUFFICES ASSUME NEW c \in Pid, at'[c] = "spawning"
             PROVE  /\ status'[c] = "running"
                    /\ links'[target'[c]] \subseteq {c}
                    /\ c \in links'[target'[c]] => OwedTo(target[c], c)'
  BY DEF SpawnedOwed
<1>0. /\ at \in [Ctx -> Place] /\ target \in [Ctx -> Pid \cup {NoPid}] /\ links \in [Pid -> SUBSET Pid]
      /\ status \in [Pid -> {"free", "constructed", "running", "deleted"}]
      /\ c \in Ctx /\ process_registry \subseteq Pid
  BY NodeIsPid DEF TypeOK
<1>1. ASSUME NEW child \in Pid, NEW parent \in Pid \cup {NoPid}, Construct(c, child, parent)
      PROVE  /\ status'[c] = "running"
             /\ links'[target'[c]] \subseteq {c}
             /\ c \in links'[target'[c]] => OwedTo(target[c], c)'
  <2>1. /\ status[c] = "running" /\ status[child] = "free" /\ target'[c] = child
        /\ status' = [status EXCEPT ![child] = "constructed"] /\ process_registry' = process_registry
        /\ links' = LinkBoth(child, parent) /\ (parent = c \/ parent = NoPid)
    BY <1>0, <1>1 DEF Construct, Running
  <2>2. links[child] = {} /\ NoPid \notin process_registry
    BY <1>0, <2>1, NodeIsPid DEF RegistryInv, FreeUnlinked
  <2>3. links'[child] \subseteq {c} /\ (c \in links'[child] => c \in process_registry)
    BY <1>0, <2>1, <2>2 DEF LinkBoth
  <2> QED BY <1>0, <2>1, <2>3 DEF OwedTo
<1>2. CASE at[c] = "spawning" /\ target'[c] = target[c] /\ status'[c] = "running"
  <2>0. PICK p \in Pid : p = target[c]
    BY <1>0, <1>2 DEF RegistryInv, TargetsExist
  <2>1. /\ p \in Pid /\ status[p] = "constructed" /\ status[c] = "running" /\ links[p] \subseteq {c}
        /\ c \in links[p] => OwedTo(p, c)
    BY <1>0, <1>2, <2>0 DEF OwedInv, SpawnedOwed, RegistryInv, TargetsExist
  <2>2. links'[p] \subseteq links[p]
    <3>1. ASSUME NEW d \in Pid, NEW child \in Pid, Construct(d, child, d),
                 links' = [links EXCEPT ![child] = @ \cup {d}, ![d] = @ \cup {child}]
          PROVE  links'[p] = links[p]
      <4>1. p # child /\ p # d
        BY <2>1, <3>1 DEF Construct, Running
      <4> QED BY <1>0, <2>1, <3>1, <4>1
    <3> QED BY <2>1, <3>1, LinkStep
  <2>3. ASSUME c \in links[p] PROVE OwedTo(p, c)'
    <3>1. c \in process_registry => p \in links[c]
      BY <1>0, <2>1, <2>3 DEF RegistryInv, LinksAgree, Known
    <3>2. \A d \in Ctx : CancelSignals(d) => target[d] # p
      BY <2>1 DEF CancelSignals, RegistryInv, TargetsExist, Terminating
    <3>3. ASSUME NEW s \in timed_signals, SignalTimer(s) PROVE OwedTo(p, c)'
      <4>1. at[Daemon] = "idle" /\ process_registry' = process_registry
        BY <3>3 DEF SignalTimer, SignalUnknown, SignalTrapped, SignalNormal, SignalKills, SignalExpires, registries
      <4>2. c \in process_registry
        BY <1>0, <1>2, <2>1, <4>1 DEF OwedInv, RunningOrDying, OwnTarget, Ctx
      <4> QED BY <4>1, <4>2 DEF OwedTo
    <3> QED BY <2>1, <2>3, <3>1, <3>2, <3>3, OwedStep DEF OwedInv
  <2>4. target'[c] = p
    BY <1>2, <2>0
  <2> QED BY <1>2, <2>1, <2>2, <2>3, <2>4
<1> QED BY <1>1, <1>2, SpawningStep DEF OwedInv, SpawnedOwed

LEMMA EndsStays ==
  ASSUME TypeOK, RegistryInv, OwnTarget, [Next]_vars, ~HeapReuse,
         NEW p \in process_registry, p \in process_registry', Ends(p)
  PROVE  Ends(p)'
<1> PICK d \in Ctx : at[d] \in Terminating /\ target[d] = p
  BY DEF Ends
<1> DEFINE Stays == at'[d] \in Terminating /\ target'[d] = p
<1> SUFFICES Stays
  BY DEF Ends
<1>0. /\ at \in [Ctx -> Place] /\ target \in [Ctx -> Pid \cup {NoPid}]
  BY DEF TypeOK
<1> USE DEF Terminating
<1>1. ASSUME NEW c \in Ctx, Terminate(c) PROVE Stays
  <2>1. CASE CancelMessages(c) \/ CancelSignals(c) \/ DropNames(c)
    BY <1>0, <2>1 DEF CancelMessages, CancelSignals, DropNames
  <2>2. CASE Erase(c)
    <3>1. c # d
      BY <2>2 DEF Erase
    <3> QED BY <1>0, <2>2, <3>1 DEF Erase
  <2>3. CASE EraseNothing(c)
    <3>1. c # d
      BY <2>3 DEF EraseNothing
    <3> QED BY <1>0, <2>3, <3>1 DEF EraseNothing
  <2>4. CASE \E q \in Pid : SendExit(c, q)
    BY <2>4 DEF SendExit
  <2>5. CASE DeleteTask(c)
    <3>1. at[c] = "exits" /\ c # d /\ target[c] \in Pid \ process_registry
      BY <2>5 DEF DeleteTask, RegistryInv, TargetsExist
    <3>2. target[c] # d
      BY <3>1 DEF OwnTarget
    <3> QED BY <1>0, <2>5, <3>1, <3>2 DEF DeleteTask
  <2> QED BY <1>1, <2>1, <2>2, <2>3, <2>4, <2>5 DEF Terminate
<1>2. ASSUME NEW c \in Pid, Application(c) PROVE Stays
  BY <1>0, <1>2, NodeIsPid DEF Application, Send, Receive, ProcessFlag, RegisterName, Unregister, StartTimer,
              Cancel, Exit, Construct, Fail, Running, contexts
<1>3. ASSUME NEW c \in Pid, Emplace(c) PROVE Stays
  BY <1>0, <1>3, NodeIsPid DEF Emplace
<1>4. (DaemonStep /\ ~Terminate(Daemon)) \/ UNCHANGED vars => Stays
  BY <1>0, NodeIsPid DEF DaemonStep, DrainCommand, MessageTimer, SignalTimer, SignalUnknown, SignalTrapped,
         SignalNormal, SignalKills, SignalExpires, FinishSignal, vars, contexts
<1> QED BY <1>1, <1>2, <1>3, <1>4, NodeIsPid DEF Next, TaskStep

LEMMA LinkedOwedStep ==
  ASSUME TypeOK, RegistryInv, OwedInv, ~LinkAny, ~HeapReuse, NoneDropped, [Next]_vars
  PROVE  LinkedOwed'
<1> SUFFICES ASSUME NEW p \in process_registry', NEW q \in links'[p]
             PROVE  OwedTo(p, q)' \/ Ends(p)'
  BY DEF LinkedOwed
<1>0. /\ at \in [Ctx -> Place] /\ target \in [Ctx -> Pid \cup {NoPid}] /\ links \in [Pid -> SUBSET Pid]
      /\ status \in [Pid -> {"free", "constructed", "running", "deleted"}]
      /\ process_registry \subseteq Pid /\ todo \in [Ctx -> SUBSET Pid]
  BY DEF TypeOK
(* A process that is emplaced was linked to its spawner at most. *)
<1>1. ASSUME NEW d \in Pid, Emplace(d), p \notin process_registry PROVE OwedTo(p, q)'
  <2>1. target[d] = p /\ at[d] = "spawning" /\ links' = links /\ d \in Ctx
    BY <1>1, NodeIsPid DEF Emplace, processes
  <2>2. OwedTo(p, q)
    BY <2>1 DEF OwedInv, SpawnedOwed
  <2>3. ASSUME NEW c \in Ctx, at[c] = "exits" PROVE at'[c] = "exits" /\ target'[c] = target[c] /\ todo'[c] = todo[c]
    BY <1>0, <1>1, <2>3 DEF Emplace
  <2>4. process_registry' = process_registry \cup {p} /\ status' = [status EXCEPT ![p] = "running"]
        /\ UNCHANGED <<timed_signals, sig>>
    BY <1>1, <2>1 DEF Emplace, timers
  <2>5. q \in Pid /\ (status[q] = "constructed" => q \in process_registry' \/ status'[q] = "constructed")
    <3>1. p \in Pid
      BY <2>1 DEF RegistryInv, TargetsExist
    <3> QED BY <1>0, <2>1, <2>4, <3>1
  <2> QED BY <2>2, <2>3, <2>4, <2>5 DEF OwedTo
<1>2. CASE p \in process_registry /\ q \in links[p]
  <2>1. q \in Pid /\ p \in Pid /\ (q \in process_registry => p \in links[q])
    BY <1>0, <1>2 DEF RegistryInv, LinksAgree, Known
  <2>2. ASSUME NEW c \in Ctx, CancelSignals(c), target[c] = p PROVE Ends(p)'
    BY <1>0, <2>2 DEF CancelSignals, Ends, Terminating
  <2>3. ASSUME NEW s \in timed_signals, SignalTimer(s), s.pid = p, s.from = q PROVE FALSE
    <3>1. links' = UnlinkBoth(p, q)
      BY <1>2, <2>3 DEF SignalTimer, SignalUnknown, SignalTrapped, SignalNormal, SignalKills
    <3> QED BY <1>0, <2>1, <3>1 DEF UnlinkBoth
  <2>4. CASE Ends(p)
    BY <1>2, <2>4, EndsStays DEF OwedInv
  <2>5. CASE OwedTo(p, q)
    BY <2>1, <2>2, <2>3, <2>5, OwedStep DEF OwedInv
  <2> QED BY <1>2, <2>4, <2>5 DEF OwedInv, LinkedOwed
<1>3. CASE p \in process_registry /\ q \notin links[p]
  <2>1. PICK c \in Pid, child \in Pid :
          Construct(c, child, c) /\ links' = [links EXCEPT ![child] = @ \cup {c}, ![c] = @ \cup {child}]
    BY <1>0, <1>3, LinkStep
  <2>2. status[child] = "free" /\ status'[child] = "constructed" /\ p # child
    BY <1>0, <1>3, <2>1 DEF Construct, RegistryInv, RegisteredRun
  <2>3. p = c /\ q = child
    BY <1>0, <1>3, <2>1, <2>2
  <2> QED BY <2>2, <2>3 DEF OwedTo
<1>4. p \notin process_registry => \E d \in Pid : Emplace(d)
  <2>1. ASSUME NEW c \in Ctx, Terminate(c) PROVE process_registry' \subseteq process_registry
    BY <2>1 DEF Terminate, CancelMessages, CancelSignals, DropNames, Erase, EraseNothing, SendExit,
                DeleteTask, registries
  <2>2. ASSUME NEW c \in Pid, Application(c) PROVE process_registry' = process_registry
    BY <2>2 DEF Application, Send, Receive, ProcessFlag, RegisterName, Unregister, StartTimer,
                Cancel, Exit, Construct, Fail, registries
  <2>3. (DaemonStep /\ ~Terminate(Daemon)) \/ UNCHANGED vars => process_registry' = process_registry
    BY DEF DaemonStep, DrainCommand, MessageTimer, SignalTimer, SignalUnknown, SignalTrapped,
           SignalNormal, SignalKills, SignalExpires, FinishSignal, vars, registries
  <2> QED BY <2>1, <2>2, <2>3, NodeIsPid DEF Next, TaskStep
<1> QED BY <1>1, <1>2, <1>3, <1>4

LEMMA OwedInit == Init => OwedInv
<1> SUFFICES ASSUME Init PROVE OwedInv
  OBVIOUS
<1>1. /\ \A p \in Pid : links[p] = {}
      /\ \A c \in Ctx : at[c] \in {"idle", "run"}
      /\ sig = NoSignal
      /\ process_registry = Root /\ Root \subseteq Pid
  BY NodeAssumption DEF Init, NodeAssumption
<1>2. \A p \in Pid : status[p] = "running" => p \in process_registry
  BY DEF Init
<1> QED BY <1>1, <1>2, NodeIsPid
        DEF OwedInv, OwnTarget, Terminating, IdleHasNoSignal, SigTaken, RunningOrDying, SpawnedOwed, LinkedOwed

(* process.cpp:113-114 "It will send exit signals to all of its links":    *)
(* whoever is linked to a dead process will hear of it, whatever the order *)
(* of spawns, deaths and signals, as long as actors link to those they     *)
(* spawn, the timer queue takes the exit signals, and the heap does not    *)
(* reuse the map node that the argument of terminate points into.          *)
THEOREM NodeExitOwed ==
  ASSUME ~LinkAny, ~HeapReuse
  PROVE  SafeSpec /\ [][NoneDropped]_vars => []ExitOwed
<1>1. Init => TypeOK /\ RegistryInv /\ OwedInv
  BY InitTypes, InitRegistry, OwedInit
<1>2. TypeOK /\ RegistryInv /\ OwedInv /\ [Next]_vars /\ [NoneDropped]_vars
        => (TypeOK /\ RegistryInv /\ OwedInv)'
  <2> SUFFICES ASSUME TypeOK, RegistryInv, OwedInv, [Next]_vars, [NoneDropped]_vars
               PROVE  (TypeOK /\ RegistryInv /\ OwedInv)'
    OBVIOUS
  <2>1. NoneDropped
    <3>1. CASE UNCHANGED vars
      <4>1. ASSUME NEW c \in Ctx, NEW p \in Pid, SendExit(c, p) PROVE FALSE
        BY <3>1, <4>1 DEF SendExit, vars, contexts, TypeOK
      <4> QED BY <4>1 DEF NoneDropped
    <3> QED BY <3>1
  <2>2. OwnTarget' /\ IdleHasNoSignal' /\ SigTaken' /\ RunningOrDying'
    BY OwnTargetStep, IdleStep, SigTakenStep, RunningStep DEF OwedInv
  <2> QED BY <2>1, <2>2, NodeInductive, SpawnedOwedStep, LinkedOwedStep DEF OwedInv
<1>3. OwedInv => ExitOwed
  BY DEF OwedInv, LinkedOwed, OwedTo, Ends, ExitOwed
<1> QED
  BY <1>1, <1>2, <1>3, PTL DEF SafeSpec

-----------------------------------------------------------------------------
(* A supervisor *)


LEMMA SupervisorIsPid ==
  /\ Supervisor \in Pid /\ Supervisor # Daemon /\ Supervisor \in Ctx /\ Daemon \in Ctx
  /\ Daemon \notin Pid /\ NoPid \notin Pid
BY SupervisorAssumption, NodeAssumption DEF SupervisorAssumption, NodeAssumption, Ctx

-----------------------------------------------------------------------------
(* The node of a supervisor is a node *)

LEMMA SupervisorStep ==
  ASSUME TypeOK, [SupervisorNext]_allvars
  PROVE  [Next]_vars
<1>1. CASE HandleInit \/ HandleMessage \/ ChildStarted
  <2>1. Application(Supervisor) \/ TaskStep(Supervisor)
    BY <1>1 DEF HandleInit, HandleMessage, ChildStarted, Application, TaskStep
  <2> QED BY <2>1, SupervisorIsPid DEF Next
<1>2. CASE StartChild
  <2>1. \E p \in Pid : Construct(Supervisor, p, Supervisor)
    BY <1>2 DEF StartChild
  <2> QED BY <2>1, SupervisorIsPid DEF Next, Application
<1>3. CASE StartFailed
  BY <1>3 DEF StartFailed
<1>4. CASE NodeStep
  BY <1>4 DEF NodeStep, Next
<1>5. CASE \E c \in Pid \ {Supervisor} : ChildCalls(c)
  <2>1. PICK c \in Pid : ChildCalls(c)
    BY <1>5
  <2>2. process_registry \subseteq Pid
    BY DEF TypeOK
  <2>3. Application(c)
    BY <2>1, <2>2, SupervisorIsPid DEF ChildCalls, Application
  <2> QED BY <2>3 DEF Next
<1>6. CASE UNCHANGED allvars
  BY <1>6 DEF allvars
<1> QED BY <1>1, <1>2, <1>3, <1>4, <1>5, <1>6 DEF SupervisorNext, SupervisorBehaviour

LEMMA SupervisorNode ==
  ASSUME TypeOK, RegistryInv, [SupervisorNext]_allvars
  PROVE  TypeOK' /\ RegistryInv'
BY SupervisorStep, NodeInductive

(* supervisor_actor_behaviour.cpp: what a supervisor and its children do   *)
(* are calls any actor may make, so all that is proved of the node holds.  *)
THEOREM SupervisorIsNode == SupervisorSafeSpec => SafeSpec
<1>1. SupervisorInit => Init /\ TypeOK /\ RegistryInv
  BY InitTypes, InitRegistry DEF SupervisorInit
<1>2. TypeOK /\ RegistryInv /\ [SupervisorNext]_allvars => TypeOK' /\ RegistryInv'
  BY SupervisorNode
<1>3. TypeOK /\ [SupervisorNext]_allvars => [Next]_vars
  BY SupervisorStep
<1> QED BY <1>1, <1>2, <1>3, PTL DEF SupervisorSafeSpec, SafeSpec

-----------------------------------------------------------------------------
(* Types *)

(* Before "init" there are no children; whom it started existed; and it    *)
(* spawns only for a child it is to start.                                 *)
KillsHaveOrigin ==
  \A i \in 1..Len(mailbox[Supervisor]) :
    mailbox[Supervisor][i].type = "kill" => mailbox[Supervisor][i].from \in Pid

ChildrenInv ==
  /\ SupervisorTypeOK
  /\ KillsHaveOrigin
  /\ at[Supervisor] = "spawning" => starting # <<>>
  /\ \A p \in Pid : children[p] # NoChild => status[p] \in {"running", "deleted"}
  /\ ~initialised => starting = <<>> /\ \A p \in Pid : children[p] = NoChild

Notice(s) == [type |-> "kill", from |-> s.from, reason |-> s.reason]

(* What can happen to the supervisor's mailbox.                            *)
LEMMA DeliverEffect ==
  ASSUME TypeOK, NEW p \in Pid, NEW m, Deliver(p, m)
  PROVE  \/ mailbox'[Supervisor] = mailbox[Supervisor]
         \/ p = Supervisor /\ mailbox'[Supervisor] = Append(mailbox[Supervisor], m)
BY SupervisorIsPid DEF Deliver, TypeOK

LEMMA MailStep ==
  ASSUME TypeOK, RegistryInv, [SupervisorNext]_allvars
  PROVE  \/ mailbox'[Supervisor] = mailbox[Supervisor]
         \/ mailbox'[Supervisor] = <<>> /\ Supervisor \notin process_registry
         \/ mailbox'[Supervisor] = Append(mailbox[Supervisor], Plain)
         \/ HandleMessage
         \/ \E s \in timed_signals :
              /\ s.pid = Supervisor /\ SignalTrapped(s)
              /\ mailbox'[Supervisor] = Append(mailbox[Supervisor], Notice(s))
<1>0. process_registry \subseteq Pid /\ timed_messages \subseteq TimedMessage /\ timed_signals \subseteq Signal
  BY DEF TypeOK
<1>1. ASSUME NEW c \in Ctx, Terminate(c)
      PROVE  \/ mailbox' = mailbox \/ mailbox'[Supervisor] = mailbox[Supervisor]
             \/ mailbox'[Supervisor] = <<>> /\ Supervisor \notin process_registry
  <2>1. CASE DeleteTask(c)
    <3>1. mailbox' = [mailbox EXCEPT ![target[c]] = <<>>] /\ target[c] \notin process_registry
      BY <2>1 DEF DeleteTask, RegistryInv, TargetsExist
    <3>2. mailbox \in [Pid -> Seq(Message)]
      BY DEF TypeOK
    <3> QED BY <3>1, <3>2, SupervisorIsPid
  <2> QED BY <1>1, <2>1 DEF Terminate, CancelMessages, CancelSignals, DropNames, Erase, EraseNothing,
                            SendExit, processes
<1>2. ASSUME NEW c \in Pid, ChildCalls(c)
      PROVE  mailbox' = mailbox \/ Deliver(Supervisor, Plain)
  BY <1>2 DEF ChildCalls, Send, Fail, Exit, processes
<1>3. ASSUME NEW m \in timed_messages, MessageTimer(m)
      PROVE  mailbox' = mailbox \/ Deliver(m.pid, Plain)
  BY <1>3 DEF MessageTimer
<1>4. ASSUME NEW s \in timed_signals, SignalTimer(s)
      PROVE  mailbox' = mailbox \/ (SignalTrapped(s) /\ Deliver(s.pid, Notice(s)))
  BY <1>4 DEF SignalTimer, SignalUnknown, SignalTrapped, SignalNormal, SignalKills, Notice
<1>5. (DrainCommand \/ FinishSignal) => mailbox' = mailbox
  BY DEF DrainCommand, FinishSignal, processes
<1>6. (HandleInit \/ StartChild \/ ChildStarted \/ StartFailed \/ UNCHANGED allvars) => mailbox' = mailbox
  BY DEF HandleInit, ProcessFlag, StartChild, Construct, ChildStarted, Emplace, StartFailed,
         allvars, vars, processes
<1>7. \A c \in Pid : Emplace(c) => mailbox' = mailbox
  BY DEF Emplace, processes
<1>8. \A m \in timed_messages : m.pid \in Pid
  BY <1>0 DEF TimedMessage
<1>9. \A s \in timed_signals : s.pid \in Pid
  BY <1>0 DEF Signal
<1>10. CASE DaemonStep
  <2>1. CASE \E m \in timed_messages : MessageTimer(m)
    BY <1>3, <1>8, <2>1, DeliverEffect
  <2>2. CASE \E s \in timed_signals : SignalTimer(s)
    BY <1>4, <1>9, <2>2, DeliverEffect
  <2> QED BY <1>1, <1>5, <1>10, <2>1, <2>2, SupervisorIsPid DEF DaemonStep
<1>11. CASE \E c \in Pid \ {Supervisor} : TaskStep(c)
  BY <1>1, <1>7, <1>11 DEF TaskStep, Ctx
<1>12. CASE \E c \in Pid \ {Supervisor} : ChildCalls(c)
  BY <1>2, <1>12, DeliverEffect, SupervisorIsPid
<1> QED BY <1>6, <1>10, <1>11, <1>12 DEF SupervisorNext, SupervisorBehaviour, NodeStep

LEMMA KillsNext ==
  ASSUME TypeOK, RegistryInv, KillsHaveOrigin, [SupervisorNext]_allvars
  PROVE  KillsHaveOrigin'
<1> DEFINE mail == mailbox[Supervisor]
<1>1. mail \in Seq(Message)
  BY SupervisorIsPid DEF TypeOK
<1>2. \A i \in 1..Len(mail) : mail[i].type = "kill" => mail[i].from \in Pid
  BY DEF KillsHaveOrigin
<1>3. SUFFICES \A i \in 1..Len(mail') : mail'[i].type = "kill" => mail'[i].from \in Pid
  BY DEF KillsHaveOrigin
<1>4. CASE mail' = mail \/ mail' = <<>>
  BY <1>2, <1>4
<1>5. CASE HandleMessage
  <2>1. mail # <<>> /\ mail' = Tail(mail)
    BY <1>5, SupervisorIsPid DEF HandleMessage, Receive, TypeOK
  <2> HIDE DEF mail
  <2> QED BY <1>1, <1>2, <2>1
<1>6. ASSUME NEW m, m.type = "kill" => m.from \in Pid, mail' = Append(mail, m)
      PROVE  \A i \in 1..Len(mail') : mail'[i].type = "kill" => mail'[i].from \in Pid
  <2> HIDE DEF mail
  <2>1. Len(mail) \in Nat /\ Len(mail') = Len(mail) + 1 /\ mail'[Len(mail) + 1] = m
        /\ \A i \in 1..Len(mail) : mail'[i] = mail[i]
    BY <1>1, <1>6
  <2>2. \A i \in 1..Len(mail') : i = Len(mail) + 1 \/ i \in 1..Len(mail)
    BY <2>1
  <2> QED BY <1>2, <1>6, <2>1, <2>2
<1>7. Plain.type # "kill"
  BY DEF Plain
<1>8. \A s \in timed_signals : Notice(s).from \in Pid
  BY DEF TypeOK, Signal, Notice
<1> QED BY <1>4, <1>5, <1>6, <1>7, <1>8, MailStep

(* What existed goes on to exist.                                          *)
LEMMA StatusGrows ==
  ASSUME TypeOK, RegistryInv, [Next]_vars, NEW p \in Pid, status[p] \in {"running", "deleted"}
  PROVE  status'[p] \in {"running", "deleted"}
<1>1. CASE UNCHANGED status
  BY <1>1
<1>2. ASSUME NEW c \in Pid, NEW child \in Pid, NEW parent, Construct(c, child, parent)
      PROVE  status'[p] \in {"running", "deleted"}
  BY <1>2 DEF Construct, TypeOK
<1>3. ASSUME NEW c \in Pid, Emplace(c)
      PROVE  status'[p] \in {"running", "deleted"}
  BY <1>3 DEF Emplace, TypeOK
<1>4. ASSUME NEW c \in Ctx, DeleteTask(c)
      PROVE  status'[p] \in {"running", "deleted"}
  BY <1>4 DEF DeleteTask, TypeOK
<1>5. ASSUME NEW c \in Ctx, Terminate(c)
      PROVE  DeleteTask(c) \/ UNCHANGED status
  BY <1>5 DEF Terminate, CancelMessages, CancelSignals, DropNames, Erase, EraseNothing, SendExit, registries
<1>6. ASSUME NEW c \in Pid, Application(c)
      PROVE  UNCHANGED status \/ \E child \in Pid, parent \in Pid \cup {NoPid} : Construct(c, child, parent)
  BY <1>6 DEF Application, Send, Receive, ProcessFlag, RegisterName, Unregister, StartTimer,
              Cancel, Exit, Fail, registries
<1>7. DaemonStep => UNCHANGED status \/ Terminate(Daemon)
  BY DEF DaemonStep, DrainCommand, MessageTimer, SignalTimer, SignalUnknown, SignalTrapped,
         SignalNormal, SignalKills, SignalExpires, FinishSignal, registries
<1>8. UNCHANGED vars => UNCHANGED status
  BY DEF vars, registries
<1> QED BY <1>1, <1>2, <1>3, <1>4, <1>5, <1>6, <1>7, <1>8, SupervisorIsPid DEF Next, TaskStep, Ctx

(* Nobody else makes the supervisor spawn.                                 *)
LEMMA OthersDoNotSpawn ==
  ASSUME TypeOK, RegistryInv,
         NodeStep \/ \E c \in Pid \ {Supervisor} : ChildCalls(c)
  PROVE  at'[Supervisor] = "spawning" => at[Supervisor] = "spawning"
<1>0. Supervisor \in Ctx /\ at \in [Ctx -> Place]
  BY SupervisorIsPid DEF TypeOK
<1>1. ASSUME NEW c \in Pid \ {Supervisor}, ChildCalls(c)
      PROVE  at'[Supervisor] = "spawning" => at[Supervisor] = "spawning"
  BY <1>0, <1>1 DEF ChildCalls, Send, Fail, Exit, contexts
<1>2. ASSUME NEW c \in Ctx, Terminate(c)
      PROVE  at'[Supervisor] = "spawning" => at[Supervisor] = "spawning"
  BY <1>0, <1>2 DEF Terminate, CancelMessages, CancelSignals, DropNames, Erase, EraseNothing,
                    SendExit, DeleteTask
<1>3. ASSUME NEW c \in Pid \ {Supervisor}, Emplace(c)
      PROVE  at'[Supervisor] = "spawning" => at[Supervisor] = "spawning"
  BY <1>0, <1>3 DEF Emplace
<1>4. ASSUME DaemonStep, ~Terminate(Daemon)
      PROVE  at'[Supervisor] = "spawning" => at[Supervisor] = "spawning"
  BY <1>0, <1>4 DEF DaemonStep, DrainCommand, MessageTimer, SignalTimer, SignalUnknown, SignalTrapped,
         SignalNormal, SignalKills, SignalExpires, FinishSignal, contexts
<1> QED BY <1>1, <1>2, <1>3, <1>4, SupervisorIsPid DEF NodeStep, TaskStep, Ctx

LEMMA ChildrenInit == SupervisorInit => ChildrenInv
<1> SUFFICES ASSUME SupervisorInit PROVE ChildrenInv
  OBVIOUS
<1>1. TypeOK
  BY InitTypes DEF SupervisorInit
<1>2. at[Supervisor] = "run"
  BY SupervisorIsPid DEF SupervisorInit, Init
<1>3. /\ children \in [Pid -> Child \cup {NoChild}] /\ initialised \in BOOLEAN /\ starting \in Seq(Child)
      /\ starting = <<>> /\ \A p \in Pid : children[p] = NoChild
  <2>1. children = [p \in Pid |-> NoChild] /\ initialised = FALSE /\ starting = <<>>
    BY DEF SupervisorInit
  <2>2. <<>> \in Seq(Child)
    OBVIOUS
  <2> QED BY <2>1, <2>2
<1>4. KillsHaveOrigin
  BY SupervisorIsPid DEF SupervisorInit, Init, KillsHaveOrigin
<1> QED BY <1>1, <1>2, <1>3, <1>4 DEF ChildrenInv, SupervisorTypeOK

LEMMA ChildrenNext ==
  ASSUME ChildrenInv, RegistryInv, [SupervisorNext]_allvars
  PROVE  ChildrenInv'
<1>0. TypeOK /\ TypeOK' /\ [Next]_vars
  BY SupervisorNode, SupervisorStep DEF ChildrenInv, SupervisorTypeOK
<1>1. \A p \in Pid : status[p] \in {"running", "deleted"} => status'[p] \in {"running", "deleted"}
  BY <1>0, StatusGrows
<1>2. /\ children \in [Pid -> Child \cup {NoChild}] /\ initialised \in BOOLEAN /\ starting \in Seq(Child)
      /\ at[Supervisor] = "spawning" => starting # <<>>
      /\ \A p \in Pid : children[p] # NoChild => status[p] \in {"running", "deleted"}
      /\ ~initialised => starting = <<>> /\ \A p \in Pid : children[p] = NoChild
      /\ at \in [Ctx -> Place] /\ Supervisor \in Ctx
  BY <1>0, SupervisorIsPid DEF ChildrenInv, SupervisorTypeOK, TypeOK
<1>3. SUFFICES
        /\ children' \in [Pid -> Child \cup {NoChild}] /\ initialised' \in BOOLEAN /\ starting' \in Seq(Child)
        /\ at'[Supervisor] = "spawning" => starting' # <<>>
        /\ \A p \in Pid : children'[p] # NoChild => status'[p] \in {"running", "deleted"}
        /\ ~initialised' => starting' = <<>> /\ \A p \in Pid : children'[p] = NoChild
  BY <1>0, KillsNext DEF ChildrenInv, SupervisorTypeOK
<1>4. CASE HandleInit
  <2>1. at'[Supervisor] = "run" /\ UNCHANGED children /\ initialised' /\ starting' = ChildSpecs
        /\ initialised' \in BOOLEAN
    BY <1>4 DEF HandleInit, Waits, Running, ProcessFlag, contexts
  <2> QED BY <1>1, <1>2, <2>1, SupervisorAssumption DEF SupervisorAssumption
<1>5. CASE StartChild
  BY <1>1, <1>2, <1>5 DEF StartChild, supervisor
<1>6. CASE ChildStarted
  <2>1. /\ starting # <<>> /\ at[Supervisor] = "spawning" /\ target[Supervisor] \in Pid
        /\ status' = [status EXCEPT ![target[Supervisor]] = "running"]
        /\ at'[Supervisor] = "run" /\ initialised' = initialised
    BY <1>2, <1>6 DEF ChildStarted, Emplace, RegistryInv, TargetsExist
  <2>2. Head(starting) \in Child /\ Tail(starting) \in Seq(Child)
    BY <1>2, <2>1
  <2>3. /\ children' = [children EXCEPT ![target[Supervisor]] = Head(starting)]
        /\ starting' = Tail(starting)
    BY <1>6 DEF ChildStarted
  <2>4. status \in [Pid -> {"free", "constructed", "running", "deleted"}]
    BY <1>0 DEF TypeOK
  <2> QED BY <1>1, <1>2, <2>1, <2>2, <2>3, <2>4
<1>7. CASE StartFailed
  <2>1. /\ at'[Supervisor] = "run" /\ starting # <<>> /\ starting' = Tail(starting)
        /\ UNCHANGED <<children, initialised>>
    BY <1>7 DEF StartFailed, Running, vars, contexts
  <2>2. Tail(starting) \in Seq(Child)
    BY <1>2, <2>1
  <2> QED BY <1>1, <1>2, <2>1, <2>2
<1>8. CASE HandleMessage
  <2> DEFINE m == Head(mailbox[Supervisor])
  <2>1. /\ at'[Supervisor] = "run" /\ UNCHANGED <<children, initialised>>
        /\ mailbox[Supervisor] # <<>>
        /\ starting' = IF IsNotice(m) THEN <<children[m.from]>> ELSE <<>>
    BY <1>8 DEF HandleMessage, Waits, Running, Receive, contexts
  <2>2. m = mailbox[Supervisor][1] /\ 1 \in 1..Len(mailbox[Supervisor])
    <3>1. mailbox[Supervisor] \in Seq(Message)
      BY <1>0, SupervisorIsPid DEF TypeOK
    <3> QED BY <2>1, <3>1
  <2>3. IsNotice(m) => m.from \in Pid /\ children[m.from] \in Child /\ initialised
    BY <1>2, <2>2 DEF IsNotice, KillsHaveOrigin, ChildrenInv
  <2> HIDE DEF m
  <2> QED BY <1>1, <1>2, <2>1, <2>3
<1>9. CASE UNCHANGED supervisor /\ (NodeStep \/ \E c \in Pid \ {Supervisor} : ChildCalls(c))
  BY <1>0, <1>1, <1>2, <1>9, OthersDoNotSpawn DEF supervisor
<1>10. CASE UNCHANGED allvars
  BY <1>1, <1>2, <1>10 DEF allvars, supervisor, vars, contexts
<1> QED BY <1>4, <1>5, <1>6, <1>7, <1>8, <1>9, <1>10 DEF SupervisorNext, SupervisorBehaviour

LEMMA SupervisorInductive ==
  /\ SupervisorInit => ChildrenInv /\ RegistryInv
  /\ ChildrenInv /\ RegistryInv /\ [SupervisorNext]_allvars => ChildrenInv' /\ RegistryInv'
<1>1. SupervisorInit => ChildrenInv /\ RegistryInv
  BY ChildrenInit, InitRegistry DEF SupervisorInit
<1>2. ChildrenInv => TypeOK
  BY DEF ChildrenInv, SupervisorTypeOK
<1> QED BY <1>1, <1>2, ChildrenNext, SupervisorNode

(* supervisor_actor_behaviour.cpp:60-150: the types of the supervisor's    *)
(* state, whatever its children do.                                        *)
THEOREM SupervisorTypes == SupervisorSafeSpec => []SupervisorTypeOK
<1>1. ChildrenInv => SupervisorTypeOK
  BY DEF ChildrenInv
<1> QED BY <1>1, SupervisorInductive, PTL DEF SupervisorSafeSpec

-----------------------------------------------------------------------------
(* The news of a process *)

(* What the supervisor will hear of a process: its death, because it is    *)
(* registered, because the exit signal is still owed or coming, or because *)
(* the notice is in the mailbox.                                           *)
Owed(p) ==
  \E c \in Ctx : at[c] = "exits" /\ target[c] = p /\ Supervisor \in todo[c]

Coming(p) == {s \in timed_signals \ {sig} : s.pid = Supervisor /\ s.from = p}

Mail(p) ==
  {i \in 1..Len(mailbox[Supervisor]) :
     mailbox[Supervisor][i].type = "kill" /\ mailbox[Supervisor][i].from = p}

Open(p) == p \in process_registry \/ Owed(p) \/ Coming(p) # {} \/ Mail(p) # {}

(* There is one piece of news of a process, in one place.                  *)
OneNews(p) ==
  /\ \A s, t \in Coming(p) : s = t
  /\ \A i, j \in Mail(p) : i = j
  /\ Coming(p) # {} => p \notin process_registry /\ ~Owed(p)
  /\ Mail(p) # {} => /\ p \notin process_registry /\ ~Owed(p) /\ Coming(p) = {}
                     /\ status[p] \in {"running", "deleted"}

NewsInv == IdleHasNoSignal /\ \A p \in Pid : OneNews(p)

(* Steps after which there is no more news than before.                    *)
NewsKept ==
  /\ process_registry' \subseteq process_registry
  /\ \A p \in Pid : /\ Owed(p)' => Owed(p)
                    /\ Coming(p)' \subseteq Coming(p)
                    /\ Mail(p)' \subseteq Mail(p)

OpenKept == \A p \in Pid : Open(p)' => Open(p)

KeptOf(p) ==
  /\ Owed(p)' => Owed(p)
  /\ Coming(p)' \subseteq Coming(p)
  /\ Mail(p)' \subseteq Mail(p)
  /\ status[p] \in {"running", "deleted"} => status'[p] \in {"running", "deleted"}

LEMMA KeptOne ==
  ASSUME NEW p \in Pid, OneNews(p), KeptOf(p), p \in process_registry' => p \in process_registry
  PROVE  OneNews(p)' /\ (Open(p)' => Open(p))
BY DEF OneNews, Open, KeptOf

LEMMA KeptStep ==
  ASSUME NewsInv, NewsKept, IdleHasNoSignal',
         \A p \in Pid : status[p] \in {"running", "deleted"} => status'[p] \in {"running", "deleted"}
  PROVE  NewsInv' /\ OpenKept
BY KeptOne DEF NewsInv, NewsKept, OpenKept, KeptOf

(* Only the erasure of a process makes its links owed a signal.            *)
LEMMA OwedNext ==
  ASSUME TypeOK, RegistryInv, [Next]_vars, \A c \in Ctx : ~Erase(c), NEW p \in Pid, Owed(p)'
  PROVE  Owed(p)
<1>0. /\ Daemon \in Ctx /\ Daemon \notin Pid
      /\ at \in [Ctx -> Place] /\ target \in [Ctx -> Pid \cup {NoPid}] /\ todo \in [Ctx -> SUBSET Pid]
  BY SupervisorIsPid DEF TypeOK
<1> USE DEF Owed
<1>1. ASSUME NEW c \in Ctx, Terminate(c) PROVE Owed(p)
  <2>1. CASE CancelMessages(c) \/ CancelSignals(c) \/ DropNames(c) \/ EraseNothing(c)
    BY <1>0, <2>1 DEF CancelMessages, CancelSignals, DropNames, EraseNothing
  <2>2. CASE \E q \in Pid : SendExit(c, q)
    BY <1>0, <2>2 DEF SendExit
  <2>3. CASE DeleteTask(c)
    BY <1>0, <2>3 DEF DeleteTask
  <2> QED BY <1>1, <2>1, <2>2, <2>3 DEF Terminate
<1>2. ASSUME NEW c \in Pid, Application(c) PROVE Owed(p)
  <2>1. CASE UNCHANGED contexts
    BY <2>1 DEF contexts
  <2>2. CASE \E child \in Pid, parent \in Pid \cup {NoPid} : Construct(c, child, parent)
    BY <1>0, <2>2 DEF Construct, Ctx
  <2>3. CASE \E reason \in FailReason : Fail(c, reason)
    BY <1>0, <2>3 DEF Fail, Ctx
  <2> QED BY <1>2, <2>1, <2>2, <2>3 DEF Application, Send, Receive, ProcessFlag, RegisterName,
                                       Unregister, StartTimer, Cancel, Exit
<1>3. ASSUME NEW c \in Pid, Emplace(c) PROVE Owed(p)
  BY <1>0, <1>3 DEF Emplace, Ctx
<1>4. ASSUME NEW s \in timed_signals, SignalTimer(s) PROVE Owed(p)
  BY <1>0, <1>4 DEF SignalTimer, SignalUnknown, SignalTrapped, SignalNormal, SignalKills, SignalExpires
<1>5. CASE DrainCommand \/ (\E m \in timed_messages : MessageTimer(m)) \/ UNCHANGED vars
  BY <1>5 DEF DrainCommand, MessageTimer, vars, contexts
<1>6. CASE FinishSignal
  BY <1>0, <1>6 DEF FinishSignal
<1> QED BY <1>0, <1>1, <1>2, <1>3, <1>4, <1>5, <1>6 DEF Next, TaskStep, DaemonStep, Ctx

(* Exit signals to the supervisor are started by the dying only, and taken *)
(* up one at a time.                                                       *)
LEMMA ComingNext ==
  ASSUME TypeOK, RegistryInv, IdleHasNoSignal, [SupervisorNext]_allvars, ~DrainCommand,
         \A c \in Ctx : ~SendExit(c, Supervisor), NEW p \in Pid
  PROVE  Coming(p)' \subseteq Coming(p)
<1>0. NoSignal \notin timed_signals
  BY SupervisorIsPid DEF TypeOK, Signal, NoSignal
<1>1. CASE timed_signals' \subseteq timed_signals /\ sig' = sig
  BY <1>1 DEF Coming
<1>2. ASSUME NEW q \in Pid \ {Supervisor}, NEW from, NEW reason, StartSignal(q, from, reason), sig' = sig
      PROVE  Coming(p)' \subseteq Coming(p)
  BY <1>2 DEF StartSignal, Coming
<1>3. CASE \E s \in timed_signals : SignalTimer(s)
  <2>1. sig = NoSignal /\ UNCHANGED timed_signals
    BY <1>3 DEF SignalTimer, SignalUnknown, SignalTrapped, SignalNormal, SignalKills, SignalExpires,
                IdleHasNoSignal, timers
  <2> QED BY <1>0, <2>1 DEF Coming
<1>4. CASE FinishSignal
  BY <1>4 DEF FinishSignal, CancelTimers, Coming
<1>5. ASSUME NEW c \in Ctx, Terminate(c)
      PROVE  \/ timed_signals' \subseteq timed_signals /\ sig' = sig
             \/ \E q \in Pid : SendExit(c, q)
  BY <1>5 DEF Terminate, CancelMessages, CancelSignals, CancelTimers, DropNames, Erase, EraseNothing,
              DeleteTask, timers
<1>6. ASSUME NEW c \in Ctx, NEW q \in Pid, SendExit(c, q)
      PROVE  Coming(p)' \subseteq Coming(p)
  BY <1>2, <1>6 DEF SendExit
<1>7. ASSUME NEW c \in Pid, ChildCalls(c)
      PROVE  Coming(p)' \subseteq Coming(p)
  <2>1. CASE Send(c, Supervisor) \/ \E reason \in FailReason : Fail(c, reason)
    BY <1>1, <2>1 DEF Send, Fail, timers, contexts
  <2>2. CASE \E q \in process_registry \ {Supervisor}, reason \in ApiReason : Exit(c, q, reason)
    BY <1>2, <2>2 DEF Exit, contexts, TypeOK
  <2> QED BY <1>7, <2>1, <2>2 DEF ChildCalls
<1>8. SupervisorBehaviour \/ UNCHANGED allvars \/ (\E c \in Pid : Emplace(c)) => UNCHANGED <<timed_signals, sig>>
  BY DEF SupervisorBehaviour, HandleInit, ProcessFlag, StartChild, Construct, ChildStarted, Emplace,
         StartFailed, HandleMessage, Receive, allvars, vars, timers, contexts
<1>9. (\E m \in timed_messages : MessageTimer(m)) => timed_signals' \subseteq timed_signals /\ sig' = sig
  BY DEF MessageTimer, CancelTimers, contexts
<1> QED BY <1>1, <1>3, <1>4, <1>5, <1>6, <1>7, <1>8, <1>9, SupervisorIsPid
        DEF SupervisorNext, NodeStep, DaemonStep, TaskStep, Ctx

LEMMA MailNext ==
  ASSUME TypeOK, RegistryInv, [SupervisorNext]_allvars, ~HandleMessage,
         \A s \in timed_signals : s.pid = Supervisor => ~SignalTrapped(s), NEW p \in Pid
  PROVE  Mail(p)' \subseteq Mail(p)
<1>1. mailbox[Supervisor] \in Seq(Message)
  BY SupervisorIsPid DEF TypeOK
<1>2. CASE mailbox'[Supervisor] = mailbox[Supervisor] \/ mailbox'[Supervisor] = <<>>
  BY <1>2 DEF Mail
<1>3. CASE mailbox'[Supervisor] = Append(mailbox[Supervisor], Plain)
  <2>1. /\ Len(mailbox[Supervisor]) \in Nat
        /\ Len(mailbox'[Supervisor]) = Len(mailbox[Supervisor]) + 1
        /\ mailbox'[Supervisor][Len(mailbox[Supervisor]) + 1] = Plain
        /\ \A i \in 1..Len(mailbox[Supervisor]) : mailbox'[Supervisor][i] = mailbox[Supervisor][i]
    BY <1>1, <1>3
  <2>2. \A i \in 1..Len(mailbox'[Supervisor]) :
          i = Len(mailbox[Supervisor]) + 1 \/ i \in 1..Len(mailbox[Supervisor])
    BY <2>1
  <2>3. Plain.type # "kill"
    BY DEF Plain
  <2> QED BY <2>1, <2>2, <2>3 DEF Mail
<1> QED BY <1>2, <1>3, MailStep

LEMMA RegistryNext ==
  ASSUME TypeOK, [Next]_vars, \A c \in Pid : ~Emplace(c)
  PROVE  process_registry' \subseteq process_registry
<1>1. ASSUME NEW c \in Ctx, Terminate(c) PROVE process_registry' \subseteq process_registry
  BY <1>1 DEF Terminate, CancelMessages, CancelSignals, DropNames, Erase, EraseNothing, SendExit,
              DeleteTask, registries
<1>2. ASSUME NEW c \in Pid, Application(c) PROVE process_registry' = process_registry
  BY <1>2 DEF Application, Send, Receive, ProcessFlag, RegisterName, Unregister, StartTimer,
              Cancel, Exit, Construct, Fail, registries
<1>3. (DaemonStep /\ ~Terminate(Daemon)) \/ UNCHANGED vars => process_registry' = process_registry
  BY DEF DaemonStep, DrainCommand, MessageTimer, SignalTimer, SignalUnknown, SignalTrapped,
         SignalNormal, SignalKills, SignalExpires, FinishSignal, vars, registries
<1> QED BY <1>1, <1>2, <1>3, SupervisorIsPid DEF Next, TaskStep, Ctx

(* The steps that bring no news. *)
LEMMA QuietNext ==
  ASSUME TypeOK, RegistryInv, NewsInv, [SupervisorNext]_allvars,
         ~DrainCommand, ~HandleMessage, \A c \in Pid : ~Emplace(c),
         \A c \in Ctx : ~Erase(c) /\ ~SendExit(c, Supervisor),
         \A s \in timed_signals : s.pid = Supervisor => ~SignalTrapped(s)
  PROVE  NewsInv' /\ OpenKept
<1>1. [Next]_vars /\ IdleHasNoSignal
  BY SupervisorStep DEF NewsInv
<1>2. NewsKept
  BY <1>1, OwedNext, ComingNext, MailNext, RegistryNext DEF NewsKept
<1> QED BY <1>1, <1>2, IdleStep, StatusGrows, KeptStep

-----------------------------------------------------------------------------
(* The way of the news *)

(* A process is erased: its death is owed to the links.                    *)
LEMMA EraseNews ==
  ASSUME TypeOK, RegistryInv, NewsInv, NEW c \in Ctx, Erase(c)
  PROVE  (\A p \in Pid : OneNews(p)') /\ OpenKept
<1> PICK q : q = target[c]
  OBVIOUS
<1>1. /\ q \in process_registry /\ process_registry' = process_registry \ {q}
      /\ UNCHANGED <<status, mailbox, timed_signals, sig, target>>
      /\ at' = [at EXCEPT ![c] = "exits"] /\ todo' = [todo EXCEPT ![c] = links[q]]
      /\ at \in [Ctx -> Place] /\ todo \in [Ctx -> SUBSET Pid]
  BY DEF Erase, processes, timers, TypeOK
<1>2. \A p \in Pid : Owed(p)' => Owed(p) \/ p = q
  BY <1>1 DEF Owed
<1>3. \A p \in Pid : Coming(p)' = Coming(p) /\ Mail(p)' = Mail(p)
  BY <1>1 DEF Coming, Mail
<1>4. \A p \in Pid \ {q} : OneNews(p)' /\ (Open(p)' => Open(p))
  BY <1>1, <1>2, <1>3, KeptOne DEF KeptOf, NewsInv
<1>5. ASSUME q \in Pid PROVE OneNews(q)' /\ Open(q)
  <2>1. Coming(q) = {} /\ Mail(q) = {}
    BY <1>1, <1>5 DEF NewsInv, OneNews
  <2>2. Coming(q)' = {} /\ Mail(q)' = {}
    BY <1>1, <2>1 DEF Coming, Mail
  <2> QED BY <1>1, <2>2 DEF OneNews, Open
<1> QED BY <1>4, <1>5 DEF OpenKept

(* The exit signal is started, or cannot be.                               *)
LEMMA SendExitNews ==
  ASSUME TypeOK, RegistryInv, NewsInv, NEW c \in Ctx, SendExit(c, Supervisor)
  PROVE  (\A p \in Pid : OneNews(p)') /\ OpenKept
<1> PICK q : q = target[c]
  OBVIOUS
<1>0. /\ at \in [Ctx -> Place] /\ todo \in [Ctx -> SUBSET Pid]
      /\ at[c] = "exits" /\ Supervisor \in todo[c]
      /\ UNCHANGED <<process_registry, status, mailbox, at, target, sig>>
      /\ todo' = [todo EXCEPT ![c] = @ \ {Supervisor}]
      /\ StartSignal(Supervisor, q, exit_reason[q])
  BY DEF SendExit, registries, processes, TypeOK
<1>1. q \in Pid /\ q \notin process_registry
  BY <1>0 DEF RegistryInv, TargetsExist
<1>2. Owed(q)
  BY <1>0 DEF Owed
<1>3. Coming(q) = {} /\ Mail(q) = {}
  BY <1>1, <1>2 DEF NewsInv, OneNews
<1>4. \A d \in Ctx : at[d] = "exits" /\ target[d] = q => d = c
  BY <1>0 DEF RegistryInv, OneEach
<1>5. ~Owed(q)'
  BY <1>0, <1>4 DEF Owed
<1>6. \A p \in Pid : Owed(p)' => Owed(p)
  BY <1>0 DEF Owed
<1>7. PICK s : s.from = q /\ timed_signals' \subseteq timed_signals \cup {s}
  <2> DEFINE s == [pid |-> Supervisor, from |-> q, reason |-> exit_reason[q], queued |-> TRUE]
  <2>1. s.from = q
    OBVIOUS
  <2>2. timed_signals' \subseteq timed_signals \cup {s}
    BY <1>0 DEF StartSignal
  <2> QED BY <2>1, <2>2
<1>8. \A p \in Pid \ {q} : Coming(p)' \subseteq Coming(p)
  BY <1>0, <1>7 DEF Coming
<1>9. Coming(q)' \subseteq Coming(q) \cup {s}
  BY <1>0, <1>7 DEF Coming
<1>10. \A p \in Pid : Mail(p)' = Mail(p)
  BY <1>0 DEF Mail
<1>11. \A p \in Pid \ {q} : OneNews(p)' /\ (Open(p)' => Open(p))
  BY <1>0, <1>6, <1>8, <1>10, KeptOne DEF KeptOf, NewsInv
<1>12. OneNews(q)' /\ Open(q)
  <2>1. Coming(q)' \subseteq {s} /\ Mail(q)' = {} /\ ~Owed(q)' /\ q \notin process_registry'
    BY <1>0, <1>1, <1>3, <1>5, <1>9, <1>10
  <2> QED BY <1>2, <2>1 DEF OneNews, Open
<1> QED BY <1>11, <1>12 DEF OpenKept

(* The daemon takes the start command of a signal.                         *)
LEMMA DrainNews ==
  ASSUME TypeOK, RegistryInv, NewsInv, DrainCommand
  PROVE  (\A p \in Pid : OneNews(p)') /\ OpenKept
<1>0. /\ UNCHANGED <<process_registry, status, mailbox, at, target, todo, sig>>
      /\ sig = NoSignal /\ NoSignal \notin timed_signals
  BY SupervisorIsPid DEF DrainCommand, registries, processes, contexts, NewsInv, IdleHasNoSignal,
                         TypeOK, Signal, NoSignal
<1>1. \A p \in Pid : (Owed(p)' => Owed(p)) /\ Mail(p)' = Mail(p)
  BY <1>0 DEF Owed, Mail
<1>2. CASE UNCHANGED timed_signals
  <2>1. \A p \in Pid : Coming(p)' = Coming(p)
    BY <1>0, <1>2 DEF Coming
  <2> QED BY <1>0, <1>1, <2>1, KeptOne DEF KeptOf, NewsInv, OpenKept
<1>3. ASSUME NEW s \in timed_signals, NEW t, t.pid = s.pid, t.from = s.from,
             timed_signals' = (timed_signals \ {s}) \cup {t}
      PROVE  (\A p \in Pid : OneNews(p)') /\ OpenKept
  <2>1. \A p \in Pid : s \notin Coming(p) => Coming(p)' \subseteq Coming(p)
    BY <1>0, <1>3 DEF Coming
  <2>2. \A p \in Pid : s \notin Coming(p) => OneNews(p)' /\ (Open(p)' => Open(p))
    BY <1>0, <1>1, <2>1, KeptOne DEF KeptOf, NewsInv
  <2>3. ASSUME NEW p \in Pid, s \in Coming(p) PROVE OneNews(p)' /\ Open(p)
    <3>1. Coming(p) = {s} /\ ~Owed(p) /\ p \notin process_registry /\ Mail(p) = {}
      BY <2>3 DEF NewsInv, OneNews
    <3>2. Coming(p)' \subseteq (Coming(p) \ {s}) \cup {t}
      BY <1>0, <1>3 DEF Coming
    <3>3. Coming(p)' \subseteq {t} /\ ~Owed(p)' /\ p \notin process_registry' /\ Mail(p)' = {}
      BY <1>0, <1>1, <3>1, <3>2
    <3> QED BY <3>1, <3>3 DEF OneNews, Open
  <2> QED BY <2>2, <2>3 DEF OpenKept
<1>4. \A s \in timed_signals : [s EXCEPT !.queued = FALSE].pid = s.pid /\ [s EXCEPT !.queued = FALSE].from = s.from
  BY DEF TypeOK, Signal
<1> QED BY <1>2, <1>3, <1>4 DEF DrainCommand

(* The signal becomes a notice in the mailbox, or finds no room in it.     *)
LEMMA TrapNews ==
  ASSUME TypeOK, RegistryInv, NewsInv, [SupervisorNext]_allvars,
         NEW s \in timed_signals, s.pid = Supervisor, SignalTrapped(s)
  PROVE  (\A p \in Pid : OneNews(p)') /\ OpenKept
<1> PICK q : q = s.from
  OBVIOUS
<1>0. /\ UNCHANGED <<process_registry, status, timed_signals, target, todo>>
      /\ sig = NoSignal /\ sig' = s /\ NoSignal \notin timed_signals
      /\ at \in [Ctx -> Place] /\ at' = [at EXCEPT ![Daemon] = "finish"]
      /\ q \in Pid /\ status[q] \in {"running", "deleted"}
  BY SupervisorIsPid DEF SignalTrapped, SignalExpires, registries, timers, NewsInv, IdleHasNoSignal,
                         TypeOK, Signal, NoSignal, RegistryInv, SignalsHaveOrigin
<1>1. \A p \in Pid : Owed(p)' => Owed(p)
  BY <1>0, SupervisorIsPid DEF Owed
<1>2. \A p \in Pid : Coming(p)' \subseteq Coming(p) \ {s}
  BY <1>0 DEF Coming
<1>3. s \in Coming(q)
  BY <1>0 DEF Coming
<1>4. Coming(q) = {s} /\ ~Owed(q) /\ q \notin process_registry /\ Mail(q) = {}
  BY <1>0, <1>3 DEF NewsInv, OneNews
<1> DEFINE n == Len(mailbox[Supervisor]) + 1
<1>5. /\ \A p \in Pid \ {q} : Mail(p)' \subseteq Mail(p)
      /\ Mail(q)' \subseteq Mail(q) \cup {n}
  <2>1. Deliver(Supervisor, Notice(s))
    BY DEF SignalTrapped, Notice
  <2>2. CASE mailbox'[Supervisor] = mailbox[Supervisor]
    BY <2>2 DEF Mail
  <2>3. CASE mailbox'[Supervisor] = Append(mailbox[Supervisor], Notice(s))
    <3>1. mailbox[Supervisor] \in Seq(Message)
      BY SupervisorIsPid DEF TypeOK
    <3>2. /\ Len(mailbox[Supervisor]) \in Nat
          /\ Len(mailbox'[Supervisor]) = n
          /\ mailbox'[Supervisor][n] = Notice(s)
          /\ \A i \in 1..Len(mailbox[Supervisor]) : mailbox'[Supervisor][i] = mailbox[Supervisor][i]
      BY <2>3, <3>1
    <3>3. \A i \in 1..Len(mailbox'[Supervisor]) : i = n \/ i \in 1..Len(mailbox[Supervisor])
      BY <3>2
    <3>4. Notice(s).from = q
      BY DEF Notice
    <3> QED BY <3>2, <3>3, <3>4 DEF Mail
  <2> QED BY <2>1, <2>2, <2>3, DeliverEffect, SupervisorIsPid
<1>6. \A p \in Pid \ {q} : OneNews(p)' /\ (Open(p)' => Open(p))
  BY <1>0, <1>1, <1>2, <1>5, KeptOne DEF KeptOf, NewsInv
<1>7. OneNews(q)' /\ Open(q)
  <2>1. Coming(q)' = {} /\ ~Owed(q)' /\ q \notin process_registry' /\ Mail(q)' \subseteq {n}
    BY <1>0, <1>1, <1>2, <1>4, <1>5
  <2>2. status'[q] \in {"running", "deleted"}
    BY <1>0
  <2> HIDE DEF n
  <2>3. \A i, j \in Mail(q)' : i = j
    BY <2>1
  <2> QED BY <1>4, <2>1, <2>2, <2>3 DEF OneNews, Open
<1> QED BY <1>6, <1>7 DEF OpenKept

(* The supervisor takes a message: of whom it is a notice, there is no     *)
(* other news.                                                             *)
LEMMA TakeNews ==
  ASSUME TypeOK, RegistryInv, NewsInv, Receive(Supervisor)
  PROVE  /\ \A p \in Pid : OneNews(p)'
         /\ OpenKept
         /\ \A p \in Pid : Head(mailbox[Supervisor]).type = "kill" /\ Head(mailbox[Supervisor]).from = p
              => ~Open(p)'
<1> DEFINE mail == mailbox[Supervisor]
<1>0. /\ UNCHANGED <<process_registry, status, timed_signals, sig, at, target, todo>>
      /\ mail # <<>> /\ mail \in Seq(Message) /\ mail' = Tail(mail)
  BY SupervisorIsPid DEF Receive, registries, timers, contexts, TypeOK
<1>1. /\ Len(mail) \in Nat /\ Head(mail) = mail[1] /\ 1 \in 1..Len(mail)
      /\ \A i \in 1..Len(mail') : i + 1 \in 1..Len(mail) /\ mail'[i] = mail[i + 1]
  <2> HIDE DEF mail
  <2> QED BY <1>0
<1>2. \A p \in Pid : \A i \in Mail(p)' : i \in Nat /\ i + 1 \in Mail(p) /\ i + 1 # 1
  BY <1>1 DEF Mail
<1>3. \A p \in Pid : /\ Owed(p)' => Owed(p)
                     /\ Coming(p)' = Coming(p)
                     /\ Mail(p) = {} => Mail(p)' = {}
  BY <1>0, <1>2 DEF Owed, Coming
<1>4. ASSUME NEW p \in Pid PROVE OneNews(p)' /\ (Open(p)' => Open(p))
  <2>1. \A i, j \in Mail(p)' : i = j
    <3> TAKE i, j \in Mail(p)'
    <3>1. i \in Nat /\ j \in Nat /\ i + 1 \in Mail(p) /\ j + 1 \in Mail(p)
      BY <1>2
    <3>2. i + 1 = j + 1
      BY <3>1 DEF NewsInv, OneNews
    <3> QED BY <3>1, <3>2
  <2>2. Mail(p)' # {} => Mail(p) # {}
    BY <1>2
  <2>3. OneNews(p)
    BY DEF NewsInv
  <2> QED BY <1>0, <1>3, <2>1, <2>2, <2>3 DEF OneNews, Open
<1>5. ASSUME NEW p \in Pid, Head(mail).type = "kill", Head(mail).from = p PROVE ~Open(p)'
  <2>1. 1 \in Mail(p)
    BY <1>1, <1>5 DEF Mail
  <2>2. ~Owed(p) /\ p \notin process_registry /\ Coming(p) = {} /\ \A i \in Mail(p) : i = 1
    BY <2>1 DEF NewsInv, OneNews
  <2>3. Mail(p)' = {}
    BY <1>2, <2>2
  <2> QED BY <1>0, <1>3, <2>2, <2>3 DEF Open
<1> QED BY <1>4, <1>5 DEF OpenKept

(* A process is registered: there is no other news of it.                  *)
LEMMA EmplaceNews ==
  ASSUME TypeOK, RegistryInv, NewsInv, [SupervisorNext]_allvars, NEW c \in Pid, Emplace(c)
  PROVE  /\ \A p \in Pid : OneNews(p)' /\ (p # target[c] => (Open(p)' => Open(p)))
         /\ ~Open(target[c])
<1> PICK q : q = target[c]
  OBVIOUS
<1>0. /\ q \in Pid /\ status[q] = "constructed" /\ process_registry' = process_registry \cup {q}
      /\ UNCHANGED <<mailbox, timed_signals, sig, todo>>
      /\ at' = [at EXCEPT ![c] = "run"] /\ target' = [target EXCEPT ![c] = NoPid]
      /\ at \in [Ctx -> Place] /\ target \in [Ctx -> Pid \cup {NoPid}]
      /\ status' = [status EXCEPT ![q] = "running"]
      /\ status \in [Pid -> {"free", "constructed", "running", "deleted"}]
  BY DEF Emplace, RegistryInv, TargetsExist, processes, timers, TypeOK, Ctx
<1>1. \A p \in Pid : Owed(p)' => Owed(p)
  BY <1>0 DEF Owed, Ctx
<1>2. \A p \in Pid : Coming(p)' = Coming(p) /\ Mail(p)' = Mail(p)
  BY <1>0 DEF Coming, Mail
<1>3. \A p \in Pid \ {q} : OneNews(p)' /\ (Open(p)' => Open(p))
  BY <1>0, <1>1, <1>2, KeptOne DEF KeptOf, NewsInv
<1>4. q \notin process_registry /\ ~Owed(q) /\ Coming(q) = {} /\ Mail(q) = {}
  <2>1. q \notin process_registry
    BY <1>0 DEF RegistryInv, RegisteredRun
  <2>2. ~Owed(q)
    BY <1>0 DEF Owed, RegistryInv, TargetsExist
  <2>3. Coming(q) = {}
    BY <1>0 DEF Coming, RegistryInv, SignalsHaveOrigin
  <2>4. Mail(q) = {}
    BY <1>0 DEF NewsInv, OneNews
  <2> QED BY <2>1, <2>2, <2>3, <2>4
<1>5. OneNews(q)' /\ ~Open(q)
  <2>1. ~Owed(q)' /\ Coming(q)' = {} /\ Mail(q)' = {}
    BY <1>0, <1>1, <1>2, <1>4
  <2> QED BY <1>4, <2>1 DEF OneNews, Open
<1> QED BY <1>3, <1>5

-----------------------------------------------------------------------------
(* One process of each child *)

(* Of all processes a child ever had there is news of one, and none while  *)
(* the child is to be started.                                             *)
OneOpen ==
  /\ \A p, q \in Pid : children[p] = children[q] /\ children[p] # NoChild /\ Open(p) /\ Open(q) => p = q
  /\ \A p \in Pid : Open(p) => \A i \in 1..Len(starting) : starting[i] # children[p]
  /\ \A i, j \in 1..Len(starting) : starting[i] = starting[j] => i = j

LEMMA NewsNext ==
  ASSUME ChildrenInv, RegistryInv, NewsInv, [SupervisorNext]_allvars
  PROVE  /\ NewsInv'
         /\ (\A c \in Pid : ~Emplace(c)) => OpenKept
<1>0. TypeOK /\ [Next]_vars
  BY SupervisorStep DEF ChildrenInv, SupervisorTypeOK
<1>1. IdleHasNoSignal'
  BY <1>0, IdleStep DEF NewsInv
<1>2. CASE DrainCommand
  BY <1>0, <1>1, <1>2, DrainNews DEF NewsInv
<1>3. CASE HandleMessage
  BY <1>0, <1>1, <1>3, TakeNews DEF NewsInv, HandleMessage
<1>4. CASE \E c \in Pid : Emplace(c)
  BY <1>0, <1>1, <1>4, EmplaceNews DEF NewsInv
<1>5. CASE \E c \in Ctx : Erase(c)
  BY <1>0, <1>1, <1>5, EraseNews DEF NewsInv
<1>6. CASE \E c \in Ctx : SendExit(c, Supervisor)
  BY <1>0, <1>1, <1>6, SendExitNews DEF NewsInv
<1>7. CASE \E s \in timed_signals : s.pid = Supervisor /\ SignalTrapped(s)
  BY <1>0, <1>1, <1>7, TrapNews DEF NewsInv
<1> QED BY <1>0, <1>2, <1>3, <1>4, <1>5, <1>6, <1>7, QuietNext

LEMMA OpenInit ==
  ASSUME SupervisorInit
  PROVE  NewsInv /\ OneOpen
<1>1. /\ \A p \in Pid : Coming(p) = {} /\ Mail(p) = {} /\ ~Owed(p)
      /\ IdleHasNoSignal
  BY SupervisorIsPid DEF SupervisorInit, Init, Coming, Mail, Owed, IdleHasNoSignal
<1>2. starting = <<>> /\ \A p \in Pid : children[p] = NoChild
  BY DEF SupervisorInit
<1> QED BY <1>1, <1>2 DEF NewsInv, OneNews, OneOpen

(* Steps that leave the supervisor's children alone. *)
LEMMA OpenUnchanged ==
  ASSUME OneOpen, OpenKept, UNCHANGED supervisor
  PROVE  OneOpen'
BY DEF OneOpen, OpenKept, supervisor

(* A process nobody of the children's table knows is registered. *)
LEMMA OpenOther ==
  ASSUME OneOpen, ChildrenInv, UNCHANGED supervisor, NEW q \in Pid, children[q] = NoChild,
         \A p \in Pid \ {q} : Open(p)' => Open(p)
  PROVE  OneOpen'
<1>0. starting \in Seq(Child) /\ NoChild \notin Child
  BY SupervisorAssumption DEF ChildrenInv, SupervisorTypeOK, SupervisorAssumption
<1>1. \A i \in 1..Len(starting) : starting[i] # NoChild
  BY <1>0
<1>2. children' = children /\ starting' = starting
  BY DEF supervisor
<1>3. \A p \in Pid : Open(p)' => \A i \in 1..Len(starting) : starting[i] # children[p]
  BY <1>1 DEF OneOpen
<1>4. \A p, r \in Pid : children[p] = children[r] /\ children[p] # NoChild /\ Open(p)' /\ Open(r)' => p = r
  BY DEF OneOpen
<1> QED BY <1>2, <1>3, <1>4 DEF OneOpen

(* The child at the front of the list is registered. *)
LEMMA OpenStarted ==
  ASSUME OneOpen, ChildrenInv, RegistryInv, NewsInv, [SupervisorNext]_allvars, ChildStarted
  PROVE  OneOpen'
<1> PICK q : q = target[Supervisor]
  OBVIOUS
<1> PICK k : k = Head(starting)
  OBVIOUS
<1>0. TypeOK /\ Emplace(Supervisor) /\ at[Supervisor] = "spawning" /\ status[q] = "constructed" /\ q \in Pid
  BY SupervisorIsPid DEF ChildStarted, Emplace, ChildrenInv, SupervisorTypeOK, RegistryInv, TargetsExist
<1>1. /\ starting \in Seq(Child) /\ starting # <<>>
      /\ children \in [Pid -> Child \cup {NoChild}]
      /\ children' = [children EXCEPT ![q] = k] /\ starting' = Tail(starting)
  BY <1>0 DEF ChildrenInv, SupervisorTypeOK, ChildStarted
<1>2. \A p \in Pid \ {q} : Open(p)' => Open(p)
  BY <1>0, EmplaceNews, SupervisorIsPid
<1>3. /\ Len(starting) \in Nat /\ 1 \in 1..Len(starting) /\ k = starting[1] /\ k \in Child
      /\ \A i \in 1..Len(starting') : /\ i \in Nat /\ i + 1 \in 1..Len(starting)
                                      /\ i + 1 # 1 /\ starting'[i] = starting[i + 1]
  BY <1>1
<1>4. \A p \in Pid \ {q} : Open(p) => children[p] # k
  BY <1>3 DEF OneOpen
<1>5. \A i \in 1..Len(starting') : starting'[i] # k
  BY <1>3 DEF OneOpen
<1>6. \A p, r \in Pid : children'[p] = children'[r] /\ children'[p] # NoChild /\ Open(p)' /\ Open(r)' => p = r
  BY <1>1, <1>2, <1>4 DEF OneOpen
<1>7. \A p \in Pid : Open(p)' => \A i \in 1..Len(starting') : starting'[i] # children'[p]
  BY <1>1, <1>2, <1>3, <1>5 DEF OneOpen
<1>8. \A i, j \in 1..Len(starting') : starting'[i] = starting'[j] => i = j
  <2> TAKE i, j \in 1..Len(starting')
  <2> HAVE starting'[i] = starting'[j]
  <2>1. i \in Nat /\ j \in Nat /\ i + 1 = j + 1
    BY <1>3 DEF OneOpen
  <2> QED BY <2>1
<1> QED BY <1>6, <1>7, <1>8 DEF OneOpen

(* The child of a notice is to be started: its process is of the past. *)
LEMMA OpenNotice ==
  ASSUME OneOpen, ChildrenInv, RegistryInv, NewsInv, HandleMessage
  PROVE  OneOpen'
<1> PICK m : m = Head(mailbox[Supervisor])
  OBVIOUS
<1>0. TypeOK /\ Receive(Supervisor) /\ mailbox[Supervisor] \in Seq(Message) /\ mailbox[Supervisor] # <<>>
  BY SupervisorIsPid DEF HandleMessage, Receive, ChildrenInv, SupervisorTypeOK, TypeOK
<1>1. OpenKept /\ \A p \in Pid : m.type = "kill" /\ m.from = p => ~Open(p)'
  BY <1>0, TakeNews
<1>2. children' = children /\ starting' = IF IsNotice(m) THEN <<children[m.from]>> ELSE <<>>
  BY DEF HandleMessage
<1>3. CASE ~IsNotice(m)
  BY <1>1, <1>2, <1>3 DEF OneOpen, OpenKept
<1>4. CASE IsNotice(m)
  <2>1. m = mailbox[Supervisor][1] /\ 1 \in 1..Len(mailbox[Supervisor])
    BY <1>0
  <2>2. m.type = "kill" /\ m.from \in Pid /\ children[m.from] # NoChild
    BY <1>4, <2>1 DEF IsNotice, ChildrenInv, KillsHaveOrigin
  <2>3. Open(m.from) /\ ~Open(m.from)'
    BY <1>1, <2>1, <2>2 DEF Open, Mail
  <2>4. \A p \in Pid : Open(p)' => children[p] # children[m.from]
    BY <1>1, <2>2, <2>3 DEF OneOpen, OpenKept
  <2>5. Len(starting') = 1 /\ starting'[1] = children[m.from]
    BY <1>2, <1>4
  <2> QED BY <1>1, <1>2, <2>4, <2>5 DEF OneOpen, OpenKept
<1> QED BY <1>3, <1>4

LEMMA OpenNext ==
  ASSUME OneOpen, ChildrenInv, RegistryInv, NewsInv, [SupervisorNext]_allvars
  PROVE  OneOpen'
<1>0. TypeOK /\ ((\A c \in Pid : ~Emplace(c)) => OpenKept)
  BY NewsNext DEF ChildrenInv, SupervisorTypeOK
<1>1. CASE HandleInit
  <2>1. OpenKept
    BY <1>1 DEF HandleInit, ProcessFlag, registries, timers, contexts,
                OpenKept, Open, Owed, Coming, Mail
  <2>2. starting' = ChildSpecs /\ children' = children /\ \A p \in Pid : children[p] = NoChild
    BY <1>1 DEF HandleInit, ChildrenInv
  <2>3. \A i \in 1..Len(ChildSpecs) : ChildSpecs[i] # NoChild
    BY SupervisorAssumption DEF SupervisorAssumption
  <2> QED BY <2>2, <2>3, SupervisorAssumption DEF OneOpen, SupervisorAssumption
<1>2. CASE ChildStarted
  BY <1>2, OpenStarted
<1>3. CASE HandleMessage
  BY <1>3, OpenNotice
<1>4. CASE UNCHANGED supervisor /\ \A c \in Pid : ~Emplace(c)
  BY <1>0, <1>4, OpenUnchanged
<1>5. CASE UNCHANGED supervisor /\ \E c \in Pid : Emplace(c)
  <2>1. PICK c \in Pid : Emplace(c)
    BY <1>5
  <2> PICK q : q = target[c]
    OBVIOUS
  <2>2. q \in Pid /\ status[q] = "constructed"
    BY <2>1, SupervisorIsPid DEF Emplace, RegistryInv, TargetsExist, Ctx
  <2>3. children[q] = NoChild
    BY <2>2 DEF ChildrenInv
  <2>4. \A p \in Pid \ {q} : Open(p)' => Open(p)
    BY <1>0, <2>1, EmplaceNews
  <2> QED BY <1>5, <2>2, <2>3, <2>4, OpenOther
<1>6. CASE StartFailed
  <2>1. OpenKept
    BY <1>6 DEF StartFailed, vars, registries, processes, timers, contexts, OpenKept, Open, Owed, Coming, Mail
  <2>2. starting \in Seq(Child) /\ starting # <<>> /\ starting' = Tail(starting) /\ children' = children
    BY <1>6 DEF StartFailed, ChildrenInv, SupervisorTypeOK
  <2>3. /\ Len(starting) \in Nat
        /\ \A i \in 1..Len(starting') : /\ i \in Nat /\ i + 1 \in 1..Len(starting)
                                        /\ starting'[i] = starting[i + 1]
    BY <2>2
  <2>4. \A i, j \in 1..Len(starting') : starting'[i] = starting'[j] => i = j
    <3> TAKE i, j \in 1..Len(starting')
    <3> HAVE starting'[i] = starting'[j]
    <3>1. i \in Nat /\ j \in Nat /\ i + 1 = j + 1
      BY <2>3 DEF OneOpen
    <3> QED BY <3>1
  <2> QED BY <2>1, <2>2, <2>3, <2>4 DEF OneOpen, OpenKept
<1> QED BY <1>1, <1>2, <1>3, <1>4, <1>5, <1>6
        DEF SupervisorNext, SupervisorBehaviour, StartChild, allvars

(* supervisor_actor_behaviour.cpp:135-144: though the pids of the dead stay *)
(* in children, a child id never has two processes, for any number of      *)
(* children and however their deaths, the timer queue and the mailbox go.  *)
THEOREM OneProcessPerChild == SupervisorSafeSpec => []OneOfEach
<1> DEFINE Inv == ChildrenInv /\ RegistryInv /\ NewsInv /\ OneOpen
<1>1. SupervisorInit => Inv
  BY SupervisorInductive, OpenInit
<1>2. Inv /\ [SupervisorNext]_allvars => Inv'
  BY SupervisorInductive, NewsNext, OpenNext
<1>3. Inv => OneOfEach
  <2> SUFFICES ASSUME Inv, NEW k \in Child, NEW p \in Live(k), NEW q \in Live(k) PROVE p = q
    BY DEF OneOfEach
  <2>1. /\ p \in Pid /\ q \in Pid /\ children[p] = k /\ children[q] = k
        /\ Open(p) /\ Open(q) /\ k # NoChild
    BY SupervisorAssumption DEF Live, Incarnations, Open, SupervisorAssumption
  <2> QED BY <2>1 DEF OneOpen
<1> HIDE DEF Inv
<1> QED BY <1>1, <1>2, <1>3, PTL DEF SupervisorSafeSpec

-----------------------------------------------------------------------------
(* Who hears of a child *)

(* A supervisor that is registered traps exits once it has children, is    *)
(* linked to each of them from before they are registered, and sends no    *)
(* exit signals, which would undo a link.                                  *)
SupervisorLinked ==
  Supervisor \in process_registry =>
    /\ initialised => trap_exit[Supervisor]
    /\ \A s \in timed_signals : s.from # Supervisor
    /\ \A p \in process_registry : children[p] # NoChild => Supervisor \in links[p]
    /\ at[Supervisor] = "spawning" => Supervisor \in links[target[Supervisor]]

LinkedInv == SigTaken /\ status[Supervisor] \in {"running", "deleted"} /\ SupervisorLinked

(* New signals come from the dying, or from a child that calls exit.       *)
LEMMA OriginStep ==
  ASSUME TypeOK, RegistryInv, [SupervisorNext]_allvars, Supervisor \in process_registry,
         \A s \in timed_signals : s.from # Supervisor
  PROVE  \A s \in timed_signals' : s.from # Supervisor
<1>1. CASE timed_signals' \subseteq timed_signals
  BY <1>1
<1>2. ASSUME NEW q, NEW from, NEW reason, from # Supervisor, StartSignal(q, from, reason)
      PROVE  \A s \in timed_signals' : s.from # Supervisor
  BY <1>2 DEF StartSignal
<1>3. ASSUME NEW c \in Ctx, Terminate(c)
      PROVE  \A s \in timed_signals' : s.from # Supervisor
  <2>1. CASE \E q \in Pid : SendExit(c, q)
    <3>1. target[c] # Supervisor
      BY <2>1 DEF SendExit, RegistryInv, TargetsExist
    <3> QED BY <1>2, <2>1, <3>1 DEF SendExit
  <2> QED BY <1>1, <1>3, <2>1 DEF Terminate, CancelMessages, CancelSignals, CancelTimers, DropNames, Erase,
                                  EraseNothing, DeleteTask, timers
<1>4. ASSUME NEW c \in Pid \ {Supervisor}, ChildCalls(c)
      PROVE  \A s \in timed_signals' : s.from # Supervisor
  BY <1>1, <1>2, <1>4 DEF ChildCalls, Send, Fail, Exit, timers
<1>5. CASE DrainCommand
  <2>1. \A s \in timed_signals : [s EXCEPT !.queued = FALSE].from = s.from
    BY DEF TypeOK, Signal
  <2> QED BY <1>5, <2>1 DEF DrainCommand
<1>6. SupervisorBehaviour \/ UNCHANGED allvars \/ (\E c \in Pid : Emplace(c)) => timed_signals' = timed_signals
  BY DEF SupervisorBehaviour, HandleInit, ProcessFlag, StartChild, Construct, ChildStarted, Emplace,
         StartFailed, HandleMessage, Receive, allvars, vars, timers
<1>7. (\E m \in timed_messages : MessageTimer(m)) \/ (\E s \in timed_signals : SignalTimer(s)) \/ FinishSignal
        => timed_signals' \subseteq timed_signals
  BY DEF MessageTimer, SignalTimer, SignalUnknown, SignalTrapped, SignalNormal, SignalKills, SignalExpires,
         FinishSignal, CancelTimers, timers
<1> QED BY <1>1, <1>3, <1>4, <1>5, <1>6, <1>7, SupervisorIsPid
        DEF SupervisorNext, NodeStep, DaemonStep, TaskStep, Ctx

(* Links are undone by exit signals, and forgotten with the process.       *)
LEMMA LinksStep ==
  ASSUME TypeOK, RegistryInv, [SupervisorNext]_allvars
  PROVE  \/ \A p \in Pid : links[p] \subseteq links'[p]
         \/ \E s \in timed_signals : SignalTimer(s) /\ links' = UnlinkBoth(s.pid, s.from)
         \/ \E c \in Ctx : DeleteTask(c)
<1>0. links \in [Pid -> SUBSET Pid]
  BY DEF TypeOK
<1>1. CASE links' = links
  BY <1>1
<1>2. ASSUME NEW p \in Pid, Construct(Supervisor, p, Supervisor)
      PROVE  \A q \in Pid : links[q] \subseteq links'[q]
  BY <1>0, <1>2, SupervisorIsPid DEF Construct, LinkBoth
<1>3. ASSUME NEW c \in Ctx, Terminate(c) PROVE DeleteTask(c) \/ links' = links
  BY <1>3 DEF Terminate, CancelMessages, CancelSignals, DropNames, Erase, EraseNothing, SendExit, processes
<1>4. ASSUME NEW c \in Pid, ChildCalls(c) PROVE links' = links
  BY <1>4 DEF ChildCalls, Send, Fail, Exit, processes
<1>5. DrainCommand \/ FinishSignal \/ (\E m \in timed_messages : MessageTimer(m)) => links' = links
  BY DEF DrainCommand, FinishSignal, MessageTimer, processes
<1>6. ASSUME NEW s \in timed_signals, SignalTimer(s)
      PROVE  links' = links \/ links' = UnlinkBoth(s.pid, s.from)
  BY <1>6 DEF SignalTimer, SignalUnknown, SignalTrapped, SignalNormal, SignalKills
<1>7. HandleInit \/ ChildStarted \/ StartFailed \/ HandleMessage \/ UNCHANGED allvars \/ (\E c \in Pid : Emplace(c))
        => links' = links
  BY DEF HandleInit, ProcessFlag, ChildStarted, Emplace, StartFailed, HandleMessage, Receive,
         allvars, vars, processes
<1>8. StartChild => \A q \in Pid : links[q] \subseteq links'[q]
  <2>1. StartChild => \E p \in Pid : Construct(Supervisor, p, Supervisor)
    BY DEF StartChild
  <2> QED BY <1>2, <2>1
<1> QED BY <1>1, <1>3, <1>4, <1>5, <1>6, <1>7, <1>8, SupervisorIsPid
        DEF SupervisorNext, SupervisorBehaviour, NodeStep, DaemonStep, TaskStep, Ctx

(* Only the supervisor sets its flag, and it does when it is initialised.  *)
LEMMA TrapStep ==
  ASSUME TypeOK, RegistryInv, [SupervisorNext]_allvars, Supervisor \in process_registry,
         initialised => trap_exit[Supervisor], initialised \in BOOLEAN
  PROVE  initialised' => trap_exit'[Supervisor]
<1>0. trap_exit \in [Pid -> BOOLEAN]
  BY DEF TypeOK
<1>1. CASE HandleInit
  BY <1>0, <1>1, SupervisorIsPid DEF HandleInit, ProcessFlag
<1>2. ASSUME NEW c \in Ctx, Terminate(c) PROVE trap_exit'[Supervisor] = trap_exit[Supervisor]
  <2>1. CASE DeleteTask(c)
    <3>1. target[c] # Supervisor
      BY <2>1 DEF DeleteTask, RegistryInv, TargetsExist
    <3>2. trap_exit' = [trap_exit EXCEPT ![target[c]] = FALSE]
      BY <2>1 DEF DeleteTask
    <3> QED BY <1>0, <3>1, <3>2, SupervisorIsPid
  <2> QED BY <1>2, <2>1 DEF Terminate, CancelMessages, CancelSignals, DropNames, Erase, EraseNothing,
                            SendExit, processes
<1>3. ASSUME NEW c \in Pid, ChildCalls(c) PROVE trap_exit' = trap_exit
  BY <1>3 DEF ChildCalls, Send, Fail, Exit, processes
<1>4. (\E c \in Pid : Emplace(c)) => trap_exit' = trap_exit
  BY DEF Emplace, processes
<1>5. DaemonStep /\ ~Terminate(Daemon) => trap_exit' = trap_exit
  BY DEF DaemonStep, DrainCommand, MessageTimer, SignalTimer, SignalUnknown, SignalTrapped,
         SignalNormal, SignalKills, SignalExpires, FinishSignal, processes
<1>6. StartChild \/ ChildStarted \/ StartFailed \/ HandleMessage \/ UNCHANGED allvars
        => UNCHANGED <<trap_exit, initialised>>
  BY DEF StartChild, Construct, ChildStarted, Emplace, StartFailed, HandleMessage, Receive,
         allvars, vars, processes, supervisor
<1>7. CASE UNCHANGED supervisor /\ (NodeStep \/ \E c \in Pid \ {Supervisor} : ChildCalls(c))
  <2>1. initialised' = initialised
    BY <1>7 DEF supervisor
  <2> QED BY <1>2, <1>3, <1>4, <1>5, <1>7, <2>1, SupervisorIsPid DEF NodeStep, TaskStep, Ctx
<1> QED BY <1>1, <1>6, <1>7 DEF SupervisorNext, SupervisorBehaviour

(* The supervisor is never registered again.                               *)
LEMMA SupervisorLeaves ==
  ASSUME TypeOK, RegistryInv, [SupervisorNext]_allvars, status[Supervisor] \in {"running", "deleted"},
         Supervisor \in process_registry'
  PROVE  Supervisor \in process_registry
<1>1. CASE \E c \in Pid : Emplace(c)
  <2>1. PICK c \in Pid : Emplace(c)
    BY <1>1
  <2>2. status[target[c]] = "constructed"
    BY <2>1 DEF Emplace, RegistryInv, TargetsExist, Ctx
  <2> QED BY <2>1, <2>2 DEF Emplace
<1>2. CASE \A c \in Pid : ~Emplace(c)
  BY <1>2, RegistryNext, SupervisorStep
<1> QED BY <1>1, <1>2

(* The registry grows by the children the supervisor spawned only.         *)
LEMMA LinkedNext ==
  ASSUME ChildrenInv, RegistryInv, NewsInv, LinkedInv, [SupervisorNext]_allvars
  PROVE  LinkedInv'
<1>0. /\ TypeOK /\ TypeOK' /\ RegistryInv' /\ [Next]_vars
      /\ links \in [Pid -> SUBSET Pid] /\ initialised \in BOOLEAN
      /\ process_registry \subseteq Pid /\ at \in [Ctx -> Place] /\ target \in [Ctx -> Pid \cup {NoPid}]
      /\ children \in [Pid -> Child \cup {NoChild}]
  BY SupervisorStep, SupervisorNode DEF ChildrenInv, SupervisorTypeOK, TypeOK
<1>1. SigTaken'
  BY <1>0, SigTakenStep DEF LinkedInv
<1>2. status'[Supervisor] \in {"running", "deleted"}
  BY <1>0, StatusGrows, SupervisorIsPid DEF LinkedInv
<1>3. SUFFICES ASSUME Supervisor \in process_registry'
               PROVE  SupervisorLinked'
  BY <1>1, <1>2 DEF LinkedInv, SupervisorLinked
<1>4. Supervisor \in process_registry
  BY <1>0, <1>3, SupervisorLeaves DEF LinkedInv
<1>5. /\ initialised => trap_exit[Supervisor]
      /\ \A s \in timed_signals : s.from # Supervisor
      /\ \A p \in process_registry : children[p] # NoChild => Supervisor \in links[p]
      /\ at[Supervisor] = "spawning" => Supervisor \in links[target[Supervisor]]
  BY <1>4 DEF LinkedInv, SupervisorLinked
<1>6. /\ initialised' => trap_exit'[Supervisor]
      /\ \A s \in timed_signals' : s.from # Supervisor
  BY <1>0, <1>4, <1>5, TrapStep, OriginStep
(* No child that is registered or under construction loses its link. *)
<1> DEFINE Holds(p) == p \in process_registry' \/ (at[Supervisor] = "spawning" /\ p = target[Supervisor])
<1>7. \A p \in Pid : Holds(p) /\ Supervisor \in links[p] => Supervisor \in links'[p]
  <2>1. CASE \A p \in Pid : links[p] \subseteq links'[p]
    BY <2>1
  <2>2. ASSUME NEW s \in timed_signals, SignalTimer(s), links' = UnlinkBoth(s.pid, s.from)
        PROVE  \A p \in Pid : Supervisor \in links[p] => Supervisor \in links'[p]
    <3>1. s.from # Supervisor /\ s.pid \in Pid /\ s.from \in Pid
      BY <1>0, <1>5 DEF TypeOK, Signal
    <3>2. s.pid = Supervisor => s.from \notin process_registry
      <4>1. at[Daemon] = "idle"
        BY <2>2 DEF SignalTimer, SignalUnknown, SignalTrapped, SignalNormal, SignalKills, SignalExpires
      <4>2. sig = NoSignal /\ s # NoSignal
        BY <1>0, <4>1, SupervisorIsPid DEF NewsInv, IdleHasNoSignal, TypeOK, Signal, NoSignal
      <4>3. s.pid = Supervisor => s \in Coming(s.from)
        BY <4>2 DEF Coming
      <4> QED BY <3>1, <4>3 DEF NewsInv, OneNews
    <3> QED BY <1>0, <2>2, <3>1, <3>2 DEF UnlinkBoth
  <2>3. ASSUME NEW c \in Ctx, DeleteTask(c)
        PROVE  \A p \in Pid : Holds(p) /\ Supervisor \in links[p] => Supervisor \in links'[p]
    <3>1. target[c] \notin process_registry /\ status[target[c]] = "running"
          /\ links' = [links EXCEPT ![target[c]] = {}] /\ process_registry' = process_registry
      BY <2>3 DEF DeleteTask, RegistryInv, TargetsExist
    <3>2. at[Supervisor] = "spawning" => status[target[Supervisor]] = "constructed"
      BY SupervisorIsPid DEF RegistryInv, TargetsExist
    <3>3. \A p \in Pid : Holds(p) => p # target[c]
      BY <3>1, <3>2
    <3> QED BY <1>0, <3>1, <3>3
  <2> QED BY <1>0, <2>1, <2>2, <2>3, LinksStep
<1>8. \A p \in process_registry' : children'[p] # NoChild => Supervisor \in links'[p]
  <2>1. CASE ChildStarted
    <3>1. /\ at[Supervisor] = "spawning" /\ target[Supervisor] \in Pid
          /\ process_registry' = process_registry \cup {target[Supervisor]}
          /\ children' = [children EXCEPT ![target[Supervisor]] = Head(starting)]
          /\ links' = links
      BY <1>0, <2>1, SupervisorIsPid DEF ChildStarted, Emplace, processes, RegistryInv, TargetsExist
    <3> QED BY <1>0, <1>5, <3>1
  <2>2. CASE children' = children
    <3>1. \A p \in process_registry' : children[p] # NoChild => p \in process_registry
      <4>1. CASE \E c \in Pid : Emplace(c)
        <5>1. PICK c \in Pid : Emplace(c)
          BY <4>1
        <5>2. process_registry' = process_registry \cup {target[c]} /\ status[target[c]] = "constructed"
              /\ target[c] \in Pid
          BY <5>1 DEF Emplace, RegistryInv, TargetsExist, Ctx
        <5>3. children[target[c]] = NoChild
          BY <5>2 DEF ChildrenInv
        <5> QED BY <5>2, <5>3
      <4>2. CASE \A c \in Pid : ~Emplace(c)
        BY <1>0, <4>2, RegistryNext
      <4> QED BY <4>1, <4>2
    <3> QED BY <1>0, <1>5, <1>7, <2>2, <3>1
  <2>3. ChildStarted \/ children' = children
    BY DEF SupervisorNext, SupervisorBehaviour, HandleInit, StartChild, StartFailed, HandleMessage,
           supervisor, allvars
  <2> QED BY <2>1, <2>2, <2>3
<1>9. at'[Supervisor] = "spawning" => Supervisor \in links'[target'[Supervisor]]
  <2>1. CASE StartChild
    <3>1. PICK p \in Pid : Construct(Supervisor, p, Supervisor)
      BY <2>1 DEF StartChild
    <3>2. target'[Supervisor] = p /\ links' = LinkBoth(p, Supervisor)
      BY <1>0, <3>1, SupervisorIsPid DEF Construct
    <3> QED BY <1>0, <1>4, <3>2, SupervisorIsPid DEF LinkBoth
  <2>2. CASE HandleInit \/ ChildStarted \/ StartFailed \/ HandleMessage
    <3>1. at'[Supervisor] = "run"
      BY <1>0, <2>2, SupervisorIsPid DEF HandleInit, ProcessFlag, ChildStarted, Emplace, StartFailed,
            HandleMessage, Receive, Waits, Running, vars, contexts
    <3> QED BY <3>1
  <2>3. CASE NodeStep \/ \E c \in Pid \ {Supervisor} : ChildCalls(c)
    <3>1. at'[Supervisor] = "spawning" => at[Supervisor] = "spawning"
      BY <1>0, <2>3, OthersDoNotSpawn
    <3>2. at'[Supervisor] = "spawning" => target'[Supervisor] = target[Supervisor]
      <4>1. ASSUME NEW c \in Ctx, Terminate(c), at'[Supervisor] = "spawning"
            PROVE  target'[Supervisor] = target[Supervisor]
        BY <1>0, <4>1, <3>1, <2>3, SupervisorIsPid DEF Terminate, CancelMessages, CancelSignals, DropNames,
              Erase, EraseNothing, SendExit, DeleteTask
      <4>2. ASSUME NEW c \in Pid \ {Supervisor}, Emplace(c) \/ ChildCalls(c)
            PROVE  target'[Supervisor] = target[Supervisor]
        BY <1>0, <4>2, SupervisorIsPid DEF Emplace, ChildCalls, Send, Fail, Exit, contexts, Ctx
      <4>3. DaemonStep /\ ~Terminate(Daemon) => target'[Supervisor] = target[Supervisor]
        BY <1>0, SupervisorIsPid DEF DaemonStep, DrainCommand, MessageTimer, SignalTimer, SignalUnknown,
              SignalTrapped, SignalNormal, SignalKills, SignalExpires, FinishSignal, contexts
      <4> QED BY <2>3, <4>1, <4>2, <4>3, SupervisorIsPid DEF NodeStep, TaskStep, Ctx
    <3>3. at[Supervisor] = "spawning" => target[Supervisor] \in Pid
      BY SupervisorIsPid DEF RegistryInv, TargetsExist
    <3> QED BY <1>5, <1>7, <3>1, <3>2, <3>3
  <2>4. CASE UNCHANGED allvars
    BY <1>5, <2>4 DEF allvars, vars, processes, contexts
  <2> QED BY <2>1, <2>2, <2>3, <2>4 DEF SupervisorNext, SupervisorBehaviour
<1> QED BY <1>6, <1>8, <1>9 DEF SupervisorLinked

(* What a dying process owes the supervisor stays owed until it is sent. *)
LEMMA OwedStays ==
  ASSUME TypeOK, RegistryInv, OwnTarget, [Next]_vars, \A c \in Ctx : ~SendExit(c, Supervisor),
         NEW p \in Pid, Owed(p)
  PROVE  Owed(p)'
<1>1. PICK d \in Ctx : at[d] = "exits" /\ target[d] = p /\ Supervisor \in todo[d]
  BY DEF Owed
<1>2. at'[d] = "exits" /\ target'[d] = p /\ Supervisor \in todo'[d]
  BY <1>1, TodoStays, SupervisorIsPid
<1> QED BY <1>2 DEF Owed

(* A signal on its way is lost to the supervisor by being taken up, or by  *)
(* the termination of the supervisor.                                      *)
LEMMA ComingStays ==
  ASSUME TypeOK, IdleHasNoSignal, [Next]_vars, ~SupervisorEnds,
         NEW p \in Pid, NEW s \in Coming(p), ~SignalTimer(s)
  PROVE  Coming(p)' # {}
<1>1. s \in timed_signals \ {sig} /\ s.pid = Supervisor /\ s.from = p
  BY DEF Coming
<1>2. \A c \in Ctx : CancelSignals(c) => target[c] # Supervisor
  BY DEF CancelSignals, SupervisorEnds, Terminating
<1>3. SignalWaits(Supervisor, p)'
  BY <1>1, <1>2, SignalStays
<1> QED BY <1>3 DEF SignalWaits, Coming

(* The pids of a child stay in the table. *)
LEMMA IncarnationStays ==
  ASSUME ChildrenInv, RegistryInv, [SupervisorNext]_allvars, NEW p \in Pid, children[p] # NoChild
  PROVE  children'[p] = children[p]
<1>1. CASE ChildStarted
  <2>1. status[target[Supervisor]] = "constructed" /\ status[p] # "constructed"
    BY <1>1, SupervisorIsPid DEF ChildStarted, Emplace, RegistryInv, TargetsExist, ChildrenInv
  <2>2. children \in [Pid -> Child \cup {NoChild}]
        /\ children' = [children EXCEPT ![target[Supervisor]] = Head(starting)]
    BY <1>1 DEF ChildStarted, ChildrenInv, SupervisorTypeOK
  <2> QED BY <2>1, <2>2
<1>2. ChildStarted \/ children' = children
  BY DEF SupervisorNext, SupervisorBehaviour, HandleInit, StartChild, StartFailed, HandleMessage,
         supervisor, allvars
<1> QED BY <1>1, <1>2

(* A notice leaves the mailbox when it is handled. *)
LEMMA NoticeStays ==
  ASSUME TypeOK, RegistryInv, [SupervisorNext]_allvars, ~SupervisorEnds,
         NEW i \in 1..Len(mailbox[Supervisor])
  PROVE  \/ \E j \in 1..Len(mailbox'[Supervisor]) : mailbox'[Supervisor][j] = mailbox[Supervisor][i]
         \/ HandleMessage /\ Head(mailbox[Supervisor]) = mailbox[Supervisor][i]
<1> DEFINE mail == mailbox[Supervisor]
<1>1. mail \in Seq(Message) /\ i \in 1..Len(mail)
  BY SupervisorIsPid DEF TypeOK
<1>2. CASE mail' = mail
  BY <1>2
<1>3. ASSUME NEW m, mail' = Append(mail, m)
      PROVE  \E j \in 1..Len(mail') : mail'[j] = mail[i]
  <2> HIDE DEF mail
  <2>1. i \in 1..Len(mail') /\ mail'[i] = mail[i]
    BY <1>1, <1>3
  <2> QED BY <2>1
<1>4. CASE HandleMessage
  <2>1. mail # <<>> /\ mail' = Tail(mail)
    BY <1>4, SupervisorIsPid DEF HandleMessage, Receive, TypeOK
  <2>2. CASE i = 1
    BY <1>1, <1>4, <2>1, <2>2
  <2>3. CASE i # 1
    <3> HIDE DEF mail
    <3>1. i - 1 \in 1..Len(mail') /\ mail'[i - 1] = mail[i]
      BY <1>1, <2>1, <2>3
    <3> QED BY <3>1 DEF mail
  <2> QED BY <2>2, <2>3
<1>5. Supervisor \in process_registry
  BY DEF SupervisorEnds
<1> QED BY <1>2, <1>3, <1>4, <1>5, MailStep

(* The signal of a child's death becomes a notice. *)
LEMMA SignalNoticed ==
  ASSUME ChildrenInv, RegistryInv, LinkedInv, NewsInv, [SupervisorNext]_allvars, ~SupervisorEnds, ~SupervisorEnds',
         NEW p \in Pid, children[p] # NoChild, NEW s \in Coming(p), SignalTimer(s),
         ~(Len(mailbox[Supervisor]) >= MailboxCap \/ s.reason = "none")
  PROVE  \E i \in 1..Len(mailbox'[Supervisor]) :
           LET m == mailbox'[Supervisor][i] IN m.from = p /\ m.type = "kill" /\ m.reason # "none"
<1>0. /\ Supervisor \in process_registry /\ initialised
      /\ s \in timed_signals /\ s.pid = Supervisor /\ s.from = p
      /\ mailbox[Supervisor] \in Seq(Message) /\ mailbox \in [Pid -> Seq(Message)]
      /\ at \in [Ctx -> Place] /\ target \in [Ctx -> Pid \cup {NoPid}]
  BY SupervisorIsPid DEF SupervisorEnds, Coming, ChildrenInv, SupervisorTypeOK, TypeOK
<1>1. trap_exit[Supervisor]
  BY <1>0 DEF LinkedInv, SupervisorLinked
<1>2. ~SignalKills(s)
  <2> SUFFICES ASSUME SignalKills(s) PROVE FALSE
    OBVIOUS
  <2>1. at'[Daemon] = "messages" /\ target'[Daemon] = Supervisor
    BY <1>0, SupervisorIsPid DEF SignalKills, SignalExpires
  <2> QED BY <2>1, SupervisorIsPid DEF SupervisorEnds, Terminating
<1>3. SignalTrapped(s)
  BY <1>0, <1>1, <1>2 DEF SignalTimer, SignalUnknown, SignalNormal, SignalKills, Traps
<1>4. Len(mailbox[Supervisor]) \in Nat /\ MailboxCap \in Nat
  BY <1>0, NodeAssumption DEF NodeAssumption
<1>5. mailbox'[Supervisor] = Append(mailbox[Supervisor], Notice(s))
  BY <1>0, <1>3, <1>4, SupervisorIsPid DEF SignalTrapped, Deliver, Notice
<1> DEFINE mail == mailbox[Supervisor]
<1>6. Len(mail) + 1 \in 1..Len(mail') /\ mail'[Len(mail) + 1] = Notice(s)
  <2>1. mail \in Seq(Message) /\ mail' = Append(mail, Notice(s))
    BY <1>0, <1>5
  <2> HIDE DEF mail
  <2> QED BY <2>1
<1>7. Notice(s).from = p /\ Notice(s).type = "kill" /\ Notice(s).reason # "none"
  BY <1>0 DEF Notice
<1> HIDE DEF mail
<1>8. \E i \in 1..Len(mail') : mail'[i] = Notice(s)
  BY <1>6
<1> QED BY <1>7, <1>8 DEF mail

(* Whom a step that gives the child up does not concern, stays a child     *)
(* whose death is noticed, or is to be started.                            *)
LEMMA NoticedStep ==
  ASSUME ChildrenInv, RegistryInv, NewsInv, LinkedInv, OwnTarget, [SupervisorNext]_allvars,
         NEW k \in Child, DeathNoticed(k), ~GivenUp(k)
  PROVE  Kept(k)'
<1>0. /\ TypeOK /\ [Next]_vars /\ IdleHasNoSignal
      /\ ~SupervisorEnds /\ ~SupervisorEnds' /\ Supervisor \in process_registry
      /\ k # NoChild
  BY SupervisorStep, SupervisorAssumption
     DEF ChildrenInv, SupervisorTypeOK, NewsInv, GivenUp, SupervisorEnds, SupervisorAssumption
<1>1. PICK p \in Pid :
        /\ children[p] = k
        /\ \/ p \in process_registry
           \/ Owed(p)
           \/ Coming(p) # {}
           \/ \E i \in 1..Len(mailbox[Supervisor]) :
                LET m == mailbox[Supervisor][i] IN m.from = p /\ IsNotice(m)
  BY DEF DeathNoticed, Incarnations, Owed, Coming
<1>2. children'[p] = k
  BY <1>0, <1>1, IncarnationStays
<1>3. SUFFICES \/ p \in process_registry'
               \/ Owed(p)'
               \/ Coming(p)' # {}
               \/ \E i \in 1..Len(mailbox'[Supervisor]) :
                    LET m == mailbox'[Supervisor][i] IN m.from = p /\ m.type = "kill" /\ m.reason # "none"
               \/ Starts(k)'
  BY <1>0, <1>2 DEF Kept, DeathNoticed, Incarnations, Owed, Coming, IsNotice
<1>4. CASE p \in process_registry /\ p \notin process_registry'
  <2>1. PICK c \in Ctx : Erase(c) /\ target[c] = p
    BY <1>0, <1>4, WhoErases
  <2>2. Supervisor \in links[p]
    BY <1>0, <1>1, <1>4 DEF LinkedInv, SupervisorLinked
  <2>3. at'[c] = "exits" /\ target'[c] = p /\ todo'[c] = links[p]
    BY <1>0, <2>1 DEF Erase, TypeOK
  <2> QED BY <2>2, <2>3 DEF Owed
<1>5. CASE Owed(p)
  <2>1. CASE \E c \in Ctx : SendExit(c, Supervisor)
    <3>1. PICK c \in Ctx : SendExit(c, Supervisor)
      BY <2>1
    <3>2. todo'[c] # todo[c]
      BY <1>0, <3>1 DEF SendExit, TypeOK
    <3>3. HasRoom
      BY <3>2 DEF GivenUp
    <3>4. sig' = sig /\ [pid |-> Supervisor, from |-> target[c], reason |-> exit_reason[target[c]], queued |-> TRUE]
                          \in timed_signals'
      BY <3>1, <3>3 DEF SendExit, StartSignal, StartFails
    <3>5. PICK d \in Ctx : at[d] = "exits" /\ target[d] = p /\ Supervisor \in todo[d]
      BY <1>5 DEF Owed
    <3>6. CASE target[c] = p
      <4>1. sig # [pid |-> Supervisor, from |-> p, reason |-> exit_reason[p], queued |-> TRUE]
        BY SupervisorIsPid DEF LinkedInv, SigTaken, NoSignal
      <4> QED BY <3>4, <3>6, <4>1 DEF Coming
    <3>7. CASE target[c] # p
      <4>1. at'[d] = "exits" /\ target'[d] = p /\ Supervisor \in todo'[d]
        BY <1>0, <3>1, <3>5, <3>7 DEF SendExit, TypeOK
      <4> QED BY <4>1 DEF Owed
    <3> QED BY <3>6, <3>7
  <2>2. CASE \A c \in Ctx : ~SendExit(c, Supervisor)
    BY <1>0, <1>5, <2>2, OwedStays
  <2> QED BY <2>1, <2>2
<1>6. ASSUME NEW s \in Coming(p)
      PROVE  \/ Coming(p)' # {}
             \/ \E i \in 1..Len(mailbox'[Supervisor]) :
                  LET m == mailbox'[Supervisor][i] IN m.from = p /\ m.type = "kill" /\ m.reason # "none"
  <2>1. CASE ~SignalTimer(s)
    BY <1>0, <2>1, ComingStays
  <2>2. CASE SignalTimer(s)
    <3>1. sig' = s /\ s # sig /\ s.pid = Supervisor
      BY <2>2 DEF SignalTimer, SignalUnknown, SignalTrapped, SignalNormal, SignalKills, SignalExpires, Coming
    <3>2. ~(Len(mailbox[Supervisor]) >= MailboxCap \/ s.reason = "none")
      BY <3>1 DEF GivenUp
    <3> QED BY <1>0, <1>1, <2>2, <3>2, SignalNoticed
  <2> QED BY <2>1, <2>2
<1>7. ASSUME NEW i \in 1..Len(mailbox[Supervisor]),
             mailbox[Supervisor][i].from = p, IsNotice(mailbox[Supervisor][i])
      PROVE  \/ \E j \in 1..Len(mailbox'[Supervisor]) :
                  LET m == mailbox'[Supervisor][j] IN m.from = p /\ m.type = "kill" /\ m.reason # "none"
             \/ Starts(k)'
  <2>1. CASE \E j \in 1..Len(mailbox'[Supervisor]) : mailbox'[Supervisor][j] = mailbox[Supervisor][i]
    BY <1>7, <2>1 DEF IsNotice
  <2>2. CASE HandleMessage /\ Head(mailbox[Supervisor]) = mailbox[Supervisor][i]
    <3>1. starting' = <<k>>
      BY <1>1, <1>7, <2>2 DEF HandleMessage
    <3> QED BY <3>1 DEF Starts
  <2> QED BY <1>0, <2>1, <2>2, NoticeStays
<1> QED BY <1>1, <1>4, <1>5, <1>6, <1>7

LEMMA StartsStep ==
  ASSUME ChildrenInv, [SupervisorNext]_allvars, NEW k \in Child, Starts(k), ~GivenUp(k)
  PROVE  Starts(k)'
<1>0. starting \in Seq(Child) /\ starting # <<>>
  BY DEF Starts, ChildrenInv, SupervisorTypeOK
<1>1. CASE starting' = Tail(starting)
  <2>1. PICK i \in 1..Len(starting) : starting[i] = k
    BY DEF Starts
  <2>2. i # 1
    BY <1>0, <2>1 DEF GivenUp
  <2>3. i - 1 \in 1..Len(starting') /\ starting'[i - 1] = k
    BY <1>0, <1>1, <2>1, <2>2
  <2> QED BY <2>3 DEF Starts
<1>2. CASE starting' = starting
  BY <1>2 DEF Starts
<1>3. starting' = starting \/ starting' = Tail(starting)
  BY <1>0 DEF SupervisorNext, SupervisorBehaviour, HandleInit, HandleMessage, Waits, StartChild,
              ChildStarted, StartFailed, supervisor, allvars
<1> QED BY <1>1, <1>2, <1>3

LEMMA LinkedInit ==
  ASSUME SupervisorInit
  PROVE  LinkedInv /\ OwnTarget
<1>1. /\ sig = NoSignal /\ status[Supervisor] = "running" /\ ~initialised /\ timed_signals = {}
      /\ at[Supervisor] = "run" /\ \A p \in Pid : children[p] = NoChild
      /\ process_registry \subseteq Pid
  BY SupervisorIsPid, SupervisorAssumption DEF SupervisorInit, Init, SupervisorAssumption
<1>2. OwnTarget
  BY NodeAssumption DEF SupervisorInit, Init, OwnTarget, Terminating, NodeAssumption, Ctx
<1> QED BY <1>1, <1>2 DEF LinkedInv, SigTaken, SupervisorLinked

(* supervisor_actor_behaviour.cpp:130-147, node.cpp:549-584: a child is    *)
(* given up only where the code drops the news of its death, cannot start  *)
(* it again or ends the supervisor, for any number of children and pids,   *)
(* any mailbox and any timer queue.                                        *)
THEOREM ChildIsKept == SupervisorSafeSpec => ChildKept
<1> DEFINE Inv == ChildrenInv /\ RegistryInv /\ NewsInv /\ LinkedInv /\ OwnTarget
<1>1. SupervisorInit => Inv
  BY SupervisorInductive, OpenInit, LinkedInit
<1>2. Inv /\ [SupervisorNext]_allvars => Inv'
  <2> SUFFICES ASSUME Inv, [SupervisorNext]_allvars PROVE Inv'
    OBVIOUS
  <2>1. TypeOK /\ [Next]_vars
    BY SupervisorStep DEF ChildrenInv, SupervisorTypeOK
  <2> QED BY <2>1, SupervisorInductive, NewsNext, LinkedNext, OwnTargetStep
<1>3. Inv /\ [SupervisorNext]_allvars
        => [\A k \in Child : Kept(k) /\ ~Kept(k)' => GivenUp(k)]_allvars
  <2> SUFFICES ASSUME Inv, [SupervisorNext]_allvars, NEW k \in Child, Kept(k), ~GivenUp(k)
               PROVE  Kept(k)'
    OBVIOUS
  <2>1. CASE Starts(k)
    BY <2>1, StartsStep DEF Kept
  <2>2. CASE DeathNoticed(k)
    BY <2>2, NoticedStep
  <2> QED BY <2>1, <2>2 DEF Kept
<1> HIDE DEF Inv
<1> QED BY <1>1, <1>2, <1>3, PTL DEF SupervisorSafeSpec, ChildKept

=============================================================================
