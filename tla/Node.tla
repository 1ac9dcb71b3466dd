-------------------------------- MODULE Node --------------------------------
(***************************************************************************)
(* actor_model/src/node.cpp and process.cpp: the process registry, links,  *)
(* names, exit signals and timed messages of the default node.             *)
(*                                                                         *)
(* Node has no lock: every task calls into it directly, and FreeRTOS'      *)
(* timer daemon calls its two timer callbacks.  A call is one step here,   *)
(* except the two that other tasks can observe half done: spawn (construct *)
(* the process, then emplace it) and terminate (cancel messages, cancel    *)
(* signals, drop names, erase, signal each link, delete the task), which   *)
(* runs in the task that exits or in the daemon.                           *)
(*                                                                         *)
(* The timer service is external.  Its command queue is shared by all      *)
(* timers and drained only by the daemon between two callbacks; timers     *)
(* that were started expire in any order.  A mailbox is the channel of     *)
(* MailboxQueue.tla with room for MailboxCap messages.                     *)
(***************************************************************************)
EXTENDS Integers, Sequences, FiniteSets

CONSTANTS
  Pid,              \* process identifiers, never reused
  NoPid,            \* "no process"
  Daemon,           \* the FreeRTOS timer task
  Root,             \* the processes app_main spawned, unlinked
  Name,             \* names for register_name
  FailReason,       \* reasons a behaviour may return Error with
  ApiReason,        \* reasons actors may pass to exit(pid, pid2, reason)
  MaxTRef,          \* bound on the timers started
  QueueLen,         \* length of the timer command queue
  MailboxCap,       \* messages a mailbox has room for
  LinkAny,          \* may spawn_link name a process other than the caller
  HeapReuse         \* may the heap reuse a freed map node before it is read

(* Exit reasons; "none" is the empty string, "fault" any other one.        *)
Reason == {"none", "normal", "kill", "fault"}

ASSUME NodeAssumption ==
  /\ NoPid \notin Pid
  /\ Daemon \notin Pid \cup {NoPid}
  /\ Root \subseteq Pid
  /\ FailReason \subseteq Reason
  /\ ApiReason \subseteq Reason
  /\ MaxTRef \in Nat /\ QueueLen \in Nat /\ MailboxCap \in Nat
  /\ LinkAny \in BOOLEAN /\ HeapReuse \in BOOLEAN

Ctx == Pid \cup {Daemon}          \* who executes node code

VARIABLES
  process_registry,       \* pids of the registered processes
  named_process_registry, \* pid of each name, or NoPid
  status,                 \* "free", "constructed", "running" or "deleted"
  links,                  \* links of each process
  trap_exit,              \* the process flag
  exit_reason,            \* reason stored by Process::exit
  mailbox,                \* messages in each mailbox
  timed_messages,         \* timers with a message to deliver
  next_tref,
  timed_signals,          \* timers with an exit signal to deliver
  others,                 \* stop and delete commands in the timer queue
  at,                     \* where each context is
  target,                 \* the process it is spawning or terminating
  todo,                   \* links its ~Process has not signalled yet
  sig,                    \* the signal whose timer callback the daemon runs
  cause                   \* history: why the context terminates its target

registries == <<process_registry, named_process_registry, status>>
processes == <<links, trap_exit, exit_reason, mailbox>>
timers == <<timed_messages, next_tref, timed_signals, others>>
contexts == <<at, target, todo, sig, cause>>
vars == <<registries, processes, timers, contexts>>

Message == [type : {"message", "kill"}, from : Pid \cup {NoPid}, reason : Reason]
TimedMessage == [tref : 1..MaxTRef, pid : Pid, is_recurring : BOOLEAN, queued : BOOLEAN]
Signal == [pid : Pid, from : Pid, reason : Reason, queued : BOOLEAN]
NoSignal == [pid |-> NoPid]

Terminating == {"messages", "signals", "names", "erase"}
Place == Terminating \cup {"idle", "run", "spawning", "exits", "finish", "returned", "deleted"}

TypeOK ==
  /\ process_registry \subseteq Pid
  /\ named_process_registry \in [Name -> Pid \cup {NoPid}]
  /\ status \in [Pid -> {"free", "constructed", "running", "deleted"}]
  /\ links \in [Pid -> SUBSET Pid]
  /\ trap_exit \in [Pid -> BOOLEAN]
  /\ exit_reason \in [Pid -> Reason]
  /\ mailbox \in [Pid -> Seq(Message)]
  /\ timed_messages \subseteq TimedMessage /\ IsFiniteSet(timed_messages)
  /\ next_tref \in 1..(MaxTRef + 1)
  /\ timed_signals \subseteq Signal /\ IsFiniteSet(timed_signals)
  /\ others \in Int
  /\ at \in [Ctx -> Place]
  /\ target \in [Ctx -> Pid \cup {NoPid}]
  /\ todo \in [Ctx -> SUBSET Pid]
  /\ sig \in Signal \cup {NoSignal}
  /\ cause \in [Ctx -> Reason]

Init ==
  /\ process_registry = Root
  /\ named_process_registry = [n \in Name |-> NoPid]
  /\ status = [p \in Pid |-> IF p \in Root THEN "running" ELSE "free"]
  /\ links = [p \in Pid |-> {}]
  /\ trap_exit = [p \in Pid |-> FALSE]
  /\ exit_reason = [p \in Pid |-> "none"]
  /\ mailbox = [p \in Pid |-> <<>>]
  /\ timed_messages = {}
  /\ next_tref = 1
  /\ timed_signals = {}
  /\ others = 0
  /\ at = [c \in Ctx |-> IF c = Daemon THEN "idle" ELSE "run"]
  /\ target = [c \in Ctx |-> NoPid]
  /\ todo = [c \in Ctx |-> {}]
  /\ sig = NoSignal
  /\ cause = [c \in Ctx |-> "none"]

(* The task of c runs application code.  It may have been erased from the  *)
(* registry already, by a daemon that has not deleted the task yet.        *)
Running(c) == status[c] = "running" /\ at[c] = "run"

-----------------------------------------------------------------------------
(* The timer service *)

(* The timers whose start command is still in the queue. *)
Queued(entries) == {e \in entries : e.queued}

QueueUsed ==
  others + Cardinality(Queued(timed_messages)) + Cardinality(Queued(timed_signals))

HasRoom == QueueUsed < QueueLen

(* xTimerStart gives up after 10s.  The daemon empties the queue unless it *)
(* is inside a callback, so a task waits for room and fails only if the    *)
(* daemon is busy that long; the daemon itself always fails.               *)
StartFails == ~HasRoom /\ at[Daemon] # "idle"

(* cancel / cancel_signal of each of these timers: the entries go, the     *)
(* start commands still queued for them stay, and a stop and a delete are  *)
(* queued for each as far as there is room.                                *)
CancelTimers(messages, signals) ==
  LET started == Cardinality(Queued(messages)) + Cardinality(Queued(signals))
      posts == 2 * (Cardinality(messages) + Cardinality(signals))
      room == QueueLen - QueueUsed
  IN /\ timed_messages' = timed_messages \ messages
     /\ timed_signals' = timed_signals \ signals
     /\ others' = others + started + (IF posts <= room THEN posts ELSE room)

(* Node::signal: start a one-tick timer that carries an exit signal.       *)
StartSignal(pid, from, reason) ==
  /\ \/ /\ HasRoom
        /\ timed_signals' = timed_signals \cup
             {[pid |-> pid, from |-> from, reason |-> reason, queued |-> TRUE]}
     \/ /\ StartFails
        /\ UNCHANGED timed_signals
  /\ UNCHANGED <<timed_messages, next_tref, others>>

(* The daemon processes one command. *)
DrainCommand ==
  /\ at[Daemon] = "idle"
  /\ \/ \E m \in timed_messages :
          /\ m.queued
          /\ timed_messages' = (timed_messages \ {m}) \cup {[m EXCEPT !.queued = FALSE]}
          /\ UNCHANGED <<timed_signals, others>>
     \/ \E s \in timed_signals :
          /\ s.queued
          /\ timed_signals' = (timed_signals \ {s}) \cup {[s EXCEPT !.queued = FALSE]}
          /\ UNCHANGED <<timed_messages, others>>
     \/ /\ others > 0
        /\ others' = others - 1
        /\ UNCHANGED <<timed_messages, timed_signals>>
  /\ UNCHANGED <<registries, processes, next_tref, contexts>>

-----------------------------------------------------------------------------
(* Calls made by the application code of an actor *)

(* Process::send: a full mailbox refuses the message. *)
Deliver(p, message) ==
  mailbox' = IF Len(mailbox[p]) < MailboxCap
             THEN [mailbox EXCEPT ![p] = Append(@, message)]
             ELSE mailbox

Plain == [type |-> "message", from |-> NoPid, reason |-> "none"]

Send(c, p) ==
  /\ Running(c)
  /\ p \in process_registry
  /\ Deliver(p, Plain)
  /\ UNCHANGED <<registries, links, trap_exit, exit_reason, timers, contexts>>

(* Mailbox::receive and release *)
Receive(c) ==
  /\ Running(c)
  /\ mailbox[c] # <<>>
  /\ mailbox' = [mailbox EXCEPT ![c] = Tail(@)]
  /\ UNCHANGED <<registries, links, trap_exit, exit_reason, timers, contexts>>

ProcessFlag(c, setting) ==
  /\ Running(c)
  /\ c \in process_registry
  /\ trap_exit' = [trap_exit EXCEPT ![c] = setting]
  /\ UNCHANGED <<registries, links, exit_reason, mailbox, timers, contexts>>

(* Node checks nothing.  (Input: the pid of the caller, or of a process that *)
(* is registered now.)                                                     *)
RegisterName(c, n, p) ==
  /\ Running(c)
  /\ p \in process_registry \cup {c}
  /\ named_process_registry' = [named_process_registry EXCEPT ![n] = p]
  /\ UNCHANGED <<process_registry, status, processes, timers, contexts>>

Unregister(c, n) ==
  /\ Running(c)
  /\ named_process_registry' = [named_process_registry EXCEPT ![n] = NoPid]
  /\ UNCHANGED <<process_registry, status, processes, timers, contexts>>

(* send_after and send_interval, down to start_timer. *)
StartTimer(c, p, is_recurring) ==
  /\ Running(c)
  /\ p \in process_registry
  /\ next_tref <= MaxTRef
  /\ next_tref' = next_tref + 1
  /\ \/ /\ HasRoom
        /\ timed_messages' = timed_messages \cup
             {[tref |-> next_tref, pid |-> p, is_recurring |-> is_recurring, queued |-> TRUE]}
     \/ /\ StartFails
        /\ UNCHANGED timed_messages
  /\ UNCHANGED <<registries, processes, timed_signals, others, contexts>>

Cancel(c, m) ==
  /\ Running(c)
  /\ CancelTimers({m}, {})
  /\ UNCHANGED <<registries, processes, next_tref, contexts>>

(* Node::exit by an actor.  (Bound: not while the same signal is in flight.) *)
Exit(c, p, reason) ==
  /\ Running(c)
  /\ ~\E s \in timed_signals : s.pid = p /\ s.from = c /\ s.reason = reason
  /\ StartSignal(p, c, reason)
  /\ UNCHANGED <<registries, processes, contexts>>

-----------------------------------------------------------------------------
(* Node::_spawn *)

(* Mutant: the link is made on one side only. *)
LinkBoth_oneWay(p, q) ==
  IF q \in process_registry
  THEN [links EXCEPT ![p] = @ \cup {q}]
  ELSE links

(* Process::link: both directions, if the other process is registered.     *)
LinkBoth(p, q) ==
  IF q \in process_registry
  THEN [links EXCEPT ![p] = @ \cup {q}, ![q] = @ \cup {p}]
  ELSE links

(* The constructor links the new process and creates its task, which waits *)
(* in its empty mailbox.  (xTaskCreate failing leaves a process that never *)
(* runs: no application step below is ever forced.)                        *)
Construct(c, child, parent) ==
  /\ Running(c)
  /\ status[child] = "free"
  /\ parent \in {c, NoPid} \/ (LinkAny /\ parent # child)
  /\ status' = [status EXCEPT ![child] = "constructed"]
  /\ links' = LinkBoth(child, parent)
  /\ at' = [at EXCEPT ![c] = "spawning"]
  /\ target' = [target EXCEPT ![c] = child]
  /\ UNCHANGED <<process_registry, named_process_registry, trap_exit,
                 exit_reason, mailbox, timers, todo, sig, cause>>

(* process_registry.emplace makes the process known. *)
Emplace(c) ==
  /\ at[c] = "spawning"
  /\ process_registry' = process_registry \cup {target[c]}
  /\ status' = [status EXCEPT ![target[c]] = "running"]
  /\ at' = [at EXCEPT ![c] = "run"]
  /\ target' = [target EXCEPT ![c] = NoPid]
  /\ UNCHANGED <<named_process_registry, processes, timers, todo, sig, cause>>

-----------------------------------------------------------------------------
(* Node::terminate, ~Process *)

(* A behaviour returned Error: Process::exit stores the reason and calls   *)
(* terminate.                                                              *)
Fail(c, reason) ==
  /\ Running(c)
  /\ exit_reason' = [exit_reason EXCEPT ![c] = reason]
  /\ at' = [at EXCEPT ![c] = "messages"]
  /\ target' = [target EXCEPT ![c] = c]
  /\ cause' = [cause EXCEPT ![c] = reason]
  /\ UNCHANGED <<registries, links, trap_exit, mailbox, timers, todo, sig>>

(* A loop of terminate erases the map entry its iterator stands on: it may *)
(* reach all the entries of the process or stop after any of them.         *)
SomeOf(entries) ==
  {done \in SUBSET entries : done = {} => entries = {}}

CancelMessages(c) ==
  /\ at[c] = "messages"
  /\ \E done \in SomeOf({m \in timed_messages : m.pid = target[c]}) :
       CancelTimers(done, {})
  /\ at' = [at EXCEPT ![c] = "signals"]
  /\ UNCHANGED <<registries, processes, next_tref, target, todo, sig, cause>>

(* In the daemon, pid is a reference into the entry of the signal that is  *)
(* being processed.  If this loop erases it and the memory is reused, the  *)
(* rest of terminate compares with garbage and finds nothing.              *)
CancelSignals(c) ==
  /\ at[c] = "signals"
  /\ \E done \in SomeOf({s \in timed_signals : s.pid = target[c]}) :
       /\ CancelTimers({}, done)
       /\ \/ at' = [at EXCEPT ![c] = "names"]
          \/ /\ HeapReuse /\ c = Daemon /\ sig \in done
             /\ at' = [at EXCEPT ![c] = "finish"]
  /\ UNCHANGED <<registries, processes, next_tref, target, todo, sig, cause>>

DropNames(c) ==
  /\ at[c] = "names"
  /\ named_process_registry' =
       [n \in Name |-> IF named_process_registry[n] = target[c]
                       THEN NoPid ELSE named_process_registry[n]]
  /\ at' = [at EXCEPT ![c] = "erase"]
  /\ UNCHANGED <<process_registry, status, processes, timers, target, todo, sig, cause>>

(* Mutant: the process is destroyed without asking whether erase found it. *)
Erase_unchecked(c) ==
  /\ at[c] = "erase"
  /\ process_registry' = process_registry \ {target[c]}
  /\ todo' = [todo EXCEPT ![c] = links[target[c]]]
  /\ at' = [at EXCEPT ![c] = "exits"]
  /\ UNCHANGED <<named_process_registry, status, processes, timers, target, sig, cause>>

(* Mutant: the links are forgotten before ~Process reads them. *)
Erase_unlinked(c) ==
  /\ at[c] = "erase"
  /\ target[c] \in process_registry
  /\ process_registry' = process_registry \ {target[c]}
  /\ at' = [at EXCEPT ![c] = "exits"]
  /\ UNCHANGED <<named_process_registry, status, processes, timers, todo, target, sig, cause>>

(* Mutant: the destructor runs but the entry stays in the registry. *)
Erase_kept(c) ==
  /\ at[c] = "erase"
  /\ target[c] \in process_registry
  /\ todo' = [todo EXCEPT ![c] = links[target[c]]]
  /\ at' = [at EXCEPT ![c] = "exits"]
  /\ UNCHANGED <<registries, processes, timers, target, sig, cause>>

(* process_registry.erase: whoever finds the process runs its destructor.  *)
Erase(c) ==
  /\ at[c] = "erase"
  /\ target[c] \in process_registry
  /\ process_registry' = process_registry \ {target[c]}
  /\ todo' = [todo EXCEPT ![c] = links[target[c]]]
  /\ at' = [at EXCEPT ![c] = "exits"]
  /\ UNCHANGED <<named_process_registry, status, processes, timers, target, sig, cause>>

(* The other context erased it first.  The daemon leaves its callback; a   *)
(* task returns from its task function, which FreeRTOS aborts.             *)
EraseNothing(c) ==
  /\ at[c] = "erase"
  /\ target[c] \notin process_registry
  /\ at' = [at EXCEPT ![c] = IF c = Daemon THEN "finish" ELSE "returned"]
  /\ UNCHANGED <<registries, processes, timers, target, todo, sig, cause>>

(* ~Process sends its exit reason to the next link. *)
SendExit(c, p) ==
  /\ at[c] = "exits"
  /\ p \in todo[c]
  /\ StartSignal(p, target[c], exit_reason[target[c]])
  /\ todo' = [todo EXCEPT ![c] = @ \ {p}]
  /\ UNCHANGED <<registries, processes, at, target, sig, cause>>

(* vTaskDelete ends the task wherever it is, the one executing it included. *)
DeleteTask(c) ==
  /\ at[c] = "exits"
  /\ todo[c] = {}
  /\ LET p == target[c] IN
       /\ status' = [status EXCEPT ![p] = "deleted"]
       /\ links' = [links EXCEPT ![p] = {}]
       /\ mailbox' = [mailbox EXCEPT ![p] = <<>>]
       /\ trap_exit' = [trap_exit EXCEPT ![p] = FALSE]
       /\ exit_reason' = [exit_reason EXCEPT ![p] = "none"]
       /\ at' = [at EXCEPT ![c] = "finish", ![p] = "deleted"]
       /\ target' = [target EXCEPT ![c] = NoPid, ![p] = NoPid]
       /\ cause' = [cause EXCEPT ![c] = "none", ![p] = "none"]
       /\ todo' = [todo EXCEPT ![p] = {}]
  /\ UNCHANGED <<process_registry, named_process_registry, timers, sig>>

-----------------------------------------------------------------------------
(* The timer callbacks *)

(* Mutant: the timer of a message to a dead process is not released. *)
MessageTimer_leaked(m) ==
  /\ at[Daemon] = "idle"
  /\ ~m.queued
  /\ IF m.pid \in process_registry
     THEN Deliver(m.pid, Plain)
     ELSE UNCHANGED mailbox
  /\ IF m.is_recurring \/ m.pid \notin process_registry
     THEN UNCHANGED <<timed_messages, timed_signals, others>>
     ELSE CancelTimers({m}, {})
  /\ UNCHANGED <<registries, links, trap_exit, exit_reason, next_tref, contexts>>

(* Node::timer_callback *)
MessageTimer(m) ==
  /\ at[Daemon] = "idle"
  /\ ~m.queued
  /\ IF m.pid \in process_registry
     THEN Deliver(m.pid, Plain)
     ELSE UNCHANGED mailbox
  /\ IF m.is_recurring
     THEN UNCHANGED <<timed_messages, timed_signals, others>>
     ELSE CancelTimers({m}, {})
  /\ UNCHANGED <<registries, links, trap_exit, exit_reason, next_tref, contexts>>

(* Process::unlink *)
UnlinkBoth(p, q) ==
  IF q \in process_registry
  THEN [links EXCEPT ![p] = @ \ {q}, ![q] = @ \ {p}]
  ELSE [links EXCEPT ![p] = @ \ {q}]

(* Node::signal_timer_callback, up to what process_signal decides.         *)
SignalExpires(s, place) ==
  /\ at[Daemon] = "idle"
  /\ ~s.queued
  /\ sig' = s
  /\ at' = [at EXCEPT ![Daemon] = place]
  /\ UNCHANGED <<registries, trap_exit, exit_reason, timers, todo>>

(* The process is gone, or was never registered. *)
SignalUnknown(s) ==
  /\ s.pid \notin process_registry
  /\ SignalExpires(s, "finish")
  /\ UNCHANGED <<links, mailbox, target, cause>>

Traps(s) == trap_exit[s.pid] /\ s.reason # "kill"

(* Mutant: the signal is trapped, the link undone and nobody told. *)
SignalTrapped_silent(s) ==
  /\ s.pid \in process_registry
  /\ Traps(s)
  /\ SignalExpires(s, "finish")
  /\ links' = UnlinkBoth(s.pid, s.from)
  /\ UNCHANGED <<mailbox, target, cause>>

(* A process that traps exits gets a message instead. *)
SignalTrapped(s) ==
  /\ s.pid \in process_registry
  /\ Traps(s)
  /\ SignalExpires(s, "finish")
  /\ links' = UnlinkBoth(s.pid, s.from)
  /\ Deliver(s.pid, [type |-> "kill", from |-> s.from, reason |-> s.reason])
  /\ UNCHANGED <<target, cause>>

(* Mutant: every signal that is not trapped is taken for a normal exit. *)
SignalNormal_always(s) ==
  /\ s.pid \in process_registry
  /\ ~Traps(s)
  /\ SignalExpires(s, "finish")
  /\ links' = UnlinkBoth(s.pid, s.from)
  /\ UNCHANGED <<mailbox, target, cause>>

SignalNormal(s) ==
  /\ s.pid \in process_registry
  /\ ~Traps(s)
  /\ s.reason = "normal"
  /\ SignalExpires(s, "finish")
  /\ links' = UnlinkBoth(s.pid, s.from)
  /\ UNCHANGED <<mailbox, target, cause>>

(* Any other signal terminates the process. *)
SignalKills(s) ==
  /\ s.pid \in process_registry
  /\ ~Traps(s)
  /\ s.reason # "normal"
  /\ SignalExpires(s, "messages")
  /\ links' = UnlinkBoth(s.pid, s.from)
  /\ target' = [target EXCEPT ![Daemon] = s.pid]
  /\ cause' = [cause EXCEPT ![Daemon] = s.reason]
  /\ UNCHANGED mailbox

(* The callback ends by cancelling its signal. *)
FinishSignal ==
  /\ at[Daemon] = "finish"
  /\ CancelTimers({}, {sig} \cap timed_signals)
  /\ sig' = NoSignal
  /\ at' = [at EXCEPT ![Daemon] = "idle"]
  /\ target' = [target EXCEPT ![Daemon] = NoPid]
  /\ cause' = [cause EXCEPT ![Daemon] = "none"]
  /\ UNCHANGED <<registries, processes, next_tref, todo>>

-----------------------------------------------------------------------------
Terminate(c) ==
  \/ CancelMessages(c)
  \/ CancelSignals(c)
  \/ DropNames(c)
  \/ Erase(c)
  \/ EraseNothing(c)
  \/ \E p \in Pid : SendExit(c, p)
  \/ DeleteTask(c)

TaskStep(c) == Emplace(c) \/ Terminate(c)

Application(c) ==
  \/ \E p \in Pid : Send(c, p)
  \/ Receive(c)
  \/ \E setting \in BOOLEAN : ProcessFlag(c, setting)
  \/ \E n \in Name, p \in Pid : RegisterName(c, n, p)
  \/ \E n \in Name : Unregister(c, n)
  \/ \E p \in Pid, is_recurring \in BOOLEAN : StartTimer(c, p, is_recurring)
  \/ \E m \in timed_messages : Cancel(c, m)
  \/ \E p \in Pid, reason \in ApiReason : Exit(c, p, reason)
  \/ \E child \in Pid, parent \in Pid \cup {NoPid} : Construct(c, child, parent)
  \/ \E reason \in FailReason : Fail(c, reason)

SignalTimer(s) ==
  SignalUnknown(s) \/ SignalTrapped(s) \/ SignalNormal(s) \/ SignalKills(s)

DaemonStep ==
  \/ DrainCommand
  \/ \E m \in timed_messages : MessageTimer(m)
  \/ \E s \in timed_signals : SignalTimer(s)
  \/ FinishSignal
  \/ Terminate(Daemon)

Next ==
  \/ \E c \in Pid : Application(c) \/ TaskStep(c)
  \/ DaemonStep

SafeSpec == Init /\ [][Next]_vars

MessageExpires(tref) == \E m \in timed_messages : m.tref = tref /\ MessageTimer(m)

SomeSignalExpires == \E s \in timed_signals : SignalTimer(s)

(* Tasks inside a node call go on with it, and the daemon has its turn; it *)
(* serves its queue before it sleeps, and its timers in order of expiry,   *)
(* so that a timer that repeats cannot keep another from expiring.         *)
(* Nothing obliges application code to make a call.                        *)
Spec ==
  /\ SafeSpec
  /\ \A c \in Pid : WF_vars(TaskStep(c))
  /\ WF_vars(DaemonStep)
  /\ SF_vars(DrainCommand)
  /\ \A tref \in 1..MaxTRef : SF_vars(MessageExpires(tref))
  /\ SF_vars(SomeSignalExpires)

-----------------------------------------------------------------------------
(* Properties *)

(* process.cpp:148-194: links are bidirectional.  Two registered processes *)
(* agree on whether they are linked, in every interleaving of spawns, exit *)
(* signals and deaths.                                                     *)
LinksSymmetric ==
  \A p, q \in process_registry : q \in links[p] <=> p \in links[q]

(* node.cpp:664-667: the dying task and the daemon may terminate the same  *)
(* process at the same time; only one of them runs its destructor.         *)
OneDestructor ==
  \A c, d \in Ctx :
    at[c] = "exits" /\ at[d] = "exits" /\ target[c] = target[d] => c = d

(* The inductive invariant behind the two: which processes can be          *)
(* registered, being spawned, or the origin of a signal at the same time.  *)
Known == process_registry \cup {p \in Pid : status[p] = "constructed"}

RegisteredRun == \A p \in process_registry : status[p] = "running"

LinksAgree == \A p, q \in Known : q \in links[p] <=> p \in links[q]

FreeUnlinked ==
  \A p, q \in Pid : status[q] = "free" => p \notin links[q] /\ q \notin links[p]

SignalsHaveOrigin == \A s \in timed_signals : status[s.from] \in {"running", "deleted"}

TargetsExist ==
  \A c \in Ctx :
    /\ at[c] = "spawning" => c \in Pid /\ target[c] \in Pid /\ status[target[c]] = "constructed"
    /\ at[c] \in Terminating => target[c] \in Pid /\ status[target[c]] \in {"running", "deleted"}
    /\ at[c] = "exits" => target[c] \in Pid \ process_registry /\ status[target[c]] = "running"

OneEach ==
  \A c, d \in Ctx :
    at[c] = at[d] /\ at[c] \in {"spawning", "exits"} /\ target[c] = target[d] => c = d

RegistryInv ==
  /\ RegisteredRun
  /\ LinksAgree
  /\ FreeUnlinked
  /\ SignalsHaveOrigin
  /\ TargetsExist
  /\ OneEach

(* What TerminateErases rests on, besides the registry: whom a context has *)
(* finished terminating stays out of the registry.                         *)
FinishedInv ==
  /\ \A c \in Ctx : at[c] \in {"finish", "returned"} /\ target[c] # NoPid =>
       target[c] \in Pid \ process_registry /\ status[target[c]] \in {"running", "deleted"}
  /\ at[Daemon] = "idle" => target[Daemon] = NoPid

(* process.cpp:113-114 "It will send exit signals to all of its links": a  *)
(* live process with a dead link has that exit signal coming to it, or is  *)
(* being terminated itself.                                                *)
ExitOwed ==
  \A p \in process_registry : \A q \in links[p] :
    \/ q \in process_registry \/ status[q] = "constructed"
    \/ \E c \in Ctx : at[c] = "exits" /\ target[c] = q /\ p \in todo[c]
    \/ \E s \in timed_signals : s.pid = p /\ s.from = q
    \/ \E c \in Ctx : at[c] \in Terminating /\ target[c] = p

(* node.cpp:593 "Remove this pid from process_registry unconditionally":   *)
(* a termination never ends with its process still registered.             *)
TerminateErases ==
  \A c \in Ctx : at[c] \in {"exits", "finish", "returned"} =>
    target[c] \notin process_registry

(* node.cpp:534-600: abnormal exits spread.  A process linked to one that  *)
(* dies of an abnormal reason, and that does not trap exits, dies too.     *)
LinkedDie ==
  \A p, q \in Pid :
    ( /\ p \in process_registry /\ q \in links[p] /\ p \in links[q]
      /\ at[q] = "exits" /\ target[q] = q /\ exit_reason[q] # "normal" )
    ~> (p \notin process_registry \/ trap_exit[p])

(* supervisor_actor_behaviour.cpp:130-147: a process that traps exits      *)
(* learns of the death of every process linked to it, by a "kill" message  *)
(* in its mailbox; only a full mailbox can lose it.                        *)
TrapperNotified ==
  \A p, q \in Pid :
    ( /\ p \in process_registry /\ trap_exit[p] /\ q \in links[p] /\ p \in links[q]
      /\ \E c \in Ctx : at[c] = "exits" /\ target[c] = q )
    ~> \/ p \notin process_registry \/ ~trap_exit[p]
       \/ \E i \in 1..Len(mailbox[p]) : mailbox[p][i].type = "kill" /\ mailbox[p][i].from = q
       \/ Len(mailbox[p]) = MailboxCap

(* node.cpp:481-513: a message to be sent later does not stay behind.  Its *)
(* timer expires and is released although the daemon never waits for room  *)
(* in its queue, whether the process lives, died or cancelled it.          *)
OneShotEnds ==
  \A tref \in 1..MaxTRef :
    LET Pending == \E m \in timed_messages : m.tref = tref /\ ~m.is_recurring
    IN Pending ~> ~Pending

(* process.cpp:107-108 "Store the reason why this process is being killed, *)
(* so it can be sent to each linked process".                              *)
ReasonPropagates ==
  \A c \in Ctx : at[c] = "exits" => exit_reason[target[c]] = cause[c]

(* node.cpp:621 "Check the list of timed messages for those which should   *)
(* be cancelled": no timer is left for a process that was terminated.      *)
TimersAreLive ==
  \A m \in timed_messages : status[m.pid] # "deleted"
=============================================================================
