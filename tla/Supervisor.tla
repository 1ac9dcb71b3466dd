------------------------------ MODULE Supervisor ------------------------------
(***************************************************************************)
(* actor_model/src/supervisor_actor_behaviour.cpp on top of Node.tla: an   *)
(* actor that traps exits, starts its children linked to itself and starts *)
(* a child again when it is told that the child died.                      *)
(*                                                                         *)
(* The handlers of "init" and "kill" are loops around apply, which spawns: *)
(* other tasks and the daemon run between the spawns, and inside each.     *)
(* The pid of a child stays in children when it dies.  The restart flags,  *)
(* the strategy and the intensity of a specification are never read.       *)
(*                                                                         *)
(* A child is any actor that sends messages, fails, and makes exit calls;  *)
(* the rest of what an actor may do is in Node.tla.                        *)
(***************************************************************************)
EXTENDS Node

CONSTANTS
  Supervisor,       \* the pid of the supervisor
  Child,            \* child ids
  NoChild,          \* "this pid is not in children"
  ChildSpecs        \* the ids of SupervisorArgs, in order

ASSUME SupervisorAssumption ==
  /\ Root = {Supervisor}
  /\ NoChild \notin Child
  /\ ChildSpecs \in Seq(Child)
  /\ \A i, j \in 1..Len(ChildSpecs) : ChildSpecs[i] = ChildSpecs[j] => i = j
  /\ \A c \in Child : \E i \in 1..Len(ChildSpecs) : ChildSpecs[i] = c

VARIABLES
  children,         \* the child id of each pid, or NoChild
  initialised,      \* "init" was handled
  starting          \* ids the handler that runs still has to start

supervisor == <<children, initialised, starting>>
allvars == <<vars, supervisor>>

SupervisorTypeOK ==
  /\ TypeOK
  /\ children \in [Pid -> Child \cup {NoChild}]
  /\ initialised \in BOOLEAN
  /\ starting \in Seq(Child)

SupervisorInit ==
  /\ Init
  /\ children = [p \in Pid |-> NoChild]
  /\ initialised = FALSE
  /\ starting = <<>>

-----------------------------------------------------------------------------
(* The behaviour *)

Waits == Running(Supervisor) /\ starting = <<>>

(* The message "init" with the specifications.  (Bound: once.)             *)
HandleInit ==
  /\ Waits
  /\ ~initialised
  /\ ProcessFlag(Supervisor, TRUE)
  /\ initialised' = TRUE
  /\ starting' = ChildSpecs
  /\ UNCHANGED children

(* init_child: the function that apply calls spawns the child.  Pids are   *)
(* random: it does not matter which is taken.  (Bound: while there are.)   *)
StartChild ==
  /\ starting # <<>>
  /\ \E p \in Pid : status[p] = "free"
  /\ Construct(Supervisor, CHOOSE p \in Pid : status[p] = "free", Supervisor)
  /\ UNCHANGED supervisor

ChildStarted ==
  /\ Emplace(Supervisor)
  /\ children' = [children EXCEPT ![target[Supervisor]] = Head(starting)]
  /\ starting' = Tail(starting)
  /\ UNCHANGED initialised

(* apply fails, the module or function being unknown: nobody is told.      *)
StartFailed ==
  /\ Running(Supervisor)
  /\ starting # <<>>
  /\ starting' = Tail(starting)
  /\ UNCHANGED <<vars, children, initialised>>

(* An empty reason is an empty payload, which does not match a Reason.     *)
IsNotice(m) == m.type = "kill" /\ m.reason # "none" /\ children[m.from] # NoChild

(* Mutant: a notice restarts the child and those specified after it. *)
HandleMessage_rest ==
  /\ Waits
  /\ Receive(Supervisor)
  /\ starting' =
       LET m == Head(mailbox[Supervisor])
       IN IF IsNotice(m)
          THEN SubSeq(ChildSpecs,
                      CHOOSE i \in 1..Len(ChildSpecs) : ChildSpecs[i] = children[m.from],
                      Len(ChildSpecs))
          ELSE <<>>
  /\ UNCHANGED <<children, initialised>>

(* Mutant: a child that ended normally is not restarted. *)
HandleMessage_transient ==
  /\ Waits
  /\ Receive(Supervisor)
  /\ starting' =
       LET m == Head(mailbox[Supervisor])
       IN IF IsNotice(m) /\ m.reason # "normal" THEN <<children[m.from]>> ELSE <<>>
  /\ UNCHANGED <<children, initialised>>

(* "kill" starts the child again; any other message is not handled.        *)
HandleMessage ==
  /\ Waits
  /\ Receive(Supervisor)
  /\ starting' =
       LET m == Head(mailbox[Supervisor])
       IN IF IsNotice(m) THEN <<children[m.from]>> ELSE <<>>
  /\ UNCHANGED <<children, initialised>>

SupervisorBehaviour ==
  HandleInit \/ StartChild \/ ChildStarted \/ StartFailed \/ HandleMessage

-----------------------------------------------------------------------------
(* The children and the node *)

(* (Bounds: exit signals go to children, one at a time; one to the         *)
(* supervisor ends it, or is taken for the death of the child that sent it.) *)
ChildCalls(c) ==
  \/ Send(c, Supervisor)
  \/ \E reason \in FailReason : Fail(c, reason)
  \/ /\ \A s \in timed_signals : s.pid = Supervisor
     /\ \E p \in process_registry \ {Supervisor}, reason \in ApiReason : Exit(c, p, reason)

NodeStep == DaemonStep \/ \E c \in Pid \ {Supervisor} : TaskStep(c)

SupervisorNext ==
  \/ SupervisorBehaviour
  \/ UNCHANGED supervisor /\ (NodeStep \/ \E c \in Pid \ {Supervisor} : ChildCalls(c))

SupervisorSafeSpec == SupervisorInit /\ [][SupervisorNext]_allvars

-----------------------------------------------------------------------------
(* Properties *)

Incarnations(k) == {p \in Pid : children[p] = k}

Live(k) == Incarnations(k) \cap process_registry

(* supervisor_actor_behaviour.cpp:135-144: pids of the dead stay in        *)
(* children, so a child is started for every notice there is of any of its *)
(* incarnations: there is one notice for each, and never two children with *)
(* one id run.                                                             *)
OneOfEach ==
  \A k \in Child : \A p, q \in Live(k) : p = q

(* A child id has somebody who runs, or the news of a death is on its way  *)
(* to the supervisor, or the supervisor is starting it.                    *)
DeathNoticed(k) ==
  \E p \in Incarnations(k) :
    \/ p \in process_registry
    \/ \E c \in Ctx : at[c] = "exits" /\ target[c] = p /\ Supervisor \in todo[c]
    \/ \E s \in timed_signals \ {sig} : s.pid = Supervisor /\ s.from = p
    \/ \E i \in 1..Len(mailbox[Supervisor]) :
         LET m == mailbox[Supervisor][i] IN m.from = p /\ IsNotice(m)

Starts(k) == \E i \in 1..Len(starting) : starting[i] = k

Kept(k) == DeathNoticed(k) \/ Starts(k)

(* The supervisor is being terminated, or was.                             *)
SupervisorEnds ==
  \/ Supervisor \notin process_registry
  \/ \E c \in Ctx : at[c] \in Terminating /\ target[c] = Supervisor

(* The steps by which the code gives a child up: it drops the news of its  *)
(* death (a full timer queue or mailbox, an empty reason), cannot start it *)
(* again, or ends the supervisor itself (a child that dies of "kill").     *)
GivenUp(k) ==
  \/ starting # <<>> /\ Head(starting) = k
  \/ \E c \in Ctx : todo[c] # todo'[c] /\ ~HasRoom
  \/ /\ sig # sig' /\ sig'.pid = Supervisor
     /\ Len(mailbox[Supervisor]) >= MailboxCap \/ sig'.reason = "none"
  \/ SupervisorEnds \/ SupervisorEnds'

(* supervisor_actor_behaviour.cpp:130-147, node.cpp:549-584: nothing else  *)
(* loses a child, in whatever order it dies, is reported and is started.   *)
ChildKept == [][\A k \in Child : Kept(k) /\ ~Kept(k)' => GivenUp(k)]_allvars

(* actor_model.fbs:104 "restart:ChildSpecRestartFlag = permanent": the news *)
(* of a child's death starts it again.  It does not hold of a child that   *)
(* was killed by a signal, whose links get an empty reason.                *)
KilledIsRestarted ==
  \A i \in 1..Len(mailbox[Supervisor]) :
    LET m == mailbox[Supervisor][i]
    IN m.type = "kill" /\ children[m.from] # NoChild => IsNotice(m)
=============================================================================
