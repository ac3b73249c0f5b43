------------------------------ MODULE Startup ------------------------------
(***************************************************************************)
(* How a command comes under supervision, and what is left of it when the  *)
(* supervisor is gone (linux.rs, spawn, install_filter, send_fd and        *)
(* receive_fd).  The supervisor forks a child over a socket pair; the      *)
(* child installs the seccomp filter, sends the listener, waits for an     *)
(* acknowledgement and only then executes the command.  The filter is      *)
(* inherited by every descendant and outlives the supervisor; the death    *)
(* signal concerns the child alone.                                        *)
(*                                                                         *)
(* sup is the supervisor's program counter; what it does before the fork   *)
(* and after the handshake is in Output.                                   *)
(***************************************************************************)
CONSTANTS
  Main,     \* the process of the command
  Others    \* bound: its descendants

ASSUME MainAssumption == Main \notin Others

VARIABLES
  sup,        \* the supervisor: where it is, or "gone"
  child,      \* the child: where it is, or how it ended
  supEnds,    \* ends of the socket pair the supervisor has open
  childEnds,  \* ends of the socket pair the child has open
  toSup,      \* the message with the listener is queued
  toChild,    \* the acknowledgement is queued
  holders,    \* who holds a descriptor of the listener
  filtered,   \* the child has installed the filter
  deathsig,   \* the child has asked for SIGKILL at the supervisor's death
  doomed,     \* SIGKILL was sent to the child
  running,    \* processes of the command that run
  call        \* what each of them does: no call, or a filtered call

socketVars == <<supEnds, childEnds, toSup, toChild>>
treeVars == <<running, call>>
vars == <<sup, child, supEnds, childEnds, toSup, toChild, holders, filtered,
          deathsig, doomed, running, call>>

Procs == {Main} \cup Others

Handshaking == {"setup", "deathsig", "filter", "send", "await", "exec"}
Failed == {"exited", "killed"}   \* the child ended and never was the command
Over == Failed \cup {"none", "ended", "reaped"}
Spawning == {"receive", "reap", "ack"}

(* An end of the pair that somebody has open; "p" is the supervisor's.     *)
Open(e) == e \in supEnds \cup childEnds

Init ==
  /\ sup = "before" /\ child = "none"
  /\ supEnds = {} /\ childEnds = {}
  /\ toSup = FALSE /\ toChild = FALSE
  /\ holders = {}
  /\ filtered = FALSE /\ deathsig = FALSE /\ doomed = FALSE
  /\ running = {}
  /\ call = [p \in Procs |-> "none"]

-----------------------------------------------------------------------------
(* The supervisor.                                                         *)

(* Faulty: the other end stays open in the supervisor.                     *)
ForkKeepsEnd ==
  /\ sup = "spawn"
  /\ sup' = "receive" /\ child' = "setup"
  /\ supEnds' = {"p", "c"} /\ childEnds' = {"p", "c"}
  /\ UNCHANGED <<toSup, toChild, holders, filtered, deathsig, doomed, treeVars>>

(* Faulty: the acknowledgement is written before the listener is there.    *)
ForkAndAcknowledge ==
  /\ sup = "spawn"
  /\ sup' = "receive" /\ child' = "setup"
  /\ supEnds' = {"p"} /\ childEnds' = {"p", "c"}
  /\ toChild' = TRUE
  /\ UNCHANGED <<toSup, holders, filtered, deathsig, doomed, treeVars>>

(* socketpair, fork, and the supervisor closes the child's end.            *)
Fork ==
  /\ sup = "spawn"
  /\ sup' = "receive" /\ child' = "setup"
  /\ supEnds' = {"p"} /\ childEnds' = {"p", "c"}
  /\ UNCHANGED <<toSup, toChild, holders, filtered, deathsig, doomed, treeVars>>

ForkFails ==
  /\ sup = "spawn"
  /\ sup' = "spawn_error"
  /\ UNCHANGED <<child, socketVars, holders, filtered, deathsig, doomed, treeVars>>

Receive ==
  /\ sup = "receive" /\ toSup
  /\ sup' = "ack" /\ toSup' = FALSE
  /\ holders' = (holders \ {"message"}) \cup {"sup"}
  /\ UNCHANGED <<child, supEnds, childEnds, toChild, filtered, deathsig, doomed,
                 treeVars>>

(* recvmsg sees the end of the stream, or a message whose descriptor the   *)
(* kernel could not install: the child is killed and waited for.           *)
ReceiveFails ==
  /\ sup = "receive"
  /\ toSup \/ ~Open("c")
  /\ sup' = "reap" /\ toSup' = FALSE
  /\ holders' = holders \ {"message"}
  /\ doomed' = TRUE
  /\ UNCHANGED <<child, supEnds, childEnds, toChild, filtered, deathsig, treeVars>>

(* Closing the supervisor's end drops a message nobody has received.       *)
Drop(h) == IF "p" \in childEnds THEN h ELSE h \ {"message"}

Reap ==
  /\ sup = "reap" /\ child \in Failed \cup {"ended"}
  /\ child' = "reaped" /\ sup' = "spawn_error"
  /\ supEnds' = {} /\ toSup' = FALSE
  /\ holders' = Drop(holders)
  /\ UNCHANGED <<childEnds, toChild, filtered, deathsig, doomed, treeVars>>

Acknowledge ==
  /\ sup = "ack" /\ Open("c")
  /\ toChild' = TRUE
  /\ sup' = "spawned" /\ supEnds' = {}
  /\ UNCHANGED <<child, childEnds, toSup, holders, filtered, deathsig, doomed,
                 treeVars>>

(* The child has gone: it is killed again, and not waited for.             *)
AcknowledgeFails ==
  /\ sup = "ack" /\ ~Open("c")
  /\ doomed' = TRUE
  /\ sup' = "spawn_error" /\ supEnds' = {}
  /\ holders' = holders \ {"sup"}
  /\ UNCHANGED <<child, childEnds, toSup, toChild, filtered, deathsig, treeVars>>

(* A blocked call is let through while the loop runs.                      *)
Answer(p) ==
  /\ sup = "serving" /\ "sup" \in holders /\ call[p] = "blocked"
  /\ call' = [call EXCEPT ![p] = "seen"]
  /\ UNCHANGED <<sup, child, socketVars, holders, filtered, deathsig, doomed,
                 running>>

(* The supervisor exits or crashes, at any moment: the kernel closes its   *)
(* descriptors and sends the death signal.                                 *)
SupervisorEnds ==
  /\ sup # "gone"
  /\ sup' = "gone"
  /\ supEnds' = {} /\ toSup' = ("p" \in childEnds /\ toSup)
  /\ holders' = Drop(holders) \ {"sup"}
  /\ doomed' = (doomed \/ (deathsig /\ child \notin Over))
  /\ UNCHANGED <<child, childEnds, toChild, filtered, deathsig, treeVars>>

-----------------------------------------------------------------------------
(* The child.                                                              *)

Setup ==
  /\ child = "setup"
  /\ child' = "deathsig" /\ childEnds' = {"c"}
  /\ UNCHANGED <<sup, supEnds, toSup, toChild, holders, filtered, deathsig,
                 doomed, treeVars>>

(* Faulty: no death signal is asked for.                                   *)
NoDeathSignal ==
  /\ child = "deathsig"
  /\ child' = "filter"
  /\ UNCHANGED <<sup, socketVars, holders, filtered, deathsig, doomed, treeVars>>

(* prctl(PR_SET_PDEATHSIG): without effect if the supervisor is gone.      *)
SetDeathSignal ==
  /\ child = "deathsig"
  /\ child' = "filter"
  /\ deathsig' = (sup # "gone")
  /\ UNCHANGED <<sup, socketVars, holders, filtered, doomed, treeVars>>

InstallFilter ==
  /\ child = "filter"
  /\ child' = "send" /\ filtered' = TRUE
  /\ holders' = holders \cup {"child"}
  /\ UNCHANGED <<sup, socketVars, deathsig, doomed, treeVars>>

(* The child's process ends: what it has open is closed.                   *)
ChildEnds(how) ==
  /\ child' = how
  /\ childEnds' = {}
  /\ holders' = holders \ {"child"}
  /\ running' = running \ {Main}
  /\ call' = [call EXCEPT ![Main] = "none"]
  /\ UNCHANGED <<sup, supEnds, toSup, toChild, filtered, deathsig, doomed>>

(* Faulty: the command is executed although there is no filter.            *)
InstallFailureIgnored ==
  /\ child = "filter"
  /\ child' = "exec"
  /\ UNCHANGED <<sup, socketVars, holders, filtered, deathsig, doomed, treeVars>>

InstallFails == child = "filter" /\ ChildEnds("exited")

Send ==
  /\ child = "send" /\ Open("p")
  /\ child' = "await" /\ toSup' = TRUE
  /\ holders' = holders \cup {"message"}
  /\ UNCHANGED <<sup, supEnds, childEnds, toChild, filtered, deathsig, doomed,
                 treeVars>>

SendFails == child = "send" /\ ~Open("p") /\ ChildEnds("exited")

(* Faulty: a descriptor of the listener is left to the command.            *)
ReadAckKeepsListener ==
  /\ child = "await" /\ toChild
  /\ child' = "exec" /\ toChild' = FALSE
  /\ holders' = (holders \ {"child"}) \cup {"tree"}
  /\ UNCHANGED <<sup, supEnds, childEnds, toSup, filtered, deathsig, doomed,
                 treeVars>>

(* The acknowledgement is read and the child's listener closed.            *)
ReadAck ==
  /\ child = "await" /\ toChild
  /\ child' = "exec" /\ toChild' = FALSE
  /\ holders' = holders \ {"child"}
  /\ UNCHANGED <<sup, supEnds, childEnds, toSup, filtered, deathsig, doomed,
                 treeVars>>

AwaitFails == child = "await" /\ ~toChild /\ ~Open("p") /\ ChildEnds("exited")

Exec ==
  /\ child = "exec"
  /\ child' = "command" /\ childEnds' = {} /\ running' = {Main}
  /\ UNCHANGED <<sup, supEnds, toSup, toChild, holders, filtered, deathsig,
                 doomed, call>>

ExecFails == child = "exec" /\ ChildEnds("ended")

(* SIGKILL takes effect some time after it was sent.                       *)
Killed ==
  /\ doomed /\ child \notin Over
  /\ ChildEnds(IF child = "command" THEN "ended" ELSE "killed")

-----------------------------------------------------------------------------
(* The command and its descendants.                                        *)

CommandForks(p) ==
  /\ running # {} /\ p \in Others \ running
  /\ running' = running \cup {p}
  /\ UNCHANGED <<sup, child, socketVars, holders, filtered, deathsig, doomed, call>>

MainEnds == child = "command" /\ ChildEnds("ended")

OtherEnds(p) ==
  /\ p \in running \ {Main}
  /\ running' = running \ {p}
  /\ call' = [call EXCEPT ![p] = "none"]
  /\ UNCHANGED <<sup, child, socketVars, holders, filtered, deathsig, doomed>>

(* A call the filter selects blocks while somebody holds the listener and  *)
(* returns ENOSYS otherwise; without the filter it would just go ahead.    *)
Call(p) ==
  /\ p \in running /\ call[p] = "none"
  /\ ~filtered \/ holders # {}
  /\ call' = [call EXCEPT ![p] = IF filtered THEN "blocked" ELSE "unseen"]
  /\ UNCHANGED <<sup, child, socketVars, holders, filtered, deathsig, doomed,
                 running>>

(* The last descriptor of the listener is closed: ENOSYS.                  *)
CallReturnsEnosys(p) ==
  /\ call[p] = "blocked" /\ holders = {}
  /\ call' = [call EXCEPT ![p] = "none"]
  /\ UNCHANGED <<sup, child, socketVars, holders, filtered, deathsig, doomed,
                 running>>

CallEnds(p) ==
  /\ call[p] \in {"seen", "unseen"}
  /\ call' = [call EXCEPT ![p] = "none"]
  /\ UNCHANGED <<sup, child, socketVars, holders, filtered, deathsig, doomed,
                 running>>

-----------------------------------------------------------------------------
Parent ==
  \/ Fork \/ ForkFails \/ Receive \/ ReceiveFails \/ Reap
  \/ Acknowledge \/ AcknowledgeFails

Child ==
  \/ Setup \/ SetDeathSignal \/ InstallFilter \/ InstallFails \/ Send
  \/ SendFails \/ ReadAck \/ AwaitFails \/ Exec \/ ExecFails \/ Killed

Tree ==
  \/ MainEnds
  \/ \E p \in Others : CommandForks(p) \/ OtherEnds(p)
  \/ \E p \in Procs : Call(p) \/ CallEnds(p)

(* What the supervisor does outside the handshake.                         *)
Elsewhere ==
  /\ \/ sup = "before" /\ sup' = "spawn"
     \/ sup = "spawned" /\ sup' = "serving"
     \/ sup = "serving" /\ sup' = "finish"
  /\ UNCHANGED <<child, socketVars, holders, filtered, deathsig, doomed, treeVars>>

Next ==
  \/ Parent \/ Child \/ Tree
  \/ \E p \in Procs : Answer(p) \/ CallReturnsEnosys(p)
  \/ Elsewhere
  \/ SupervisorEnds

Spec == Init /\ [][Next]_vars

(* The supervisor's and the child's code run on, SIGKILL is delivered and  *)
(* the kernel wakes a caller whose listener is gone.  Nothing is asked of  *)
(* the command, and no crash has to happen.                                *)
Fairness ==
  /\ WF_vars(Parent)
  /\ WF_vars(Child)
  /\ \A p \in Procs : WF_vars(CallReturnsEnosys(p))

-----------------------------------------------------------------------------
(* Every variable keeps its type.                                          *)
TypeOK ==
  /\ sup \in {"before", "spawn", "spawn_error", "spawned", "serving", "finish",
              "gone"} \cup Spawning
  /\ child \in Handshaking \cup Over \cup {"command"}
  /\ supEnds \subseteq {"p", "c"} /\ childEnds \subseteq {"p", "c"}
  /\ toSup \in BOOLEAN /\ toChild \in BOOLEAN
  /\ holders \subseteq {"child", "message", "sup"}
  /\ filtered \in BOOLEAN /\ deathsig \in BOOLEAN /\ doomed \in BOOLEAN
  /\ running \subseteq Procs
  /\ call \in [Procs -> {"none", "blocked", "seen", "unseen"}]

(* The command only runs after spawn has returned the listener to its      *)
(* caller, or after that supervisor has gone; a spawn that fails leaves    *)
(* no command behind (IMPLEMENTATION_PLAN.md:117, linux.rs:351-402).       *)
CommandIsWatched ==
  (child = "command" \/ running # {}) =>
     \/ sup \in {"spawned", "serving", "finish"} /\ "sup" \in holders
     \/ sup = "gone"

(* No process of the command, nor any descendant, ever gets a call the     *)
(* filter selects through unless the supervisor has let it through, dead   *)
(* or alive (linux.rs:197-235; IMPLEMENTATION_PLAN.md:250).                *)
NothingUnseen == \A p \in Procs : call[p] # "unseen"

(* A spawn returns, whatever becomes of the child (linux.rs:379-397).      *)
SpawnReturns == sup \in Spawning ~> sup \notin Spawning

(* The child ends after the supervisor: by the death signal, or, if it was *)
(* too late to ask for it, by the end of the stream (linux.rs:351-366).    *)
CommandEndsWithSupervisor == sup = "gone" ~> child \in Over

(* Nobody stays blocked on a supervisor that is gone: the listener closes  *)
(* with it (linux.rs:237-305, 367-377).                                    *)
CallsAreReleased == sup = "gone" ~> \A p \in Procs : call[p] # "blocked"
=============================================================================
