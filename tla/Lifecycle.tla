----------------------------- MODULE Lifecycle -----------------------------
(***************************************************************************)
(* How fs-tracker run ends (supervisor.rs): the main loop forwards signals *)
(* and control requests to the command's process group, kills the group    *)
(* after the grace period, waits for the command without blocking and then *)
(* scans /proc for descendants, until none is found or five seconds have   *)
(* passed.  The supervisor is a subreaper: orphans become its children.    *)
(* Notifications are served in between (module Pipeline).                  *)
(***************************************************************************)
EXTENDS Naturals, Sequences

CONSTANTS
  Procs,       \* bound: the processes of the tree
  Main,        \* the spawned command, leader of its process group
  Supervisor,
  MaxInbox     \* bound: control events that wait to be read

ASSUME MainAssumption == Main \in Procs /\ Supervisor \notin Procs
ASSUME InboxAssumption == MaxInbox \in Nat

VARIABLES
  \* the process tree
  pstate,      \* "unborn", "live", "zombie" or "reaped"
  parent,
  group,       \* members of the command's process group
  killed,      \* processes with a pending SIGKILL
  \* requests from outside
  signal,      \* PENDING_SIGNAL
  inbox,       \* what the control descriptor will deliver
  \* the main loop
  mpc,
  control,     \* "open" or "none"
  stopping, graceOver, killSent,
  mainStatus,  \* whether the command's status is known
  late,        \* five seconds have passed since then
  todo, found, \* has_live_children: pids still to look at, and its result
  gaps         \* pending_gaps

treeVars == <<pstate, parent, group, killed>>
requestVars == <<signal, inbox>>
stopVars == <<control, stopping, graceOver, killSent>>
scanVars == <<todo, found>>
endVars == <<mainStatus, late>>
vars == <<treeVars, requestVars, mpc, stopVars, endVars, scanVars, gaps>>

Live == {p \in Procs : pstate[p] = "live"}
Children == {p \in Procs : pstate[p] \in {"live", "zombie"} /\ parent[p] = Supervisor}
Over == {"done", "failed"}

Init ==
  /\ pstate = [p \in Procs |-> IF p = Main THEN "live" ELSE "unborn"]
  /\ parent = [p \in Procs |-> Supervisor]
  /\ group = {Main} /\ killed = {}
  /\ signal = FALSE /\ inbox = <<>>
  /\ mpc = "signal"
  /\ control = "open" /\ stopping = FALSE /\ graceOver = FALSE /\ killSent = FALSE
  /\ mainStatus = FALSE /\ late = FALSE
  /\ todo = {} /\ found = FALSE
  /\ gaps = {}

-----------------------------------------------------------------------------
(* The process tree and the kernel.                                        *)
loopVars == <<requestVars, mpc, stopVars, endVars, scanVars, gaps>>

Fork(p, q) ==
  /\ p \in Live \ killed /\ pstate[q] = "unborn"
  /\ pstate' = [pstate EXCEPT ![q] = "live"]
  /\ parent' = [parent EXCEPT ![q] = p]
  /\ group' = IF p \in group THEN group \cup {q} ELSE group
  /\ UNCHANGED <<killed, loopVars>>

(* setsid or setpgid.                                                      *)
LeaveGroup(p) ==
  /\ p \in Live \cap group
  /\ group' = group \ {p}
  /\ UNCHANGED <<pstate, parent, killed, loopVars>>

(* A process ends, of itself or by a signal; its children are handed to    *)
(* the subreaper.                                                          *)
End(p) ==
  /\ p \in Live
  /\ pstate' = [pstate EXCEPT ![p] = "zombie"]
  /\ parent' = [q \in Procs |-> IF parent[q] = p THEN Supervisor ELSE parent[q]]
  /\ killed' = killed \ {p}
  /\ UNCHANGED <<group, loopVars>>

ParentReaps(q) ==
  /\ pstate[q] = "zombie" /\ parent[q] \in Live
  /\ pstate' = [pstate EXCEPT ![q] = "reaped"]
  /\ group' = group \ {q}
  /\ UNCHANGED <<parent, killed, loopVars>>

(* kill(-child.pid, SIGKILL).  SIGTERM may be ignored, and a process may   *)
(* end at any time: sending it changes nothing of the tree.                *)
KillGroup ==
  /\ killed' = killed \cup (group \cap Live)
  /\ UNCHANGED <<pstate, parent, group>>

-----------------------------------------------------------------------------
(* Requests and time.                                                      *)
SignalArrives ==
  /\ signal' = TRUE
  /\ UNCHANGED <<treeVars, inbox, mpc, stopVars, endVars, scanVars, gaps>>

ControlArrives(e) ==
  /\ Len(inbox) < MaxInbox
  /\ inbox # <<>> => inbox[Len(inbox)] # "eof"
  /\ inbox' = Append(inbox, e)
  /\ UNCHANGED <<treeVars, signal, mpc, stopVars, endVars, scanVars, gaps>>

GraceElapses ==
  /\ stopping /\ ~graceOver
  /\ graceOver' = TRUE
  /\ UNCHANGED <<treeVars, requestVars, mpc, control, stopping,
                 killSent, endVars, scanVars, gaps>>

FiveSecondsPass ==
  /\ mainStatus /\ ~late
  /\ late' = TRUE
  /\ UNCHANGED <<treeVars, requestVars, mpc, stopVars, mainStatus,
                 scanVars, gaps>>

-----------------------------------------------------------------------------
(* The main loop.  Faulty variants, named for what they get wrong, stand   *)
(* before the operator they vary.                                          *)
TakeSignal ==
  /\ mpc = "signal"
  /\ mpc' = "control"
  /\ IF signal
       THEN /\ signal' = FALSE /\ stopping' = TRUE
       ELSE UNCHANGED <<signal, stopping>>
  /\ UNCHANGED <<treeVars, inbox, control, graceOver, killSent, endVars, scanVars, gaps>>

(* A control request ends the group and closes the channel; so does its    *)
(* end of file or a read error, which are gaps.  Anything else is a gap.   *)
Stop(gap) ==
  /\ stopping' = TRUE /\ control' = "none"
  /\ gaps' = gaps \cup gap

TakeControl ==
  /\ mpc = "control"
  /\ mpc' = "grace"
  /\ \/ /\ control = "none" \/ inbox = <<>>
        /\ UNCHANGED <<inbox, control, stopping, gaps>>
     \/ /\ control = "open" /\ inbox # <<>>
        /\ inbox' = Tail(inbox)
        /\ CASE Head(inbox) = "finish" -> Stop({})
             [] Head(inbox) = "eof"    -> Stop({"control_disconnected"})
             [] OTHER -> /\ gaps' = gaps \cup {"control_protocol"}
                         /\ UNCHANGED <<control, stopping>>
     \/ /\ control = "open"
        /\ Stop({"control_read"}) /\ UNCHANGED inbox
  /\ UNCHANGED <<treeVars, signal, graceOver, killSent, endVars, scanVars>>

GraceWithTerm ==
  /\ mpc = "grace"
  /\ mpc' = "wait"
  /\ killSent' = (stopping /\ graceOver)
  /\ UNCHANGED <<treeVars, requestVars, control, stopping, graceOver,
                 endVars, scanVars, gaps>>

(* SIGKILL once, after the grace period, while the command still runs.     *)
Grace ==
  /\ mpc = "grace"
  /\ mpc' = "wait"
  /\ IF ~killSent /\ stopping /\ graceOver /\ ~mainStatus
       THEN killSent' = TRUE /\ KillGroup
       ELSE UNCHANGED <<killSent, treeVars>>
  /\ UNCHANGED <<requestVars, control, stopping, graceOver, endVars, scanVars, gaps>>

(* wait_nohang on the command.                                             *)
WaitMain ==
  /\ mpc = "wait" /\ ~mainStatus
  /\ mpc' = "signal"
  /\ IF pstate[Main] = "zombie"
       THEN /\ mainStatus' = TRUE
            /\ pstate' = [pstate EXCEPT ![Main] = "reaped"]
            /\ group' = group \ {Main}
       ELSE UNCHANGED <<mainStatus, pstate, group>>
  /\ UNCHANGED <<parent, killed, requestVars, stopVars, late,
                 scanVars, gaps>>

ListAlways ==
  /\ mpc = "wait"
  /\ todo' = Children /\ found' = FALSE
  /\ mpc' = "scan"
  /\ UNCHANGED <<treeVars, requestVars, stopVars, endVars, gaps>>

(* has_live_children reads the list of children ...                        *)
ListChildren ==
  /\ mpc = "wait" /\ mainStatus
  /\ todo' = Children /\ found' = FALSE
  /\ mpc' = "scan"
  /\ UNCHANGED <<treeVars, requestVars, stopVars, endVars, gaps>>

(* ... and looks at one after the other: a zombie is reaped, and a child   *)
(* that runs is found.                                                     *)
LookAt(p) ==
  /\ mpc = "scan" /\ p \in todo
  /\ todo' = todo \ {p}
  /\ IF pstate[p] = "zombie"
       THEN /\ pstate' = [pstate EXCEPT ![p] = "reaped"]
            /\ group' = group \ {p} /\ UNCHANGED found
       ELSE found' = TRUE /\ UNCHANGED <<pstate, group>>
  /\ UNCHANGED <<parent, killed, requestVars, mpc, stopVars, endVars, gaps>>

ScanNeverLate ==
  /\ mpc = "scan" /\ todo = {}
  /\ mpc' = IF ~found THEN "done" ELSE "signal"
  /\ UNCHANGED <<treeVars, requestVars, stopVars, endVars, scanVars, gaps>>

ScanEnds ==
  /\ mpc = "scan" /\ todo = {}
  /\ mpc' = CASE ~found -> "done" [] found /\ late -> "term" [] OTHER -> "signal"
  /\ gaps' = IF found /\ late THEN gaps \cup {"descendant_timeout"} ELSE gaps
  /\ UNCHANGED <<treeVars, requestVars, stopVars, endVars, scanVars>>

(* poll, waitpid or /proc fails: run returns the error.                    *)
LoopFails ==
  /\ mpc \in {"wait", "scan"}
  /\ mpc' = "failed"
  /\ UNCHANGED <<treeVars, requestVars, stopVars, endVars, scanVars, gaps>>

(* terminate_process_group ...                                             *)
TermLeft ==
  /\ mpc = "term"
  /\ mpc' = "kill"
  /\ UNCHANGED <<treeVars, requestVars, stopVars, endVars, scanVars, gaps>>

KillLeft ==
  /\ mpc = "kill"
  /\ mpc' = "reap" /\ KillGroup
  /\ UNCHANGED <<requestVars, stopVars, endVars, scanVars, gaps>>

(* ... and reap_for: scans until nobody is left or two seconds have passed. *)
ReapLeft(p) ==
  /\ mpc = "reap" /\ p \in Children /\ pstate[p] = "zombie"
  /\ pstate' = [pstate EXCEPT ![p] = "reaped"]
  /\ group' = group \ {p}
  /\ UNCHANGED <<parent, killed, loopVars>>

ReapEnds ==
  /\ mpc = "reap"
  /\ mpc' = "done"
  /\ UNCHANGED <<treeVars, requestVars, stopVars, endVars, scanVars, gaps>>

-----------------------------------------------------------------------------
Tree ==
  \/ \E p, q \in Procs : Fork(p, q)
  \/ \E p \in Procs : LeaveGroup(p) \/ End(p) \/ ParentReaps(p)

Outside ==
  \/ SignalArrives
  \/ \E e \in {"finish", "eof", "invalid"} : ControlArrives(e)
  \/ GraceElapses \/ FiveSecondsPass

Loop ==
  \/ TakeSignal \/ TakeControl \/ Grace \/ WaitMain \/ ListChildren
  \/ \E p \in Procs : LookAt(p)
  \/ ScanEnds \/ LoopFails \/ TermLeft \/ KillLeft \/ ReapEnds

Next == Tree \/ Outside \/ Loop \/ \E p \in Procs : ReapLeft(p)

Spec == Init /\ [][Next]_vars

(* The main thread is scheduled, time passes and SIGKILL ends a process.   *)
(* The tree may ignore every other signal.                                 *)
FairSpec ==
  /\ Spec
  /\ WF_vars(Loop) /\ WF_vars(GraceElapses) /\ WF_vars(FiveSecondsPass)
  /\ \A p \in Procs : WF_vars(p \in killed /\ End(p))

-----------------------------------------------------------------------------
(* Every variable keeps its type; while the scan runs, whoever is still to *)
(* be looked at is a child that was not reaped (supervisor.rs:580-614).    *)
TypeOK ==
  /\ pstate \in [Procs -> {"unborn", "live", "zombie", "reaped"}]
  /\ parent \in [Procs -> Procs \cup {Supervisor}]
  /\ group \subseteq Procs /\ killed \subseteq Procs
  /\ {signal, stopping, graceOver, killSent, mainStatus,
      late, found} \subseteq BOOLEAN
  /\ inbox \in Seq({"finish", "eof", "invalid"})
  /\ mpc \in {"signal", "control", "grace", "wait", "scan", "term", "kill", "reap"} \cup Over
  /\ control \in {"open", "none"}
  /\ todo \subseteq Procs /\ (mpc = "scan" => todo \subseteq Children)
  /\ gaps \subseteq {"control_disconnected", "control_protocol", "control_read",
                     "descendant_timeout"}

(* The scan of the children never takes the command's status away: when    *)
(* the command has been reaped its status is known, and so is the exit     *)
(* code of the run (supervisor.rs:311-320, 349).                           *)
MainStatusKept == pstate[Main] = "reaped" => mainStatus

(* Once the command has been asked to stop the loop ends, also when the    *)
(* command ignores SIGTERM and when the channel is closed or the request   *)
(* repeated meanwhile, unless it has left its process group                *)
(* (supervisor.rs:225-273).                                                *)
StopEnds == stopping ~> mpc \in Over \/ (Main \in Live /\ Main \notin group)

(* Once the command has ended the loop ends, whatever its descendants do   *)
(* (supervisor.rs:311-332).                                                *)
CommandEndsLoop == pstate[Main] = "zombie" ~> mpc \in Over

(* When the loop ends no process of the tree runs, or a gap is noted       *)
(* (IMPLEMENTATION_PLAN.md:239).                                           *)
SurvivorsAreNoted ==
  mpc = "done" => Live = {} \/ "descendant_timeout" \in gaps
=============================================================================
