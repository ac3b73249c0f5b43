--------------------------- MODULE LifecycleProofs ---------------------------
(***************************************************************************)
(* For any number of processes: the scan of the children never takes the   *)
(* command's status away, and looks only at children that were not reaped. *)
(***************************************************************************)
EXTENDS Lifecycle, TLAPS

USE MainAssumption, InboxAssumption

Events == {"finish", "eof", "invalid"}
Gaps == {"control_disconnected", "control_protocol", "control_read", "descendant_timeout"}

TreeTyped ==
  /\ pstate \in [Procs -> {"unborn", "live", "zombie", "reaped"}]
  /\ parent \in [Procs -> Procs \cup {Supervisor}]
  /\ group \subseteq Procs /\ killed \subseteq Procs

LoopTyped ==
  /\ signal \in BOOLEAN /\ stopping \in BOOLEAN /\ graceOver \in BOOLEAN
  /\ killSent \in BOOLEAN /\ mainStatus \in BOOLEAN /\ late \in BOOLEAN
  /\ found \in BOOLEAN
  /\ inbox \in Seq(Events)
  /\ mpc \in {"signal", "control", "grace", "wait", "scan", "term", "kill", "reap"} \cup Over
  /\ control \in {"open", "none"}
  /\ gaps \subseteq Gaps

(* The command is the supervisor's own child, so that nobody else waits    *)
(* for it; the loop reaps other children only when its status is known.    *)
StatusKept ==
  /\ pstate[Main] # "unborn" /\ parent[Main] = Supervisor
  /\ mpc \in {"scan", "term", "kill", "reap"} => mainStatus
  /\ pstate[Main] = "reaped" => mainStatus

(* Only the scan reaps a child of the supervisor, and strikes it off.      *)
ScanSound == todo \subseteq Procs /\ (mpc = "scan" => todo \subseteq Children)

IInv == TreeTyped /\ LoopTyped /\ StatusKept /\ ScanSound

LEMMA InitIInv == Init => IInv
<1> SUFFICES ASSUME Init
             PROVE  IInv
  OBVIOUS
<1>1. Main \in Procs /\ inbox \in Seq(Events)
  BY DEF Init
<1> QED BY <1>1 DEF Init, IInv, TreeTyped, LoopTyped, StatusKept, ScanSound, Events, Gaps, Over

(* The processes of the tree fork, leave, end and reap their own children, *)
(* never one of the supervisor's.                                          *)
LEMMA TreeStep == IInv /\ Tree => IInv'
<1> SUFFICES ASSUME IInv, Tree
             PROVE  IInv'
  OBVIOUS
<1> USE DEF IInv, TreeTyped
<1>1. UNCHANGED loopVars
  BY DEF Tree, Fork, LeaveGroup, End, ParentReaps
<1>2. TreeTyped'
  BY DEF Tree, Fork, LeaveGroup, End, ParentReaps, Live
<1>3. LoopTyped'
  BY <1>1 DEF LoopTyped, loopVars, requestVars, stopVars, endVars, scanVars, Over
<1>4. /\ pstate'[Main] # "unborn" /\ parent'[Main] = Supervisor
      /\ pstate'[Main] = "reaped" => pstate[Main] = "reaped"
  BY DEF Tree, Fork, LeaveGroup, End, ParentReaps, Live, StatusKept
<1>5. Children \subseteq Children'
  BY DEF Tree, Fork, LeaveGroup, End, ParentReaps, Live, Children
<1> QED
  BY <1>1, <1>2, <1>3, <1>4, <1>5 DEF StatusKept, ScanSound, loopVars, endVars, scanVars

LEMMA OutsideStep == IInv /\ Outside => IInv'
<1> SUFFICES ASSUME IInv, Outside
             PROVE  IInv'
  OBVIOUS
<1> USE DEF IInv
<1>1. UNCHANGED <<treeVars, mpc, mainStatus, scanVars, control, stopping, killSent, gaps>>
  BY DEF Outside, SignalArrives, ControlArrives, GraceElapses, FiveSecondsPass, stopVars,
     endVars
<1>2. inbox' \in Seq(Events)
  BY DEF Outside, SignalArrives, ControlArrives, GraceElapses, FiveSecondsPass, LoopTyped,
     Events, requestVars
<1>3. signal' \in BOOLEAN /\ graceOver' \in BOOLEAN /\ late' \in BOOLEAN
  BY DEF Outside, SignalArrives, ControlArrives, GraceElapses, FiveSecondsPass, LoopTyped,
     requestVars, stopVars, endVars
<1> QED
  BY <1>1, <1>2, <1>3
     DEF treeVars, scanVars, TreeTyped, LoopTyped, StatusKept, ScanSound, Children

(* The steps of the loop that leave the processes as they are, but for a   *)
(* pending SIGKILL.                                                        *)
LEMMA QuietLoopStep ==
  ASSUME IInv, TakeSignal \/ TakeControl \/ Grace \/ ScanEnds \/ LoopFails
                 \/ TermLeft \/ KillLeft \/ ReapEnds
  PROVE  IInv'
<1> USE DEF IInv, TreeTyped, LoopTyped
<1>1. CASE TakeSignal
  BY <1>1 DEF TakeSignal, StatusKept, ScanSound, treeVars, endVars, scanVars, Over, Children
<1>2. CASE TakeControl
  <2>1. /\ UNCHANGED <<treeVars, signal, graceOver, killSent, endVars, scanVars>>
        /\ mpc' = "grace"
    BY <1>2 DEF TakeControl
  <2>2. inbox' \in Seq(Events)
    BY <1>2 DEF TakeControl
  <2>3. stopping' \in BOOLEAN /\ control' \in {"open", "none"} /\ gaps' \subseteq Gaps
    BY <1>2 DEF TakeControl, Stop, Gaps
  <2> QED
    BY <2>1, <2>2, <2>3 DEF StatusKept, ScanSound, treeVars, endVars, scanVars
<1>3. CASE Grace
  <2>1. UNCHANGED <<pstate, parent, group>> /\ killed' \subseteq Procs
        /\ killSent' \in BOOLEAN /\ mpc' = "wait"
    BY <1>3 DEF Grace, KillGroup, treeVars, Live
  <2>2. UNCHANGED <<requestVars, control, stopping, graceOver, endVars, scanVars, gaps>>
    BY <1>3 DEF Grace
  <2> QED
    BY <2>1, <2>2 DEF StatusKept, ScanSound, requestVars, endVars, scanVars
<1>4. CASE ScanEnds
  <2>1. /\ UNCHANGED <<treeVars, requestVars, stopVars, endVars, scanVars>>
        /\ mpc = "scan" /\ mpc' \in {"done", "term", "signal"} /\ gaps' \subseteq Gaps
    BY <1>4 DEF ScanEnds, Gaps
  <2> QED
    BY <2>1 DEF StatusKept, ScanSound, treeVars, requestVars, stopVars, endVars, scanVars,
       Over
<1>5. CASE LoopFails \/ TermLeft \/ ReapEnds
  BY <1>5 DEF LoopFails, TermLeft, ReapEnds, StatusKept, ScanSound, treeVars, requestVars,
     stopVars, endVars, scanVars, Over
<1>6. CASE KillLeft
  <2>1. UNCHANGED <<pstate, parent, group, requestVars, stopVars, endVars, scanVars, gaps>>
        /\ mpc = "kill" /\ mpc' = "reap" /\ killed' \subseteq Procs
    BY <1>6 DEF KillLeft, KillGroup, Live
  <2> QED
    BY <2>1 DEF StatusKept, ScanSound, requestVars, stopVars, endVars, scanVars
<1> QED BY <1>1, <1>2, <1>3, <1>4, <1>5, <1>6

(* The steps that wait for a child or look at the children.                *)
LEMMA ReapingStep ==
  ASSUME IInv, \/ WaitMain \/ ListChildren
               \/ \E p \in Procs : LookAt(p) \/ ReapLeft(p)
  PROVE  IInv'
<1> USE DEF IInv, TreeTyped, LoopTyped
<1>1. CASE WaitMain
  <2>1. UNCHANGED <<parent, killed, requestVars, stopVars, late, scanVars, gaps>>
        /\ mpc' = "signal"
    BY <1>1 DEF WaitMain
  <2>2. /\ mainStatus' \in BOOLEAN /\ group' \subseteq Procs
        /\ pstate' \in [Procs -> {"unborn", "live", "zombie", "reaped"}]
    BY <1>1 DEF WaitMain
  <2>3. pstate'[Main] # "unborn" /\ (pstate'[Main] = "reaped" => mainStatus')
    BY <1>1 DEF WaitMain, StatusKept
  <2> QED
    BY <2>1, <2>2, <2>3 DEF StatusKept, ScanSound, requestVars, stopVars, scanVars
<1>2. CASE ListChildren
  <2>1. /\ UNCHANGED <<treeVars, requestVars, stopVars, endVars, gaps>>
        /\ todo' = Children /\ found' = FALSE /\ mpc' = "scan" /\ mainStatus
    BY <1>2 DEF ListChildren
  <2>2. todo' \subseteq Procs /\ todo' \subseteq Children'
    BY <2>1 DEF Children, treeVars
  <2> QED
    BY <2>1, <2>2 DEF StatusKept, ScanSound, treeVars, requestVars, stopVars, endVars
<1>3. ASSUME NEW p \in Procs, LookAt(p)
      PROVE  IInv'
  <2>1. /\ UNCHANGED <<parent, killed, requestVars, mpc, stopVars, endVars, gaps>>
        /\ mpc = "scan" /\ todo' = todo \ {p} /\ mainStatus
    BY <1>3 DEF LookAt, StatusKept
  <2>2. /\ found' \in BOOLEAN /\ group' \subseteq Procs
        /\ pstate' \in [Procs -> {"unborn", "live", "zombie", "reaped"}]
        /\ \A q \in Procs : q # p => pstate'[q] = pstate[q]
        /\ pstate'[Main] # "unborn"
    BY <1>3 DEF LookAt, StatusKept
  <2>3. todo' \subseteq Children'
    BY <2>1, <2>2 DEF ScanSound, Children
  <2> QED
    BY <2>1, <2>2, <2>3 DEF StatusKept, ScanSound, requestVars, stopVars, endVars
<1>4. ASSUME NEW p \in Procs, ReapLeft(p)
      PROVE  IInv'
  <2>1. UNCHANGED <<parent, killed, loopVars>> /\ mpc = "reap" /\ mainStatus
    BY <1>4 DEF ReapLeft, StatusKept
  <2>2. /\ group' \subseteq Procs /\ pstate'[Main] # "unborn"
        /\ pstate' \in [Procs -> {"unborn", "live", "zombie", "reaped"}]
    BY <1>4 DEF ReapLeft, StatusKept
  <2> QED
    BY <2>1, <2>2
       DEF StatusKept, ScanSound, loopVars, requestVars, stopVars, endVars, scanVars
<1> QED BY <1>1, <1>2, <1>3, <1>4

LEMMA AlwaysIInv == Spec => []IInv
<1>1. IInv /\ [Next]_vars => IInv'
  <2> SUFFICES ASSUME IInv, [Next]_vars
               PROVE  IInv'
    OBVIOUS
  <2>1. CASE UNCHANGED vars
    BY <2>1 DEF vars, treeVars, requestVars, stopVars, endVars, scanVars, IInv, TreeTyped,
       LoopTyped, StatusKept, ScanSound, Children
  <2> QED
    BY <2>1, TreeStep, OutsideStep, QuietLoopStep, ReapingStep DEF Next, Loop
<1> QED BY InitIInv, <1>1, PTL DEF Spec

(* Every variable keeps its type, and whoever the scan is still to look at *)
(* is a child that was not reaped (supervisor.rs:580-614).                 *)
THEOREM LifecycleTypeOK == Spec => []TypeOK
<1>1. IInv => TypeOK
  BY DEF IInv, TreeTyped, LoopTyped, ScanSound, TypeOK, Events, Gaps
<1> QED BY <1>1, AlwaysIInv, PTL

(* When the command has been reaped its status is known, however many      *)
(* orphans are reaped beside it (supervisor.rs:311-320, 349).              *)
THEOREM StatusIsKept == Spec => []MainStatusKept
<1>1. IInv => MainStatusKept
  BY DEF IInv, StatusKept, MainStatusKept
<1> QED BY <1>1, AlwaysIInv, PTL
=============================================================================
