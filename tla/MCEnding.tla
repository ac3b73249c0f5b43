------------------------------ MODULE MCEnding ------------------------------
(* The end of a run in one instance, with the command, its tree and the    *)
(* requests of others, or with the capture helper among the children.      *)
EXTENDS Lifecycle

CONSTANTS main, Pids, NoPid, MaxQueue

VARIABLES
  part,    \* "tree" or "helper"
  owner, zombies, struck, helper, queue, wpc, poisoned,
  hpc, excluded, left, running, reaping, time

H == INSTANCE HelperScan WITH mpc <- hpc, todo <- left, found <- running

helperVars == <<owner, zombies, struck, helper, queue, wpc, poisoned, hpc, excluded,
                left, running, reaping, time>>

EndingInit == part \in {"tree", "helper"} /\ Init /\ H!Init

EndingNext ==
  \/ part = "tree" /\ Next /\ UNCHANGED <<part, helperVars>>
  \/ part = "helper" /\ H!Next /\ UNCHANGED <<part, vars>>

(* The fairness of Lifecycle and of HelperScan.                            *)
TreeFairness ==
  /\ WF_vars(part = "tree" /\ Loop)
  /\ WF_vars(part = "tree" /\ GraceElapses) /\ WF_vars(part = "tree" /\ FiveSecondsPass)
  /\ \A p \in Procs : WF_vars(part = "tree" /\ p \in killed /\ End(p))

HelperFairness ==
  /\ WF_helperVars(part = "helper" /\ H!Worker) /\ WF_helperVars(part = "helper" /\ H!Loop)
  /\ WF_helperVars(part = "helper" /\ reaping /\ H!TimePasses)
  /\ \A p \in Pids : WF_helperVars(part = "helper" /\ p \in struck /\ H!End(p))

EndingSpec ==
  /\ EndingInit /\ [][EndingNext]_<<part, vars, helperVars>>
  /\ TreeFairness /\ HelperFairness

(* Once the tree has gone the run returns of itself (HelperScan;           *)
(* supervisor.rs:317-320).                                                 *)
EndsByItself == H!EndsByItself

(* When it is late the run returns and leaves no helper (HelperScan;       *)
(* supervisor.rs:317-330; capture.rs:527-538, 699-709).                    *)
LateEnds == H!LateEnds
=============================================================================
