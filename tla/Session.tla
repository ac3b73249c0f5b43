------------------------------ MODULE Session ------------------------------
(***************************************************************************)
(* A run from its first file to its receipt: the handshake of Startup, the *)
(* output directory of Output and the adapter of GitReceipt, put together. *)
(* The supervisor may crash at any moment; what it has published stays, a  *)
(* second run may be given the same directory, and the adapter may be      *)
(* killed and started again.                                               *)
(***************************************************************************)
EXTENDS Startup, Naturals, Sequences

CONSTANTS Keys, MaxDiff, Missing, Torn, MaxAttempts, AllowPartial

VARIABLES
  made, files, tmp, writes, stage, left, changes, patch, gaps,
  attempt, gpc, report, side, todo, tree, repo, index, locked, commits, ref,
  receipt

O == INSTANCE Output
G == INSTANCE GitReceipt

(* The candidates are a sequence, the bounds are numbers.                   *)
ASSUME KeysAssumption == Keys \in Seq(O!KeySet)
ASSUME BoundsAssumption == MaxDiff \in Nat /\ MaxAttempts \in Nat

(* No file that is in place holds what stands for a missing or a torn one. *)
ASSUME FilesAssumption ==
  /\ Missing # Torn
  /\ \A x \in {Missing, Torn} :
       /\ x \notin O!Statuses \cup {"none", "gaps"}
       /\ x \notin Seq(O!KeySet)
       /\ x \notin O!Reports

outputVars == <<made, files, tmp, writes, stage, left, changes, patch, gaps>>
gitVars == <<attempt, gpc, report, side, todo, tree, repo, index, locked,
             commits, ref, receipt>>
sessionVars == <<vars, outputVars, gitVars>>

(* The variables of Startup other than sup.                                *)
processVars == <<child, socketVars, holders, filtered, deathsig, doomed, treeVars>>

SessionInit == Init /\ O!OutputInit /\ G!GitInit

Processes ==
  /\ Parent \/ Child \/ Tree
  /\ UNCHANGED <<outputVars, gitVars>>

Kernel ==
  /\ \E p \in Procs : Answer(p) \/ CallReturnsEnosys(p)
  /\ UNCHANGED <<outputVars, gitVars>>

Supervisor == O!OutputStep /\ UNCHANGED <<processVars, gitVars>>

(* The loop ends when the command has ended and was waited for; whether    *)
(* descendants are left is the concern of Lifecycle.                       *)
LoopEnds ==
  /\ child = "ended"
  /\ O!LoopEnds
  /\ UNCHANGED <<processVars, gitVars>>

SupervisorGone ==
  /\ SupervisorEnds
  /\ O!Forgotten
  /\ UNCHANGED <<gitVars>>

(* The adapter is given the output of a run that has ended, by itself or   *)
(* by a crash.  Bound: it does nothing while another run looks at that     *)
(* output.                                                                 *)
Adapter ==
  /\ sup = "gone"
  /\ G!GitStep
  /\ UNCHANGED <<vars, outputVars>>

(* When nothing of a run is alive, another one is given its directory; it  *)
(* forks only if the first one never made the directory, and so has never  *)
(* forked.                                                                 *)
RunAgain ==
  /\ sup = "gone" /\ child \in Over /\ running = {}
  /\ sup' = "before"
  /\ UNCHANGED <<processVars, outputVars, gitVars>>

SessionNext ==
  \/ Processes \/ Kernel \/ Supervisor \/ LoopEnds \/ SupervisorGone
  \/ Adapter \/ RunAgain

(* Startup's fairness; the supervisor's other steps end as well.           *)
SessionSpec ==
  /\ SessionInit /\ [][SessionNext]_sessionVars
  /\ WF_sessionVars(Parent /\ UNCHANGED <<outputVars, gitVars>>)
  /\ WF_sessionVars(Child /\ UNCHANGED <<outputVars, gitVars>>)
  /\ \A p \in Procs :
       WF_sessionVars(CallReturnsEnosys(p) /\ UNCHANGED <<outputVars, gitVars>>)

-----------------------------------------------------------------------------
(* Every variable of the three modules keeps its type.                     *)
SessionTypeOK ==
  /\ sup \in {"before", "starting", "spawn", "failing", "spawn_error", "spawned",
              "announcing", "serving", "finish", "publishing", "done", "error",
              "gone"} \cup Spawning
  /\ child \in Handshaking \cup Over \cup {"command"}
  /\ holders \subseteq {"child", "message", "sup"}
  /\ O!OutputTypeOK
  /\ G!GitTypeOK

(* CommandIsWatched of Startup, with the stages of run after the spawn.     *)
CommandIsWatchedInRun ==
  (child = "command" \/ running # {}) =>
     \/ sup \in {"spawned", "announcing", "serving", "finish", "publishing",
                 "done", "error"} /\ "sup" \in holders
     \/ sup = "gone"

(* The status tells what became of the command: "failed" is published only *)
(* when it was never executed and never will be, a final status only when  *)
(* it has ended (supervisor.rs:189-199, 311-320, report.rs:132).           *)
StatusTellsOfCommand ==
  /\ files["status"] = "failed" => child \notin {"exec", "command", "ended"}
  /\ files["status"] \in O!Final => child \in Over /\ child \notin Failed

(* A published final status and all the files beside it stay as they are:  *)
(* nothing the supervisor does afterwards and no later run with the same   *)
(* output touches them (capture.rs:162-173).                               *)
FinalStays ==
  [][files["status"] \in O!Final => UNCHANGED files]_sessionVars

(* Adapters that were killed and started again give the same receipt.      *)
ReceiptStays ==
  [][receipt # Missing => UNCHANGED receipt]_sessionVars

ReportHasPatch == O!ReportHasPatch
FinalStatusIsBacked == O!FinalStatusIsBacked
ReceiptIsBacked == G!ReceiptIsBacked
=============================================================================
