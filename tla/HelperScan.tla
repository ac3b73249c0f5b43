----------------------------- MODULE HelperScan -----------------------------
(***************************************************************************)
(* The capture helper among the supervisor's children.  When the command   *)
(* has ended, the main loop waits for the children it finds in /proc (see  *)
(* Lifecycle), all but the helper, whose pid it has read before under the  *)
(* store's mutex.  Meanwhile a worker may start another helper or wait for *)
(* one itself (see CaptureHelper).                                         *)
(*                                                                         *)
(* Between a worker's lock and its unlock no other thread has the mutex,   *)
(* so that the worker is whoever holds it.  The command has ended when the *)
(* model begins.                                                           *)
(***************************************************************************)
EXTENDS Naturals

CONSTANTS
  Pids,         \* bound: pids, none of which is taken twice
  NoPid,
  MaxQueue      \* --notification-queue

VARIABLES
  \* the processes
  owner,     \* who has a pid: a child or a grandchild of the command, the helper
  zombies,   \* children of the supervisor that have ended
  struck,    \* pids with a pending SIGKILL
  \* store and workers
  helper,    \* the pid the store knows
  queue,     \* how many requests wait for a worker
  wpc,       \* what the holder of the mutex does
  poisoned,
  \* the main loop
  mpc, excluded, todo, found,
  reaping,   \* in reap_for
  time       \* 1: five seconds have passed, 2: and those of reap_for

treeVars == <<owner, zombies, struck>>
storeVars == <<helper, queue, wpc, poisoned>>
loopVars == <<mpc, excluded, todo, found, reaping, time>>
vars == <<treeVars, storeVars, loopVars>>

Owners == {"nobody", "former", "grandchild", "child", "helper"}
Running == {p \in Pids : owner[p] \in {"grandchild", "child", "helper"}} \ zombies
Descendants == {p \in Running : owner[p] # "helper"}
Children == {p \in Pids : owner[p] \in {"child", "helper"}}

Init ==
  /\ \E p \in Pids : owner = [q \in Pids |-> IF q = p THEN "child" ELSE "nobody"]
  /\ zombies = {} /\ struck = {}
  /\ helper = NoPid /\ queue = 0 /\ wpc = "idle" /\ poisoned = FALSE
  /\ mpc = "poll" /\ excluded = NoPid /\ todo = {} /\ found = FALSE
  /\ reaping = FALSE /\ time = 0

-----------------------------------------------------------------------------
(* The kernel and the tree.                                                *)

(* Somebody waits for a process that has ended.                            *)
Release(p) ==
  /\ owner' = [owner EXCEPT ![p] = "former"]
  /\ zombies' = zombies \ {p} /\ struck' = struck \ {p}

Fork(p) ==
  /\ Descendants # {} /\ owner[p] = "nobody"
  /\ owner' = [owner EXCEPT ![p] = "grandchild"]
  /\ UNCHANGED <<zombies, struck, storeVars, loopVars>>

(* The parent ends and leaves its child to the subreaper.                  *)
Adopt(p) ==
  /\ owner[p] = "grandchild"
  /\ owner' = [owner EXCEPT ![p] = "child"]
  /\ UNCHANGED <<zombies, struck, storeVars, loopVars>>

(* A process ends, of itself or by a signal; a grandchild's parent waits.  *)
End(p) ==
  /\ p \in Running
  /\ \/ p \in Children
        /\ zombies' = zombies \cup {p} /\ struck' = struck \ {p} /\ UNCHANGED owner
     \/ owner[p] = "grandchild" /\ Release(p)
  /\ UNCHANGED <<storeVars, loopVars>>

TimePasses ==
  /\ time = 0 \/ (time = 1 /\ reaping)
  /\ time' = time + 1
  /\ UNCHANGED <<treeVars, storeVars, mpc, excluded, todo, found, reaping>>

-----------------------------------------------------------------------------
(* A worker.  Faulty variants, named for what they get wrong, stand before *)
(* the operator they vary.                                                 *)
Take ==
  /\ wpc = "idle" /\ queue > 0 /\ ~poisoned
  /\ wpc' = "capture" /\ queue' = queue - 1
  /\ UNCHANGED <<treeVars, helper, poisoned, loopVars>>

StartHelper(p) ==
  /\ wpc = "capture" /\ helper = NoPid /\ owner[p] = "nobody"
  /\ helper' = p
  /\ owner' = [owner EXCEPT ![p] = "helper"]
  /\ UNCHANGED <<zombies, struck, queue, wpc, poisoned, loopVars>>

(* The capture is unavailable; so it is at any other error before that.    *)
StartFails ==
  /\ wpc = "capture" /\ helper = NoPid
  /\ wpc' = "idle"
  /\ UNCHANGED <<treeVars, helper, queue, poisoned, loopVars>>

(* The helper's answer is read; the helper may have gone since.            *)
Answered ==
  /\ wpc = "capture" /\ helper # NoPid
  /\ wpc' = "idle"
  /\ UNCHANGED <<treeVars, helper, queue, poisoned, loopVars>>

(* The deadline, or the end of the helper's output.                        *)
NotAnswered ==
  /\ wpc = "capture" /\ helper # NoPid
  /\ wpc' = "kill"
  /\ UNCHANGED <<treeVars, helper, queue, poisoned, loopVars>>

(* kill_and_reap: SIGKILL for whoever has the pid ...                      *)
Kill ==
  /\ wpc = "kill"
  /\ wpc' = "wait"
  /\ struck' = struck \cup ({helper} \cap Running)
  /\ UNCHANGED <<owner, zombies, helper, queue, poisoned, loopVars>>

WaitAgainOnError ==
  /\ wpc = "wait" /\ helper \in Children \cap zombies
  /\ Release(helper)
  /\ wpc' = "idle" /\ helper' = NoPid
  /\ UNCHANGED <<queue, poisoned, loopVars>>

(* ... and a waitpid that blocks while a child has it and runs, and fails  *)
(* when no child has it.                                                   *)
Wait ==
  /\ wpc = "wait"
  /\ \/ helper \in Children \cap zombies /\ Release(helper)
     \/ helper \notin Children /\ UNCHANGED treeVars
  /\ wpc' = "idle" /\ helper' = NoPid
  /\ UNCHANGED <<queue, poisoned, loopVars>>

(* A panic leaves the mutex poisoned and the helper in the store.          *)
Panic ==
  /\ wpc = "capture"
  /\ poisoned' = TRUE /\ wpc' = "idle"
  /\ UNCHANGED <<treeVars, helper, queue, loopVars>>

-----------------------------------------------------------------------------
(* The main loop.                                                          *)

(* A notification of a descendant is received and queued, or bypassed.     *)
Poll ==
  /\ mpc = "poll"
  /\ mpc' = "read"
  /\ \/ Descendants # {} /\ queue < MaxQueue /\ ~poisoned /\ queue' = queue + 1
     \/ UNCHANGED queue
  /\ UNCHANGED <<treeVars, helper, wpc, poisoned, excluded, todo, found, reaping, time>>

ReadNothing ==
  /\ mpc = "read" /\ wpc = "idle"
  /\ mpc' = "list"
  /\ excluded' = NoPid
  /\ UNCHANGED <<treeVars, storeVars, todo, found, reaping, time>>

(* The helper's pid is read under the mutex, and is none if that is        *)
(* poisoned.                                                               *)
ReadHelper ==
  /\ mpc = "read" /\ wpc = "idle"
  /\ mpc' = "list"
  /\ excluded' = IF poisoned THEN NoPid ELSE helper
  /\ UNCHANGED <<treeVars, storeVars, todo, found, reaping, time>>

(* has_live_children: the children of all threads ...                      *)
ListChildren ==
  /\ mpc = "list"
  /\ mpc' = "look"
  /\ todo' = Children \ {excluded} /\ found' = FALSE
  /\ UNCHANGED <<treeVars, storeVars, excluded, reaping, time>>

(* ... are waited for one after the other, whoever has the pid by then.    *)
LookAt(p) ==
  /\ mpc = "look" /\ p \in todo
  /\ todo' = todo \ {p}
  /\ IF p \in zombies THEN Release(p) ELSE UNCHANGED treeVars
  /\ found' = (found \/ p \in Children \cap Running)
  /\ UNCHANGED <<storeVars, mpc, excluded, reaping, time>>

(* Nobody is left, or it is late: then reap_for scans for two seconds,     *)
(* with the same pid excluded.                                             *)
ScanEnds ==
  /\ mpc = "look" /\ todo = {}
  /\ mpc' = CASE ~found \/ time = 2  -> "join"
              [] found /\ time = 1   -> "list"
              [] OTHER               -> "poll"
  /\ reaping' = (found /\ time > 0)
  /\ UNCHANGED <<treeVars, storeVars, excluded, todo, found, time>>

(* The workers take what is queued and leave; a poisoned mutex stops them. *)
JoinWorkers ==
  /\ mpc = "join" /\ wpc = "idle" /\ (queue = 0 \/ poisoned)
  /\ mpc' = "drop"
  /\ UNCHANGED <<treeVars, storeVars, excluded, todo, found, reaping, time>>

(* The store is dropped, out of a poisoned mutex as well, and its helper   *)
(* killed and waited for.                                                  *)
DropStore ==
  /\ mpc = "drop" /\ wpc = "idle"
  /\ IF helper = NoPid
       THEN mpc' = "over" /\ UNCHANGED wpc
       ELSE wpc' = "kill" /\ UNCHANGED mpc
  /\ UNCHANGED <<treeVars, helper, queue, poisoned, excluded, todo, found, reaping, time>>

-----------------------------------------------------------------------------
Tree == \E p \in Pids : Fork(p) \/ Adopt(p) \/ End(p)

Worker ==
  \/ Take \/ StartFails \/ Answered \/ NotAnswered \/ Kill \/ Wait
  \/ \E p \in Pids : StartHelper(p)

Loop ==
  \/ Poll \/ ReadHelper \/ ListChildren \/ ScanEnds \/ JoinWorkers \/ DropStore
  \/ \E p \in Pids : LookAt(p)

Next == Tree \/ TimePasses \/ Worker \/ Panic \/ Loop

Spec == Init /\ [][Next]_vars

(* Threads are scheduled, a capture returns (CallReturns of CaptureHelper) *)
(* and SIGKILL ends a process.  Five seconds need not pass.                *)
FairSpec ==
  /\ Spec
  /\ WF_vars(Worker) /\ WF_vars(Loop)
  /\ WF_vars(reaping /\ TimePasses)
  /\ \A p \in Pids : WF_vars(p \in struck /\ End(p))

-----------------------------------------------------------------------------
TreeGone == Descendants = {} /\ queue = 0 /\ wpc = "idle" /\ ~poisoned

(* Once the tree has gone and captures have ended the run returns of       *)
(* itself, not after five seconds with a gap: the idle helper is no        *)
(* descendant, and neither is one that replaced another while the children *)
(* were looked at, for longer than a scan (supervisor.rs:317-320).         *)
EndsByItself == TreeGone ~> mpc = "over"

(* Five seconds after the command's end the run returns and leaves no      *)
(* helper, running or not, whatever the descendants do: a worker that      *)
(* kills a helper is not stuck when the scan has taken its status, nor the *)
(* loop on the mutex that worker holds, and a poisoned mutex, which makes  *)
(* the idle helper count as a descendant, only makes the run late          *)
(* (supervisor.rs:317-330; capture.rs:527-538, 699-709).                   *)
LateEnds == time > 0 ~> mpc = "over" /\ \A p \in Pids : owner[p] # "helper"
=============================================================================
