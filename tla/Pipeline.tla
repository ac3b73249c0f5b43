------------------------------ MODULE Pipeline ------------------------------
(***************************************************************************)
(* The notification pipeline of fs-tracker run (supervisor.rs, with        *)
(* CaptureStore of capture.rs and report::finish of report.rs): the kernel *)
(* blocks a system call of the target tree and posts a notification, the   *)
(* main loop receives it and hands it to a bounded queue, one of the       *)
(* worker threads takes it, holds the store's mutex while it captures the  *)
(* original state of the paths the call may change, and lets the call      *)
(* continue.  When the tree has ended the main loop stops the workers,     *)
(* captures the final states and publishes the report.                     *)
(*                                                                         *)
(* A notification is a member of Reqs, a system call is the set of tracked *)
(* paths it may change and whether the code reports a coverage gap for it. *)
(***************************************************************************)
EXTENDS Naturals, Sequences, FiniteSets

CONSTANTS
  Reqs,           \* bound: the notifications of one run
  Workers,        \* capture worker threads
  Tracked,        \* paths inside the roots and not excluded
  Contents,       \* states of a path, Absent included
  Begin,          \* the tracked paths when the command is spawned
  StdioPaths,     \* tracked paths the target inherits as writable stdio
  Ops,            \* the system calls the tree may issue
  QueueCapacity,  \* --notification-queue
  MaxFiles,       \* --max-files
  MayPanic,       \* whether a worker may panic while it handles a request
  ScanMayMiss,    \* whether has_live_children may overlook a descendant
  NotCaptured,    \* no candidate for this path
  Unavailable,    \* FileState::Unavailable
  NoReq, NoOp, Nobody

ASSUME BeginAssumption == Begin \in [Tracked -> Contents]
ASSUME StdioAssumption == StdioPaths \subseteq Tracked
ASSUME OpsAssumption == Ops \subseteq [paths : SUBSET Tracked, opaque : BOOLEAN]
ASSUME LimitsAssumption == QueueCapacity \in Nat \ {0} /\ MaxFiles \in Nat
ASSUME FlagsAssumption == MayPanic \in BOOLEAN /\ ScanMayMiss \in BOOLEAN
ASSUME DistinctAssumption ==
  /\ NotCaptured \notin Contents /\ Unavailable \notin Contents
  /\ NotCaptured # Unavailable
  /\ NoReq \notin Reqs /\ NoOp \notin Ops /\ Nobody \notin Workers

VARIABLES
  \* the target tree and the kernel
  tree,      \* "unborn", "live", "orphans" (the main process has exited) or "dead"
  file,      \* content of each tracked path
  writable,  \* paths the tree has been let through to change
  status,    \* where each notification stands for the kernel
  op,        \* the system call behind each notification
  \* the main thread
  mpc, mreq,
  mtodo,     \* paths the main thread still has to capture
  pending,   \* pending_gaps: gap kinds kept outside the store
  \* the queue and the workers
  queue, wpc, wreq,
  wtodo,     \* paths the worker still has to capture for its request
  \* the store and its mutex
  lock, poisoned, before, after, gaps,
  \* report.json
  report

targetVars == <<tree, file, writable, op>>
mainVars == <<mpc, mreq, mtodo, pending>>
workerVars == <<wpc, wreq, wtodo>>
storeVars == <<before, after, gaps>>
vars == <<tree, file, writable, op, status, mpc, mreq, mtodo, pending, queue,
          wpc, wreq, wtodo, lock, poisoned, before, after, gaps, report>>

Candidates == {p \in Tracked : before[p] # NotCaptured}
Gone(r) == status[r] = "gone"
Alive == tree \in {"live", "orphans"}
Receiving == {w \in Workers : wpc[w] \notin {"exited", "panicked"}}
NoReport == [state |-> "none", changes |-> {}]

-----------------------------------------------------------------------------
(* Faulty variants of an operator, named for what they get wrong, stand    *)
(* before it: they show that the properties notice such an error.          *)

CaptureBeforeOneTooMany(p) ==
  \/ /\ before[p] # NotCaptured
     /\ UNCHANGED <<before, gaps>>
  \/ /\ before[p] = NotCaptured
     /\ Cardinality(Candidates) <= MaxFiles
     /\ before' = [before EXCEPT ![p] = file[p]]
     /\ UNCHANGED gaps

CaptureBeforeSilentQuota(p) ==
  IF before[p] = NotCaptured /\ Cardinality(Candidates) < MaxFiles
    THEN before' = [before EXCEPT ![p] = file[p]] /\ UNCHANGED gaps
    ELSE UNCHANGED <<before, gaps>>

CaptureBeforeAgain(p) ==
  IF Cardinality(Candidates) < MaxFiles \/ p \in Candidates
    THEN before' = [before EXCEPT ![p] = file[p]] /\ UNCHANGED gaps
    ELSE gaps' = gaps \cup {"file_quota"} /\ UNCHANGED before

(* CaptureStore::capture_before.  A tracked path that is not a candidate   *)
(* yet is captured under the quota; the helper answers with the content or *)
(* with Unavailable, with or without gaps.                                 *)
CaptureBefore(p) ==
  \/ /\ before[p] # NotCaptured
     /\ UNCHANGED <<before, gaps>>
  \/ /\ before[p] = NotCaptured
     /\ Cardinality(Candidates) >= MaxFiles
     /\ gaps' = gaps \cup {"file_quota"}
     /\ UNCHANGED before
  \/ /\ before[p] = NotCaptured
     /\ Cardinality(Candidates) < MaxFiles
     /\ \E s \in {file[p], Unavailable} : before' = [before EXCEPT ![p] = s]
     /\ gaps' \in {gaps, gaps \cup {"capture"}}

Init ==
  /\ tree = "unborn"
  /\ file = Begin
  /\ writable = {}
  /\ status = [r \in Reqs |-> "unused"]
  /\ op = [r \in Reqs |-> NoOp]
  /\ mpc = "stdio" /\ mreq = NoReq /\ mtodo = StdioPaths /\ pending = {}
  /\ queue = <<>>
  /\ wpc = [w \in Workers |-> "idle"]
  /\ wreq = [w \in Workers |-> NoReq]
  /\ wtodo = [w \in Workers |-> {}]
  /\ lock = Nobody /\ poisoned = FALSE
  /\ before = [p \in Tracked |-> NotCaptured]
  /\ after = [p \in Tracked |-> NotCaptured]
  /\ gaps = {}
  /\ report = NoReport

-----------------------------------------------------------------------------
(* The target tree and the kernel.                                         *)

(* A thread of the tree enters a filtered system call: it blocks and the   *)
(* kernel queues a notification for the listener.                          *)
Post(r) ==
  /\ Alive /\ status[r] = "unused"
  /\ status' = [status EXCEPT ![r] = "posted"]
  /\ \E o \in Ops : op' = [op EXCEPT ![r] = o]
  /\ UNCHANGED <<tree, file, writable, mainVars, queue, workerVars, lock,
                 poisoned, storeVars, report>>

(* The blocked thread is killed or its call is interrupted by a signal:    *)
(* the notification is no longer valid.                                    *)
Vanish(r) ==
  /\ Alive /\ status[r] \in {"posted", "received"}
  /\ status' = [status EXCEPT ![r] = "gone"]
  /\ UNCHANGED <<targetVars, mainVars, queue, workerVars, lock, poisoned,
                 storeVars, report>>

(* The tree uses what it has been let through to do.                       *)
TargetWrites(p, c) ==
  /\ Alive /\ p \in writable
  /\ file' = [file EXCEPT ![p] = c]
  /\ UNCHANGED <<tree, writable, op, status, mainVars, queue, workerVars, lock,
                 poisoned, storeVars, report>>

(* The spawned command exits and leaves descendants behind.                *)
CommandExits ==
  /\ tree = "live"
  /\ tree' = "orphans"
  /\ UNCHANGED <<file, writable, op, status, mainVars, queue, workerVars, lock,
                 poisoned, storeVars, report>>

(* The last process of the tree exits.                                     *)
TreeEnds ==
  /\ Alive
  /\ tree' = "dead"
  /\ status' = [r \in Reqs |-> IF status[r] \in {"posted", "received"}
                                 THEN "gone" ELSE status[r]]
  /\ UNCHANGED <<file, writable, op, mainVars, queue, workerVars, lock,
                 poisoned, storeVars, report>>

(* NOTIF_SEND with the CONTINUE flag: it fails when the notification is    *)
(* not valid any more, and otherwise the system call takes effect.         *)
Permit(r) ==
  IF Gone(r)
    THEN UNCHANGED <<status, writable>>
    ELSE /\ status' = [status EXCEPT ![r] = "continued"]
         /\ writable' = writable \cup (IF op[r].opaque THEN Tracked ELSE op[r].paths)

-----------------------------------------------------------------------------
(* The main thread.                                                        *)

(* capture_writable_stdio, one descriptor at a time.                       *)
CaptureStdio(p) ==
  /\ mpc = "stdio" /\ p \in mtodo
  /\ mtodo' = mtodo \ {p}
  /\ \/ CaptureBefore(p)
     \/ gaps' = gaps \cup {"stdio_fd"} /\ UNCHANGED before
  /\ UNCHANGED <<targetVars, status, mpc, mreq, pending, queue, workerVars,
                 lock, poisoned, after, report>>

Spawn ==
  /\ mpc = "stdio" /\ mtodo = {}
  /\ tree' = "live" /\ writable' = StdioPaths
  /\ mpc' = "poll"
  /\ UNCHANGED <<file, op, status, mreq, mtodo, pending, queue, workerVars,
                 lock, poisoned, storeVars, report>>

SpawnFails ==
  /\ mpc = "stdio" /\ mtodo = {}
  /\ mpc' = "spawn_error"
  /\ UNCHANGED <<targetVars, status, mreq, mtodo, pending, queue, workerVars,
                 lock, poisoned, storeVars, report>>

EnqueueOneTooMany(r) ==
  /\ mpc = "poll" /\ status[r] = "posted" /\ Len(queue) <= QueueCapacity
  /\ status' = [status EXCEPT ![r] = "received"]
  /\ queue' = Append(queue, r)
  /\ UNCHANGED <<targetVars, mainVars, workerVars, lock, poisoned, storeVars,
                 report>>

(* NOTIF_RECV, and try_send finds room in the queue.                       *)
Enqueue(r) ==
  /\ mpc = "poll" /\ status[r] = "posted"
  /\ Receiving # {} /\ Len(queue) < QueueCapacity
  /\ status' = [status EXCEPT ![r] = "received"]
  /\ queue' = Append(queue, r)
  /\ UNCHANGED <<targetVars, mainVars, workerVars, lock, poisoned, storeVars,
                 report>>

(* NOTIF_RECV, and try_send returns the request: the main loop answers it. *)
Bypass(r, kind) ==
  /\ mpc = "poll" /\ status[r] = "posted"
  /\ status' = [status EXCEPT ![r] = "received"]
  /\ mpc' = "bypass" /\ mreq' = r
  /\ pending' = pending \cup {kind}
  /\ UNCHANGED <<targetVars, mtodo, queue, workerVars, lock, poisoned,
                 storeVars, report>>

QueueFull(r) ==
  /\ Receiving # {} /\ Len(queue) >= QueueCapacity
  /\ Bypass(r, "worker_queue_full")

PoolStopped(r) ==
  /\ Receiving = {}
  /\ Bypass(r, "worker_pool_stopped")

BypassWithoutReply ==
  /\ mpc = "bypass"
  /\ mpc' = "poll" /\ mreq' = NoReq
  /\ UNCHANGED <<targetVars, status, mtodo, pending, queue, workerVars, lock,
                 poisoned, storeVars, report>>

(* notification_valid and continue_notification, both errors ignored.      *)
BypassReply ==
  /\ mpc = "bypass"
  /\ Permit(mreq)
  /\ mpc' = "poll" /\ mreq' = NoReq
  /\ UNCHANGED <<tree, file, op, mtodo, pending, queue, workerVars, lock,
                 poisoned, storeVars, report>>

(* NOTIF_RECV fails with an error that is neither EINTR nor ENOENT.        *)
ReceiveFails ==
  /\ mpc = "poll" /\ \E r \in Reqs : status[r] = "posted"
  /\ pending' = pending \cup {"notification_receive"}
  /\ UNCHANGED <<targetVars, status, mpc, mreq, mtodo, queue, workerVars, lock,
                 poisoned, storeVars, report>>

(* The main process has exited and has_live_children finds nobody; reading *)
(* helper_pid takes the store's mutex first.                               *)
Stop ==
  /\ mpc = "poll" /\ lock = Nobody
  /\ \/ tree = "dead"
     \/ tree = "orphans" /\ ScanMayMiss
  /\ mpc' = "joining"
  /\ UNCHANGED <<targetVars, status, mreq, mtodo, pending, queue, workerVars,
                 lock, poisoned, storeVars, report>>

StopWhenDeadOnly ==
  /\ mpc = "poll" /\ lock = Nobody /\ tree = "dead"
  /\ mpc' = "joining"
  /\ UNCHANGED <<targetVars, status, mreq, mtodo, pending, queue, workerVars,
                 lock, poisoned, storeVars, report>>

(* Five seconds after the main process exited descendants are still there. *)
(* They get TERM and KILL, but some may survive.                           *)
StopOnTimeout ==
  /\ mpc = "poll" /\ lock = Nobody
  /\ tree \in {"orphans", "dead"}
  /\ mpc' = "joining"
  /\ pending' = pending \cup {"descendant_timeout"}
  /\ UNCHANGED <<targetVars, status, mreq, mtodo, queue, workerVars, lock,
                 poisoned, storeVars, report>>

(* An error of poll, waitpid or the /proc scan leaves run at once.         *)
LoopFails ==
  /\ mpc = "poll"
  /\ mpc' = "loop_error"
  /\ UNCHANGED <<targetVars, status, mreq, mtodo, pending, queue, workerVars,
                 lock, poisoned, storeVars, report>>

JoinForgetsPending ==
  /\ mpc = "joining" /\ \A w \in Workers : wpc[w] = "exited"
  /\ mpc' = "reporting" /\ pending' = {} /\ mtodo' = Candidates
  /\ UNCHANGED <<targetVars, status, mreq, queue, workerVars, lock, poisoned,
                 storeVars, report>>

(* WorkerPool::shutdown joins every worker, then the gaps kept aside reach *)
(* the store.                                                              *)
JoinWorkers ==
  /\ mpc = "joining" /\ \A w \in Workers : wpc[w] = "exited"
  /\ mpc' = "reporting"
  /\ gaps' = gaps \cup pending /\ pending' = {}
  /\ mtodo' = Candidates
  /\ UNCHANGED <<targetVars, status, mreq, queue, workerVars, lock, poisoned,
                 before, after, report>>

(* A worker that panicked ends the joins, and the poisoned mutex (or an    *)
(* owner that still runs) makes run return an error: nothing is reported.  *)
JoinFails ==
  /\ mpc = "joining" /\ \E w \in Workers : wpc[w] = "panicked"
  /\ mpc' = "poison_error"
  /\ pending' = pending \cup {"worker_panic"}
  /\ UNCHANGED <<targetVars, status, mreq, mtodo, queue, workerVars, lock,
                 poisoned, storeVars, report>>

(* report::finish captures the final state of every candidate ...          *)
CaptureAfter(p) ==
  /\ mpc = "reporting" /\ p \in mtodo
  /\ mtodo' = mtodo \ {p}
  /\ \E s \in {file[p], Unavailable} : after' = [after EXCEPT ![p] = s]
  /\ gaps' \in {gaps, gaps \cup {"capture"}}
  /\ UNCHANGED <<targetVars, status, mpc, mreq, pending, queue, workerVars,
                 lock, poisoned, before, report>>

(* ... classifies it (report::classify) ...                                *)
Changed(p) == before[p] # after[p] \/ before[p] = Unavailable

Changes == {[path |-> p, before |-> before[p], after |-> after[p]] :
              p \in {q \in Candidates : Changed(q)}}

CoverageFromGapsOnly == gaps = {}

FullCoverage ==
  gaps = {} /\ \A c \in Changes : Unavailable \notin {c.before, c.after}

(* ... and publishes.                                                      *)
Publish ==
  /\ mpc = "reporting" /\ mtodo = {}
  /\ report' = [state |-> IF FullCoverage THEN "finished" ELSE "partial",
                changes |-> Changes]
  /\ mpc' = "done"
  /\ UNCHANGED <<targetVars, status, mreq, mtodo, pending, queue, workerVars,
                 lock, poisoned, storeVars>>

(* A diff cannot be made or a file of the output cannot be written.        *)
PublishFails ==
  /\ mpc = "reporting"
  /\ mpc' = "report_error"
  /\ UNCHANGED <<targetVars, status, mreq, mtodo, pending, queue, workerVars,
                 lock, poisoned, storeVars, report>>

-----------------------------------------------------------------------------
(* The capture workers; they stop with the process when run returns.       *)
Errors == {"spawn_error", "loop_error", "poison_error", "report_error"}

At(w, pcs) == wpc[w] \in pcs /\ mpc \notin Errors

(* The buffered requests are dropped with the last receiver.               *)
DropQueueWithLast(w) == queue' = IF Receiving = {w} THEN <<>> ELSE queue

(* The end of handle_notification releases the mutex.                      *)
Release(w) ==
  /\ lock' = Nobody
  /\ wpc' = [wpc EXCEPT ![w] = "idle"]
  /\ wreq' = [wreq EXCEPT ![w] = NoReq]
  /\ wtodo' = [wtodo EXCEPT ![w] = {}]

Take(w) ==
  /\ At(w, {"idle"}) /\ queue # <<>>
  /\ wreq' = [wreq EXCEPT ![w] = Head(queue)]
  /\ queue' = Tail(queue)
  /\ wpc' = [wpc EXCEPT ![w] = "locking"]
  /\ UNCHANGED <<targetVars, status, mainVars, wtodo, lock, poisoned, storeVars,
                 report>>

(* recv fails once the sender is dropped and the queue is drained.         *)
Exit(w) ==
  /\ At(w, {"idle"}) /\ queue = <<>> /\ mpc = "joining"
  /\ wpc' = [wpc EXCEPT ![w] = "exited"]
  /\ UNCHANGED <<targetVars, status, mainVars, queue, wreq, wtodo, lock,
                 poisoned, storeVars, report>>

LockStore(w) ==
  /\ At(w, {"locking"}) /\ lock = Nobody /\ ~poisoned
  /\ lock' = w
  /\ wpc' = [wpc EXCEPT ![w] = "checking"]
  /\ UNCHANGED <<targetVars, status, mainVars, queue, wreq, wtodo, poisoned,
                 storeVars, report>>

(* The mutex is poisoned: the request is let through and the worker ends.  *)
LockPoisoned(w) ==
  /\ At(w, {"locking"}) /\ lock = Nobody /\ poisoned
  /\ Permit(wreq[w])
  /\ wpc' = [wpc EXCEPT ![w] = "exited"]
  /\ wreq' = [wreq EXCEPT ![w] = NoReq]
  /\ DropQueueWithLast(w)
  /\ UNCHANGED <<tree, file, op, mainVars, wtodo, lock, poisoned, storeVars,
                 report>>

(* process_request starts with NOTIF_ID_VALID; a stale request is dropped. *)
CheckValid(w) ==
  /\ At(w, {"checking"})
  /\ IF Gone(wreq[w])
       THEN Release(w)
       ELSE /\ wpc' = [wpc EXCEPT ![w] = "reading"]
            /\ UNCHANGED <<lock, wreq, wtodo>>
  /\ UNCHANGED <<targetVars, status, mainVars, queue, poisoned, storeVars,
                 report>>

(* The arguments are read through /proc and the call is told apart.        *)
ReadCall(w) ==
  /\ At(w, {"reading"})
  /\ wtodo' = [wtodo EXCEPT ![w] = op[wreq[w]].paths]
  /\ gaps' = gaps \cup (IF op[wreq[w]].opaque THEN {"coverage"} ELSE {})
  /\ wpc' = [wpc EXCEPT ![w] = "capturing"]
  /\ UNCHANGED <<targetVars, status, mainVars, queue, wreq, lock, poisoned,
                 before, after, report>>

Capture(w, p) ==
  /\ At(w, {"capturing"}) /\ p \in wtodo[w]
  /\ CaptureBefore(p)
  /\ wtodo' = [wtodo EXCEPT ![w] = @ \ {p}]
  /\ UNCHANGED <<targetVars, status, mainVars, queue, wpc, wreq, lock, poisoned,
                 after, report>>

(* Reading the call's arguments fails with ENOENT or ESRCH and the request *)
(* is stale: it is dropped.                                                *)
DropStale(w) ==
  /\ At(w, {"reading", "capturing"}) /\ Gone(wreq[w])
  /\ wpc[w] = "capturing" => wtodo[w] # {}
  /\ Release(w)
  /\ UNCHANGED <<targetVars, status, mainVars, queue, poisoned, storeVars,
                 report>>

(* Any other failure is a gap: the request is live, or the error carries   *)
(* no errno (the pathname of an exiting process reads as no bytes).        *)
FailRead(w) ==
  /\ At(w, {"reading", "capturing"})
  /\ wpc[w] = "capturing" => wtodo[w] # {}
  /\ gaps' = gaps \cup {"notification_processing"}
  /\ wtodo' = [wtodo EXCEPT ![w] = {}]
  /\ wpc' = [wpc EXCEPT ![w] = "capturing"]
  /\ UNCHANGED <<targetVars, status, mainVars, queue, wreq, lock, poisoned,
                 before, after, report>>

(* The second NOTIF_ID_VALID, after the captures.                          *)
Recheck(w) ==
  /\ At(w, {"capturing"}) /\ wtodo[w] = {}
  /\ IF Gone(wreq[w])
       THEN Release(w)
       ELSE /\ wpc' = [wpc EXCEPT ![w] = "sending"]
            /\ UNCHANGED <<lock, wreq, wtodo>>
  /\ UNCHANGED <<targetVars, status, mainVars, queue, poisoned, storeVars,
                 report>>

Continue(w) ==
  /\ At(w, {"sending"})
  /\ Permit(wreq[w])
  /\ gaps' = gaps \cup (IF Gone(wreq[w]) THEN {"notification_continue"} ELSE {})
  /\ Release(w)
  /\ UNCHANGED <<tree, file, op, mainVars, queue, poisoned, before, after,
                 report>>

PanicWithoutPoison(w) ==
  /\ MayPanic /\ At(w, {"checking", "reading", "capturing", "sending"})
  /\ wpc' = [wpc EXCEPT ![w] = "panicked"]
  /\ lock' = Nobody
  /\ wreq' = [wreq EXCEPT ![w] = NoReq] /\ wtodo' = [wtodo EXCEPT ![w] = {}]
  /\ UNCHANGED <<targetVars, status, mainVars, queue, poisoned, storeVars, report>>

(* A worker panics while it handles a request: its guard poisons the mutex *)
(* as it is dropped, and nobody answers the request.                       *)
Panic(w) ==
  /\ MayPanic /\ At(w, {"checking", "reading", "capturing", "sending"})
  /\ lock' = Nobody /\ poisoned' = TRUE
  /\ wpc' = [wpc EXCEPT ![w] = "panicked"]
  /\ wreq' = [wreq EXCEPT ![w] = NoReq]
  /\ wtodo' = [wtodo EXCEPT ![w] = {}]
  /\ DropQueueWithLast(w)
  /\ UNCHANGED <<targetVars, status, mainVars, storeVars, report>>

-----------------------------------------------------------------------------
Target ==
  \/ \E r \in Reqs : Post(r) \/ Vanish(r)
  \/ \E p \in Tracked, c \in Contents : TargetWrites(p, c)
  \/ CommandExits \/ TreeEnds

Main ==
  \/ \E p \in Tracked : CaptureStdio(p) \/ CaptureAfter(p)
  \/ Spawn \/ SpawnFails
  \/ \E r \in Reqs : Enqueue(r) \/ QueueFull(r) \/ PoolStopped(r)
  \/ BypassReply \/ ReceiveFails
  \/ Stop \/ StopOnTimeout \/ LoopFails
  \/ JoinWorkers \/ JoinFails
  \/ Publish \/ PublishFails

Worker(w) ==
  \/ Take(w) \/ Exit(w)
  \/ LockStore(w) \/ LockPoisoned(w)
  \/ CheckValid(w) \/ ReadCall(w)
  \/ \E p \in Tracked : Capture(w, p)
  \/ DropStale(w) \/ FailRead(w)
  \/ Recheck(w) \/ Continue(w)
  \/ Panic(w)

(* run has returned; only the target, if it outlives run, still moves.     *)
Returned == mpc \in Errors \cup {"done"} /\ UNCHANGED vars

Next ==
  \/ Target
  \/ Main
  \/ \E w \in Workers : Worker(w)
  \/ Returned

Spec == Init /\ [][Next]_vars

(* The threads of the supervisor are scheduled, and every step of a worker *)
(* ends: a capture is bounded by the helper's deadline.  The five seconds  *)
(* of the descendant timeout go by.  Nothing is assumed of the target or   *)
(* of failures.                                                            *)
Steps(w) ==
  \/ Take(w) \/ Exit(w) \/ LockStore(w) \/ LockPoisoned(w)
  \/ CheckValid(w) \/ ReadCall(w)
  \/ \E p \in Tracked : Capture(w, p)
  \/ Recheck(w) \/ Continue(w)

Receive == \E r \in Reqs : Enqueue(r) \/ QueueFull(r) \/ PoolStopped(r)

FairSpec ==
  /\ Spec
  /\ \A w \in Workers : WF_vars(Steps(w))
  /\ WF_vars(Receive) /\ WF_vars(BypassReply)
  /\ WF_vars(Stop) /\ WF_vars(StopOnTimeout)
  /\ WF_vars(JoinWorkers) /\ WF_vars(JoinFails)
  /\ WF_vars(\E p \in Tracked : CaptureAfter(p))
  /\ WF_vars(Publish)

-----------------------------------------------------------------------------
GapKinds == {"file_quota", "capture", "stdio_fd", "coverage",
             "notification_processing", "notification_continue",
             "notification_receive", "worker_queue_full",
             "worker_pool_stopped", "worker_panic", "descendant_timeout"}

States == Contents \cup {NotCaptured, Unavailable}

(* Every variable keeps its type, and the queue its capacity               *)
(* (supervisor.rs:132).                                                    *)
TypeOK ==
  /\ tree \in {"unborn", "live", "orphans", "dead"}
  /\ file \in [Tracked -> Contents]
  /\ writable \subseteq Tracked
  /\ status \in [Reqs -> {"unused", "posted", "received", "continued", "gone"}]
  /\ op \in [Reqs -> Ops \cup {NoOp}]
  /\ mpc \in {"stdio", "poll", "bypass", "joining", "reporting", "done"} \cup Errors
  /\ mreq \in Reqs \cup {NoReq}
  /\ mtodo \subseteq Tracked
  /\ pending \subseteq GapKinds /\ gaps \subseteq GapKinds
  /\ queue \in Seq(Reqs) /\ Len(queue) <= QueueCapacity
  /\ wpc \in [Workers -> {"idle", "locking", "checking", "reading", "capturing",
                          "sending", "exited", "panicked"}]
  /\ wreq \in [Workers -> Reqs \cup {NoReq}]
  /\ wtodo \in [Workers -> SUBSET Tracked]
  /\ lock \in Workers \cup {Nobody} /\ poisoned \in BOOLEAN
  /\ before \in [Tracked -> States] /\ after \in [Tracked -> States]
  /\ report \in [state : {"none", "finished", "partial"},
                  changes : SUBSET [path : Tracked, before : States, after : States]]

(* The original content of a path is known.                                *)
Recorded == {p \in Tracked : before[p] \in Contents}

(* Coverage is lost, wherever the loss is noted.                           *)
Degraded ==
  \/ gaps # {} \/ pending # {} \/ poisoned
  \/ \E p \in Tracked : Unavailable \in {before[p], after[p]}

(* A report that says "finished" is about a tree that has ended and lists  *)
(* exactly the tracked paths that differ from their state at the spawn,    *)
(* with both states: no thread interleaving, full queue, stale request,    *)
(* quota or panic can make it silently wrong (report.rs:75-83).            *)
FinishedIsExact ==
  report.state = "finished" =>
    /\ tree = "dead"
    /\ report.changes =
         {[path |-> p, before |-> Begin[p], after |-> file[p]] :
            p \in {q \in Tracked : file[q] # Begin[q]}}

(* The tree is let through to change a path only when the path's original  *)
(* is recorded or the loss is noted already, also when the main loop or a  *)
(* worker that found the mutex poisoned answers (supervisor.rs:298-300,    *)
(* 150-153).                                                               *)
NoBlindContinue == Degraded \/ writable \subseteq Recorded

Holders(r) == {w \in Workers : wreq[w] = r}
Queued(r) == {i \in DOMAIN queue : queue[i] = r}

(* A notification that was received and not answered is in the queue, with *)
(* one worker or with the main loop, and in one place only: none is        *)
(* forgotten on a hand-over and none is answered twice.  After a panic the *)
(* request it left, and those of a queue without receivers, have none.     *)
OneOwner ==
  \A r \in Reqs :
    LET owners == Cardinality(Holders(r)) + Cardinality(Queued(r))
                    + (IF mreq = r THEN 1 ELSE 0)
    IN  /\ owners <= 1
        /\ status[r] = "received" /\ ~poisoned => owners = 1

(* Never more candidates than --max-files, though the count is read and    *)
(* the candidate inserted in different steps of a capture.                 *)
QuotaRespected == Cardinality(Candidates) <= MaxFiles

(* The first state captured for a path is never replaced, whatever several *)
(* requests for the path do later (capture.rs:226-228).                    *)
FirstCaptureStays ==
  [][\A p \in Candidates : before'[p] = before[p]]_vars

(* Coverage that was lost stays lost until the report.                     *)
LossIsKept == [][Degraded => Degraded']_vars

(* A blocked call of the tree is answered, unless its thread goes away or  *)
(* the main loop leaves its loop.                                          *)
CallsAreAnswered ==
  \A r \in Reqs :
    status[r] = "posted" ~> \/ status[r] \in {"continued", "gone"}
                            \/ mpc \notin {"poll", "bypass"}

(* Once the command has exited run returns, even when descendants stay:    *)
(* the workers are joined and the report is published, or an error is      *)
(* returned (supervisor.rs:316-351).                                       *)
RunReturns == tree \in {"orphans", "dead"} ~> mpc \in Errors \cup {"done"}

-----------------------------------------------------------------------------
(* The promise this pipeline keeps.  An original that could not be read is *)
(* not recorded, and the changes of a partial report are forgotten.        *)
Promise == INSTANCE Baseline WITH
  NotRecorded <- NotCaptured,
  original <- [p \in Tracked |-> IF before[p] = Unavailable
                                   THEN NotCaptured ELSE before[p]],
  permitted <- writable,
  degraded <- Degraded,
  ended <- tree = "dead",
  report <- IF report.state = "partial"
              THEN [state |-> "partial", changes |-> {}] ELSE report

KeepsPromise == Promise!Spec
=============================================================================
