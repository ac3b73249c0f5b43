------------------------- MODULE PipelineRefinement -------------------------
(***************************************************************************)
(* The pipeline implements the promise of Baseline.tla, for every set of   *)
(* notifications, workers and paths: its threads, queue, mutex and errors  *)
(* are steps of the promise or change nothing of it.                       *)
(***************************************************************************)
EXTENDS PipelineProofs

USE OpsAssumption, StdioAssumption, DistinctAssumption

Granted(r) == IF op[r].opaque THEN Tracked ELSE op[r].paths

(* What the refinement rests on besides the invariant of PipelineProofs: a *)
(* tree that has ended waits for no answer, and a call that was continued  *)
(* was granted all of its paths, so a late answer grants nothing new.      *)
NobodyWaits ==
  tree = "dead" => \A r \in Reqs : status[r] \notin {"posted", "received"}

ContinuedIsGranted ==
  \A r \in Reqs : status[r] = "continued" => Granted(r) \subseteq writable

RInv == Sound /\ Reporting /\ NobodyWaits /\ ContinuedIsGranted

(* A notification waits for an answer only if it did before, or if a live  *)
(* tree has just posted it.                                                *)
LEMMA WhoWaits ==
  ASSUME TypeOK, Known, [Next]_vars, NEW r \in Reqs, status'[r] \in {"posted", "received"}
  PROVE  status[r] \in {"posted", "received"} \/ Alive
<1>1. ASSUME NEW q \in Reqs, op[q] \in Ops, Permit(q)
      PROVE  status[r] \in {"posted", "received"}
  BY <1>1 DEF Permit, TypeOK
<1>2. CASE BypassReply
  BY <1>1, <1>2 DEF BypassReply, Known
<1>3. ASSUME NEW w \in Workers, LockPoisoned(w) \/ Continue(w)
      PROVE  status[r] \in {"posted", "received"}
  BY <1>1, <1>3 DEF LockPoisoned, Continue, At, Known, Handling
<1> QED
  BY <1>2, <1>3 DEF TypeOK, Next, Target, Main, Worker, Returned, vars, Post,
     Vanish, TargetWrites, CommandExits, TreeEnds, CaptureStdio, CaptureAfter,
     Spawn, SpawnFails, Enqueue, QueueFull, PoolStopped, Bypass, ReceiveFails,
     Stop, StopOnTimeout, LoopFails, JoinWorkers, JoinFails, Publish,
     PublishFails, Take, Exit, LockStore, CheckValid, ReadCall, Capture,
     DropStale, FailRead, Recheck, Panic

(* A tree that has just ended left no notification waiting.                *)
LEMMA WhoEnds ==
  [Next]_vars /\ tree' = "dead" => tree = "dead" \/ TreeEnds
BY DEF Next, Target, Main, Worker, Returned, vars, targetVars, Post, Vanish,
   TargetWrites, CommandExits, CaptureStdio, CaptureAfter, Spawn, SpawnFails,
   Enqueue, QueueFull, PoolStopped, Bypass, BypassReply, ReceiveFails, Stop,
   StopOnTimeout, LoopFails, JoinWorkers, JoinFails, Publish, PublishFails,
   Take, Exit, LockStore, LockPoisoned, CheckValid, ReadCall, Capture,
   DropStale, FailRead, Recheck, Continue, Panic

LEMMA NobodyWaitsStep ==
  ASSUME TypeOK, Known, NobodyWaits, [Next]_vars
  PROVE  NobodyWaits'
<1> SUFFICES ASSUME tree' = "dead", NEW r \in Reqs, status'[r] \in {"posted", "received"}
             PROVE  FALSE
  BY DEF NobodyWaits
<1>1. CASE TreeEnds
  BY <1>1 DEF TreeEnds, TypeOK
<1>2. CASE tree = "dead"
  BY <1>2, WhoWaits DEF NobodyWaits, Alive
<1> QED BY <1>1, <1>2, WhoEnds

(* Only an answer continues a call.                                        *)
LEMMA WhoContinues ==
  ASSUME TypeOK, [Next]_vars, NEW r \in Reqs, status'[r] = "continued"
  PROVE  \/ status[r] = "continued"
         \/ BypassReply
         \/ \E w \in Workers : LockPoisoned(w) \/ Continue(w)
BY DEF TypeOK, Next, Target, Main, Worker, Returned, vars, Post, Vanish,
   TargetWrites, CommandExits, TreeEnds, CaptureStdio, CaptureAfter, Spawn,
   SpawnFails, Enqueue, QueueFull, PoolStopped, Bypass, ReceiveFails, Stop,
   StopOnTimeout, LoopFails, JoinWorkers, JoinFails, Publish, PublishFails,
   Take, Exit, LockStore, CheckValid, ReadCall, Capture, DropStale, FailRead,
   Recheck, Panic

LEMMA ContinuedIsGrantedStep ==
  ASSUME TypeOK, Known, Startup, ContinuedIsGranted, [Next]_vars
  PROVE  ContinuedIsGranted'
<1> SUFFICES ASSUME NEW r \in Reqs, status'[r] = "continued"
             PROVE  Granted(r)' \subseteq writable'
  BY DEF ContinuedIsGranted
<1>1. ASSUME NEW q \in Reqs, op[q] \in Ops, Permit(q), op' = op
      PROVE  Granted(r)' \subseteq writable'
  <2>1. CASE status[r] = "continued"
    BY <1>1, <2>1 DEF Permit, ContinuedIsGranted, Granted
  <2>2. CASE status[r] # "continued"
    BY <1>1, <2>2 DEF Permit, Granted, TypeOK
  <2> QED BY <2>1, <2>2
<1>2. CASE BypassReply
  BY <1>1, <1>2 DEF BypassReply, Known
<1>3. ASSUME NEW w \in Workers, LockPoisoned(w) \/ Continue(w)
      PROVE  Granted(r)' \subseteq writable'
  BY <1>1, <1>3 DEF LockPoisoned, Continue, At, Known, Handling
<1>4. CASE status[r] = "continued" /\ ~Spawn /\ writable' = writable
  BY <1>4, WhoPosts DEF ContinuedIsGranted, Granted
<1>5. CASE status[r] = "continued" /\ Spawn
  BY <1>5 DEF Spawn, Startup
<1> QED BY <1>2, <1>3, <1>4, <1>5, WhoContinues, WhoPermits

LEMMA InitRInv == Init => RInv
BY InitSound DEF Init, RInv, NobodyWaits, ContinuedIsGranted

LEMMA StepRInv == ~ScanMayMiss /\ RInv /\ [Next]_vars => RInv'
BY SoundStep, ReportingStep, NobodyWaitsStep, ContinuedIsGrantedStep
   DEF RInv, Sound, Phases

-----------------------------------------------------------------------------
(* The state of the promise, by the names of Baseline.tla.                 *)
Original == [p \in Tracked |-> IF before[p] = Unavailable THEN NotCaptured ELSE before[p]]
Ended == tree = "dead"
Published ==
  IF report.state = "partial" THEN [state |-> "partial", changes |-> {}] ELSE report

PromiseStep == [Promise!Next]_(Promise!vars)

LEMMA RecordedOriginals ==
  TypeOK => Promise!Recorded = Recorded
<1> SUFFICES ASSUME TypeOK, NEW p \in Tracked
             PROVE  Original[p] # NotCaptured <=> before[p] \in Contents
  BY Zenon DEF Promise!Recorded, Recorded, Original
<1>1. before[p] \in Contents \cup {NotCaptured, Unavailable}
  BY DEF TypeOK, States
<1> QED BY <1>1 DEF Original

(* A step that touches nothing of the promise but its losses.              *)
LEMMA QuietStep ==
  ASSUME UNCHANGED <<file, before, writable, report>>,
         Ended' <=> Ended, Degraded => Degraded'
  PROVE  PromiseStep
<1>1. UNCHANGED <<Original, Published>>
  BY DEF Original, Published
<1>2. CASE Degraded' <=> Degraded
  BY <1>1, <1>2 DEF PromiseStep, Promise!vars, Original, Published, Ended
<1>3. CASE Degraded' /\ ~Degraded
  <2>1. Promise!LoseCoverage
    BY <1>1, <1>3 DEF Promise!LoseCoverage, Original, Published, Ended
  <2> QED BY <2>1 DEF PromiseStep, Promise!Next
<1> QED BY <1>2, <1>3

(* A capture before a change records an original, loses coverage or does   *)
(* nothing.                                                                *)
LEMMA RecordStep ==
  ASSUME TypeOK, NEW p \in Tracked, CaptureBefore(p), Degraded => Degraded',
         UNCHANGED <<file, writable, report, tree>>
  PROVE  PromiseStep
<1>1. CASE before' = before
  BY <1>1, QuietStep DEF Ended
<1>2. CASE before[p] = NotCaptured /\ before' = [before EXCEPT ![p] = file[p]]
  <2>1. p \notin Promise!Recorded
    BY <1>2, RecordedOriginals DEF Recorded
  <2>2. Original' = [Original EXCEPT ![p] = file[p]]
    <3>1. file[p] # Unavailable /\ before \in [Tracked -> States]
      BY DEF TypeOK
    <3>2. \A q \in Tracked : before'[q] = IF q = p THEN file[p] ELSE before[q]
      BY <1>2, <3>1
    <3> QED BY <3>1, <3>2 DEF Original
  <2>3. Degraded' \in BOOLEAN
    BY DEF Degraded
  <2>4. Promise!Record(p)
    BY <2>1, <2>2, <2>3 DEF Promise!Record, Original
  <2> QED BY <2>4 DEF PromiseStep, Promise!Next
<1>3. CASE before[p] = NotCaptured /\ before' = [before EXCEPT ![p] = Unavailable]
  <2>1. Original' = Original
    BY <1>3 DEF Original, TypeOK
  <2>2. Degraded'
    BY <1>3 DEF Degraded, TypeOK
  <2>3. Promise!LoseCoverage
    BY <2>1, <2>2 DEF Promise!LoseCoverage, Original
  <2> QED BY <2>3 DEF PromiseStep, Promise!Next
<1> QED BY <1>1, <1>2, <1>3, CaptureOutcomes

(* Letting the tree through to S, whose originals are recorded or whose    *)
(* loss is noted, is a Permit of the promise.                              *)
LEMMA PermitStep ==
  ASSUME TypeOK, NEW S \in SUBSET Tracked, Degraded \/ S \subseteq Recorded,
         tree # "dead", tree' # "dead", writable' = writable \cup S,
         Degraded' <=> Degraded, UNCHANGED <<file, before, report>>
  PROVE  PromiseStep
<1>1. S \subseteq Promise!Recorded \/ Degraded
  BY RecordedOriginals
<1>2. UNCHANGED <<Original, Published>>
  BY DEF Original, Published
<1>3. Promise!Permit(S)
  BY <1>1, <1>2 DEF Promise!Permit, Original, Published
<1> QED BY <1>3 DEF PromiseStep, Promise!Next

LEMMA WhoPublishes ==
  [Next]_vars => report' = report \/ Publish
BY DEF Next, Target, Main, Worker, Returned, vars, Post, Vanish, TargetWrites,
   CommandExits, TreeEnds, CaptureStdio, CaptureAfter, Spawn, SpawnFails,
   Enqueue, QueueFull, PoolStopped, Bypass, BypassReply, ReceiveFails, Stop,
   StopOnTimeout, LoopFails, JoinWorkers, JoinFails, PublishFails, Take, Exit,
   LockStore, LockPoisoned, CheckValid, ReadCall, Capture, DropStale, FailRead,
   Recheck, Continue, Panic

(* An answer lets the tree through to what it was granted before, loses    *)
(* coverage, or is a Permit.                                               *)
LEMMA AnswerStep ==
  ASSUME TypeOK, NobodyWaits, ContinuedIsGranted, Degraded => Degraded',
         NEW r \in Reqs, op[r] \in Ops, status[r] # "unused", Permit(r),
         ~Gone(r) => (Degraded' <=> Degraded),
         ~Gone(r) => Degraded \/ Granted(r) \subseteq Recorded,
         UNCHANGED <<file, before, report, tree>>
  PROVE  PromiseStep
<1>1. Granted(r) \subseteq Tracked
  BY DEF Granted
<1>2. CASE writable' = writable
  BY <1>2, QuietStep DEF Ended
<1>3. CASE writable' # writable
  <2>1. ~Gone(r) /\ writable' = writable \cup Granted(r)
    BY <1>3 DEF Permit, Granted
  <2>2. status[r] \in {"posted", "received"}
    BY <1>1, <1>3, <2>1 DEF ContinuedIsGranted, Gone, TypeOK
  <2>3. tree # "dead"
    BY <2>2 DEF NobodyWaits
  <2> QED BY <1>1, <2>1, <2>3, PermitStep
<1> QED BY <1>2, <1>3

(* The writes of the tree and its end are those of the promise.            *)
LEMMA WriteStep ==
  ASSUME NEW p \in Tracked, NEW c \in Contents, TargetWrites(p, c)
  PROVE  PromiseStep
<1>1. UNCHANGED <<Original, Published, tree>> /\ (Degraded' <=> Degraded)
  BY DEF TargetWrites, storeVars, mainVars, Original, Published, Degraded
<1>2. Promise!Write(p, c)
  BY <1>1 DEF Promise!Write, TargetWrites, Original, Published, Alive
<1> QED BY <1>2 DEF PromiseStep, Promise!Next

LEMMA EndStep ==
  ASSUME TreeEnds
  PROVE  PromiseStep
<1>1. UNCHANGED <<Original, Published>> /\ (Degraded' <=> Degraded)
  BY DEF TreeEnds, storeVars, mainVars, Original, Published, Degraded
<1>2. Promise!End
  BY <1>1 DEF Promise!End, TreeEnds, Original, Published
<1> QED BY <1>2 DEF PromiseStep, Promise!Next

(* The report is published as the promise publishes it.                    *)
LEMMA PublishStep ==
  ASSUME RInv, Publish
  PROVE  PromiseStep
<1> USE DEF RInv, Sound, Phases
<1>1. report = NoReport /\ Published = [state |-> "none", changes |-> {}]
  BY DEF Publish, Shutdown, Published, NoReport
<1>2. UNCHANGED <<file, Original, writable, tree>> /\ (Degraded' <=> Degraded)
  BY DEF Publish, targetVars, storeVars, mainVars, Original, Degraded
<1>3. CASE FullCoverage
  <2>1. ~Degraded
    BY <1>3, FullCoverageMeansNoLoss DEF Publish
  <2>2. tree = "dead"
    BY <2>1 DEF Publish, Reporting, TreeEnded
  <2>3. Published' = [state |-> "finished", changes |-> Changes]
    BY <1>3 DEF Publish, Published
  <2>4. Candidates = Recorded
    BY <2>1 DEF Candidates, Recorded, Degraded, TypeOK, States
  <2>5. \A p \in Candidates : after[p] = file[p]
    BY <2>1 DEF Publish, Reporting, FinalsTrue
  <2>6. \A p \in Candidates : Original[p] = before[p] /\ before[p] # Unavailable
    BY <2>4 DEF Recorded, Original
  <2>7. {q \in Candidates : Changed(q)} =
          {q \in Promise!Recorded : Original[q] # file[q]}
    BY <2>4, <2>5, <2>6, RecordedOriginals DEF Changed
  <2>8. Changes = Promise!Changes
    <3>1. Changes = {[path |-> p, before |-> Original[p], after |-> file[p]] :
                       p \in {q \in Candidates : Changed(q)}}
      BY <2>5, <2>6 DEF Changes
    <3> QED BY <2>7, <3>1, Zenon DEF Promise!Changes, Original
  <2>9. Promise!PublishFinished
    BY <1>1, <1>2, <2>1, <2>2, <2>3, <2>8
       DEF Promise!PublishFinished, Promise!NoReport, Original, Published
  <2> QED BY <2>9 DEF PromiseStep, Promise!Next
<1>4. CASE ~FullCoverage
  <2>1. Degraded
    BY <1>4 DEF FullCoverage, Changes, Candidates, Degraded
  <2>2. Published' = [state |-> "partial", changes |-> {}]
    BY <1>4 DEF Publish, Published
  <2>3. Promise!PublishPartial
    BY <1>1, <1>2, <2>1, <2>2
       DEF Promise!PublishPartial, Promise!NoReport, Original, Published
  <2> QED BY <2>3 DEF PromiseStep, Promise!Next
<1> QED BY <1>3, <1>4

(* Every step of the pipeline is a step of the promise or changes nothing  *)
(* of it.                                                                  *)
LEMMA EveryStep ==
  ASSUME RInv, [Next]_vars
  PROVE  PromiseStep
<1> USE DEF RInv, Sound, Phases
<1>1. Degraded => Degraded'
  BY LossStep
<1>2. ASSUME NEW p \in Tracked, NEW c \in Contents, TargetWrites(p, c)
      PROVE  PromiseStep
  BY <1>2, WriteStep
<1>3. CASE TreeEnds
  BY <1>3, EndStep
<1>4. ASSUME NEW p \in Tracked, CaptureStdio(p)
      PROVE  PromiseStep
  <2>1. CASE CaptureBefore(p)
    BY <1>1, <1>4, <2>1, RecordStep DEF CaptureStdio, targetVars
  <2>2. CASE before' = before
    BY <1>1, <1>4, <2>2, QuietStep DEF CaptureStdio, targetVars, Ended
  <2> QED BY <1>4, <2>1, <2>2 DEF CaptureStdio
<1>5. ASSUME NEW w \in Workers, NEW p \in Tracked, Capture(w, p)
      PROVE  PromiseStep
  BY <1>1, <1>5, RecordStep DEF Capture, targetVars
<1>6. CASE Spawn
  <2>1. /\ writable' = writable \cup StdioPaths /\ tree # "dead" /\ tree' # "dead"
        /\ StdioPaths \in SUBSET Tracked
    BY <1>6 DEF Spawn, Startup
  <2>2. Degraded \/ StdioPaths \subseteq Recorded
    BY <1>6 DEF Spawn, Coverage, StdioCovered
  <2>3. UNCHANGED <<file, before, report>> /\ (Degraded' <=> Degraded)
    BY <1>6 DEF Spawn, storeVars, Degraded
  <2> QED BY <2>1, <2>2, <2>3, PermitStep
<1>7. CASE BypassReply
  <2>1. mreq \in Reqs /\ op[mreq] \in Ops /\ status[mreq] # "unused"
    BY <1>7 DEF BypassReply, Known
  <2>2. Degraded
    BY <1>7 DEF BypassReply, Coverage, BypassIsNoted, Degraded
  <2> QED BY <1>1, <1>7, <2>1, <2>2, AnswerStep DEF BypassReply, storeVars
<1>8. ASSUME NEW w \in Workers, LockPoisoned(w)
      PROVE  PromiseStep
  <2>1. wreq[w] \in Reqs /\ op[wreq[w]] \in Ops /\ status[wreq[w]] # "unused"
    BY <1>8 DEF LockPoisoned, At, Known, Handling
  <2>2. Degraded
    BY <1>8 DEF LockPoisoned, Degraded
  <2> QED BY <1>1, <1>8, <2>1, <2>2, AnswerStep DEF LockPoisoned, storeVars
<1>9. ASSUME NEW w \in Workers, Continue(w)
      PROVE  PromiseStep
  <2>1. wreq[w] \in Reqs /\ op[wreq[w]] \in Ops /\ status[wreq[w]] # "unused"
    BY <1>9 DEF Continue, At, Known, Handling
  <2>2. Degraded \/ Granted(wreq[w]) \subseteq Recorded
    BY <1>9 DEF Continue, At, Coverage, CallsCovered, Granted
  <2>3. ~Gone(wreq[w]) => (Degraded' <=> Degraded)
    BY <1>9 DEF Continue, mainVars, Degraded
  <2> QED BY <1>1, <1>9, <2>1, <2>2, <2>3, AnswerStep DEF Continue
<1>10. CASE Publish
  BY <1>10, PublishStep
<1>11. CASE UNCHANGED <<file, before, writable, report>> /\ (Ended' <=> Ended)
  BY <1>1, <1>11, QuietStep
<1>12. (Ended' <=> Ended) \/ TreeEnds
  BY WhoEnds, DeadStaysDead DEF Ended
<1> QED
  BY <1>2, <1>3, <1>4, <1>5, <1>6, <1>7, <1>8, <1>9, <1>10, <1>11, <1>12,
     WhoWrites, WhoRecords, WhoPermits, WhoPublishes

(* If the scan for descendants overlooks nobody, the pipeline implements   *)
(* the promise of a run: originals before permission, losses remembered,   *)
(* an exact report, whatever the number of workers and notifications, the  *)
(* capacity of the queue and the quota (supervisor.rs, report.rs).         *)
THEOREM PipelineKeepsPromise ==
  ASSUME ~ScanMayMiss
  PROVE  Spec => KeepsPromise
<1>1. Init => Promise!Init
  <2>1. Init => ~Degraded
    BY DEF Init, Degraded
  <2>2. Init => Original = [p \in Tracked |-> NotCaptured]
    BY DEF Init, Original
  <2> QED BY <2>1, <2>2 DEF Init, Promise!Init, Promise!NoReport, NoReport, Original
<1>2. RInv /\ [Next]_vars => [Promise!Next]_(Promise!vars)
  BY EveryStep DEF PromiseStep
<1> QED BY InitRInv, StepRInv, <1>1, <1>2, PTL DEF Spec, KeepsPromise, Promise!Spec
=============================================================================
