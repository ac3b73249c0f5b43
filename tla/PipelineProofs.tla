--------------------------- MODULE PipelineProofs ---------------------------
(***************************************************************************)
(* Theorems about Pipeline.tla, for every set of notifications, workers    *)
(* and paths, every queue capacity and quota.                              *)
(***************************************************************************)
EXTENDS Pipeline, FiniteSetTheorems, TLAPS

USE BeginAssumption, StdioAssumption, OpsAssumption, LimitsAssumption,
    FlagsAssumption, DistinctAssumption

(* The notifications that are handed around were posted, with a call.      *)
Handling == {"locking", "checking", "reading", "capturing", "sending"}

Known ==
  /\ \A r \in Reqs : status[r] # "unused" => op[r] \in Ops
  /\ \A i \in DOMAIN queue : status[queue[i]] # "unused"
  /\ \A w \in Workers :
       wpc[w] \in Handling => wreq[w] \in Reqs /\ status[wreq[w]] # "unused"
  /\ mpc = "bypass" => mreq \in Reqs /\ status[mreq] # "unused"

(* The three outcomes of capture_before.                                   *)
LEMMA CaptureOutcomes ==
  ASSUME NEW p \in Tracked, CaptureBefore(p)
  PROVE  \/ before' = before /\ gaps' = gaps /\ p \in Candidates
         \/ before' = before /\ gaps' = gaps \cup {"file_quota"}
         \/ /\ before[p] = NotCaptured
            /\ \/ before' = [before EXCEPT ![p] = file[p]]
               \/ before' = [before EXCEPT ![p] = Unavailable]
            /\ gaps' = gaps \/ gaps' = gaps \cup {"capture"}
<1>1. CASE before[p] # NotCaptured
  BY <1>1, Zenon DEF CaptureBefore, Candidates
<1>2. CASE before[p] = NotCaptured
  BY <1>2, Zenon DEF CaptureBefore
<1> QED BY <1>1, <1>2

(* What a captured original may be.                                        *)
LEMMA CaptureTyped ==
  ASSUME TypeOK, NEW p \in Tracked, CaptureBefore(p)
  PROVE  before' \in [Tracked -> States] /\ gaps' \subseteq GapKinds
<1>1. file[p] \in States /\ Unavailable \in States
  BY DEF TypeOK, States
<1>2. \A s \in States : [before EXCEPT ![p] = s] \in [Tracked -> States]
  BY DEF TypeOK
<1>3. before' \in [Tracked -> States]
  BY <1>1, <1>2, CaptureOutcomes, Zenon DEF TypeOK
<1>4. gaps' \subseteq GapKinds
  <2>1. {"file_quota", "capture"} \subseteq GapKinds
    BY DEF GapKinds
  <2> QED BY <2>1, CaptureOutcomes DEF TypeOK
<1> QED BY <1>3, <1>4

(* Answering a known request leaves every request typed and known.         *)
LEMMA PermitTyped ==
  ASSUME TypeOK, NEW r \in Reqs, op[r] \in Ops, Permit(r)
  PROVE  /\ status' \in [Reqs -> {"unused", "posted", "received", "continued", "gone"}]
         /\ writable' \subseteq Tracked
         /\ \A q \in Reqs : status[q] # "unused" => status'[q] # "unused"
BY DEF Permit, TypeOK

(* Every step keeps the types.                                             *)
LEMMA TypeStep == TypeOK /\ Known /\ [Next]_vars => TypeOK'
<1> SUFFICES ASSUME TypeOK, Known, [Next]_vars
             PROVE  TypeOK'
  OBVIOUS
<1> USE DEF targetVars, mainVars, workerVars, storeVars, TypeOK, Errors, GapKinds, States
<1>1. ASSUME NEW r \in Reqs, Post(r)
      PROVE  TypeOK'
  BY <1>1 DEF Post
<1>2. ASSUME NEW r \in Reqs, Vanish(r)
      PROVE  TypeOK'
  BY <1>2 DEF Vanish
<1>3. ASSUME NEW p \in Tracked, NEW c \in Contents, TargetWrites(p, c)
      PROVE  TypeOK'
  BY <1>3 DEF TargetWrites
<1>4. CASE CommandExits
  BY <1>4 DEF CommandExits
<1>5. CASE TreeEnds
  BY <1>5 DEF TreeEnds
<1>6. ASSUME NEW p \in Tracked, CaptureStdio(p)
      PROVE  TypeOK'
  <2>1. before' \in [Tracked -> States] /\ gaps' \subseteq GapKinds
    BY <1>6, CaptureTyped DEF CaptureStdio
  <2> QED BY <1>6, <2>1 DEF CaptureStdio
<1>7. ASSUME NEW p \in Tracked, CaptureAfter(p)
      PROVE  TypeOK'
  BY <1>7 DEF CaptureAfter
<1>8. CASE Spawn
  BY <1>8 DEF Spawn
<1>9. CASE SpawnFails
  BY <1>9 DEF SpawnFails
<1>10. ASSUME NEW r \in Reqs, Enqueue(r)
      PROVE  TypeOK'
  BY <1>10 DEF Enqueue
<1>11. ASSUME NEW r \in Reqs, QueueFull(r)
      PROVE  TypeOK'
  BY <1>11 DEF QueueFull, Bypass
<1>12. ASSUME NEW r \in Reqs, PoolStopped(r)
      PROVE  TypeOK'
  BY <1>12 DEF PoolStopped, Bypass
<1>13. CASE BypassReply
  <2>1. op[mreq] \in Ops /\ mreq \in Reqs
    BY <1>13 DEF BypassReply, Known
  <2> QED BY <1>13, <2>1, PermitTyped DEF BypassReply
<1>14. CASE ReceiveFails
  BY <1>14 DEF ReceiveFails
<1>15. CASE Stop
  BY <1>15 DEF Stop
<1>16. CASE StopOnTimeout
  BY <1>16 DEF StopOnTimeout
<1>17. CASE LoopFails
  BY <1>17 DEF LoopFails
<1>18. CASE JoinWorkers
  BY <1>18 DEF JoinWorkers, Candidates
<1>19. CASE JoinFails
  BY <1>19 DEF JoinFails
<1>20. CASE Publish
  BY <1>20 DEF Publish, Changes, Candidates
<1>21. CASE PublishFails
  BY <1>21 DEF PublishFails
<1>22. ASSUME NEW w \in Workers, Take(w)
      PROVE  TypeOK'
  BY <1>22 DEF Take, At
<1>23. ASSUME NEW w \in Workers, Exit(w)
      PROVE  TypeOK'
  BY <1>23 DEF Exit, At
<1>24. ASSUME NEW w \in Workers, LockStore(w)
      PROVE  TypeOK'
  BY <1>24 DEF LockStore, At
<1>25. ASSUME NEW w \in Workers, LockPoisoned(w)
      PROVE  TypeOK'
  <2>1. op[wreq[w]] \in Ops /\ wreq[w] \in Reqs
    BY <1>25 DEF LockPoisoned, At, Known, Handling
  <2> QED BY <1>25, <2>1, PermitTyped DEF LockPoisoned, DropQueueWithLast
<1>26. ASSUME NEW w \in Workers, CheckValid(w)
      PROVE  TypeOK'
  <2>1. CASE Gone(wreq[w]) BY <1>26, <2>1 DEF CheckValid, Release
  <2>2. CASE ~Gone(wreq[w]) BY <1>26, <2>2 DEF CheckValid
  <2> QED BY <2>1, <2>2
<1>27. ASSUME NEW w \in Workers, ReadCall(w)
      PROVE  TypeOK'
  <2>1. op[wreq[w]] \in Ops
    BY <1>27 DEF ReadCall, At, Known, Handling
  <2> QED BY <1>27, <2>1 DEF ReadCall
<1>28. ASSUME NEW w \in Workers, NEW p \in Tracked, Capture(w, p)
      PROVE  TypeOK'
  <2>1. before' \in [Tracked -> States] /\ gaps' \subseteq GapKinds
    BY <1>28, CaptureTyped DEF Capture
  <2> QED BY <1>28, <2>1 DEF Capture
<1>29. ASSUME NEW w \in Workers, DropStale(w)
      PROVE  TypeOK'
  BY <1>29 DEF DropStale, Release, At
<1>30. ASSUME NEW w \in Workers, FailRead(w)
      PROVE  TypeOK'
  BY <1>30 DEF FailRead, At
<1>31. ASSUME NEW w \in Workers, Recheck(w)
      PROVE  TypeOK'
  <2>1. CASE Gone(wreq[w]) BY <1>31, <2>1 DEF Recheck, Release
  <2>2. CASE ~Gone(wreq[w]) BY <1>31, <2>2 DEF Recheck
  <2> QED BY <2>1, <2>2
<1>32. ASSUME NEW w \in Workers, Continue(w)
      PROVE  TypeOK'
  <2>1. op[wreq[w]] \in Ops /\ wreq[w] \in Reqs
    BY <1>32 DEF Continue, At, Known, Handling
  <2> QED BY <1>32, <2>1, PermitTyped DEF Continue, Release
<1>33. ASSUME NEW w \in Workers, Panic(w)
      PROVE  TypeOK'
  BY <1>33 DEF Panic, DropQueueWithLast, At
<1>34. CASE UNCHANGED vars
  BY <1>34 DEF vars
<1> QED
  BY <1>1, <1>2, <1>3, <1>4, <1>5, <1>6, <1>7, <1>8, <1>9, <1>10, <1>11,
     <1>12, <1>13, <1>14, <1>15, <1>16, <1>17, <1>18, <1>19, <1>20, <1>21,
     <1>22, <1>23, <1>24, <1>25, <1>26, <1>27, <1>28, <1>29, <1>30, <1>31,
     <1>32, <1>33, <1>34 DEF Next, Target, Main, Worker, Returned

(* Every step hands around only notifications that were posted.            *)
LEMMA KnownStep == TypeOK /\ Known /\ [Next]_vars => Known'
<1> SUFFICES ASSUME TypeOK, Known, [Next]_vars
             PROVE  Known'
  OBVIOUS
<1> USE DEF targetVars, mainVars, workerVars, storeVars, TypeOK, Known, Handling
<1>1. ASSUME NEW r \in Reqs, Post(r)
      PROVE  Known'
  BY <1>1 DEF Post
<1>2. ASSUME NEW r \in Reqs, Vanish(r)
      PROVE  Known'
  BY <1>2 DEF Vanish
<1>3. ASSUME NEW p \in Tracked, NEW c \in Contents, TargetWrites(p, c)
      PROVE  Known'
  BY <1>3 DEF TargetWrites
<1>4. CASE CommandExits
  BY <1>4 DEF CommandExits
<1>5. CASE TreeEnds
  BY <1>5 DEF TreeEnds
<1>6. ASSUME NEW p \in Tracked, CaptureStdio(p)
      PROVE  Known'
  BY <1>6 DEF CaptureStdio, CaptureBefore
<1>7. ASSUME NEW p \in Tracked, CaptureAfter(p)
      PROVE  Known'
  BY <1>7 DEF CaptureAfter
<1>8. CASE Spawn
  BY <1>8 DEF Spawn
<1>9. CASE SpawnFails
  BY <1>9 DEF SpawnFails
<1>10. ASSUME NEW r \in Reqs, Enqueue(r)
      PROVE  Known'
  BY <1>10 DEF Enqueue
<1>11. ASSUME NEW r \in Reqs, QueueFull(r)
      PROVE  Known'
  BY <1>11 DEF QueueFull, Bypass
<1>12. ASSUME NEW r \in Reqs, PoolStopped(r)
      PROVE  Known'
  BY <1>12 DEF PoolStopped, Bypass
<1>13. CASE BypassReply
  BY <1>13 DEF BypassReply, Permit
<1>14. CASE ReceiveFails
  BY <1>14 DEF ReceiveFails
<1>15. CASE Stop
  BY <1>15 DEF Stop
<1>16. CASE StopOnTimeout
  BY <1>16 DEF StopOnTimeout
<1>17. CASE LoopFails
  BY <1>17 DEF LoopFails
<1>18. CASE JoinWorkers
  BY <1>18 DEF JoinWorkers, Candidates
<1>19. CASE JoinFails
  BY <1>19 DEF JoinFails
<1>20. CASE Publish
  BY <1>20 DEF Publish, Changes, Candidates
<1>21. CASE PublishFails
  BY <1>21 DEF PublishFails
<1>22. ASSUME NEW w \in Workers, Take(w)
      PROVE  Known'
  BY <1>22 DEF Take, At
<1>23. ASSUME NEW w \in Workers, Exit(w)
      PROVE  Known'
  BY <1>23 DEF Exit, At
<1>24. ASSUME NEW w \in Workers, LockStore(w)
      PROVE  Known'
  BY <1>24 DEF LockStore, At
<1>25. ASSUME NEW w \in Workers, LockPoisoned(w)
      PROVE  Known'
  BY <1>25 DEF LockPoisoned, Permit, DropQueueWithLast, At
<1>26. ASSUME NEW w \in Workers, CheckValid(w)
      PROVE  Known'
  BY <1>26 DEF CheckValid, Release, At
<1>27. ASSUME NEW w \in Workers, ReadCall(w)
      PROVE  Known'
  BY <1>27 DEF ReadCall, At
<1>28. ASSUME NEW w \in Workers, NEW p \in Tracked, Capture(w, p)
      PROVE  Known'
  BY <1>28 DEF Capture, CaptureBefore, At
<1>29. ASSUME NEW w \in Workers, DropStale(w)
      PROVE  Known'
  BY <1>29 DEF DropStale, Release, At
<1>30. ASSUME NEW w \in Workers, FailRead(w)
      PROVE  Known'
  BY <1>30 DEF FailRead, At
<1>31. ASSUME NEW w \in Workers, Recheck(w)
      PROVE  Known'
  BY <1>31 DEF Recheck, Release, At
<1>32. ASSUME NEW w \in Workers, Continue(w)
      PROVE  Known'
  BY <1>32 DEF Continue, Permit, Release, At
<1>33. ASSUME NEW w \in Workers, Panic(w)
      PROVE  Known'
  BY <1>33 DEF Panic, DropQueueWithLast, At
<1>34. CASE UNCHANGED vars
  BY <1>34 DEF vars
<1> QED
  BY <1>1, <1>2, <1>3, <1>4, <1>5, <1>6, <1>7, <1>8, <1>9, <1>10, <1>11,
     <1>12, <1>13, <1>14, <1>15, <1>16, <1>17, <1>18, <1>19, <1>20, <1>21,
     <1>22, <1>23, <1>24, <1>25, <1>26, <1>27, <1>28, <1>29, <1>30, <1>31,
     <1>32, <1>33, <1>34 DEF Next, Target, Main, Worker, Returned

(* The phases of a run: what holds before the spawn, and once the workers  *)
(* are joined.                                                             *)
Startup ==
  mpc = "stdio" =>
    tree = "unborn" /\ writable = {} /\ \A r \in Reqs : status[r] = "unused"

Shutdown ==
  /\ mpc \in {"reporting", "done"} => \A w \in Workers : wpc[w] = "exited"
  /\ mpc = "reporting" => pending = {}
  /\ poisoned => \E w \in Workers : wpc[w] = "panicked"
  /\ mpc # "done" => report = NoReport

FinalStates ==
  /\ \A p \in Tracked : after[p] # NotCaptured =>
       p \in Candidates /\ mpc \in {"reporting", "done", "report_error"}
  /\ mpc = "reporting" =>
       mtodo \subseteq Candidates /\ \A p \in mtodo : after[p] = NotCaptured

Phases == Startup /\ Shutdown /\ FinalStates

(* Nothing is posted or let through before the spawn.                      *)
LEMMA StartupStep == TypeOK /\ Known /\ Startup /\ [Next]_vars => Startup'
<1> SUFFICES ASSUME TypeOK, Known, Startup, [Next]_vars
             PROVE  Startup'
  OBVIOUS
<1> USE DEF targetVars, mainVars, workerVars, storeVars, TypeOK, Startup, Alive
<1>1. ASSUME NEW r \in Reqs, Post(r)
      PROVE  Startup'
  BY <1>1 DEF Post
<1>2. ASSUME NEW r \in Reqs, Vanish(r)
      PROVE  Startup'
  BY <1>2 DEF Vanish
<1>3. ASSUME NEW p \in Tracked, NEW c \in Contents, TargetWrites(p, c)
      PROVE  Startup'
  BY <1>3 DEF TargetWrites
<1>4. CASE CommandExits
  BY <1>4 DEF CommandExits
<1>5. CASE TreeEnds
  BY <1>5 DEF TreeEnds
<1>6. ASSUME NEW p \in Tracked, CaptureStdio(p)
      PROVE  Startup'
  BY <1>6 DEF CaptureStdio, CaptureBefore
<1>7. ASSUME NEW p \in Tracked, CaptureAfter(p)
      PROVE  Startup'
  BY <1>7 DEF CaptureAfter
<1>8. CASE Spawn
  BY <1>8 DEF Spawn
<1>9. CASE SpawnFails
  BY <1>9 DEF SpawnFails
<1>10. ASSUME NEW r \in Reqs, Enqueue(r)
      PROVE  Startup'
  BY <1>10 DEF Enqueue
<1>11. ASSUME NEW r \in Reqs, QueueFull(r)
      PROVE  Startup'
  BY <1>11 DEF QueueFull, Bypass
<1>12. ASSUME NEW r \in Reqs, PoolStopped(r)
      PROVE  Startup'
  BY <1>12 DEF PoolStopped, Bypass
<1>13. CASE BypassReply
  BY <1>13 DEF BypassReply, Permit
<1>14. CASE ReceiveFails
  BY <1>14 DEF ReceiveFails
<1>15. CASE Stop
  BY <1>15 DEF Stop
<1>16. CASE StopOnTimeout
  BY <1>16 DEF StopOnTimeout
<1>17. CASE LoopFails
  BY <1>17 DEF LoopFails
<1>18. CASE JoinWorkers
  BY <1>18 DEF JoinWorkers, Candidates
<1>19. CASE JoinFails
  BY <1>19 DEF JoinFails
<1>20. CASE Publish
  BY <1>20 DEF Publish, Changes, Candidates
<1>21. CASE PublishFails
  BY <1>21 DEF PublishFails
<1>22. ASSUME NEW w \in Workers, Take(w)
      PROVE  Startup'
  BY <1>22 DEF Take, At
<1>23. ASSUME NEW w \in Workers, Exit(w)
      PROVE  Startup'
  BY <1>23 DEF Exit, At
<1>24. ASSUME NEW w \in Workers, LockStore(w)
      PROVE  Startup'
  BY <1>24 DEF LockStore, At
<1>25. ASSUME NEW w \in Workers, LockPoisoned(w)
      PROVE  Startup'
  <2>1. mpc # "stdio"
    BY <1>25 DEF LockPoisoned, At, Known, Handling
  <2> QED BY <1>25, <2>1 DEF LockPoisoned
<1>26. ASSUME NEW w \in Workers, CheckValid(w)
      PROVE  Startup'
  BY <1>26 DEF CheckValid, Release, At
<1>27. ASSUME NEW w \in Workers, ReadCall(w)
      PROVE  Startup'
  BY <1>27 DEF ReadCall, At
<1>28. ASSUME NEW w \in Workers, NEW p \in Tracked, Capture(w, p)
      PROVE  Startup'
  BY <1>28 DEF Capture, CaptureBefore, At
<1>29. ASSUME NEW w \in Workers, DropStale(w)
      PROVE  Startup'
  BY <1>29 DEF DropStale, Release, At
<1>30. ASSUME NEW w \in Workers, FailRead(w)
      PROVE  Startup'
  BY <1>30 DEF FailRead, At
<1>31. ASSUME NEW w \in Workers, Recheck(w)
      PROVE  Startup'
  BY <1>31 DEF Recheck, Release, At
<1>32. ASSUME NEW w \in Workers, Continue(w)
      PROVE  Startup'
  <2>1. mpc # "stdio"
    BY <1>32 DEF Continue, At, Known, Handling
  <2> QED BY <1>32, <2>1 DEF Continue
<1>33. ASSUME NEW w \in Workers, Panic(w)
      PROVE  Startup'
  BY <1>33 DEF Panic, DropQueueWithLast, At
<1>34. CASE UNCHANGED vars
  BY <1>34 DEF vars
<1> QED
  BY <1>1, <1>2, <1>3, <1>4, <1>5, <1>6, <1>7, <1>8, <1>9, <1>10, <1>11,
     <1>12, <1>13, <1>14, <1>15, <1>16, <1>17, <1>18, <1>19, <1>20, <1>21,
     <1>22, <1>23, <1>24, <1>25, <1>26, <1>27, <1>28, <1>29, <1>30, <1>31,
     <1>32, <1>33, <1>34 DEF Next, Target, Main, Worker, Returned

(* The report waits for the workers.                                       *)
LEMMA ShutdownStep == TypeOK /\ Shutdown /\ [Next]_vars => Shutdown'
<1> SUFFICES ASSUME TypeOK, Shutdown, [Next]_vars
             PROVE  Shutdown'
  OBVIOUS
<1> USE DEF targetVars, mainVars, workerVars, storeVars, TypeOK, Shutdown, Errors
<1>1. ASSUME NEW r \in Reqs, Post(r)
      PROVE  Shutdown'
  BY <1>1 DEF Post
<1>2. ASSUME NEW r \in Reqs, Vanish(r)
      PROVE  Shutdown'
  BY <1>2 DEF Vanish
<1>3. ASSUME NEW p \in Tracked, NEW c \in Contents, TargetWrites(p, c)
      PROVE  Shutdown'
  BY <1>3 DEF TargetWrites
<1>4. CASE CommandExits
  BY <1>4 DEF CommandExits
<1>5. CASE TreeEnds
  BY <1>5 DEF TreeEnds
<1>6. ASSUME NEW p \in Tracked, CaptureStdio(p)
      PROVE  Shutdown'
  BY <1>6 DEF CaptureStdio, CaptureBefore
<1>7. ASSUME NEW p \in Tracked, CaptureAfter(p)
      PROVE  Shutdown'
  BY <1>7 DEF CaptureAfter
<1>8. CASE Spawn
  BY <1>8 DEF Spawn
<1>9. CASE SpawnFails
  BY <1>9 DEF SpawnFails
<1>10. ASSUME NEW r \in Reqs, Enqueue(r)
      PROVE  Shutdown'
  BY <1>10 DEF Enqueue
<1>11. ASSUME NEW r \in Reqs, QueueFull(r)
      PROVE  Shutdown'
  BY <1>11 DEF QueueFull, Bypass
<1>12. ASSUME NEW r \in Reqs, PoolStopped(r)
      PROVE  Shutdown'
  BY <1>12 DEF PoolStopped, Bypass
<1>13. CASE BypassReply
  BY <1>13 DEF BypassReply, Permit
<1>14. CASE ReceiveFails
  BY <1>14 DEF ReceiveFails
<1>15. CASE Stop
  BY <1>15 DEF Stop
<1>16. CASE StopOnTimeout
  BY <1>16 DEF StopOnTimeout
<1>17. CASE LoopFails
  BY <1>17 DEF LoopFails
<1>18. CASE JoinWorkers
  BY <1>18 DEF JoinWorkers, Candidates
<1>19. CASE JoinFails
  BY <1>19 DEF JoinFails
<1>20. CASE Publish
  BY <1>20 DEF Publish, Changes, Candidates
<1>21. CASE PublishFails
  BY <1>21 DEF PublishFails
<1>22. ASSUME NEW w \in Workers, Take(w)
      PROVE  Shutdown'
  BY <1>22 DEF Take, At
<1>23. ASSUME NEW w \in Workers, Exit(w)
      PROVE  Shutdown'
  BY <1>23 DEF Exit, At
<1>24. ASSUME NEW w \in Workers, LockStore(w)
      PROVE  Shutdown'
  BY <1>24 DEF LockStore, At
<1>25. ASSUME NEW w \in Workers, LockPoisoned(w)
      PROVE  Shutdown'
  BY <1>25 DEF LockPoisoned, Permit, DropQueueWithLast, At
<1>26. ASSUME NEW w \in Workers, CheckValid(w)
      PROVE  Shutdown'
  BY <1>26 DEF CheckValid, Release, At
<1>27. ASSUME NEW w \in Workers, ReadCall(w)
      PROVE  Shutdown'
  BY <1>27 DEF ReadCall, At
<1>28. ASSUME NEW w \in Workers, NEW p \in Tracked, Capture(w, p)
      PROVE  Shutdown'
  BY <1>28 DEF Capture, CaptureBefore, At
<1>29. ASSUME NEW w \in Workers, DropStale(w)
      PROVE  Shutdown'
  BY <1>29 DEF DropStale, Release, At
<1>30. ASSUME NEW w \in Workers, FailRead(w)
      PROVE  Shutdown'
  BY <1>30 DEF FailRead, At
<1>31. ASSUME NEW w \in Workers, Recheck(w)
      PROVE  Shutdown'
  BY <1>31 DEF Recheck, Release, At
<1>32. ASSUME NEW w \in Workers, Continue(w)
      PROVE  Shutdown'
  BY <1>32 DEF Continue, Permit, Release, At
<1>33. ASSUME NEW w \in Workers, Panic(w)
      PROVE  Shutdown'
  BY <1>33 DEF Panic, DropQueueWithLast, At
<1>34. CASE UNCHANGED vars
  BY <1>34 DEF vars
<1> QED
  BY <1>1, <1>2, <1>3, <1>4, <1>5, <1>6, <1>7, <1>8, <1>9, <1>10, <1>11,
     <1>12, <1>13, <1>14, <1>15, <1>16, <1>17, <1>18, <1>19, <1>20, <1>21,
     <1>22, <1>23, <1>24, <1>25, <1>26, <1>27, <1>28, <1>29, <1>30, <1>31,
     <1>32, <1>33, <1>34 DEF Next, Target, Main, Worker, Returned

(* Final states are captured once, for candidates.                         *)
LEMMA FinalStatesStep == TypeOK /\ Shutdown /\ FinalStates /\ [Next]_vars => FinalStates'
<1> SUFFICES ASSUME TypeOK, Shutdown, FinalStates, [Next]_vars
             PROVE  FinalStates'
  OBVIOUS
<1> USE DEF targetVars, mainVars, workerVars, storeVars, TypeOK, FinalStates, Errors, Candidates
<1>1. ASSUME NEW r \in Reqs, Post(r)
      PROVE  FinalStates'
  BY <1>1 DEF Post
<1>2. ASSUME NEW r \in Reqs, Vanish(r)
      PROVE  FinalStates'
  BY <1>2 DEF Vanish
<1>3. ASSUME NEW p \in Tracked, NEW c \in Contents, TargetWrites(p, c)
      PROVE  FinalStates'
  BY <1>3 DEF TargetWrites
<1>4. CASE CommandExits
  BY <1>4 DEF CommandExits
<1>5. CASE TreeEnds
  BY <1>5 DEF TreeEnds
<1>6. ASSUME NEW p \in Tracked, CaptureStdio(p)
      PROVE  FinalStates'
  BY <1>6 DEF CaptureStdio, CaptureBefore
<1>7. ASSUME NEW p \in Tracked, CaptureAfter(p)
      PROVE  FinalStates'
  BY <1>7 DEF CaptureAfter
<1>8. CASE Spawn
  BY <1>8 DEF Spawn
<1>9. CASE SpawnFails
  BY <1>9 DEF SpawnFails
<1>10. ASSUME NEW r \in Reqs, Enqueue(r)
      PROVE  FinalStates'
  BY <1>10 DEF Enqueue
<1>11. ASSUME NEW r \in Reqs, QueueFull(r)
      PROVE  FinalStates'
  BY <1>11 DEF QueueFull, Bypass
<1>12. ASSUME NEW r \in Reqs, PoolStopped(r)
      PROVE  FinalStates'
  BY <1>12 DEF PoolStopped, Bypass
<1>13. CASE BypassReply
  BY <1>13 DEF BypassReply, Permit
<1>14. CASE ReceiveFails
  BY <1>14 DEF ReceiveFails
<1>15. CASE Stop
  BY <1>15 DEF Stop
<1>16. CASE StopOnTimeout
  BY <1>16 DEF StopOnTimeout
<1>17. CASE LoopFails
  BY <1>17 DEF LoopFails
<1>18. CASE JoinWorkers
  BY <1>18 DEF JoinWorkers, Candidates
<1>19. CASE JoinFails
  BY <1>19 DEF JoinFails
<1>20. CASE Publish
  BY <1>20 DEF Publish, Changes, Candidates
<1>21. CASE PublishFails
  BY <1>21 DEF PublishFails
<1>22. ASSUME NEW w \in Workers, Take(w)
      PROVE  FinalStates'
  BY <1>22 DEF Take, At
<1>23. ASSUME NEW w \in Workers, Exit(w)
      PROVE  FinalStates'
  BY <1>23 DEF Exit, At
<1>24. ASSUME NEW w \in Workers, LockStore(w)
      PROVE  FinalStates'
  BY <1>24 DEF LockStore, At
<1>25. ASSUME NEW w \in Workers, LockPoisoned(w)
      PROVE  FinalStates'
  BY <1>25 DEF LockPoisoned, Permit, DropQueueWithLast, At
<1>26. ASSUME NEW w \in Workers, CheckValid(w)
      PROVE  FinalStates'
  BY <1>26 DEF CheckValid, Release, At
<1>27. ASSUME NEW w \in Workers, ReadCall(w)
      PROVE  FinalStates'
  BY <1>27 DEF ReadCall, At
<1>28. ASSUME NEW w \in Workers, NEW p \in Tracked, Capture(w, p)
      PROVE  FinalStates'
  BY <1>28 DEF Capture, CaptureBefore, At
<1>29. ASSUME NEW w \in Workers, DropStale(w)
      PROVE  FinalStates'
  BY <1>29 DEF DropStale, Release, At
<1>30. ASSUME NEW w \in Workers, FailRead(w)
      PROVE  FinalStates'
  BY <1>30 DEF FailRead, At
<1>31. ASSUME NEW w \in Workers, Recheck(w)
      PROVE  FinalStates'
  BY <1>31 DEF Recheck, Release, At
<1>32. ASSUME NEW w \in Workers, Continue(w)
      PROVE  FinalStates'
  BY <1>32 DEF Continue, Permit, Release, At
<1>33. ASSUME NEW w \in Workers, Panic(w)
      PROVE  FinalStates'
  BY <1>33 DEF Panic, DropQueueWithLast, At
<1>34. CASE UNCHANGED vars
  BY <1>34 DEF vars
<1> QED
  BY <1>1, <1>2, <1>3, <1>4, <1>5, <1>6, <1>7, <1>8, <1>9, <1>10, <1>11,
     <1>12, <1>13, <1>14, <1>15, <1>16, <1>17, <1>18, <1>19, <1>20, <1>21,
     <1>22, <1>23, <1>24, <1>25, <1>26, <1>27, <1>28, <1>29, <1>30, <1>31,
     <1>32, <1>33, <1>34 DEF Next, Target, Main, Worker, Returned

(* Coverage that was lost stays lost.                                      *)
LEMMA LossStep == TypeOK /\ FinalStates /\ Degraded /\ [Next]_vars => Degraded'
<1> SUFFICES ASSUME TypeOK, FinalStates, Degraded, [Next]_vars
             PROVE  Degraded'
  OBVIOUS
<1> USE DEF targetVars, mainVars, workerVars, storeVars, TypeOK, Degraded
<1>1. ASSUME NEW r \in Reqs, Post(r)
      PROVE  Degraded'
  BY <1>1 DEF Post
<1>2. ASSUME NEW r \in Reqs, Vanish(r)
      PROVE  Degraded'
  BY <1>2 DEF Vanish
<1>3. ASSUME NEW p \in Tracked, NEW c \in Contents, TargetWrites(p, c)
      PROVE  Degraded'
  BY <1>3 DEF TargetWrites
<1>4. CASE CommandExits
  BY <1>4 DEF CommandExits
<1>5. CASE TreeEnds
  BY <1>5 DEF TreeEnds
<1>6. ASSUME NEW p \in Tracked, CaptureStdio(p)
      PROVE  Degraded'
  BY <1>6, CaptureOutcomes DEF CaptureStdio
<1>7. ASSUME NEW p \in Tracked, CaptureAfter(p)
      PROVE  Degraded'
  <2>1. after[p] = NotCaptured
    BY <1>7 DEF CaptureAfter, FinalStates
  <2>2. \A q \in Tracked : after[q] = Unavailable => after'[q] = Unavailable
    BY <1>7, <2>1 DEF CaptureAfter
  <2> QED BY <1>7, <2>2 DEF CaptureAfter
<1>8. CASE Spawn
  BY <1>8 DEF Spawn
<1>9. CASE SpawnFails
  BY <1>9 DEF SpawnFails
<1>10. ASSUME NEW r \in Reqs, Enqueue(r)
      PROVE  Degraded'
  BY <1>10 DEF Enqueue
<1>11. ASSUME NEW r \in Reqs, QueueFull(r)
      PROVE  Degraded'
  BY <1>11 DEF QueueFull, Bypass
<1>12. ASSUME NEW r \in Reqs, PoolStopped(r)
      PROVE  Degraded'
  BY <1>12 DEF PoolStopped, Bypass
<1>13. CASE BypassReply
  BY <1>13 DEF BypassReply, Permit
<1>14. CASE ReceiveFails
  BY <1>14 DEF ReceiveFails
<1>15. CASE Stop
  BY <1>15 DEF Stop
<1>16. CASE StopOnTimeout
  BY <1>16 DEF StopOnTimeout
<1>17. CASE LoopFails
  BY <1>17 DEF LoopFails
<1>18. CASE JoinWorkers
  BY <1>18 DEF JoinWorkers, Candidates
<1>19. CASE JoinFails
  BY <1>19 DEF JoinFails
<1>20. CASE Publish
  BY <1>20 DEF Publish, Changes, Candidates
<1>21. CASE PublishFails
  BY <1>21 DEF PublishFails
<1>22. ASSUME NEW w \in Workers, Take(w)
      PROVE  Degraded'
  BY <1>22 DEF Take, At
<1>23. ASSUME NEW w \in Workers, Exit(w)
      PROVE  Degraded'
  BY <1>23 DEF Exit, At
<1>24. ASSUME NEW w \in Workers, LockStore(w)
      PROVE  Degraded'
  BY <1>24 DEF LockStore, At
<1>25. ASSUME NEW w \in Workers, LockPoisoned(w)
      PROVE  Degraded'
  BY <1>25 DEF LockPoisoned, Permit, DropQueueWithLast, At
<1>26. ASSUME NEW w \in Workers, CheckValid(w)
      PROVE  Degraded'
  BY <1>26 DEF CheckValid, Release, At
<1>27. ASSUME NEW w \in Workers, ReadCall(w)
      PROVE  Degraded'
  BY <1>27 DEF ReadCall, At
<1>28. ASSUME NEW w \in Workers, NEW p \in Tracked, Capture(w, p)
      PROVE  Degraded'
  BY <1>28, CaptureOutcomes DEF Capture
<1>29. ASSUME NEW w \in Workers, DropStale(w)
      PROVE  Degraded'
  BY <1>29 DEF DropStale, Release, At
<1>30. ASSUME NEW w \in Workers, FailRead(w)
      PROVE  Degraded'
  BY <1>30 DEF FailRead, At
<1>31. ASSUME NEW w \in Workers, Recheck(w)
      PROVE  Degraded'
  BY <1>31 DEF Recheck, Release, At
<1>32. ASSUME NEW w \in Workers, Continue(w)
      PROVE  Degraded'
  BY <1>32 DEF Continue, Permit, Release, At
<1>33. ASSUME NEW w \in Workers, Panic(w)
      PROVE  Degraded'
  BY <1>33 DEF Panic, DropQueueWithLast, At
<1>34. CASE UNCHANGED vars
  BY <1>34 DEF vars
<1> QED
  BY <1>1, <1>2, <1>3, <1>4, <1>5, <1>6, <1>7, <1>8, <1>9, <1>10, <1>11,
     <1>12, <1>13, <1>14, <1>15, <1>16, <1>17, <1>18, <1>19, <1>20, <1>21,
     <1>22, <1>23, <1>24, <1>25, <1>26, <1>27, <1>28, <1>29, <1>30, <1>31,
     <1>32, <1>33, <1>34 DEF Next, Target, Main, Worker, Returned

(* What was recorded is never forgotten.                                   *)
LEMMA RecordedStep == TypeOK /\ [Next]_vars => (\A q \in Candidates : before'[q] = before[q])
<1> SUFFICES ASSUME TypeOK, [Next]_vars
             PROVE  (\A q \in Candidates : before'[q] = before[q])
  OBVIOUS
<1> USE DEF targetVars, mainVars, workerVars, storeVars, TypeOK, Candidates
<1>1. ASSUME NEW r \in Reqs, Post(r)
      PROVE  (\A q \in Candidates : before'[q] = before[q])
  BY <1>1 DEF Post
<1>2. ASSUME NEW r \in Reqs, Vanish(r)
      PROVE  (\A q \in Candidates : before'[q] = before[q])
  BY <1>2 DEF Vanish
<1>3. ASSUME NEW p \in Tracked, NEW c \in Contents, TargetWrites(p, c)
      PROVE  (\A q \in Candidates : before'[q] = before[q])
  BY <1>3 DEF TargetWrites
<1>4. CASE CommandExits
  BY <1>4 DEF CommandExits
<1>5. CASE TreeEnds
  BY <1>5 DEF TreeEnds
<1>6. ASSUME NEW p \in Tracked, CaptureStdio(p)
      PROVE  (\A q \in Candidates : before'[q] = before[q])
  BY <1>6, CaptureOutcomes DEF CaptureStdio
<1>7. ASSUME NEW p \in Tracked, CaptureAfter(p)
      PROVE  (\A q \in Candidates : before'[q] = before[q])
  BY <1>7 DEF CaptureAfter
<1>8. CASE Spawn
  BY <1>8 DEF Spawn
<1>9. CASE SpawnFails
  BY <1>9 DEF SpawnFails
<1>10. ASSUME NEW r \in Reqs, Enqueue(r)
      PROVE  (\A q \in Candidates : before'[q] = before[q])
  BY <1>10 DEF Enqueue
<1>11. ASSUME NEW r \in Reqs, QueueFull(r)
      PROVE  (\A q \in Candidates : before'[q] = before[q])
  BY <1>11 DEF QueueFull, Bypass
<1>12. ASSUME NEW r \in Reqs, PoolStopped(r)
      PROVE  (\A q \in Candidates : before'[q] = before[q])
  BY <1>12 DEF PoolStopped, Bypass
<1>13. CASE BypassReply
  BY <1>13 DEF BypassReply, Permit
<1>14. CASE ReceiveFails
  BY <1>14 DEF ReceiveFails
<1>15. CASE Stop
  BY <1>15 DEF Stop
<1>16. CASE StopOnTimeout
  BY <1>16 DEF StopOnTimeout
<1>17. CASE LoopFails
  BY <1>17 DEF LoopFails
<1>18. CASE JoinWorkers
  BY <1>18 DEF JoinWorkers, Candidates
<1>19. CASE JoinFails
  BY <1>19 DEF JoinFails
<1>20. CASE Publish
  BY <1>20 DEF Publish, Changes, Candidates
<1>21. CASE PublishFails
  BY <1>21 DEF PublishFails
<1>22. ASSUME NEW w \in Workers, Take(w)
      PROVE  (\A q \in Candidates : before'[q] = before[q])
  BY <1>22 DEF Take, At
<1>23. ASSUME NEW w \in Workers, Exit(w)
      PROVE  (\A q \in Candidates : before'[q] = before[q])
  BY <1>23 DEF Exit, At
<1>24. ASSUME NEW w \in Workers, LockStore(w)
      PROVE  (\A q \in Candidates : before'[q] = before[q])
  BY <1>24 DEF LockStore, At
<1>25. ASSUME NEW w \in Workers, LockPoisoned(w)
      PROVE  (\A q \in Candidates : before'[q] = before[q])
  BY <1>25 DEF LockPoisoned, Permit, DropQueueWithLast, At
<1>26. ASSUME NEW w \in Workers, CheckValid(w)
      PROVE  (\A q \in Candidates : before'[q] = before[q])
  BY <1>26 DEF CheckValid, Release, At
<1>27. ASSUME NEW w \in Workers, ReadCall(w)
      PROVE  (\A q \in Candidates : before'[q] = before[q])
  BY <1>27 DEF ReadCall, At
<1>28. ASSUME NEW w \in Workers, NEW p \in Tracked, Capture(w, p)
      PROVE  (\A q \in Candidates : before'[q] = before[q])
  BY <1>28, CaptureOutcomes DEF Capture
<1>29. ASSUME NEW w \in Workers, DropStale(w)
      PROVE  (\A q \in Candidates : before'[q] = before[q])
  BY <1>29 DEF DropStale, Release, At
<1>30. ASSUME NEW w \in Workers, FailRead(w)
      PROVE  (\A q \in Candidates : before'[q] = before[q])
  BY <1>30 DEF FailRead, At
<1>31. ASSUME NEW w \in Workers, Recheck(w)
      PROVE  (\A q \in Candidates : before'[q] = before[q])
  BY <1>31 DEF Recheck, Release, At
<1>32. ASSUME NEW w \in Workers, Continue(w)
      PROVE  (\A q \in Candidates : before'[q] = before[q])
  BY <1>32 DEF Continue, Permit, Release, At
<1>33. ASSUME NEW w \in Workers, Panic(w)
      PROVE  (\A q \in Candidates : before'[q] = before[q])
  BY <1>33 DEF Panic, DropQueueWithLast, At
<1>34. CASE UNCHANGED vars
  BY <1>34 DEF vars
<1> QED
  BY <1>1, <1>2, <1>3, <1>4, <1>5, <1>6, <1>7, <1>8, <1>9, <1>10, <1>11,
     <1>12, <1>13, <1>14, <1>15, <1>16, <1>17, <1>18, <1>19, <1>20, <1>21,
     <1>22, <1>23, <1>24, <1>25, <1>26, <1>27, <1>28, <1>29, <1>30, <1>31,
     <1>32, <1>33, <1>34 DEF Next, Target, Main, Worker, Returned

(* What the run knows while it still believes in full coverage.            *)
Untouched == \A p \in Tracked \ writable : file[p] = Begin[p]

OriginalsAreFirst == Degraded \/ \A p \in Recorded : before[p] = Begin[p]

(* A worker that is past the reading of its call has recorded the          *)
(* originals of the paths it does not list any more.                       *)
CallsCovered ==
  \A w \in Workers :
    /\ wpc[w] = "sending" => wtodo[w] = {}
    /\ wpc[w] \in {"capturing", "sending"} /\ ~Degraded =>
         /\ ~op[wreq[w]].opaque
         /\ op[wreq[w]].paths \ wtodo[w] \subseteq Recorded

StdioCovered ==
  mpc = "stdio" =>
    /\ mtodo \subseteq StdioPaths
    /\ Degraded \/ StdioPaths \ mtodo \subseteq Recorded

BypassIsNoted == mpc = "bypass" => pending # {}

Coverage ==
  /\ NoBlindContinue /\ Untouched /\ OriginalsAreFirst
  /\ CallsCovered /\ StdioCovered /\ BypassIsNoted

(* Only the answers, and the spawn with its writable stdio, let the tree   *)
(* through.                                                                *)
LEMMA WhoPermits ==
  [Next]_vars => \/ writable' = writable
                 \/ Spawn \/ BypassReply
                 \/ \E w \in Workers : LockPoisoned(w) \/ Continue(w)
BY DEF Next, Target, Main, Worker, Returned, vars, targetVars, Post, Vanish,
   TargetWrites, CommandExits, TreeEnds, CaptureStdio, CaptureAfter, SpawnFails,
   Enqueue, QueueFull, PoolStopped, Bypass, ReceiveFails, Stop, StopOnTimeout,
   LoopFails, JoinWorkers, JoinFails, Publish, PublishFails, Take, Exit,
   LockStore, CheckValid, ReadCall, Capture, DropStale, FailRead, Recheck, Panic

(* Only the tree changes files.                                            *)
LEMMA WhoWrites ==
  [Next]_vars => \/ file' = file
                 \/ \E p \in Tracked, c \in Contents : TargetWrites(p, c)
BY DEF Next, Target, Main, Worker, Returned, vars, targetVars, Post, Vanish,
   CommandExits, TreeEnds, CaptureStdio, CaptureAfter, Spawn, SpawnFails,
   Enqueue, QueueFull, PoolStopped, Bypass, BypassReply, ReceiveFails, Stop,
   StopOnTimeout, LoopFails, JoinWorkers, JoinFails, Publish, PublishFails,
   Take, Exit, LockStore, LockPoisoned, CheckValid, ReadCall, Capture,
   DropStale, FailRead, Recheck, Continue, Panic

(* Only the captures before a change record originals.                     *)
LEMMA WhoRecords ==
  [Next]_vars => \/ before' = before
                 \/ \E p \in Tracked : CaptureStdio(p)
                 \/ \E w \in Workers, p \in Tracked : Capture(w, p)
BY DEF Next, Target, Main, Worker, Returned, vars, storeVars, Post, Vanish,
   TargetWrites, CommandExits, TreeEnds, CaptureAfter, Spawn, SpawnFails,
   Enqueue, QueueFull, PoolStopped, Bypass, BypassReply, ReceiveFails, Stop,
   StopOnTimeout, LoopFails, JoinWorkers, JoinFails, Publish, PublishFails,
   Take, Exit, LockStore, LockPoisoned, CheckValid, ReadCall, DropStale,
   FailRead, Recheck, Continue, Panic

(* The call behind a notification does not change once it is posted.       *)
LEMMA WhoPosts ==
  ASSUME TypeOK, [Next]_vars, NEW r \in Reqs, status[r] # "unused"
  PROVE  op'[r] = op[r]
<1>1. op' = op \/ \E q \in Reqs : Post(q)
  BY DEF Next, Target, Main, Worker, Returned, vars, targetVars, Vanish,
     TargetWrites, CommandExits, TreeEnds, CaptureStdio, CaptureAfter, Spawn,
     SpawnFails, Enqueue, QueueFull, PoolStopped, Bypass, BypassReply,
     ReceiveFails, Stop, StopOnTimeout, LoopFails, JoinWorkers, JoinFails,
     Publish, PublishFails, Take, Exit, LockStore, LockPoisoned, CheckValid,
     ReadCall, Capture, DropStale, FailRead, Recheck, Continue, Panic
<1> QED BY <1>1 DEF Post, TypeOK

(* What a worker has at hand changes by its own steps only.                *)
LEMMA WhoWorks ==
  ASSUME TypeOK, [Next]_vars, NEW w \in Workers
  PROVE  \/ wpc'[w] = wpc[w] /\ wreq'[w] = wreq[w] /\ wtodo'[w] = wtodo[w]
         \/ Worker(w)
<1>1. UNCHANGED workerVars \/ \E v \in Workers : Worker(v)
  BY DEF Next, Target, Main, Returned, vars, workerVars, Post, Vanish,
     TargetWrites, CommandExits, TreeEnds, CaptureStdio, CaptureAfter, Spawn,
     SpawnFails, Enqueue, QueueFull, PoolStopped, Bypass, BypassReply,
     ReceiveFails, Stop, StopOnTimeout, LoopFails, JoinWorkers, JoinFails,
     Publish, PublishFails
<1>2. ASSUME NEW v \in Workers \ {w}, Worker(v)
      PROVE  wpc'[w] = wpc[w] /\ wreq'[w] = wreq[w] /\ wtodo'[w] = wtodo[w]
  BY <1>2 DEF TypeOK, Worker, Take, Exit, LockStore, LockPoisoned, CheckValid,
     ReadCall, Capture, DropStale, FailRead, Recheck, Continue, Panic, Release
<1> QED BY <1>1, <1>2 DEF workerVars

(* Every step keeps the coverage invariant.                                *)
LEMMA CoverageStep ==
  ASSUME TypeOK, Known, Phases, Coverage, [Next]_vars
  PROVE  Coverage'
<1>1. Degraded => Degraded'
  BY LossStep DEF Phases
<1>2. Recorded \subseteq Recorded' /\ \A p \in Recorded : before'[p] = before[p]
  BY RecordedStep DEF Recorded, Candidates, DistinctAssumption
<1>3. NoBlindContinue'
  <2> SUFFICES writable' = writable \/ Degraded \/ writable' \subseteq Recorded
    BY <1>1, <1>2 DEF Coverage, NoBlindContinue
  <2>1. CASE Spawn
    BY <2>1 DEF Spawn, Coverage, StdioCovered
  <2>2. CASE BypassReply
    BY <2>2 DEF BypassReply, Coverage, BypassIsNoted, Degraded
  <2>3. ASSUME NEW w \in Workers, LockPoisoned(w)
        PROVE  Degraded
    BY <2>3 DEF LockPoisoned, Degraded
  <2>4. ASSUME NEW w \in Workers, Continue(w), ~Degraded
        PROVE  writable' = writable \/ writable' \subseteq Recorded
    <3>1. ~op[wreq[w]].opaque /\ op[wreq[w]].paths \subseteq Recorded
      BY <2>4 DEF Continue, At, Coverage, CallsCovered
    <3>2. writable \subseteq Recorded
      BY <2>4 DEF Coverage, NoBlindContinue
    <3> QED BY <2>4, <3>1, <3>2 DEF Continue, Permit
  <2> QED BY WhoPermits, <2>1, <2>2, <2>3, <2>4
<1>4. Untouched'
  <2>1. ASSUME NEW p \in Tracked, NEW c \in Contents, TargetWrites(p, c)
        PROVE  Untouched'
    BY <2>1 DEF TargetWrites, Coverage, Untouched, TypeOK
  <2>2. writable \subseteq writable'
    <3>1. Spawn => writable = {}
      BY DEF Spawn, Phases, Startup
    <3> QED BY WhoPermits, <3>1 DEF BypassReply, LockPoisoned, Continue, Permit
  <2>3. CASE file' = file
    BY <2>2, <2>3 DEF Coverage, Untouched
  <2> QED BY WhoWrites, <2>1, <2>3
<1>5. OriginalsAreFirst'
  <2> SUFFICES ASSUME ~Degraded'
               PROVE  \A p \in Recorded' : before'[p] = Begin[p]
    BY DEF OriginalsAreFirst
  <2>1. \A p \in Recorded : before'[p] = Begin[p]
    BY <1>1, <1>2 DEF Coverage, OriginalsAreFirst
  <2>2. \A p \in Tracked \ Recorded : file[p] = Begin[p]
    BY <1>1 DEF Coverage, NoBlindContinue, Untouched
  <2>3. \A p \in Recorded' \ Recorded : before'[p] = file[p]
    <3>1. ASSUME NEW p \in Tracked, CaptureBefore(p)
          PROVE  \A q \in Recorded' \ Recorded : before'[q] = file[q]
      <4>1. CASE before' = before
        BY <4>1 DEF Recorded
      <4>2. CASE before' = [before EXCEPT ![p] = file[p]]
        BY <4>2 DEF Recorded, TypeOK
      <4>3. CASE before' = [before EXCEPT ![p] = Unavailable]
        BY <4>3 DEF Recorded, TypeOK
      <4> QED BY <3>1, <4>1, <4>2, <4>3, CaptureOutcomes
    <3>2. ASSUME NEW p \in Tracked, CaptureStdio(p)
          PROVE  \A q \in Recorded' \ Recorded : before'[q] = file[q]
      BY <3>1, <3>2 DEF CaptureStdio, Recorded
    <3>3. ASSUME NEW w \in Workers, NEW p \in Tracked, Capture(w, p)
          PROVE  \A q \in Recorded' \ Recorded : before'[q] = file[q]
      BY <3>1, <3>3 DEF Capture
    <3> QED BY WhoRecords, <3>2, <3>3 DEF Recorded
  <2> QED BY <2>1, <2>2, <2>3 DEF Recorded
<1>6. CallsCovered'
  <2> SUFFICES ASSUME NEW w \in Workers
               PROVE  /\ wpc'[w] = "sending" => wtodo'[w] = {}
                      /\ wpc'[w] \in {"capturing", "sending"} /\ ~Degraded' =>
                           /\ ~op'[wreq'[w]].opaque
                           /\ op'[wreq'[w]].paths \ wtodo'[w] \subseteq Recorded'
    BY DEF CallsCovered
  <2> DEFINE Goal == /\ wpc'[w] = "sending" => wtodo'[w] = {}
                     /\ wpc'[w] \in {"capturing", "sending"} /\ ~Degraded' =>
                          /\ ~op'[wreq'[w]].opaque
                          /\ op'[wreq'[w]].paths \ wtodo'[w] \subseteq Recorded'
  <2>1. wpc[w] \in Handling => wreq[w] \in Reqs /\ op'[wreq[w]] = op[wreq[w]]
    BY WhoPosts DEF Known
  <2>2. ASSUME wpc'[w] = wpc[w], wreq'[w] = wreq[w], wtodo'[w] = wtodo[w]
        PROVE  Goal
    BY <1>1, <1>2, <2>1, <2>2 DEF Coverage, CallsCovered, Handling
  <2>3. ASSUME ReadCall(w)
        PROVE  Goal
    <3>1. op[wreq[w]] \in Ops /\ op'[wreq[w]] = op[wreq[w]]
      BY <2>1, <2>3 DEF ReadCall, At, Known, Handling
    <3>2. op[wreq[w]].opaque => Degraded'
      BY <2>3 DEF ReadCall, Degraded
    <3> QED BY <2>3, <3>1, <3>2 DEF ReadCall, TypeOK
  <2>4. ASSUME NEW p \in Tracked, Capture(w, p)
        PROVE  Goal
    <3>1. p \in Recorded' \/ Degraded'
      <4>1. file[p] \in Contents /\ before[p] \in States
        BY DEF TypeOK
      <4>2. CaptureBefore(p)
        BY <2>4 DEF Capture
      <4> QED BY <4>1, <4>2, CaptureOutcomes
              DEF Recorded, Candidates, Degraded, States, TypeOK
    <3>2. wtodo'[w] = wtodo[w] \ {p} /\ wpc'[w] = "capturing" /\ wreq'[w] = wreq[w]
      BY <2>4 DEF Capture, At, TypeOK
    <3>3. ~Degraded => /\ ~op[wreq[w]].opaque
                       /\ op[wreq[w]].paths \ wtodo[w] \subseteq Recorded
      BY <2>4 DEF Capture, At, Coverage, CallsCovered
    <3>4. op'[wreq[w]] = op[wreq[w]]
      BY <2>1, <2>4 DEF Capture, At, Handling
    <3> QED BY <1>1, <1>2, <3>1, <3>2, <3>3, <3>4
  <2>5. ASSUME FailRead(w)
        PROVE  Goal
    BY <2>5 DEF FailRead, Degraded, TypeOK
  <2>6. ASSUME Recheck(w)
        PROVE  Goal
    <3>1. CASE Gone(wreq[w])
      BY <2>6, <3>1 DEF Recheck, Release, TypeOK
    <3>2. CASE ~Gone(wreq[w])
      <4>1. /\ wtodo[w] = {} /\ wtodo'[w] = {} /\ wreq'[w] = wreq[w]
            /\ wpc[w] = "capturing"
        BY <2>6, <3>2 DEF Recheck, At
      <4> QED BY <1>1, <1>2, <2>1, <4>1 DEF Coverage, CallsCovered, Handling
    <3> QED BY <3>1, <3>2
  <2>7. ASSUME \/ Take(w) \/ Exit(w) \/ LockStore(w) \/ LockPoisoned(w)
               \/ CheckValid(w) \/ DropStale(w) \/ Continue(w) \/ Panic(w)
        PROVE  Goal
    <3>1. wpc'[w] \notin {"capturing", "sending"}
      BY <2>7 DEF Take, Exit, LockStore, LockPoisoned, CheckValid, DropStale,
         Continue, Panic, Release, TypeOK
    <3> QED BY <3>1
  <2>8. ASSUME Worker(w)
        PROVE  Goal
    BY <2>3, <2>4, <2>5, <2>6, <2>7, <2>8 DEF Worker
  <2> QED BY WhoWorks, <2>2, <2>8
<1>7. StdioCovered'
  <2>1. mpc' = "stdio" =>
          \/ mpc = "stdio" /\ mtodo' = mtodo
          \/ \E p \in Tracked : CaptureStdio(p)
    BY DEF Next, Target, Main, Worker, Returned, vars, mainVars, Post, Vanish,
       TargetWrites, CommandExits, TreeEnds, CaptureAfter, Spawn, SpawnFails,
       Enqueue, QueueFull, PoolStopped, Bypass, BypassReply, ReceiveFails, Stop,
       StopOnTimeout, LoopFails, JoinWorkers, JoinFails, Publish, PublishFails,
       Take, Exit, LockStore, LockPoisoned, CheckValid, ReadCall, Capture,
       DropStale, FailRead, Recheck, Continue, Panic
  <2>2. ASSUME mpc = "stdio", mtodo' = mtodo
        PROVE  StdioCovered'
    BY <1>1, <1>2, <2>2 DEF Coverage, StdioCovered
  <2>3. ASSUME NEW p \in Tracked, CaptureStdio(p)
        PROVE  StdioCovered'
    <3>1. p \in Recorded' \/ Degraded'
      <4>1. file[p] \in Contents /\ before[p] \in States
        BY DEF TypeOK
      <4>2. CASE CaptureBefore(p)
        BY <4>1, <4>2, CaptureOutcomes
           DEF Recorded, Candidates, Degraded, States, TypeOK
      <4>3. CASE gaps' = gaps \cup {"stdio_fd"}
        BY <4>3 DEF Degraded
      <4> QED BY <2>3, <4>2, <4>3 DEF CaptureStdio
    <3>2. mpc = "stdio" /\ mtodo' = mtodo \ {p}
      BY <2>3 DEF CaptureStdio
    <3> QED BY <1>1, <1>2, <3>1, <3>2 DEF Coverage, StdioCovered
  <2> QED BY <2>1, <2>2, <2>3 DEF StdioCovered
<1>8. BypassIsNoted'
  BY DEF Coverage, BypassIsNoted, Next, Target, Main, Worker, Returned, vars,
     mainVars, Post, Vanish, TargetWrites, CommandExits, TreeEnds, CaptureStdio,
     CaptureAfter, Spawn, SpawnFails, Enqueue, QueueFull, PoolStopped, Bypass,
     BypassReply, ReceiveFails, Stop, StopOnTimeout, LoopFails, JoinWorkers,
     JoinFails, Publish, PublishFails, Take, Exit, LockStore, LockPoisoned,
     CheckValid, ReadCall, Capture, DropStale, FailRead, Recheck, Continue, Panic
<1> QED BY <1>3, <1>4, <1>5, <1>6, <1>7, <1>8 DEF Coverage

(* What the report is made of.                                             *)
TreeEnded == mpc \in {"joining", "reporting"} => tree = "dead" \/ Degraded

FinalsTrue ==
  mpc = "reporting" /\ ~Degraded =>
    \A p \in Candidates \ mtodo : after[p] = file[p]

Reporting == TreeEnded /\ FinalsTrue /\ FinishedIsExact

(* A tree that has ended stays so and changes no file.                     *)
LEMMA DeadStaysDead ==
  ASSUME Startup, [Next]_vars, tree = "dead"
  PROVE  tree' = "dead" /\ file' = file
<1>1. file' = file
  BY WhoWrites DEF TargetWrites, Alive
<1>2. tree' = "dead"
  BY DEF Startup, Next, Target, Main, Worker, Returned, vars, targetVars, Post,
     Vanish, TargetWrites, CommandExits, TreeEnds, Alive, CaptureStdio,
     CaptureAfter, Spawn, SpawnFails, Enqueue, QueueFull, PoolStopped, Bypass,
     BypassReply, ReceiveFails, Stop, StopOnTimeout, LoopFails, JoinWorkers,
     JoinFails, Publish, PublishFails, Take, Exit, LockStore, LockPoisoned,
     CheckValid, ReadCall, Capture, DropStale, FailRead, Recheck, Continue, Panic
<1> QED BY <1>1, <1>2

(* The main loop goes on to the joins and to the report by its own steps.  *)
LEMMA WhoStops ==
  [Next]_vars /\ mpc' \in {"joining", "reporting"} =>
    \/ mpc' = mpc
    \/ Stop \/ StopOnTimeout
    \/ mpc = "joining" /\ JoinWorkers
BY DEF Next, Target, Main, Worker, Returned, vars, mainVars, Post, Vanish,
   TargetWrites, CommandExits, TreeEnds, CaptureStdio, CaptureAfter, Spawn,
   SpawnFails, Enqueue, QueueFull, PoolStopped, Bypass, BypassReply,
   ReceiveFails, LoopFails, JoinWorkers, JoinFails, Publish, PublishFails, Take,
   Exit, LockStore, LockPoisoned, CheckValid, ReadCall, Capture, DropStale,
   FailRead, Recheck, Continue, Panic

(* While the report is prepared nothing but its own captures changes what  *)
(* it is made of.                                                          *)
LEMMA WhoReports ==
  [Next]_vars /\ Shutdown /\ mpc = "reporting" /\ mpc' = "reporting" =>
    \/ UNCHANGED <<before, after, mtodo>>
    \/ \E p \in Tracked : CaptureAfter(p)
<1> SUFFICES ASSUME [Next]_vars, Shutdown, mpc = "reporting", mpc' = "reporting"
             PROVE  \/ UNCHANGED <<before, after, mtodo>>
                    \/ \E p \in Tracked : CaptureAfter(p)
  OBVIOUS
<1>1. ~\E w \in Workers : Worker(w)
  BY DEF Shutdown, Worker, At, Take, Exit, LockStore, LockPoisoned, CheckValid,
     ReadCall, Capture, DropStale, FailRead, Recheck, Continue, Panic
<1> QED
  BY <1>1 DEF Next, Target, Main, Returned, vars, mainVars, storeVars, Post,
     Vanish, TargetWrites, CommandExits, TreeEnds, CaptureStdio, Spawn,
     SpawnFails, Enqueue, QueueFull, PoolStopped, Bypass, BypassReply,
     ReceiveFails, Stop, StopOnTimeout, LoopFails, JoinWorkers, JoinFails,
     Publish, PublishFails

(* A report with full coverage is published in a state with full coverage. *)
LEMMA FullCoverageMeansNoLoss ==
  ASSUME TypeOK, Shutdown, FinalStates, mpc = "reporting", FullCoverage
  PROVE  ~Degraded
<1>1. gaps = {} /\ pending = {} /\ ~poisoned
  BY DEF FullCoverage, Shutdown
<1>2. ASSUME NEW p \in Candidates, Changed(p)
      PROVE  Unavailable \notin {before[p], after[p]}
  <2>1. [path |-> p, before |-> before[p], after |-> after[p]] \in Changes
    BY <1>2 DEF Changes
  <2> QED BY <2>1 DEF FullCoverage
<1>3. \A p \in Candidates : Unavailable \notin {before[p], after[p]}
  BY <1>2 DEF Changed
<1>4. \A p \in Tracked \ Candidates : Unavailable \notin {before[p], after[p]}
  BY DEF FinalStates, Candidates
<1> QED BY <1>1, <1>3, <1>4 DEF Degraded

(* The report published with full coverage lists the net changes.          *)
LEMMA PublishIsExact ==
  ASSUME TypeOK, Phases, Coverage, Reporting, Publish
  PROVE  FinishedIsExact'
<1> SUFFICES ASSUME FullCoverage
             PROVE  FinishedIsExact'
  <2>1. ~FullCoverage => report'.state = "partial"
    BY DEF Publish
  <2> QED BY <2>1 DEF FinishedIsExact
<1>1. ~Degraded
  BY FullCoverageMeansNoLoss DEF Publish, Phases
<1>2. tree = "dead"
  BY <1>1 DEF Publish, Reporting, TreeEnded
<1>3. \A p \in Candidates : p \in Recorded /\ before[p] = Begin[p] /\ after[p] = file[p]
  BY <1>1 DEF Publish, Reporting, FinalsTrue, Coverage, OriginalsAreFirst,
     Recorded, Candidates, Degraded, TypeOK, States
<1>4. \A p \in Tracked \ Candidates : file[p] = Begin[p]
  BY <1>1 DEF Coverage, NoBlindContinue, Untouched, Recorded, Candidates
<1>5. {q \in Candidates : Changed(q)} = {q \in Tracked : file[q] # Begin[q]}
  <2>1. \A q \in Candidates : Changed(q) <=> file[q] # Begin[q]
    BY <1>3 DEF Changed, Recorded
  <2> QED BY <2>1, <1>4 DEF Candidates
<1>6. Changes = {[path |-> p, before |-> Begin[p], after |-> file[p]] :
                   p \in {q \in Tracked : file[q] # Begin[q]}}
  BY <1>3, <1>5 DEF Changes
<1> QED BY <1>2, <1>6 DEF Publish, FinishedIsExact, targetVars

(* Every step keeps the reporting invariant, if no descendant is           *)
(* overlooked.                                                             *)
LEMMA ReportingStep ==
  ASSUME ~ScanMayMiss, TypeOK, Known, Phases, Coverage, Reporting, [Next]_vars
  PROVE  Reporting'
<1>1. Degraded => Degraded'
  BY LossStep DEF Phases
<1>2. tree = "dead" => tree' = "dead" /\ file' = file
  BY DeadStaysDead DEF Phases
<1>3. TreeEnded'
  <2> SUFFICES ASSUME mpc' \in {"joining", "reporting"}
               PROVE  tree' = "dead" \/ Degraded'
    BY DEF TreeEnded
  <2>1. CASE mpc' = mpc \/ mpc = "joining"
    BY <1>1, <1>2, <2>1 DEF Reporting, TreeEnded
  <2>2. CASE Stop
    BY <2>2 DEF Stop, targetVars
  <2>3. CASE StopOnTimeout
    BY <2>3 DEF StopOnTimeout, Degraded
  <2> QED BY WhoStops, <2>1, <2>2, <2>3
<1>4. FinalsTrue'
  <2> SUFFICES ASSUME mpc' = "reporting", ~Degraded'
               PROVE  \A p \in (Candidates \ mtodo)' : after'[p] = file'[p]
    BY DEF FinalsTrue
  <2>1. CASE mpc = "joining" /\ JoinWorkers
    BY <2>1 DEF JoinWorkers, Candidates
  <2>2. CASE mpc = "reporting"
    <3>1. tree = "dead" /\ file' = file
      BY <1>1, <1>2, <2>2 DEF Reporting, TreeEnded
    <3>2. \A p \in Candidates \ mtodo : after[p] = file[p]
      BY <1>1, <2>2 DEF Reporting, FinalsTrue
    <3>3. CASE UNCHANGED <<before, after, mtodo>>
      BY <3>1, <3>2, <3>3 DEF Candidates
    <3>4. ASSUME NEW p \in Tracked, CaptureAfter(p)
          PROVE  \A q \in (Candidates \ mtodo)' : after'[q] = file'[q]
      <4>1. before' = before /\ mtodo' = mtodo \ {p}
        BY <3>4 DEF CaptureAfter
      <4>2. \A q \in Tracked : q # p => after'[q] = after[q]
        BY <3>4 DEF CaptureAfter, TypeOK
      <4>3. after'[p] = file[p]
        BY <3>4 DEF CaptureAfter, TypeOK, Degraded
      <4> QED BY <3>1, <3>2, <4>1, <4>2, <4>3 DEF Candidates
    <3> QED BY WhoReports, <2>2, <3>3, <3>4 DEF Phases
  <2> QED BY WhoStops, <2>1, <2>2 DEF Stop, StopOnTimeout
<1>5. FinishedIsExact'
  <2>1. CASE Publish
    BY <2>1, PublishIsExact
  <2>2. CASE report' = report
    BY <1>2, <2>2 DEF Reporting, FinishedIsExact
  <2>3. report' = report \/ Publish
    BY DEF Next, Target, Main, Worker, Returned, vars, Post, Vanish,
       TargetWrites, CommandExits, TreeEnds, CaptureStdio, CaptureAfter, Spawn,
       SpawnFails, Enqueue, QueueFull, PoolStopped, Bypass, BypassReply,
       ReceiveFails, Stop, StopOnTimeout, LoopFails, JoinWorkers, JoinFails,
       PublishFails, Take, Exit, LockStore, LockPoisoned, CheckValid, ReadCall,
       Capture, DropStale, FailRead, Recheck, Continue, Panic
  <2> QED BY <2>1, <2>2, <2>3
<1> QED BY <1>3, <1>4, <1>5 DEF Reporting

-----------------------------------------------------------------------------
(* The inductive invariant.                                                *)
Sound == TypeOK /\ Known /\ Phases /\ Coverage

LEMMA InitSound == Init => Sound /\ Reporting
<1> SUFFICES ASSUME Init
             PROVE  Sound /\ Reporting
  OBVIOUS
<1>1. TypeOK
  <2>1. before \in [Tracked -> States] /\ after \in [Tracked -> States]
    BY DEF Init, States
  <2>2. report \in [state : {"none", "finished", "partial"},
                    changes : SUBSET [path : Tracked, before : States, after : States]]
    BY DEF Init, NoReport
  <2>3. /\ status \in [Reqs -> {"unused", "posted", "received", "continued", "gone"}]
        /\ op \in [Reqs -> Ops \cup {NoOp}]
        /\ wpc \in [Workers -> {"idle", "locking", "checking", "reading",
                               "capturing", "sending", "exited", "panicked"}]
        /\ wreq \in [Workers -> Reqs \cup {NoReq}]
        /\ wtodo \in [Workers -> SUBSET Tracked]
    BY DEF Init
  <2>4. queue \in Seq(Reqs) /\ Len(queue) <= QueueCapacity
    BY LimitsAssumption DEF Init
  <2>5. /\ pending \subseteq GapKinds /\ gaps \subseteq GapKinds
        /\ writable \subseteq Tracked /\ mtodo \subseteq Tracked
        /\ file \in [Tracked -> Contents]
    BY DEF Init
  <2> QED BY <2>1, <2>2, <2>3, <2>4, <2>5 DEF Init, TypeOK
<1>2. Known
  BY DEF Init, Known, Handling
<1>3. Phases
  BY DEF Init, Phases, Startup, Shutdown, FinalStates
<1>4. Recorded = {}
  BY DEF Init, Recorded
<1>5. Coverage
  BY <1>4 DEF Init, Coverage, NoBlindContinue, Untouched, OriginalsAreFirst,
     CallsCovered, StdioCovered, BypassIsNoted
<1>6. Reporting
  BY DEF Init, Reporting, TreeEnded, FinalsTrue, FinishedIsExact, NoReport
<1> QED BY <1>1, <1>2, <1>3, <1>5, <1>6 DEF Sound

LEMMA SoundStep == Sound /\ [Next]_vars => Sound'
BY TypeStep, KnownStep, StartupStep, ShutdownStep, FinalStatesStep, CoverageStep
   DEF Sound, Phases

LEMMA AlwaysSound == Spec => []Sound
BY InitSound, SoundStep, PTL DEF Spec

(* Every variable keeps its type.                                          *)
THEOREM TypeCorrect == Spec => []TypeOK
<1>1. Sound => TypeOK
  BY DEF Sound
<1> QED BY AlwaysSound, <1>1, PTL

(* The tree is never let through to change a path whose original is        *)
(* neither recorded nor reported as lost, whatever the interleaving of the *)
(* threads, the queue's capacity and the quota.                            *)
THEOREM NeverBlind == Spec => []NoBlindContinue
<1>1. Sound => NoBlindContinue
  BY DEF Sound, Coverage
<1> QED BY AlwaysSound, <1>1, PTL

(* The first captured state of a path stays.                               *)
THEOREM FirstStays == Spec => FirstCaptureStays
<1>1. Sound /\ [Next]_vars => [\A p \in Candidates : before'[p] = before[p]]_vars
  BY RecordedStep DEF Sound
<1> QED BY AlwaysSound, <1>1, PTL DEF Spec, FirstCaptureStays

(* A loss of coverage is never forgotten.                                  *)
THEOREM LossStays == Spec => LossIsKept
<1>1. Sound /\ [Next]_vars => [Degraded => Degraded']_vars
  BY LossStep DEF Sound, Phases
<1> QED BY AlwaysSound, <1>1, PTL DEF Spec, LossIsKept

(* If the scan for descendants overlooks nobody, a finished report is      *)
(* exact: it is about a tree that has ended and lists its net changes.     *)
THEOREM ExactReport ==
  ASSUME ~ScanMayMiss
  PROVE  Spec => []FinishedIsExact
<1>1. Init => Sound /\ Reporting
  BY InitSound
<1>2. (Sound /\ Reporting) /\ [Next]_vars => (Sound /\ Reporting)'
  BY SoundStep, ReportingStep DEF Sound
<1>3. Sound /\ Reporting => FinishedIsExact
  BY DEF Reporting
<1> QED BY <1>1, <1>2, <1>3, PTL DEF Spec

(* A capture adds at most its own path to the candidates, and only while   *)
(* there is room.                                                          *)
LEMMA CaptureHasRoom ==
  ASSUME TypeOK, NEW p \in Tracked, CaptureBefore(p)
  PROVE  \/ Candidates' = Candidates
         \/ /\ Candidates' = Candidates \cup {p} /\ p \notin Candidates
            /\ Cardinality(Candidates) < MaxFiles
<1>1. CASE before' = before
  BY <1>1 DEF Candidates
<1>2. CASE before[p] = NotCaptured /\ before' # before
  <2>1. Cardinality(Candidates) < MaxFiles
    BY <1>2, Zenon DEF CaptureBefore
  <2>2. before'[p] # NotCaptured /\ \A q \in Tracked : q # p => before'[q] = before[q]
    BY <1>2, CaptureOutcomes DEF TypeOK
  <2> QED BY <1>2, <2>1, <2>2 DEF Candidates
<1> QED BY <1>1, <1>2, CaptureOutcomes

Room == IsFiniteSet(Candidates) /\ QuotaRespected

LEMMA RoomStep == TypeOK /\ Room /\ [Next]_vars => Room'
<1> SUFFICES ASSUME TypeOK, Room, [Next]_vars
             PROVE  Room'
  OBVIOUS
<1>1. ASSUME NEW p \in Tracked, CaptureBefore(p)
      PROVE  Room'
  <2>1. CASE Candidates' = Candidates
    BY <2>1 DEF Room, QuotaRespected
  <2>2. CASE /\ Candidates' = Candidates \cup {p} /\ p \notin Candidates
             /\ Cardinality(Candidates) < MaxFiles
    <3>1. /\ IsFiniteSet(Candidates \cup {p})
          /\ Cardinality(Candidates \cup {p}) = Cardinality(Candidates) + 1
      BY <2>2, FS_AddElement DEF Room
    <3>2. Cardinality(Candidates) \in Nat
      BY FS_CardinalityType DEF Room
    <3> QED BY <2>2, <3>1, <3>2 DEF Room, QuotaRespected
  <2> QED BY <1>1, <2>1, <2>2, CaptureHasRoom
<1>2. CASE before' = before
  BY <1>2 DEF Room, QuotaRespected, Candidates
<1> QED BY <1>1, <1>2, WhoRecords DEF CaptureStdio, Capture

(* The quota holds for any number of paths and workers, though the count   *)
(* of the candidates is read before the helper is asked (capture.rs:229).  *)
THEOREM QuotaHolds == Spec => []QuotaRespected
<1>1. Init => Room
  <2>1. Init => Candidates = {}
    BY DEF Init, Candidates
  <2>2. IsFiniteSet({}) /\ Cardinality({}) = 0
    BY FS_EmptySet
  <2> QED BY <2>1, <2>2 DEF Room, QuotaRespected
<1>2. Sound /\ Room /\ [Next]_vars => Room'
  BY RoomStep DEF Sound
<1>3. Room => QuotaRespected
  BY DEF Room
<1> QED BY AlwaysSound, <1>1, <1>2, <1>3, PTL DEF Spec

-----------------------------------------------------------------------------
(* A notification has one owner from the moment it is received until it is *)
(* answered: the main thread, the queue or one worker.                     *)
Held(r) == \E w \in Workers : wreq[w] = r
Waiting(r) == \E i \in DOMAIN queue : queue[i] = r

(* Nothing is in two places.                                               *)
OnePlace ==
  /\ \A v, w \in Workers : wreq[v] = wreq[w] /\ wreq[v] # NoReq => v = w
  /\ \A i, j \in DOMAIN queue : queue[i] = queue[j] => i = j
  /\ \A r \in Reqs : Held(r) => ~Waiting(r)
  /\ mreq # NoReq => ~Held(mreq) /\ ~Waiting(mreq)

(* Who is not at work on a request has none.                               *)
HandsEmpty ==
  /\ \A w \in Workers : wpc[w] \notin Handling => wreq[w] = NoReq
  /\ mpc # "bypass" => mreq = NoReq

(* A request somebody has was received and is not answered.                *)
OwnedIsOpen ==
  \A r \in Reqs :
    Held(r) \/ Waiting(r) \/ mreq = r => status[r] \in {"received", "gone"}

(* A request that waits for its answer is somebody's.                      *)
OpenIsOwned ==
  ~poisoned =>
    \A r \in Reqs : status[r] = "received" => Held(r) \/ Waiting(r) \/ mreq = r

Ownership == OnePlace /\ HandsEmpty /\ OwnedIsOpen /\ OpenIsOwned

-----------------------------------------------------------------------------
(* A worker is rid of its request: the request was stale or has just been  *)
(* answered, or the mutex is poisoned by now.  A poisoned mutex may come   *)
(* with a queue that is dropped.                                           *)
RidOf(w) ==
  /\ wreq' = [wreq EXCEPT ![w] = NoReq]
  /\ wpc' = [wpc EXCEPT ![w] = wpc'[w]]
  /\ mreq' = mreq /\ mpc' = mpc
  /\ poisoned => poisoned'
  /\ queue' = queue \/ (queue' = << >> /\ poisoned')
  /\ \/ status' = status /\ (Gone(wreq[w]) \/ poisoned')
     \/ status' = [status EXCEPT ![wreq[w]] = "continued"]

LEMMA RidStep ==
  ASSUME TypeOK, Ownership, NEW w \in Workers, wreq[w] \in Reqs, RidOf(w)
  PROVE  Ownership'
<1>1. \A v \in Workers : wreq'[v] = IF v = w THEN NoReq ELSE wreq[v]
  BY DEF RidOf, TypeOK
<1>2. \A r \in Reqs : (Held(r))' <=> Held(r) /\ r # wreq[w]
  BY <1>1 DEF Held, Ownership, OnePlace
<1>3. \A r \in Reqs : (Waiting(r))' => Waiting(r)
  BY DEF Waiting, RidOf
<1>4. ~poisoned' => \A r \in Reqs : (Waiting(r))' <=> Waiting(r)
  BY DEF Waiting, RidOf
<1>5. \A r \in Reqs : r # wreq[w] => status'[r] = status[r]
  BY DEF RidOf, TypeOK
<1>6. ~Waiting(wreq[w]) /\ mreq # wreq[w]
  BY DEF Ownership, OnePlace, Held
<1>7. OnePlace'
  <2>1. (\A v, u \in Workers : wreq[v] = wreq[u] /\ wreq[v] # NoReq => v = u)'
    BY <1>1 DEF Ownership, OnePlace
  <2>2. (\A i, j \in DOMAIN queue : queue[i] = queue[j] => i = j)'
    BY DEF Ownership, OnePlace, RidOf
  <2>3. (\A r \in Reqs : Held(r) => ~Waiting(r))'
    BY <1>2, <1>3 DEF Ownership, OnePlace
  <2>4. (mreq # NoReq => ~Held(mreq) /\ ~Waiting(mreq))'
    BY <1>2, <1>3 DEF Ownership, OnePlace, RidOf, TypeOK
  <2> QED BY <2>1, <2>2, <2>3, <2>4 DEF OnePlace
<1>8. HandsEmpty'
  BY <1>1 DEF Ownership, HandsEmpty, RidOf, TypeOK
<1>9. OwnedIsOpen'
  BY <1>2, <1>3, <1>5, <1>6 DEF Ownership, OwnedIsOpen, RidOf
<1>10. OpenIsOwned'
  <2> SUFFICES ASSUME ~poisoned', NEW r \in Reqs, status'[r] = "received"
               PROVE  (Held(r) \/ Waiting(r) \/ mreq = r)'
    BY DEF OpenIsOwned
  <2>1. r # wreq[w]
    BY DEF RidOf, TypeOK, Gone
  <2>2. Held(r) \/ Waiting(r) \/ mreq = r
    BY <2>1, <1>5 DEF Ownership, OpenIsOwned, RidOf
  <2> QED BY <2>1, <2>2, <1>2, <1>4 DEF RidOf
<1> QED BY <1>7, <1>8, <1>9, <1>10 DEF Ownership

(* The steps that do not take, hand over or give up a request.             *)
GoesOn ==
  /\ UNCHANGED <<status, queue, wreq, mreq, poisoned>>
  /\ \A w \in Workers : wpc'[w] \notin Handling => wreq[w] = NoReq
  /\ mpc' # "bypass" => mpc # "bypass"

LEMMA OwnersStay == Ownership /\ GoesOn => Ownership'
BY DEF GoesOn, Ownership, OnePlace, HandsEmpty, OwnedIsOpen, OpenIsOwned, Held,
       Waiting

(* The kernel posts a notification nobody has, or finds that of a thread   *)
(* that has gone.                                                          *)
LEMMA KernelStep ==
  ASSUME Ownership, UNCHANGED <<queue, wreq, wpc, mreq, mpc, poisoned>>,
         \A r \in Reqs : \/ status'[r] = status[r]
                         \/ status[r] = "unused" /\ status'[r] = "posted"
                         \/ status'[r] = "gone"
  PROVE  Ownership'
<1>1. OnePlace' /\ HandsEmpty'
  BY DEF Ownership, OnePlace, HandsEmpty, Held, Waiting
<1>2. OwnedIsOpen' /\ OpenIsOwned'
  BY DEF Ownership, OwnedIsOpen, OpenIsOwned, Held, Waiting
<1> QED BY <1>1, <1>2 DEF Ownership

(* The main loop receives a notification and puts it behind the queue.     *)
LEMMA EnqueueStep ==
  ASSUME TypeOK, Ownership, NEW r \in Reqs, Enqueue(r)
  PROVE  Ownership'
<1>1. ~Held(r) /\ ~Waiting(r) /\ mreq # r
  BY DEF Enqueue, Ownership, OwnedIsOpen
<1>2. \A q \in Reqs : (Held(q))' <=> Held(q)
  BY DEF Enqueue, workerVars, Held
<1>3. /\ Len(queue') = Len(queue) + 1 /\ queue' \in Seq(Reqs)
      /\ \A i \in 1..Len(queue) : queue'[i] = queue[i]
      /\ queue'[Len(queue) + 1] = r
  BY DEF Enqueue, TypeOK
<1>4. /\ DOMAIN queue = 1..Len(queue) /\ Len(queue) \in Nat
      /\ DOMAIN queue' = 1..(Len(queue) + 1)
  BY <1>3 DEF TypeOK
<1>5. \A q \in Reqs : (Waiting(q))' <=> Waiting(q) \/ q = r
  BY <1>3, <1>4 DEF Waiting
<1>6. \A i, j \in DOMAIN queue' : queue'[i] = queue'[j] => i = j
  <2>1. \A i \in DOMAIN queue : queue[i] # r
    BY <1>1 DEF Waiting
  <2>2. \A i, j \in DOMAIN queue : queue[i] = queue[j] => i = j
    BY DEF Ownership, OnePlace
  <2>3. \A i \in DOMAIN queue' : i \in DOMAIN queue \/ i = Len(queue) + 1
    BY <1>4
  <2> QED BY <1>3, <1>4, <2>1, <2>2, <2>3
<1>7. OnePlace'
  BY <1>1, <1>2, <1>5, <1>6 DEF Enqueue, mainVars, workerVars, Ownership, OnePlace,
     TypeOK
<1>8. HandsEmpty'
  BY DEF Enqueue, mainVars, workerVars, Ownership, HandsEmpty
<1>9. OwnedIsOpen' /\ OpenIsOwned'
  BY <1>2, <1>5 DEF Enqueue, mainVars, Ownership, OwnedIsOpen, OpenIsOwned, TypeOK
<1> QED BY <1>7, <1>8, <1>9 DEF Ownership

(* The main loop keeps the notification it has received.                   *)
LEMMA BypassStep ==
  ASSUME TypeOK, Ownership, NEW r \in Reqs, NEW kind, Bypass(r, kind)
  PROVE  Ownership'
<1>1. ~Held(r) /\ ~Waiting(r) /\ mreq = NoReq
  BY DEF Bypass, Ownership, OwnedIsOpen, HandsEmpty
<1>2. \A q \in Reqs : ((Held(q))' <=> Held(q)) /\ ((Waiting(q))' <=> Waiting(q))
  BY DEF Bypass, workerVars, Held, Waiting
<1>3. OnePlace' /\ HandsEmpty'
  BY <1>1, <1>2 DEF Bypass, workerVars, Ownership, OnePlace, HandsEmpty
<1>4. OwnedIsOpen' /\ OpenIsOwned'
  BY <1>1, <1>2 DEF Bypass, Ownership, OwnedIsOpen, OpenIsOwned, TypeOK
<1> QED BY <1>3, <1>4 DEF Ownership

LEMMA BypassReplyStep ==
  ASSUME TypeOK, Ownership, mreq \in Reqs, BypassReply
  PROVE  Ownership'
<1>1. ~Held(mreq) /\ ~Waiting(mreq)
  BY DEF Ownership, OnePlace
<1>2. \A q \in Reqs : ((Held(q))' <=> Held(q)) /\ ((Waiting(q))' <=> Waiting(q))
  BY DEF BypassReply, workerVars, Held, Waiting
<1>3. OnePlace' /\ HandsEmpty'
  BY <1>2 DEF BypassReply, workerVars, Ownership, OnePlace, HandsEmpty
<1>4. OwnedIsOpen' /\ OpenIsOwned'
  BY <1>1, <1>2 DEF BypassReply, Permit, Gone, Ownership, OwnedIsOpen, OpenIsOwned,
     TypeOK
<1> QED BY <1>3, <1>4 DEF Ownership

(* A worker takes the first of the queue.                                  *)
LEMMA TakeStep ==
  ASSUME TypeOK, Ownership, NEW w \in Workers, Take(w)
  PROVE  Ownership'
<1> DEFINE h == Head(queue)
<1>1. /\ queue \in Seq(Reqs) /\ queue # << >> /\ h \in Reqs /\ h = queue[1]
      /\ DOMAIN queue = 1..Len(queue) /\ Len(queue) \in Nat \ {0}
      /\ DOMAIN queue' = 1..(Len(queue) - 1)
      /\ \A i \in 1..(Len(queue) - 1) : queue'[i] = queue[i + 1]
  BY DEF Take, TypeOK
<1>2. Waiting(h) /\ ~Held(h) /\ mreq # h
  BY <1>1 DEF Waiting, Ownership, OnePlace
<1>3. wreq[w] = NoReq
  BY DEF Take, At, Ownership, HandsEmpty, Handling
<1>4. \A v \in Workers : wreq'[v] = IF v = w THEN h ELSE wreq[v]
  BY DEF Take, TypeOK
<1>5. \A r \in Reqs : (Held(r))' <=> Held(r) \/ r = h
  BY <1>3, <1>4 DEF Held
<1>6. \A i, j \in DOMAIN queue : queue[i] = queue[j] => i = j
  BY DEF Ownership, OnePlace
<1>7. \A r \in Reqs : (Waiting(r))' <=> Waiting(r) /\ r # h
  <2>1. ASSUME NEW r \in Reqs, (Waiting(r))'
        PROVE  Waiting(r) /\ r # h
    <3>1. PICK i \in 1..(Len(queue) - 1) : queue[i + 1] = r
      BY <1>1, <2>1 DEF Waiting
    <3>2. i + 1 \in DOMAIN queue /\ i + 1 # 1 /\ 1 \in DOMAIN queue
      BY <1>1
    <3> QED BY <1>1, <1>6, <3>1, <3>2 DEF Waiting
  <2>2. ASSUME NEW r \in Reqs, Waiting(r), r # h
        PROVE  (Waiting(r))'
    <3>1. PICK i \in DOMAIN queue : queue[i] = r
      BY <2>2 DEF Waiting
    <3>2. i - 1 \in 1..(Len(queue) - 1) /\ (i - 1) + 1 = i
      BY <1>1, <2>2, <3>1
    <3>3. queue'[i - 1] = r /\ i - 1 \in DOMAIN queue'
      BY <1>1, <3>1, <3>2
    <3> QED BY <3>3 DEF Waiting
  <2> QED BY <2>1, <2>2
<1>8. \A i, j \in DOMAIN queue' : queue'[i] = queue'[j] => i = j
  <2> SUFFICES ASSUME NEW i \in DOMAIN queue', NEW j \in DOMAIN queue',
                      queue'[i] = queue'[j]
               PROVE  i = j
    OBVIOUS
  <2>1. i \in Nat /\ j \in Nat /\ i + 1 \in DOMAIN queue /\ j + 1 \in DOMAIN queue
    BY <1>1
  <2>2. queue[i + 1] = queue[j + 1]
    BY <1>1
  <2>3. i + 1 = j + 1
    BY <1>6, <2>1, <2>2
  <2> QED BY <2>1, <2>3
<1>9. OnePlace'
  <2>1. (\A v, u \in Workers : wreq[v] = wreq[u] /\ wreq[v] # NoReq => v = u)'
    BY <1>2, <1>4 DEF Ownership, OnePlace, Held
  <2>2. (\A r \in Reqs : Held(r) => ~Waiting(r))'
    BY <1>5, <1>7 DEF Ownership, OnePlace
  <2>3. (mreq # NoReq => ~Held(mreq) /\ ~Waiting(mreq))'
    BY <1>2, <1>5, <1>7 DEF Take, mainVars, Ownership, OnePlace, TypeOK
  <2> QED BY <1>8, <2>1, <2>2, <2>3 DEF OnePlace
<1>10. HandsEmpty'
  BY <1>4 DEF Take, mainVars, Ownership, HandsEmpty, TypeOK, Handling
<1>11. OwnedIsOpen' /\ OpenIsOwned'
  BY <1>1, <1>2, <1>5, <1>7 DEF Take, mainVars, Ownership, OwnedIsOpen, OpenIsOwned
<1> QED BY <1>9, <1>10, <1>11 DEF Ownership
-----------------------------------------------------------------------------
(* Which of these a step of a worker is.                                   *)
LEMMA WorkerStep ==
  ASSUME TypeOK, Known, Ownership, NEW w \in Workers, Worker(w)
  PROVE  Ownership'
<1>1. CASE Take(w)
  BY <1>1, TakeStep
<1>2. CASE wreq[w] \in Reqs /\ RidOf(w)
  BY <1>2, RidStep
<1>3. CASE GoesOn
  BY <1>3, OwnersStay
<1>4. At(w, Handling) => wreq[w] \in Reqs
  BY DEF Known, At
<1>5. CASE Exit(w) \/ LockStore(w) \/ ReadCall(w) \/ FailRead(w)
            \/ \E p \in Tracked : Capture(w, p)
  <2>1. GoesOn
    BY <1>5 DEF GoesOn, Exit, LockStore, ReadCall, FailRead, Capture, At, Handling,
       mainVars, TypeOK, Ownership, HandsEmpty
  <2> QED BY <2>1, <1>3
<1>6. CASE LockPoisoned(w)
  <2>1. wreq[w] \in Reqs
    BY <1>4, <1>6 DEF LockPoisoned, At, Handling
  <2>2. RidOf(w)
    BY <1>6 DEF RidOf, LockPoisoned, DropQueueWithLast, Permit, mainVars, TypeOK
  <2> QED BY <2>1, <2>2, <1>2
<1>7. CASE CheckValid(w) \/ DropStale(w) \/ Recheck(w)
  <2>1. wreq[w] \in Reqs
    BY <1>4, <1>7 DEF CheckValid, DropStale, Recheck, At, Handling
  <2>2. CASE Gone(wreq[w]) /\ Release(w)
    <3>1. UNCHANGED <<status, queue, mreq, mpc, poisoned>>
      BY <1>7 DEF CheckValid, DropStale, Recheck, mainVars
    <3>2. RidOf(w)
      BY <2>2, <3>1 DEF RidOf, Release, TypeOK
    <3> QED BY <2>1, <3>2, <1>2
  <2>3. CASE ~Gone(wreq[w])
    <3>1. GoesOn
      BY <1>7, <2>3 DEF GoesOn, CheckValid, DropStale, Recheck, At, Handling,
         mainVars, TypeOK, Ownership, HandsEmpty
    <3> QED BY <3>1, <1>3
  <2> QED BY <1>7, <2>2, <2>3 DEF CheckValid, DropStale, Recheck
<1>8. CASE Continue(w)
  <2>1. wreq[w] \in Reqs
    BY <1>4, <1>8 DEF Continue, At, Handling
  <2>2. RidOf(w)
    BY <1>8 DEF RidOf, Continue, Release, Permit, mainVars, TypeOK
  <2> QED BY <2>1, <2>2, <1>2
<1>9. CASE Panic(w)
  <2>1. wreq[w] \in Reqs
    BY <1>4, <1>9 DEF Panic, At, Handling
  <2>2. RidOf(w)
    BY <1>9 DEF RidOf, Panic, DropQueueWithLast, mainVars, TypeOK
  <2> QED BY <2>1, <2>2, <1>2
<1> QED BY <1>1, <1>5, <1>6, <1>7, <1>8, <1>9 DEF Worker

LEMMA OwnershipStep ==
  ASSUME TypeOK, Known, Ownership, [Next]_vars
  PROVE  Ownership'
<1>1. ASSUME NEW w \in Workers, Worker(w)
      PROVE  Ownership'
  BY <1>1, WorkerStep
<1>2. CASE Target
  <2>1. CASE (\E p \in Tracked, c \in Contents : TargetWrites(p, c)) \/ CommandExits
    <3>1. GoesOn
      BY <2>1 DEF GoesOn, TargetWrites, CommandExits, mainVars, workerVars,
         Ownership, HandsEmpty
    <3> QED BY <3>1, OwnersStay
  <2>2. CASE TreeEnds \/ \E r \in Reqs : Post(r) \/ Vanish(r)
    <3>1. UNCHANGED <<queue, wreq, wpc, mreq, mpc, poisoned>>
      BY <2>2 DEF TreeEnds, Post, Vanish, mainVars, workerVars
    <3>2. \A r \in Reqs : \/ status'[r] = status[r]
                          \/ status[r] = "unused" /\ status'[r] = "posted"
                          \/ status'[r] = "gone"
      BY <2>2 DEF TreeEnds, Post, Vanish, TypeOK
    <3> QED BY <3>1, <3>2, KernelStep
  <2> QED BY <1>2, <2>1, <2>2 DEF Target
<1>3. CASE Main
  <2>1. ASSUME NEW r \in Reqs, Enqueue(r)
        PROVE  Ownership'
    BY <2>1, EnqueueStep
  <2>2. ASSUME NEW r \in Reqs, QueueFull(r) \/ PoolStopped(r)
        PROVE  Ownership'
    BY <2>2, BypassStep DEF QueueFull, PoolStopped
  <2>3. CASE BypassReply
    BY <2>3, BypassReplyStep DEF Known, BypassReply
  <2>4. CASE \/ \E p \in Tracked : CaptureStdio(p) \/ CaptureAfter(p)
             \/ Spawn \/ SpawnFails \/ ReceiveFails \/ Stop \/ StopOnTimeout
             \/ LoopFails \/ JoinWorkers \/ JoinFails \/ Publish \/ PublishFails
    <3>1. UNCHANGED <<status, queue, wreq, wpc, mreq, poisoned>>
      BY <2>4 DEF CaptureStdio, CaptureAfter, Spawn, SpawnFails, ReceiveFails,
         Stop, StopOnTimeout, LoopFails, JoinWorkers, JoinFails, Publish,
         PublishFails, workerVars
    <3>2. mpc # "bypass"
      BY <2>4 DEF CaptureStdio, CaptureAfter, Spawn, SpawnFails, ReceiveFails,
         Stop, StopOnTimeout, LoopFails, JoinWorkers, JoinFails, Publish,
         PublishFails
    <3>3. GoesOn
      BY <3>1, <3>2 DEF GoesOn, Ownership, HandsEmpty
    <3> QED BY <3>3, OwnersStay
  <2> QED BY <1>3, <2>1, <2>2, <2>3, <2>4 DEF Main
<1>4. CASE Returned \/ UNCHANGED vars
  <2>1. GoesOn
    BY <1>4 DEF GoesOn, Returned, vars, Ownership, HandsEmpty
  <2> QED BY <2>1, OwnersStay
<1> QED BY <1>1, <1>2, <1>3, <1>4 DEF Next

LEMMA InitOwnership == Init => Ownership
BY DEF Init, Ownership, OnePlace, HandsEmpty, OwnedIsOpen, OpenIsOwned, Held, Waiting

(* One place is a count of one.                                            *)
LEMMA OwnersCounted ==
  ASSUME TypeOK, Ownership
  PROVE  OneOwner
<1> SUFFICES ASSUME NEW r \in Reqs
             PROVE  LET owners == Cardinality(Holders(r)) + Cardinality(Queued(r))
                                    + (IF mreq = r THEN 1 ELSE 0)
                    IN  /\ owners <= 1
                        /\ status[r] = "received" /\ ~poisoned => owners = 1
  BY DEF OneOwner
<1>1. Cardinality(Holders(r)) = IF Held(r) THEN 1 ELSE 0
  <2>1. CASE ~Held(r)
    <3>1. Holders(r) = {}
      BY <2>1 DEF Holders, Held
    <3> QED BY <2>1, <3>1, FS_EmptySet
  <2>2. CASE Held(r)
    <3>1. PICK w \in Workers : Holders(r) = {w}
      BY <2>2 DEF Holders, Held, Ownership, OnePlace
    <3> QED BY <2>2, <3>1, FS_Singleton
  <2> QED BY <2>1, <2>2
<1>2. Cardinality(Queued(r)) = IF Waiting(r) THEN 1 ELSE 0
  <2>1. CASE ~Waiting(r)
    <3>1. Queued(r) = {}
      BY <2>1 DEF Queued, Waiting
    <3> QED BY <2>1, <3>1, FS_EmptySet
  <2>2. CASE Waiting(r)
    <3>1. PICK i \in DOMAIN queue : Queued(r) = {i}
      BY <2>2 DEF Queued, Waiting, Ownership, OnePlace
    <3> QED BY <2>2, <3>1, FS_Singleton
  <2> QED BY <2>1, <2>2
<1>3. /\ Held(r) => ~Waiting(r) /\ mreq # r
      /\ Waiting(r) => mreq # r
      /\ status[r] = "received" /\ ~poisoned => Held(r) \/ Waiting(r) \/ mreq = r
  BY DEF Ownership, OnePlace, OpenIsOwned
<1> QED BY <1>1, <1>2, <1>3

(* A notification that was received and not answered has exactly one owner *)
(* unless a worker panicked, and never two (supervisor.rs:138-158,         *)
(* 274-305): none is forgotten on a hand-over, none is answered twice.     *)
THEOREM AlwaysOneOwner == Spec => []OneOwner
<1>1. Sound /\ Ownership /\ [Next]_vars => Ownership'
  BY OwnershipStep DEF Sound
<1>2. Sound /\ Ownership => OneOwner
  BY OwnersCounted DEF Sound
<1> QED BY AlwaysSound, InitOwnership, <1>1, <1>2, PTL DEF Spec
=============================================================================
