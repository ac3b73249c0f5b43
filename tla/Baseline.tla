------------------------------ MODULE Baseline ------------------------------
(***************************************************************************)
(* What fs-tracker promises, with no threads, queues or processes: the     *)
(* state of a tracked path is recorded before the target tree is allowed   *)
(* to change it, every loss of coverage is remembered, and a report that   *)
(* says "finished" lists exactly the net changes of a tree that has ended. *)
(* IMPLEMENTATION_PLAN.md sections 4, 6 and 7 and README.md ("finished")   *)
(* state the promise; Pipeline.tla, the detailed specification, implements *)
(* this one.                                                               *)
(***************************************************************************)
CONSTANTS
  Tracked,      \* the paths inside the tracked roots, exclusions removed
  Contents,     \* what a path may hold; the absent file is one of them
  Begin,        \* what each tracked path holds when the target is spawned
  NotRecorded   \* "the original of this path is not known"

ASSUME BeginAssumption == Begin \in [Tracked -> Contents]
ASSUME NotRecordedAssumption == NotRecorded \notin Contents

VARIABLES
  file,       \* the file system: path -> content
  original,   \* path -> the content recorded first, or NotRecorded
  permitted,  \* the paths the tree has been let through to change
  degraded,   \* some coverage was lost (a gap, an unreadable file, ...)
  ended,      \* no process of the tree is alive
  report      \* the published report

vars == <<file, original, permitted, degraded, ended, report>>

Recorded == {p \in Tracked : original[p] # NotRecorded}

Change == [path : Tracked, before : Contents, after : Contents]

NoReport == [state |-> "none", changes |-> {}]

(* The changes computed from the recorded originals.                       *)
Changes == {[path |-> p, before |-> original[p], after |-> file[p]] :
              p \in {q \in Recorded : original[q] # file[q]}}

(* The net changes since the spawn, recorded or not.                       *)
NetChanges == {[path |-> p, before |-> Begin[p], after |-> file[p]] :
                 p \in {q \in Tracked : Begin[q] # file[q]}}

-----------------------------------------------------------------------------
Init ==
  /\ file = Begin
  /\ original = [p \in Tracked |-> NotRecorded]
  /\ permitted = {}
  /\ degraded = FALSE
  /\ ended = FALSE
  /\ report = NoReport

(* The original of a path is recorded once; doing so may lose coverage.    *)
Record(p) ==
  /\ p \notin Recorded
  /\ original' = [original EXCEPT ![p] = file[p]]
  /\ degraded' \in BOOLEAN /\ (degraded => degraded')
  /\ UNCHANGED <<file, permitted, ended, report>>

LoseCoverage ==
  /\ degraded' = TRUE
  /\ UNCHANGED <<file, original, permitted, ended, report>>

(* A faulty variant of Permit: nothing is asked of the originals.          *)
PermitBlindly(S) ==
  /\ ~ended
  /\ permitted' = permitted \cup S
  /\ UNCHANGED <<file, original, degraded, ended, report>>

(* An operation of the tree goes ahead: either everything it may change    *)
(* has its original recorded, or the loss of coverage is already known.    *)
Permit(S) ==
  /\ ~ended
  /\ degraded \/ S \subseteq Recorded
  /\ permitted' = permitted \cup S
  /\ UNCHANGED <<file, original, degraded, ended, report>>

Write(p, c) ==
  /\ ~ended
  /\ p \in permitted
  /\ file' = [file EXCEPT ![p] = c]
  /\ UNCHANGED <<original, permitted, degraded, ended, report>>

End ==
  /\ ended' = TRUE
  /\ UNCHANGED <<file, original, permitted, degraded, report>>

PublishFinished ==
  /\ report = NoReport
  /\ ended
  /\ ~degraded
  /\ report' = [state |-> "finished", changes |-> Changes]
  /\ UNCHANGED <<file, original, permitted, degraded, ended>>

(* A partial report admits the loss of coverage; nothing is promised of    *)
(* the changes it lists, so none are kept here.                            *)
PublishPartial ==
  /\ report = NoReport
  /\ degraded
  /\ report' = [state |-> "partial", changes |-> {}]
  /\ UNCHANGED <<file, original, permitted, degraded, ended>>

Next ==
  \/ \E p \in Tracked : Record(p)
  \/ LoseCoverage
  \/ \E S \in SUBSET Tracked : Permit(S)
  \/ \E p \in Tracked, c \in Contents : Write(p, c)
  \/ End
  \/ PublishFinished
  \/ PublishPartial

Spec == Init /\ [][Next]_vars

-----------------------------------------------------------------------------
(* Every variable keeps its type.                                          *)
TypeOK ==
  /\ file \in [Tracked -> Contents]
  /\ original \in [Tracked -> Contents \cup {NotRecorded}]
  /\ permitted \subseteq Tracked
  /\ degraded \in BOOLEAN
  /\ ended \in BOOLEAN
  /\ report \in [state : {"none", "finished", "partial"}, changes : SUBSET Change]

(* A report that says "finished" is about a tree that has ended, and lists *)
(* exactly the paths whose content differs from what it was at the spawn,  *)
(* with both contents (report.rs:75-83 decides "finished").                *)
FinishedIsExact ==
  report.state = "finished" => ended /\ report.changes = NetChanges

(* The recorded originals of a run with full coverage are the contents at  *)
(* the spawn, whatever the tree has written since.                         *)
OriginalsAreFirst ==
  ~degraded => \A p \in Recorded : original[p] = Begin[p]

(* The parts of the inductive invariant.                                   *)
PermittedIsRecorded == degraded \/ permitted \subseteq Recorded
RestIsUntouched == \A p \in Tracked \ permitted : file[p] = Begin[p]

(* The inductive invariant: the promise and what it rests on               *)
(* (IMPLEMENTATION_PLAN.md:128-130).                                       *)
IInv ==
  /\ TypeOK
  /\ PermittedIsRecorded
  /\ RestIsUntouched
  /\ OriginalsAreFirst
  /\ FinishedIsExact
=============================================================================
