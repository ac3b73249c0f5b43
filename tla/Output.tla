------------------------------- MODULE Output -------------------------------
(***************************************************************************)
(* The files of the output directory, as a reader of it may find them at   *)
(* any moment (CaptureStore::new of capture.rs, finish, create_diff and    *)
(* atomic_bytes of report.rs, run of supervisor.rs): the directory is made *)
(* once, the status is published as the run goes on, and at the end the    *)
(* patch, the report, the diagnostics and the final status are written one *)
(* after the other, each to a temporary file that is then renamed.         *)
(*                                                                         *)
(* sup, the supervisor's program counter, is shared with Startup.          *)
(***************************************************************************)
EXTENDS Naturals, Sequences, SequencesExt

CONSTANTS
  Keys,     \* the candidates, a sequence in the order of their paths
  MaxDiff,  \* bound: --max-diff-bytes, in chunks of the patch
  Missing,  \* there is no such file
  Torn      \* a file that is not written in full

VARIABLES
  sup,      \* the supervisor: where it is, or "gone"
  made,     \* the output directory exists
  files,    \* what is published under each name
  tmp,      \* what the temporary file of each name holds
  writes,   \* the files the supervisor has still to publish here
  stage,    \* where it is with the first of them
  left,     \* candidates finish has still to look at
  changes,  \* changes found
  patch,    \* the patch, a sequence of the keys its chunks are about
  gaps      \* some gap was recorded

diskVars == <<made, files, tmp>>
finishVars == <<left, changes, patch, gaps>>
outputVars == <<made, files, tmp, writes, stage, left, changes, patch, gaps>>

Names == {"status", "patch", "report", "diagnostics"}
Final == {"finished", "partial"}

KeySet == ToSet(Keys)

(* A change: its two sides and where its diff is in the patch.             *)
Sides == {"present", "absent", "unavailable"}
NoDiff == [at |-> 0, size |-> 0]
Changes == [key : KeySet, before : Sides, after : Sides,
            diff : [at : Nat, size : Nat]]

(* What a report may say, and what a status file may hold.                 *)
Reports == [state : Final, changes : SUBSET Changes, gaps : {"none", "gaps"}]
Statuses == {"starting", "running", "failed"} \cup Final

OutputInit ==
  /\ made = FALSE
  /\ files = [n \in Names |-> Missing]
  /\ tmp = [n \in Names |-> Missing]
  /\ writes = <<>> /\ stage = "create"
  /\ left = <<>> /\ changes = {} /\ patch = <<>> /\ gaps = FALSE

-----------------------------------------------------------------------------
(* Faulty: a directory that exists already is taken.                       *)
MakeDirectoryAgain ==
  /\ sup = "before"
  /\ made' = TRUE
  /\ files' = [files EXCEPT !["diagnostics"] = "none"]
  /\ writes' = <<[name |-> "status", value |-> "starting"]>>
  /\ sup' = "starting"
  /\ UNCHANGED <<tmp, stage, finishVars>>

(* CaptureStore::new: a new directory with empty diagnostics.              *)
MakeDirectory ==
  /\ sup = "before" /\ ~made
  /\ made' = TRUE
  /\ files' = [files EXCEPT !["diagnostics"] = "none"]
  /\ writes' = <<[name |-> "status", value |-> "starting"]>>
  /\ sup' = "starting"
  /\ UNCHANGED <<tmp, stage, finishVars>>

(* The directory exists already, or one of its first entries cannot be     *)
(* made, and what was made stays.                                          *)
MakeDirectoryFails ==
  /\ sup = "before"
  /\ sup' = "error"
  /\ made' \in {made, TRUE}
  /\ UNCHANGED <<files, tmp, writes, stage, finishVars>>

(* atomic_bytes: the temporary file is opened and truncated, ...           *)
Create ==
  /\ writes # <<>> /\ stage = "create"
  /\ tmp' = [tmp EXCEPT ![Head(writes).name] = Torn]
  /\ stage' = "fill"
  /\ UNCHANGED <<sup, made, files, writes, finishVars>>

(* ... written and flushed, ...                                            *)
Fill ==
  /\ writes # <<>> /\ stage = "fill"
  /\ tmp' = [tmp EXCEPT ![Head(writes).name] = Head(writes).value]
  /\ stage' = "rename"
  /\ UNCHANGED <<sup, made, files, writes, finishVars>>

(* Faulty: a file that could not be written in full is published.          *)
RenameAnyway ==
  /\ writes # <<>> /\ stage \in {"fill", "rename"}
  /\ files' = [files EXCEPT ![Head(writes).name] = tmp[Head(writes).name]]
  /\ tmp' = [tmp EXCEPT ![Head(writes).name] = Missing]
  /\ writes' = Tail(writes) /\ stage' = "create"
  /\ UNCHANGED <<sup, made, finishVars>>

(* ... and renamed.                                                        *)
Rename ==
  /\ writes # <<>> /\ stage = "rename"
  /\ files' = [files EXCEPT ![Head(writes).name] = tmp[Head(writes).name]]
  /\ tmp' = [tmp EXCEPT ![Head(writes).name] = Missing]
  /\ writes' = Tail(writes) /\ stage' = "create"
  /\ UNCHANGED <<sup, made, finishVars>>

(* Each of the three may fail; run then ends with that error.              *)
WriteFails ==
  /\ writes # <<>>
  /\ sup' = "error"
  /\ writes' = <<>> /\ stage' = "create"
  /\ UNCHANGED <<diskVars, finishVars>>

Goto(from, to) ==
  /\ sup = from /\ writes = <<>>
  /\ sup' = to
  /\ UNCHANGED <<diskVars, writes, stage, finishVars>>

GotoWriting(from, to, ws) ==
  /\ sup = from /\ writes = <<>>
  /\ sup' = to /\ writes' = ws
  /\ UNCHANGED <<diskVars, stage, finishVars>>

Status(s) == [name |-> "status", value |-> s]

(* The status is "starting"; the inherited descriptors are captured and    *)
(* spawn is called.                                                        *)
BeginSpawn == Goto("starting", "spawn")

SpawnFailed == GotoWriting("spawn_error", "failing", <<Status("failed")>>)
FailurePublished == Goto("failing", "error")

Spawned == GotoWriting("spawned", "announcing", <<Status("running")>>)
BeginLoop == Goto("announcing", "serving")

(* Faulty: an error of the loop is published like one of the spawn.        *)
LoopFailurePublished == GotoWriting("serving", "failing", <<Status("failed")>>)

(* An error of the loop: the status stays "running".                       *)
LoopFails == Goto("serving", "error")

(* The loop has ended: the candidates are known, and whether something was *)
(* missed.                                                                 *)
LoopEnds ==
  /\ sup = "serving" /\ writes = <<>>
  /\ sup' = "finish"
  /\ left' = Keys /\ changes' = {} /\ patch' = <<>>
  /\ gaps' \in BOOLEAN
  /\ UNCHANGED <<diskVars, writes, stage>>

-----------------------------------------------------------------------------
(* finish, for the next candidate.                                         *)
Looking == sup = "finish" /\ left # <<>>

(* No change, and no gap from capturing the final state.                   *)
NoChange ==
  /\ Looking
  /\ left' = Tail(left)
  /\ UNCHANGED <<sup, diskVars, writes, stage, changes, patch, gaps>>

(* What create_diff adds to the patch: nothing for equal objects and for   *)
(* content that is not text; otherwise a text of any size up to the limit, *)
(* at which it is truncated.  A side that is not present counts as empty.  *)
Diff(size) == [at |-> Len(patch), size |-> size]

(* Faulty: the offset is taken after the diff was appended.                *)
DiffAfterwards(b, a, size) ==
  /\ Looking
  /\ left' = Tail(left)
  /\ patch' = patch \o [i \in 1 .. size |-> Head(left)]
  /\ changes' = changes \cup
       {[key |-> Head(left), before |-> b, after |-> a,
         diff |-> [at |-> Len(patch) + size, size |-> size]]}
  /\ gaps' = (gaps \/ a = "unavailable")
  /\ UNCHANGED <<sup, diskVars, writes, stage>>

(* A change with the given sides and size of its diff.                     *)
AddChange(b, a, size) ==
  /\ Looking
  /\ left' = Tail(left)
  /\ patch' = patch \o [i \in 1 .. size |-> Head(left)]
  /\ changes' = changes \cup
       {[key |-> Head(left), before |-> b, after |-> a,
         diff |-> IF size = 0 THEN NoDiff ELSE Diff(size)]}
  /\ gaps' = (gaps \/ a = "unavailable")
  /\ UNCHANGED <<sup, diskVars, writes, stage>>

(* An object of a change cannot be read: run ends with the error.          *)
DiffFails ==
  /\ Looking
  /\ sup' = "error"
  /\ UNCHANGED <<diskVars, writes, stage, finishVars>>

(* The pairs classify takes for a change; two states that are present may  *)
(* differ or not.                                                          *)
ChangedSides == (Sides \X Sides) \ {<<"absent", "absent">>}

FinalState ==
  IF ~gaps /\ \A c \in changes : "unavailable" \notin {c.before, c.after}
    THEN "finished" ELSE "partial"

Diagnostics == IF gaps THEN "gaps" ELSE "none"
Report == [state |-> FinalState, changes |-> changes, gaps |-> Diagnostics]

(* Faulty: the status comes first.                                         *)
PublishStatusFirst ==
  /\ sup = "finish" /\ left = <<>> /\ writes = <<>>
  /\ sup' = "publishing"
  /\ writes' = <<Status(FinalState), [name |-> "patch", value |-> patch],
                 [name |-> "report", value |-> Report],
                 [name |-> "diagnostics", value |-> Diagnostics]>>
  /\ UNCHANGED <<diskVars, stage, finishVars>>

(* The files of the end, in the order in which they are written.           *)
Publish ==
  /\ sup = "finish" /\ left = <<>> /\ writes = <<>>
  /\ sup' = "publishing"
  /\ writes' = <<[name |-> "patch", value |-> patch],
                 [name |-> "report", value |-> Report],
                 [name |-> "diagnostics", value |-> Diagnostics],
                 Status(FinalState)>>
  /\ UNCHANGED <<diskVars, stage, finishVars>>

RunReturns == Goto("publishing", "done")

(* The process has ended: what it kept in memory is lost.                  *)
Forgotten ==
  /\ writes' = <<>> /\ stage' = "create"
  /\ left' = <<>> /\ changes' = {} /\ patch' = <<>> /\ gaps' = FALSE
  /\ UNCHANGED diskVars

OutputStep ==
  \/ MakeDirectory \/ MakeDirectoryFails
  \/ Create \/ Fill \/ Rename \/ WriteFails
  \/ BeginSpawn \/ SpawnFailed \/ FailurePublished \/ Spawned \/ BeginLoop
  \/ LoopFails
  \/ NoChange \/ DiffFails
  \/ \E s \in ChangedSides, n \in 0 .. MaxDiff : AddChange(s[1], s[2], n)
  \/ Publish \/ RunReturns

-----------------------------------------------------------------------------
(* Every variable keeps its type.                                          *)
OutputTypeOK ==
  /\ made \in BOOLEAN /\ gaps \in BOOLEAN
  /\ DOMAIN files = Names /\ DOMAIN tmp = Names
  /\ files["status"] \in {Missing} \cup Statuses
  /\ stage \in {"create", "fill", "rename"}
  /\ \A n \in Names : files[n] # Torn
  /\ ToSet(left) \subseteq KeySet /\ ToSet(patch) \subseteq KeySet

(* The chunks of the patch a change names are those of its own diff, and   *)
(* every chunk belongs to one change (report.rs:47-58).                    *)
Tiles(cs, p) ==
  \A i \in 1 .. Len(p) :
    \E c \in cs : /\ c.key = p[i]
                  /\ c.diff.at < i /\ i <= c.diff.at + c.diff.size
                  /\ \A d \in cs \ {c} : i <= d.diff.at \/ i > d.diff.at + d.diff.size

(* A report in place has its patch beside it, and the offsets in the       *)
(* report are those of that patch (report.rs:75, 125).                     *)
ReportHasPatch ==
  files["report"] # Missing =>
    /\ files["patch"] # Missing
    /\ Tiles(files["report"].changes, files["patch"])

(* Who waits for a final status finds the report it speaks of and the      *)
(* diagnostics of that report, although no two of the files are written    *)
(* together (report.rs:75, 125-132).                                       *)
FinalStatusIsBacked ==
  files["status"] \in Final =>
    /\ files["report"] # Missing /\ files["report"].state = files["status"]
    /\ files["diagnostics"] = files["report"].gaps
=============================================================================
