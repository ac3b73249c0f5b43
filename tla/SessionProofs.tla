---------------------------- MODULE SessionProofs ----------------------------
(***************************************************************************)
(* The handshake and a whole run, for any number of descendants, sequence  *)
(* of candidates, size of diffs and number of adapters: the command never  *)
(* runs before the supervisor has its listener and never makes a call that *)
(* nobody is asked about; what is published when a run has ended speaks of *)
(* that run and stays; and a receipt has its commits.                      *)
(***************************************************************************)
EXTENDS Session, SequenceTheorems, TLAPS

-----------------------------------------------------------------------------
(* The handshake.                                                          *)

(* What the processes and the kernel do, whatever the supervisor is at.    *)
Step == Parent \/ Child \/ Tree \/ \E p \in Procs : Answer(p) \/ CallReturnsEnosys(p)

(* spawn has returned the listener to its caller.                          *)
Serving == {"spawned", "announcing", "serving", "finish", "publishing", "done"}

(* Nothing of a command is alive, and nothing will be unless it is forked. *)
Quiet == child \in Over /\ running = {}
Unborn == child = "none" /\ running = {} /\ ~toChild

ProcessTypeOK ==
  /\ child \in Handshaking \cup Over \cup {"command"}
  /\ holders \subseteq {"child", "message", "sup"}
  /\ running \subseteq Procs
  /\ call \in [Procs -> {"none", "blocked", "seen", "unseen"}]

(* The acknowledgement is written when the listener has been received, and *)
(* nothing of the command comes before it.                                 *)
InOrder ==
  /\ sup \in {"starting", "spawn"} => Unborn
  /\ sup \in Spawning =>
       ~toChild /\ running = {} /\ child \notin {"exec", "command", "ended"}
  /\ sup = "ack" => "sup" \in holders
  /\ sup \in {"spawn_error", "failing"} =>
       running = {} /\ child \in Failed \cup {"none", "reaped"}
  /\ sup \in Serving => "sup" \in holders
  /\ sup = "before" => Quiet
  /\ sup = "error" => Quiet \/ "sup" \in holders

(* The filter is there before anything is sent, and it stays; the child    *)
(* keeps its end of the pair until it executes the command.                *)
ChildInOrder ==
  /\ child \in {"send", "await", "exec", "command"} => filtered
  /\ running # {} => filtered
  /\ child \in Handshaking => "c" \in childEnds

Handshake == ProcessTypeOK /\ InOrder /\ ChildInOrder /\ NothingUnseen

-----------------------------------------------------------------------------
(* The output directory.                                                   *)

W(n, v) == [name |-> n, value |-> v]
Last1 == <<O!Status(O!FinalState)>>
Last2 == <<W("diagnostics", O!Diagnostics), O!Status(O!FinalState)>>
Last3 == <<W("report", O!Report), W("diagnostics", O!Diagnostics),
           O!Status(O!FinalState)>>
Last4 == <<W("patch", patch), W("report", O!Report),
           W("diagnostics", O!Diagnostics), O!Status(O!FinalState)>>

(* Every offset is inside of the patch, and the chunks are accounted for.  *)
Offsets ==
  /\ left \in Seq(O!KeySet) /\ patch \in Seq(O!KeySet)
  /\ changes \subseteq O!Changes /\ gaps \in BOOLEAN
  /\ \A c \in changes : c.diff.at + c.diff.size <= Len(patch)
  /\ O!Tiles(changes, patch)

DiskTypeOK ==
  /\ made \in BOOLEAN
  /\ DOMAIN files = O!Names /\ DOMAIN tmp = O!Names
  /\ files["status"] \in {Missing} \cup O!Statuses
  /\ files["patch"] \in {Missing} \cup Seq(O!KeySet)
  /\ files["report"] \in {Missing} \cup O!Reports
  /\ files["diagnostics"] \in {Missing, "none", "gaps"}

(* What is still to be written, and that a complete temporary file holds   *)
(* it.                                                                     *)
Writing ==
  /\ sup \notin {"starting", "failing", "announcing", "publishing"} => writes = <<>>
  /\ sup = "starting" => writes \in {<<>>, <<O!Status("starting")>>}
  /\ sup = "failing" => writes \in {<<>>, <<O!Status("failed")>>}
  /\ sup = "announcing" => writes \in {<<>>, <<O!Status("running")>>}
  /\ sup = "publishing" => writes \in {<<>>, Last1, Last2, Last3, Last4}
  /\ stage \in {"create", "fill", "rename"}
  /\ writes = <<>> => stage = "create"
  /\ stage = "rename" => tmp[Head(writes).name] = Head(writes).value

(* While the end is published, what is not to be written any more is in    *)
(* place, and the rest is not.                                             *)
Publishing ==
  sup = "publishing" =>
    /\ writes # <<>> => files["status"] \notin O!Final
    /\ writes \in {Last3, Last4} => files["report"] = Missing
    /\ writes = Last3 => files["patch"] = patch
    /\ writes \in {Last1, Last2} => files["report"] = O!Report
    /\ writes = Last1 => files["diagnostics"] = O!Diagnostics

(* A directory with a report or a final status is written to no more, and  *)
(* neither is one whose run has failed.                                    *)
Frozen ==
  /\ made /\ writes = <<>>
  /\ sup \in {"publishing", "done", "error", "gone", "before"}

OnlyAtTheEnd ==
  /\ ~made => sup \in {"before", "error", "gone"} /\ Unborn
  /\ ~made => \A n \in O!Names : files[n] = Missing
  /\ files["report"] # Missing => Frozen \/ sup = "publishing"
  /\ files["status"] \in O!Final => Frozen
  /\ files["status"] = "failed" => Frozen \/ (sup = "failing" /\ writes = <<>>)

(* What became of the command.                                             *)
Outcome ==
  /\ sup \in {"finish", "publishing", "done"} => child = "ended"
  /\ files["status"] \in O!Final => child = "ended"
  /\ files["status"] = "failed" => child \in Failed \cup {"none", "reaped"}

Disk ==
  /\ Offsets /\ DiskTypeOK /\ Writing /\ Publishing /\ OnlyAtTheEnd
  /\ O!ReportHasPatch /\ O!FinalStatusIsBacked

-----------------------------------------------------------------------------
(* The adapter.                                                            *)

(* The commits and the receipt of a report.                                *)
BaselineOf(r) == G!Commit(G!Entries(r, "before"), {}, 0)
ReportOf(r) == G!Commit(G!Entries(r, "after"), {BaselineOf(r)}, 0)
ReceiptOf(r) == [baseline |-> BaselineOf(r), report |-> ReportOf(r)]

Allowed(r) == r.state = "finished" \/ AllowPartial

(* The adapter reads a report that stays while it is at work.              *)
Adapting ==
  gpc # "idle" =>
    /\ report = files["report"] /\ report # Missing /\ Allowed(report)
    /\ Frozen

(* The trees it builds are those of the report.                            *)
Trees ==
  /\ DOMAIN index = G!TreeSides /\ DOMAIN tree = G!TreeSides
  /\ gpc = "init" => side = "before"
  /\ gpc = "add" => index[side] \cup todo = G!Entries(report, side)
  /\ gpc \in {"empty", "add"} /\ side = "after" =>
       tree["before"] = G!Entries(report, "before")
  /\ gpc \in {"clean", "commit", "ref", "receipt"} =>
       /\ tree["before"] = G!Entries(report, "before")
       /\ tree["after"] = G!Entries(report, "after")

Committed ==
  /\ gpc \in {"ref", "receipt"} =>
       {BaselineOf(report), ReportOf(report)} \subseteq commits
  /\ gpc = "receipt" => ref = ReportOf(report)
  /\ gpc \in {"add", "clean", "commit", "ref", "receipt"} => repo = "ready"

(* A receipt is the one of the report, and so is the ref.                  *)
Receipted ==
  receipt # Missing =>
    /\ Frozen /\ files["report"] # Missing /\ Allowed(files["report"])
    /\ receipt = ReceiptOf(files["report"])
    /\ ref = receipt.report
    /\ {receipt.baseline, receipt.report} \subseteq commits

Git == G!GitTypeOK /\ Adapting /\ Trees /\ Committed /\ Receipted

SupTypeOK ==
  sup \in {"before", "starting", "spawn", "failing", "spawn_error", "spawned",
           "announcing", "serving", "finish", "publishing", "done", "error",
           "gone"} \cup Spawning

SInv == SupTypeOK /\ Handshake /\ Disk /\ Outcome /\ Git

-----------------------------------------------------------------------------
(* The steps of the handshake keep it in order.                            *)
LEMMA HandshakeStep == Handshake /\ Step => Handshake'
<1> SUFFICES ASSUME Handshake, Step PROVE Handshake'
  OBVIOUS
<1> USE MainAssumption
        DEF Handshake, ProcessTypeOK, InOrder, ChildInOrder, NothingUnseen, Procs,
            Over, Failed, Handshaking, Spawning, Serving, Quiet, Unborn, socketVars,
            treeVars
<1>1. CASE Fork
  BY <1>1 DEF Fork
<1>2. CASE ForkFails
  BY <1>2 DEF ForkFails
<1>3. CASE Receive
  BY <1>3 DEF Receive
<1>4. CASE ReceiveFails
  BY <1>4 DEF ReceiveFails
<1>5. CASE Reap
  BY <1>5 DEF Reap, Drop
<1>6. CASE Acknowledge
  BY <1>6 DEF Acknowledge
<1>7. CASE AcknowledgeFails
  BY <1>7 DEF AcknowledgeFails, Open
<1>8. CASE Setup
  BY <1>8 DEF Setup
<1>9. CASE SetDeathSignal
  BY <1>9 DEF SetDeathSignal
<1>10. CASE InstallFilter
  BY <1>10 DEF InstallFilter
<1>11. CASE InstallFails
  BY <1>11 DEF InstallFails, ChildEnds
<1>12. CASE Send
  BY <1>12 DEF Send
<1>13. CASE SendFails
  BY <1>13 DEF SendFails, ChildEnds
<1>14. CASE ReadAck
  BY <1>14 DEF ReadAck
<1>15. CASE AwaitFails
  BY <1>15 DEF AwaitFails, ChildEnds
<1>16. CASE Exec
  BY <1>16 DEF Exec
<1>17. CASE ExecFails
  BY <1>17 DEF ExecFails, ChildEnds
<1>18. CASE Killed
  BY <1>18 DEF Killed, ChildEnds
<1>19. CASE MainEnds
  BY <1>19 DEF MainEnds, ChildEnds
<1>20. ASSUME NEW p \in Others, CommandForks(p) PROVE Handshake'
  BY <1>20 DEF CommandForks
<1>21. ASSUME NEW p \in Others, OtherEnds(p) PROVE Handshake'
  BY <1>21 DEF OtherEnds
<1>22. ASSUME NEW p \in Procs, Call(p) PROVE Handshake'
  BY <1>22 DEF Call
<1>23. ASSUME NEW p \in Procs, CallEnds(p) PROVE Handshake'
  BY <1>23 DEF CallEnds
<1>24. ASSUME NEW p \in Procs, Answer(p) PROVE Handshake'
  BY <1>24 DEF Answer
<1>25. ASSUME NEW p \in Procs, CallReturnsEnosys(p) PROVE Handshake'
  BY <1>25 DEF CallReturnsEnosys
<1> QED
  BY <1>1, <1>2, <1>3, <1>4, <1>5, <1>6, <1>7, <1>8, <1>9, <1>10, <1>11, <1>12, <1>13, <1>14, <1>15, <1>16, <1>17, <1>18, <1>19, <1>20, <1>21, <1>22, <1>23, <1>24, <1>25
     DEF Step, Parent, Child, Tree

(* Where the supervisor goes in these steps, and what it has done with a   *)
(* child that has ended: nothing, unless it forks or waits for it.         *)
LEMMA StepMoves ==
  ASSUME Handshake, Step
  PROVE  /\ \/ sup' = sup
            \/ sup \in Spawning \cup {"spawn"}
                 /\ sup' \in Spawning \cup {"spawn_error", "spawned"}
         /\ Quiet /\ sup \notin Spawning \cup {"spawn"} =>
              child' = child /\ running' = {} /\ toChild' = toChild
         /\ child \in Over /\ sup \notin Spawning \cup {"spawn"} => child' = child
<1> USE DEF Handshake, ProcessTypeOK, Quiet, Over, Failed, Handshaking, Spawning,
            socketVars, treeVars
<1>1. CASE Parent
  BY <1>1 DEF Parent, Fork, ForkFails, Receive, ReceiveFails, Reap, Acknowledge,
              AcknowledgeFails
<1>2. CASE Child
  BY <1>2 DEF Child, Setup, SetDeathSignal, InstallFilter, InstallFails, Send,
              SendFails, ReadAck, AwaitFails, Exec, ExecFails, Killed, ChildEnds
<1>3. CASE Tree
  BY <1>3 DEF Tree, MainEnds, ChildEnds, CommandForks, OtherEnds, Call, CallEnds
<1>4. ASSUME NEW p \in Procs, Answer(p) \/ CallReturnsEnosys(p)
      PROVE  sup' = sup /\ child' = child /\ running' = running /\ toChild' = toChild
  BY <1>4 DEF Answer, CallReturnsEnosys
<1> QED BY <1>1, <1>2, <1>3, <1>4 DEF Step

(* The end of the supervisor.                                              *)
LEMMA HandshakeGone == Handshake /\ SupervisorEnds => Handshake'
BY DEF SupervisorEnds, Drop, Handshake, ProcessTypeOK, InOrder, ChildInOrder,
       NothingUnseen, Procs, Over, Failed, Handshaking, Spawning, Serving, Quiet,
       Unborn, socketVars, treeVars

(* The supervisor goes on to where a command may be under way.             *)
LEMMA HandshakeMoves ==
  ASSUME Handshake, UNCHANGED processVars,
         \/ sup' = sup
         \/ sup' \in {"starting", "spawn"} /\ Unborn
         \/ sup' = "failing" /\ sup = "spawn_error"
         \/ sup' \in Serving /\ sup \in Serving
         \/ sup' = "before" /\ Quiet
         \/ sup' = "error" /\ (Quiet \/ sup \in Serving \cup {"starting", "failing"})
  PROVE  Handshake'
BY DEF processVars, Handshake, ProcessTypeOK, InOrder, ChildInOrder,
       NothingUnseen, Procs, Over, Failed, Handshaking, Spawning, Serving, Quiet,
       Unborn, socketVars, treeVars

-----------------------------------------------------------------------------
(* Startup by itself.                                                      *)
StartupInv ==
  /\ Handshake
  /\ sup \in {"before", "spawn", "spawn_error", "spawned", "serving", "finish",
              "gone"} \cup Spawning
  /\ sup = "before" => Unborn

LEMMA StartupStep == StartupInv /\ [Next]_vars => StartupInv'
<1> SUFFICES ASSUME StartupInv, [Next]_vars PROVE StartupInv'
  OBVIOUS
<1> USE DEF StartupInv, Spawning
<1>1. CASE Step
  <2>1. Handshake'
    BY <1>1, HandshakeStep
  <2>2. Unborn => Quiet
    BY DEF Unborn, Quiet, Over
  <2> QED BY <1>1, <2>1, <2>2, StepMoves DEF Unborn
<1>2. CASE Elsewhere
  <2>1. Handshake'
    BY <1>2, HandshakeMoves DEF Elsewhere, processVars, Serving
  <2> QED BY <1>2, <2>1 DEF Elsewhere
<1>3. CASE SupervisorEnds
  <2>1. Handshake'
    BY <1>3, HandshakeGone
  <2> QED BY <1>3, <2>1 DEF SupervisorEnds
<1>4. CASE UNCHANGED vars
  BY <1>4 DEF vars, Handshake, ProcessTypeOK, InOrder, ChildInOrder, NothingUnseen,
              Quiet, Unborn
<1> QED BY <1>1, <1>2, <1>3, <1>4 DEF Next, Step

LEMMA AlwaysStartupInv == Spec => []StartupInv
<1>1. Init => StartupInv
  BY DEF Init, StartupInv, Handshake, ProcessTypeOK, InOrder, ChildInOrder,
         NothingUnseen, Procs, Over, Failed, Handshaking, Spawning, Serving, Quiet,
         Unborn
<1> QED BY <1>1, StartupStep, PTL DEF Spec

(* No process of the command ever has a selected call carried out that the *)
(* supervisor has not let through, dead or alive (linux.rs:197-235,        *)
(* 313-403), whatever the order of the handshake, its failures and crashes.*)
THEOREM NeverUnseen == Spec => []NothingUnseen
<1>1. StartupInv => NothingUnseen
  BY DEF StartupInv, Handshake
<1> QED BY <1>1, AlwaysStartupInv, PTL

(* The command runs only under a supervisor whose spawn has succeeded, or  *)
(* after it is gone (linux.rs:351-402).                                    *)
THEOREM AlwaysWatched == Spec => []CommandIsWatched
<1>1. StartupInv => CommandIsWatched
  BY DEF StartupInv, Handshake, ProcessTypeOK, InOrder, CommandIsWatched, Quiet,
         Unborn, Spawning, Serving, Over, Failed
<1> QED BY <1>1, AlwaysStartupInv, PTL

-----------------------------------------------------------------------------
(* The files that are still to be written, one by one.                     *)
LEMMA Tails ==
  /\ Last4 # <<>> /\ Head(Last4) = W("patch", patch) /\ Tail(Last4) = Last3
  /\ Last3 # <<>> /\ Head(Last3) = W("report", O!Report) /\ Tail(Last3) = Last2
  /\ Last2 # <<>> /\ Head(Last2) = W("diagnostics", O!Diagnostics)
  /\ Tail(Last2) = Last1
  /\ Last1 # <<>> /\ Head(Last1) = O!Status(O!FinalState) /\ Tail(Last1) = <<>>
  /\ Len(Last1) = 1 /\ Len(Last2) = 2 /\ Len(Last3) = 3 /\ Len(Last4) = 4
BY DEF Last1, Last2, Last3, Last4

LEMMA SingleTail ==
  ASSUME NEW x
  PROVE  <<x>> # <<>> /\ Head(<<x>>) = x /\ Tail(<<x>>) = <<>>
OBVIOUS

(* A diff appended to the patch leaves the chunks of the others alone.     *)
LEMMA DiffAppended ==
  ASSUME NEW cs \in SUBSET O!Changes, NEW p \in Seq(O!KeySet),
         \A d \in cs : d.diff.at + d.diff.size <= Len(p), O!Tiles(cs, p),
         NEW c \in O!Changes, NEW new \in Seq(O!KeySet),
         \A i \in 1 .. Len(new) : new[i] = c.key,
         c.diff = IF Len(new) = 0 THEN O!NoDiff ELSE [at |-> Len(p), size |-> Len(new)]
  PROVE  /\ p \o new \in Seq(O!KeySet)
         /\ \A d \in cs \cup {c} : d.diff.at + d.diff.size <= Len(p \o new)
         /\ O!Tiles(cs \cup {c}, p \o new)
<1> DEFINE q == p \o new
           n == Len(new)
<1>1. n = 0 => c.diff = O!NoDiff
  OBVIOUS
<1>2. /\ q \in Seq(O!KeySet) /\ Len(p) \in Nat /\ n \in Nat /\ Len(q) = Len(p) + n
      /\ \A i \in 1 .. Len(p) + n :
           q[i] = IF i <= Len(p) THEN p[i] ELSE new[i - Len(p)]
      /\ n # 0 => c.diff = [at |-> Len(p), size |-> n]
  BY ConcatProperties, LenProperties
<1> HIDE DEF q, n
<1>3. \A d \in cs \cup {c} : d.diff.at \in Nat /\ d.diff.size \in Nat
  BY DEF O!Changes
<1>4. \A d \in cs \cup {c} : d.diff.at + d.diff.size <= Len(q)
  BY <1>1, <1>2, <1>3 DEF O!NoDiff
<1>5. ASSUME NEW i \in 1 .. Len(q)
      PROVE  \E d \in cs \cup {c} :
               /\ d.key = q[i] /\ d.diff.at < i /\ i <= d.diff.at + d.diff.size
               /\ \A e \in (cs \cup {c}) \ {d} :
                    i <= e.diff.at \/ i > e.diff.at + e.diff.size
  <2>1. CASE i <= Len(p)
    <3>1. PICK d \in cs :
            /\ d.key = p[i] /\ d.diff.at < i /\ i <= d.diff.at + d.diff.size
            /\ \A e \in cs \ {d} : i <= e.diff.at \/ i > e.diff.at + e.diff.size
      BY <1>2, <2>1 DEF O!Tiles
    <3>2. i <= c.diff.at \/ i > c.diff.at + c.diff.size
      BY <1>1, <1>2, <2>1 DEF O!NoDiff
    <3> QED BY <1>2, <2>1, <3>1, <3>2
  <2>2. CASE i > Len(p)
    <3>1. q[i] = c.key /\ c.diff.at < i /\ i <= c.diff.at + c.diff.size
      BY <1>2, <2>2 DEF n
    <3>2. \A e \in cs : i > e.diff.at + e.diff.size
      BY <1>2, <1>3, <2>2
    <3> QED BY <3>1, <3>2
  <2> QED BY <1>2, <2>1, <2>2
<1> QED BY <1>2, <1>4, <1>5 DEF O!Tiles, q

(* finish keeps the offsets right, one candidate after the other.          *)
LEMMA OffsetsStep ==
  ASSUME Offsets, O!OutputStep \/ O!LoopEnds \/ O!Forgotten
  PROVE  Offsets'
<1> USE DEF Offsets
<1>1. CASE UNCHANGED O!finishVars
  BY <1>1 DEF O!finishVars
<1>2. CASE O!NoChange
  BY <1>2, HeadTailProperties DEF O!NoChange, O!Looking
<1>3. ASSUME NEW s \in O!ChangedSides, NEW n \in 0 .. MaxDiff,
             O!AddChange(s[1], s[2], n)
      PROVE  Offsets'
  <2> DEFINE c == [key |-> Head(left), before |-> s[1], after |-> s[2],
                   diff |-> IF n = 0 THEN O!NoDiff ELSE O!Diff(n)]
         new == [i \in 1 .. n |-> Head(left)]
  <2>1. Head(left) \in O!KeySet /\ Tail(left) \in Seq(O!KeySet) /\ Len(patch) \in Nat
    BY <1>3, HeadTailProperties, LenProperties DEF O!AddChange, O!Looking
  <2>2. s[1] \in O!Sides /\ s[2] \in O!Sides /\ n \in Nat
    BY BoundsAssumption DEF O!ChangedSides
  <2>3. c \in O!Changes
    BY <2>1, <2>2 DEF O!Changes, O!NoDiff, O!Diff
  <2>4. /\ left' = Tail(left) /\ changes' = changes \cup {c}
        /\ patch' = patch \o new
        /\ gaps' = (gaps \/ s[2] = "unavailable")
    BY <1>3 DEF O!AddChange
  <2>5. new \in Seq(O!KeySet) /\ Len(new) = n /\ \A i \in 1 .. n : new[i] = Head(left)
    BY <2>1, <2>2
  <2>6. /\ c.key = Head(left)
        /\ c.diff = IF Len(new) = 0 THEN O!NoDiff
                    ELSE [at |-> Len(patch), size |-> Len(new)]
    BY <2>5 DEF O!Diff
  <2> HIDE DEF c, new
  <2>7. /\ patch \o new \in Seq(O!KeySet) /\ O!Tiles(changes \cup {c}, patch \o new)
        /\ \A d \in changes \cup {c} : d.diff.at + d.diff.size <= Len(patch \o new)
    BY <2>3, <2>5, <2>6, DiffAppended
  <2> QED BY <2>1, <2>3, <2>4, <2>7
<1>4. CASE O!LoopEnds
  BY <1>4, KeysAssumption, EmptySeq DEF O!LoopEnds, O!Tiles
<1>5. CASE O!Forgotten
  <2>1. left' = <<>> /\ changes' = {} /\ patch' = <<>> /\ gaps' = FALSE
    BY <1>5 DEF O!Forgotten
  <2>2. O!Tiles(changes', patch')
    BY <2>1, EmptySeq DEF O!Tiles
  <2> QED BY <2>1, <2>2, EmptySeq
<1>6. O!OutputStep => \/ UNCHANGED O!finishVars \/ O!NoChange
                      \/ \E s \in O!ChangedSides, n \in 0 .. MaxDiff :
                           O!AddChange(s[1], s[2], n)
  BY DEF O!OutputStep, O!MakeDirectory, O!MakeDirectoryFails, O!Create, O!Fill,
         O!Rename, O!WriteFails, O!BeginSpawn, O!SpawnFailed, O!FailurePublished,
         O!Spawned, O!BeginLoop, O!LoopFails, O!DiffFails, O!Publish, O!RunReturns,
         O!Goto, O!GotoWriting, O!finishVars
<1> QED BY <1>1, <1>2, <1>3, <1>4, <1>5, <1>6

LEMMA ReportType ==
  Offsets => /\ O!FinalState \in O!Final /\ O!Diagnostics \in {"none", "gaps"}
             /\ O!Report \in O!Reports
             /\ O!Report.state = O!FinalState /\ O!Report.gaps = O!Diagnostics
             /\ O!Report.changes = changes
BY DEF Offsets, O!FinalState, O!Final, O!Diagnostics, O!Report, O!Reports

LEMMA SameReport ==
  UNCHANGED O!finishVars =>
    UNCHANGED <<O!FinalState, O!Report, O!Diagnostics, Last1, Last2, Last3, Last4>>
BY DEF O!finishVars, O!FinalState, O!Report, O!Diagnostics, Last1, Last2, Last3,
       Last4, O!Status, W

(* What a rename puts in place.                                            *)
Renames(n, v, rest) ==
  files' = [files EXCEPT ![n] = v] /\ writes' = rest /\ stage' = "create"

LEMMA Renamed ==
  ASSUME Writing, O!Rename
  PROVE  /\ UNCHANGED <<sup, made>> /\ UNCHANGED O!finishVars
         /\ DOMAIN tmp' = DOMAIN tmp
         /\ \/ sup = "starting" /\ Renames("status", "starting", <<>>)
            \/ sup = "failing" /\ Renames("status", "failed", <<>>)
            \/ sup = "announcing" /\ Renames("status", "running", <<>>)
            \/ /\ sup = "publishing"
               /\ \/ writes = Last4 /\ Renames("patch", patch, Last3)
                  \/ writes = Last3 /\ Renames("report", O!Report, Last2)
                  \/ writes = Last2 /\ Renames("diagnostics", O!Diagnostics, Last1)
                  \/ writes = Last1 /\ Renames("status", O!FinalState, <<>>)
<1>1. /\ writes # <<>> /\ stage = "rename" /\ UNCHANGED <<sup, made>>
      /\ UNCHANGED O!finishVars /\ DOMAIN tmp' = DOMAIN tmp
      /\ tmp[Head(writes).name] = Head(writes).value
      /\ Renames(Head(writes).name, Head(writes).value, Tail(writes))
  BY DEF O!Rename, Writing, Renames
<1>2. \/ sup = "starting" /\ writes = <<O!Status("starting")>>
      \/ sup = "failing" /\ writes = <<O!Status("failed")>>
      \/ sup = "announcing" /\ writes = <<O!Status("running")>>
      \/ sup = "publishing" /\ writes \in {Last1, Last2, Last3, Last4}
  BY <1>1 DEF Writing
<1>3. ASSUME NEW v, writes = <<O!Status(v)>>
      PROVE  Renames("status", v, <<>>)
  BY <1>1, <1>3, SingleTail DEF O!Status
<1>4. ASSUME NEW n, NEW v, Head(writes) = W(n, v)
      PROVE  Renames(n, v, Tail(writes))
  BY <1>1, <1>4 DEF W
<1>5. Last1 = <<O!Status(O!FinalState)>>
  BY DEF Last1
<1> QED BY <1>1, <1>2, <1>3, <1>4, <1>5, Tails

(* Each write goes through its three stages, and a file that is ready to   *)
(* be renamed holds what it should.                                        *)
LEMMA WritingStep ==
  ASSUME Writing, DiskTypeOK, O!OutputStep
  PROVE  Writing'
<1>1. CASE O!MakeDirectory
  BY <1>1 DEF O!MakeDirectory, Writing, O!Status
<1>2. CASE O!MakeDirectoryFails
  BY <1>2 DEF O!MakeDirectoryFails, Writing
<1>3. CASE O!Create
  <2>1. /\ UNCHANGED <<sup, writes>> /\ UNCHANGED O!finishVars
        /\ writes # <<>> /\ stage' = "fill"
    BY <1>3 DEF O!Create
  <2> QED BY <2>1, SameReport DEF Writing
<1>4. CASE O!Fill
  <2>1. /\ UNCHANGED <<sup, writes>> /\ UNCHANGED O!finishVars
        /\ writes # <<>> /\ stage' = "rename"
        /\ tmp' = [tmp EXCEPT ![Head(writes).name] = Head(writes).value]
    BY <1>4 DEF O!Fill
  <2>2. Head(writes).name \in O!Names
    BY <2>1, Tails, SingleTail DEF Writing, O!Status, W, O!Names
  <2>3. tmp'[Head(writes').name] = Head(writes').value
    BY <2>1, <2>2 DEF DiskTypeOK
  <2> QED BY <2>1, <2>3, SameReport DEF Writing
<1>5. CASE O!Rename
  <2>1. /\ sup' = sup /\ stage' = "create" /\ UNCHANGED O!finishVars
        /\ \/ writes' = <<>> /\ sup \in {"starting", "failing", "announcing", "publishing"}
           \/ writes' \in {Last1, Last2, Last3} /\ sup = "publishing"
    BY <1>5, Renamed DEF Renames
  <2> QED BY <2>1, SameReport DEF Writing
<1>6. CASE O!Publish
  BY <1>6, SameReport DEF O!Publish, Writing, Last4, W
<1>7. CASE O!SpawnFailed \/ O!Spawned
  BY <1>7 DEF O!SpawnFailed, O!Spawned, O!GotoWriting, Writing
<1>8. ASSUME \/ O!WriteFails \/ O!BeginSpawn \/ O!FailurePublished \/ O!BeginLoop
             \/ O!LoopFails \/ O!NoChange \/ O!DiffFails \/ O!RunReturns
             \/ \E s \in O!ChangedSides, n \in 0 .. MaxDiff : O!AddChange(s[1], s[2], n)
      PROVE  Writing'
  <2>1. \/ writes' = <<>> /\ stage' = "create"
        \/ UNCHANGED <<writes, stage>> /\ sup = "finish" /\ sup' = sup
    BY <1>8 DEF O!WriteFails, O!BeginSpawn, O!FailurePublished, O!BeginLoop,
       O!LoopFails, O!NoChange, O!DiffFails, O!RunReturns, O!AddChange, O!Goto,
       O!Looking, Writing
  <2> QED BY <2>1 DEF Writing
<1> QED BY <1>1, <1>2, <1>3, <1>4, <1>5, <1>6, <1>7, <1>8 DEF O!OutputStep

(* The other steps of a run leave nothing half done.                       *)
LEMMA WritingElsewhere ==
  ASSUME Writing,
         \/ Step /\ Handshake /\ UNCHANGED outputVars
         \/ O!LoopEnds
         \/ sup' = "gone" /\ O!Forgotten
         \/ sup = "gone" /\ sup' = "before" /\ UNCHANGED outputVars
         \/ sup' = sup /\ UNCHANGED outputVars
  PROVE  Writing'
<1>1. CASE Step /\ Handshake /\ UNCHANGED outputVars
  <2>1. /\ UNCHANGED <<writes, stage, tmp>>
        /\ UNCHANGED O!finishVars
    BY <1>1 DEF outputVars, O!finishVars
  <2>2. \/ sup' = sup
        \/ writes = <<>> /\ sup' \in Spawning \cup {"spawn_error", "spawned"}
    BY <1>1, StepMoves DEF Writing, Spawning
  <2> QED BY <2>1, <2>2, SameReport DEF Writing, Spawning
<1>2. CASE O!LoopEnds
  BY <1>2 DEF O!LoopEnds, Writing
<1>3. CASE sup' = "gone" /\ O!Forgotten
  BY <1>3 DEF O!Forgotten, Writing
<1>4. CASE sup = "gone" /\ sup' = "before" /\ UNCHANGED outputVars
  BY <1>4 DEF outputVars, Writing
<1>5. CASE sup' = sup /\ UNCHANGED outputVars
  <2>1. UNCHANGED <<writes, stage, tmp>> /\ UNCHANGED O!finishVars
    BY <1>5 DEF outputVars, O!finishVars
  <2> QED BY <1>5, <2>1, SameReport DEF Writing
<1> QED BY <1>1, <1>2, <1>3, <1>4, <1>5

(* Nothing but the making of the directory and a rename changes what is    *)
(* published.                                                              *)
LEMMA WhoPublishes ==
  ASSUME O!OutputStep
  PROVE  O!MakeDirectory \/ O!Rename \/ files' = files
BY DEF O!OutputStep, O!MakeDirectoryFails, O!Create, O!Fill, O!WriteFails,
       O!BeginSpawn, O!SpawnFailed, O!FailurePublished, O!Spawned, O!BeginLoop,
       O!LoopFails, O!NoChange, O!DiffFails, O!AddChange, O!Publish, O!RunReturns,
       O!Goto, O!GotoWriting, O!diskVars

LEMMA WhoMakes ==
  ASSUME DiskTypeOK, O!OutputStep
  PROVE  /\ made' \in BOOLEAN /\ DOMAIN tmp' = O!Names
         /\ made' = made \/ (sup = "before" /\ made')
BY DEF DiskTypeOK, O!OutputStep, O!MakeDirectory, O!Rename, O!MakeDirectoryFails,
       O!Create, O!Fill, O!WriteFails, O!BeginSpawn, O!SpawnFailed,
       O!FailurePublished, O!Spawned, O!BeginLoop, O!LoopFails, O!NoChange,
       O!DiffFails, O!AddChange, O!Publish, O!RunReturns, O!Goto, O!GotoWriting,
       O!diskVars

LEMMA DiskTypeStep ==
  ASSUME DiskTypeOK, Writing, Offsets, O!OutputStep
  PROVE  DiskTypeOK'
<1>1. CASE files' = files
  BY <1>1, WhoMakes DEF DiskTypeOK
<1>2. CASE O!MakeDirectory
  BY <1>2, WhoMakes DEF DiskTypeOK, O!MakeDirectory, O!Names
<1>3. CASE O!Rename
  <2>1. ASSUME NEW n \in O!Names, NEW v, Renames(n, v, writes'),
               n = "status" => v \in O!Statuses,
               n = "patch" => v \in Seq(O!KeySet),
               n = "report" => v \in O!Reports,
               n = "diagnostics" => v \in {"none", "gaps"}
        PROVE  DiskTypeOK'
    BY <2>1, WhoMakes DEF DiskTypeOK, Renames, O!Names
  <2>2. /\ patch \in Seq(O!KeySet) /\ O!Report \in O!Reports
        /\ O!Diagnostics \in {"none", "gaps"} /\ O!FinalState \in O!Final
    BY ReportType DEF Offsets
  <2> QED BY <1>3, <2>1, <2>2, Renamed DEF O!Names, O!Statuses, Renames
<1> QED BY <1>1, <1>2, <1>3, WhoPublishes

(* The files a reader relies on: one step of the supervisor.               *)
LEMMA PublishingStep ==
  ASSUME Writing, DiskTypeOK, Offsets, Publishing, OnlyAtTheEnd, O!OutputStep
  PROVE  Publishing'
<1>1. CASE O!Rename
  <2>1. /\ UNCHANGED sup /\ UNCHANGED O!finishVars
        /\ UNCHANGED <<O!FinalState, O!Report, O!Diagnostics, Last1, Last2, Last3, Last4>>
    BY <1>1, Renamed, SameReport
  <2>2. SUFFICES ASSUME sup = "publishing"
                 PROVE  Publishing'
    BY <2>1 DEF Publishing
  <2>3. CASE writes = Last4 /\ Renames("patch", patch, Last3)
    BY <2>1, <2>2, <2>3, Tails DEF Publishing, Renames, O!finishVars, DiskTypeOK, O!Names
  <2>4. CASE writes = Last3 /\ Renames("report", O!Report, Last2)
    BY <2>1, <2>2, <2>4, Tails DEF Publishing, Renames, O!finishVars, DiskTypeOK, O!Names
  <2>5. CASE writes = Last2 /\ Renames("diagnostics", O!Diagnostics, Last1)
    BY <2>1, <2>2, <2>5, Tails DEF Publishing, Renames, O!finishVars, DiskTypeOK, O!Names
  <2>6. CASE writes = Last1 /\ Renames("status", O!FinalState, <<>>)
    BY <2>1, <2>2, <2>6, Tails DEF Publishing, Renames
  <2> QED BY <1>1, <2>2, <2>3, <2>4, <2>5, <2>6, Renamed
<1>2. CASE O!Publish
  <2>1. /\ sup = "finish" /\ writes' = Last4 /\ files' = files
        /\ UNCHANGED O!finishVars
    BY <1>2 DEF O!Publish, Last4, W, O!diskVars
  <2> QED BY <2>1, SameReport, Tails DEF Publishing, OnlyAtTheEnd, Frozen
<1>3. CASE O!Create \/ O!Fill
  <2>1. UNCHANGED <<sup, writes, files>> /\ UNCHANGED O!finishVars
    BY <1>3 DEF O!Create, O!Fill
  <2> QED BY <2>1, SameReport DEF Publishing, O!finishVars
<1>4. CASE sup' # "publishing"
  BY <1>4 DEF Publishing
<1> QED BY <1>1, <1>2, <1>3, <1>4
  DEF O!OutputStep, O!MakeDirectory, O!MakeDirectoryFails, O!WriteFails,
      O!BeginSpawn, O!SpawnFailed, O!FailurePublished, O!Spawned, O!BeginLoop,
      O!LoopFails, O!NoChange, O!DiffFails, O!AddChange, O!RunReturns, O!Goto,
      O!GotoWriting, O!Looking

LEMMA OnlyAtTheEndStep ==
  ASSUME Writing, DiskTypeOK, Offsets, Publishing, OnlyAtTheEnd, O!OutputStep,
         UNCHANGED processVars
  PROVE  OnlyAtTheEnd'
<1> USE DEF OnlyAtTheEnd, Frozen
<1>0. Unborn' = Unborn
  BY DEF processVars, Unborn, socketVars, treeVars
<1>1. CASE O!Rename
  <2>1. UNCHANGED <<sup, made>> /\ made
    BY <1>1, Renamed
  <2>2. O!FinalState \in O!Final
    BY ReportType
  <2>3. CASE sup \in {"starting", "failing", "announcing"}
    <3>1. PICK v \in {"starting", "failed", "running"} :
            Renames("status", v, <<>>) /\ (v = "failed" => sup = "failing")
      BY <1>1, <2>3, Renamed
    <3> QED BY <2>1, <2>3, <3>1 DEF Renames, DiskTypeOK, O!Names, O!Final
  <2>4. CASE sup = "publishing"
    BY <1>1, <2>1, <2>2, <2>4, Renamed, Tails DEF Renames, DiskTypeOK, O!Names, Publishing, O!Final
  <2> QED BY <1>1, <2>3, <2>4, Renamed
<1>2. CASE O!MakeDirectory
  BY <1>2, FilesAssumption DEF O!MakeDirectory, DiskTypeOK, O!Names, O!Statuses, O!Final
<1>3. ASSUME files' = files, ~ O!MakeDirectory
      PROVE  OnlyAtTheEnd'
  BY <1>0, <1>3, WhoMakes
     DEF Writing,
      O!OutputStep, O!MakeDirectoryFails, O!Create, O!Fill, O!WriteFails,
      O!BeginSpawn, O!SpawnFailed, O!FailurePublished, O!Spawned, O!BeginLoop,
      O!LoopFails, O!NoChange, O!DiffFails, O!AddChange, O!RunReturns, O!Goto,
      O!GotoWriting, O!Looking, O!Publish, O!Rename, O!diskVars
<1> QED BY <1>1, <1>2, <1>3, WhoPublishes

(* A report is put in place beside its patch, and a final status last.     *)
LEMMA BackedStep ==
  ASSUME Writing, DiskTypeOK, Offsets, Publishing, OnlyAtTheEnd,
         O!ReportHasPatch, O!FinalStatusIsBacked, O!OutputStep
  PROVE  O!ReportHasPatch' /\ O!FinalStatusIsBacked'
<1>1. CASE files' = files
  BY <1>1 DEF O!ReportHasPatch, O!FinalStatusIsBacked
<1>2. CASE O!MakeDirectory
  BY <1>2, FilesAssumption
     DEF O!MakeDirectory, OnlyAtTheEnd, DiskTypeOK, O!Names, O!Final, O!Statuses,
         O!ReportHasPatch, O!FinalStatusIsBacked
<1>3. CASE O!Rename
  <2>1. /\ O!Report \in O!Reports /\ O!Report.state = O!FinalState
        /\ O!Report.gaps = O!Diagnostics /\ O!Report.changes = changes
        /\ patch # Missing /\ O!Report # Missing
        /\ O!Tiles(changes, patch)
    BY ReportType, FilesAssumption DEF Offsets
  <2>2. CASE sup # "publishing"
    <3>1. PICK v \in {"starting", "failed", "running"} : Renames("status", v, <<>>)
      BY <1>3, <2>2, Renamed
    <3>2. files["report"] = Missing
      BY <1>3, <2>2, Renamed DEF OnlyAtTheEnd, Frozen
    <3> QED BY <3>1, <3>2 DEF Renames, DiskTypeOK, O!Names, O!Final,
                              O!ReportHasPatch, O!FinalStatusIsBacked
  <2>3. CASE writes = Last4 /\ Renames("patch", patch, Last3) /\ sup = "publishing"
    BY <2>3, Tails DEF Publishing, Renames, DiskTypeOK, O!Names, O!ReportHasPatch,
                       O!FinalStatusIsBacked
  <2>4. CASE writes = Last3 /\ Renames("report", O!Report, Last2) /\ sup = "publishing"
    BY <2>1, <2>4, Tails DEF Publishing, Renames, DiskTypeOK, O!Names, O!ReportHasPatch,
                       O!FinalStatusIsBacked
  <2>5. CASE /\ writes = Last2 /\ Renames("diagnostics", O!Diagnostics, Last1)
             /\ sup = "publishing"
    BY <2>5, Tails DEF Publishing, Renames, DiskTypeOK, O!Names, O!ReportHasPatch,
                       O!FinalStatusIsBacked
  <2>6. CASE writes = Last1 /\ Renames("status", O!FinalState, <<>>) /\ sup = "publishing"
    BY <2>1, <2>6, Tails DEF Publishing, Renames, DiskTypeOK, O!Names, O!ReportHasPatch,
                       O!FinalStatusIsBacked
  <2> QED BY <1>3, <2>2, <2>3, <2>4, <2>5, <2>6, Renamed
<1> QED BY <1>1, <1>2, <1>3, WhoPublishes

LEMMA OutcomeStep ==
  ASSUME Writing, DiskTypeOK, Publishing, Outcome, O!OutputStep, UNCHANGED processVars,
         Handshake, OnlyAtTheEnd
  PROVE  Outcome'
<1>1. child' = child
  BY DEF processVars
<1>2. sup' \in {"finish", "publishing", "done"} => sup \in {"finish", "publishing", "done"}
  BY DEF O!OutputStep, O!MakeDirectory, O!MakeDirectoryFails, O!Create, O!Fill,
         O!Rename, O!WriteFails, O!BeginSpawn, O!SpawnFailed, O!FailurePublished,
         O!Spawned, O!BeginLoop, O!LoopFails, O!NoChange, O!DiffFails, O!AddChange,
         O!Publish, O!RunReturns, O!Goto, O!GotoWriting, O!Looking
<1>3. CASE files'["status"] = files["status"]
  BY <1>1, <1>2, <1>3 DEF Outcome
<1>4. CASE O!MakeDirectory
  BY <1>3, <1>4 DEF O!MakeDirectory, DiskTypeOK, O!Names
<1>5. CASE O!Rename
  <2>1. \/ sup \in {"starting", "announcing"} /\ files'["status"] \in {"starting", "running"}
        \/ sup = "failing" /\ files'["status"] = "failed"
        \/ sup = "publishing"
    BY <1>5, Renamed DEF Renames, DiskTypeOK, O!Names
  <2>2. sup = "failing" => child \in Failed \cup {"none", "reaped"}
    BY DEF Handshake, InOrder
  <2>3. CASE sup = "publishing"
    <3>1. child = "ended"
      BY <2>3 DEF Outcome
    <3>2. files["status"] # "failed" /\ files'["status"] # "failed"
      BY <1>5, <2>3, <3>1, Renamed, Tails
         DEF Outcome, Failed, Renames, DiskTypeOK, O!Names, O!FinalState
    <3> QED BY <1>1, <3>1, <3>2 DEF Outcome
  <2> QED BY <1>1, <1>2, <2>1, <2>2, <2>3 DEF Outcome, O!Final
<1> QED BY <1>3, <1>4, <1>5, WhoPublishes

-----------------------------------------------------------------------------
(* The handshake, through every step of a run.                             *)
LEMMA HandshakeKept ==
  ASSUME Handshake, Writing, OnlyAtTheEnd, [SessionNext]_sessionVars
  PROVE  Handshake'
<1>1. CASE Processes \/ Kernel
  BY <1>1, HandshakeStep DEF Processes, Kernel, Step
<1>2. CASE Supervisor
  <2>1. UNCHANGED processVars /\ O!OutputStep
    BY <1>2 DEF Supervisor
  <2>2. CASE O!MakeDirectory \/ O!MakeDirectoryFails \/ O!BeginSpawn
    <3>1. sup = "before" => Quiet
      BY DEF Handshake, InOrder
    <3>2. sup = "starting" => Unborn
      BY DEF Handshake, InOrder
    <3> QED BY <2>1, <2>2, <3>1, <3>2, HandshakeMoves
            DEF O!MakeDirectory, O!MakeDirectoryFails, O!BeginSpawn, O!Goto,
                OnlyAtTheEnd
  <2>3. CASE O!WriteFails
    BY <2>1, <2>3, HandshakeMoves DEF O!WriteFails, Writing, Serving
  <2>4. CASE \/ O!SpawnFailed \/ O!FailurePublished \/ O!Spawned \/ O!BeginLoop
             \/ O!LoopFails \/ O!DiffFails \/ O!Publish \/ O!RunReturns
    BY <2>1, <2>4, HandshakeMoves
       DEF O!SpawnFailed, O!FailurePublished, O!Spawned, O!BeginLoop, O!LoopFails,
           O!DiffFails, O!Publish, O!RunReturns, O!Goto, O!GotoWriting, O!Looking,
           Serving
  <2>5. CASE sup' = sup
    BY <2>1, <2>5, HandshakeMoves
  <2> QED BY <2>1, <2>2, <2>3, <2>4, <2>5
          DEF O!OutputStep, O!Create, O!Fill, O!Rename, O!NoChange, O!AddChange
<1>3. CASE LoopEnds
  BY <1>3, HandshakeMoves DEF LoopEnds, O!LoopEnds, Serving
<1>4. CASE SupervisorGone
  BY <1>4, HandshakeGone DEF SupervisorGone
<1>5. CASE RunAgain
  BY <1>5, HandshakeMoves DEF RunAgain, Quiet
<1>6. CASE UNCHANGED vars
  BY <1>6, HandshakeMoves DEF vars, processVars, socketVars, treeVars
<1> QED BY <1>1, <1>2, <1>3, <1>4, <1>5, <1>6 DEF SessionNext, Adapter, sessionVars

(* The files of an ended run are not touched again, by whomever.           *)
LEMMA FrozenStays ==
  ASSUME Handshake, Frozen, [SessionNext]_sessionVars
  PROVE  Frozen' /\ files' = files
<1> USE DEF Frozen
<1>1. CASE Processes \/ Kernel
  BY <1>1, StepMoves DEF Processes, Kernel, Step, outputVars, Spawning
<1>2. CASE Supervisor
  BY <1>2 DEF Supervisor, O!OutputStep, O!MakeDirectory, O!MakeDirectoryFails,
      O!Create, O!Fill, O!Rename, O!WriteFails, O!BeginSpawn, O!SpawnFailed,
      O!FailurePublished, O!Spawned, O!BeginLoop, O!LoopFails, O!NoChange,
      O!DiffFails, O!AddChange, O!RunReturns, O!Goto, O!GotoWriting, O!Looking,
      O!Publish, O!diskVars
<1>3. CASE SupervisorGone
  BY <1>3 DEF SupervisorGone, SupervisorEnds, O!Forgotten, O!diskVars
<1>4. CASE LoopEnds \/ RunAgain \/ Adapter \/ UNCHANGED sessionVars
  BY <1>4 DEF LoopEnds, O!LoopEnds, RunAgain, Adapter, sessionVars, vars, outputVars
<1> QED BY <1>1, <1>2, <1>3, <1>4 DEF SessionNext

(* A step that is not the supervisor's own.                                *)
LEMMA NotTheSupervisor ==
  ASSUME Handshake, [SessionNext]_sessionVars
  PROVE  \/ Supervisor
         \/ LoopEnds
         \/ SupervisorEnds /\ O!Forgotten
         \/ /\ UNCHANGED outputVars
            /\ \/ Step
               \/ /\ UNCHANGED <<child, running, toChild>>
                  /\ \/ sup' = sup
                     \/ sup = "gone" /\ sup' = "before"
BY DEF SessionNext, Processes, Kernel, Step, SupervisorGone, Adapter, RunAgain,
       sessionVars, vars, processVars, socketVars, treeVars

LEMMA DiskKept ==
  ASSUME Handshake, Disk, [SessionNext]_sessionVars
  PROVE  Disk'
<1> USE DEF Disk
<1>1. CASE Supervisor
  BY <1>1, OffsetsStep, DiskTypeStep, WritingStep, PublishingStep, OnlyAtTheEndStep,
     BackedStep DEF Supervisor
<1>2. ASSUME files' = files
      PROVE  O!ReportHasPatch' /\ O!FinalStatusIsBacked'
  BY <1>2 DEF O!ReportHasPatch, O!FinalStatusIsBacked
<1>3. CASE LoopEnds
  <2>1. O!LoopEnds /\ UNCHANGED <<made, files, tmp>> /\ sup = "serving" /\ sup' = "finish"
    BY <1>3 DEF LoopEnds, O!LoopEnds, O!diskVars
  <2>2. Offsets' /\ Writing'
    BY <2>1, OffsetsStep, WritingElsewhere
  <2>3. DiskTypeOK' /\ Publishing' /\ OnlyAtTheEnd'
    BY <2>1 DEF DiskTypeOK, Publishing, OnlyAtTheEnd, Frozen
  <2> QED BY <1>2, <2>1, <2>2, <2>3
<1>4. CASE SupervisorEnds /\ O!Forgotten
  <2>1. /\ O!Forgotten /\ UNCHANGED <<made, files, tmp>> /\ sup' = "gone"
        /\ writes' = <<>> /\ UNCHANGED <<child, running, toChild>>
    BY <1>4 DEF SupervisorEnds, O!Forgotten, O!diskVars, treeVars
  <2>2. Offsets' /\ Writing'
    BY <2>1, OffsetsStep, WritingElsewhere
  <2>3. ~made => files["status"] = Missing /\ files["report"] = Missing
    BY DEF OnlyAtTheEnd, O!Names, DiskTypeOK
  <2>4. DiskTypeOK' /\ Publishing'
    BY <2>1 DEF DiskTypeOK, Publishing
  <2>5. OnlyAtTheEnd'
    BY <2>1, <2>3, FilesAssumption
       DEF OnlyAtTheEnd, Frozen, Unborn, O!Names, O!Statuses, O!Final
  <2> QED BY <1>2, <2>1, <2>2, <2>4, <2>5
<1>5. CASE /\ UNCHANGED outputVars
           /\ \/ Step
              \/ /\ UNCHANGED <<child, running, toChild>>
                 /\ \/ sup' = sup
                    \/ sup = "gone" /\ sup' = "before"
  <2>1. UNCHANGED <<made, files, tmp, writes>> /\ UNCHANGED O!finishVars
    BY <1>5 DEF outputVars, O!finishVars
  <2>2. Offsets' /\ DiskTypeOK'
    BY <2>1 DEF Offsets, DiskTypeOK, O!finishVars
  <2>3. Writing'
    BY <1>5, WritingElsewhere
  <2>4. \/ sup' = sup
        \/ sup = "gone" /\ sup' = "before"
        \/ sup \in Spawning \cup {"spawn"} /\ sup' \in Spawning \cup {"spawn_error", "spawned"}
    BY <1>5, StepMoves
  <2>5. Publishing'
    BY <2>1, <2>4, SameReport DEF Publishing, O!finishVars, Spawning
  <2>6. Unborn /\ sup \notin Spawning \cup {"spawn"} => Unborn'
    BY <1>5, StepMoves DEF Unborn, Quiet, Over
  <2>7. OnlyAtTheEnd'
    BY <2>1, <2>4, <2>6 DEF OnlyAtTheEnd, Frozen, Spawning
  <2> QED BY <1>2, <2>1, <2>2, <2>3, <2>5, <2>7
<1> QED BY <1>1, <1>3, <1>4, <1>5, NotTheSupervisor

(* What the status says of the command stays true: once a run has ended    *)
(* there, nothing is forked in its name.                                   *)
LEMMA OutcomeKept ==
  ASSUME Handshake, Disk, Outcome, [SessionNext]_sessionVars
  PROVE  Outcome'
<1>1. CASE Supervisor
  BY <1>1, OutcomeStep DEF Supervisor, Disk
<1>2. CASE LoopEnds
  BY <1>2 DEF LoopEnds, O!LoopEnds, O!diskVars, processVars, Outcome, Disk,
              OnlyAtTheEnd, Frozen
<1>3. CASE SupervisorEnds /\ O!Forgotten
  BY <1>3 DEF SupervisorEnds, O!Forgotten, O!diskVars, Outcome
<1>4. CASE /\ UNCHANGED outputVars
           /\ \/ Step
              \/ /\ UNCHANGED <<child, running, toChild>>
                 /\ \/ sup' = sup
                    \/ sup = "gone" /\ sup' = "before"
  <2>1. files' = files
    BY <1>4 DEF outputVars
  <2>2. sup' \in {"finish", "publishing", "done"} => sup' = sup
    BY <1>4, StepMoves DEF Spawning
  <2>3. child \in Over /\ sup \notin Spawning \cup {"spawn"} => child' = child
    BY <1>4, StepMoves
  <2>4. files["status"] \in O!Final \cup {"failed"} => sup \notin Spawning \cup {"spawn"}
    BY DEF Disk, OnlyAtTheEnd, Frozen, Spawning
  <2> QED BY <2>1, <2>2, <2>3, <2>4 DEF Outcome, Over, Failed, Spawning
<1> QED BY <1>1, <1>2, <1>3, <1>4, NotTheSupervisor

-----------------------------------------------------------------------------
(* The adapter, one action at a time.                                      *)
LEMMA GitTypeStep ==
  ASSUME Git, G!GitStep
  PROVE  G!GitTypeOK'
<1> USE BoundsAssumption DEF Git, G!GitTypeOK, G!Building, G!TreeSides, G!memoryVars, G!storedVars
<1>1. CASE G!Begin
  BY <1>1 DEF G!Begin
<1>2. CASE G!InitRepository
  BY <1>2 DEF G!InitRepository
<1>3. CASE G!EmptyIndex \/ G!WriteTree \/ G!RemoveIndexes
  BY <1>3 DEF G!EmptyIndex, G!WriteTree, G!RemoveIndexes
<1>4. ASSUME NEW k \in todo, G!AddEntry(k)
      PROVE  G!GitTypeOK'
  BY <1>4 DEF G!AddEntry
<1>5. CASE G!CommitBaseline \/ G!CommitReport
  BY <1>5 DEF G!CommitBaseline, G!CommitReport, Committed
<1>6. CASE G!UpdateRef \/ G!WriteReceipt
  BY <1>6 DEF G!UpdateRef, G!WriteReceipt
<1>7. CASE G!StepFails \/ G!BeginAgain
  BY <1>7 DEF G!StepFails, G!BeginAgain, G!Forgotten
<1>8. CASE G!Kill
  <2>1. commits' = commits /\ attempt' = attempt /\ gpc' = "idle" /\ side' = "before"
    BY <1>8 DEF G!Kill, G!Forgotten
  <2>2. repo' = repo \/ (repo = "absent" /\ repo' = "partial")
    BY <1>8 DEF G!Kill
  <2>3. \A s \in G!TreeSides : locked'[s] \in BOOLEAN
    <3>1. CASE locked' = locked
      BY <3>1
    <3>2. CASE \E l \in {locked[side], locked[side] \/ gpc \in {"empty", "add"}} :
                 locked' = [locked EXCEPT ![side] = l]
      <4>1. locked[side] \in BOOLEAN
        OBVIOUS
      <4>2. PICK l \in BOOLEAN : locked' = [locked EXCEPT ![side] = l]
        BY <3>2, <4>1
      <4> QED BY <4>2
    <3> QED BY <1>8, <3>1, <3>2 DEF G!Kill
  <2> QED BY <2>1, <2>2, <2>3
<1> QED BY <1>1, <1>2, <1>3, <1>4, <1>5, <1>6, <1>7, <1>8 DEF G!GitStep

(* An adapter that goes on goes on with the report it has read, and one    *)
(* that starts reads the report that is in place.                          *)
LEMMA AdaptingStep ==
  ASSUME Git, OnlyAtTheEnd, writes = <<>>, sup = "gone", G!GitStep,
         UNCHANGED <<sup, made, files, writes>>
  PROVE  Adapting'
<1>1. CASE G!Begin
  <2>1. Frozen
    BY <1>1 DEF G!Begin, OnlyAtTheEnd
  <2>2. Frozen'
    BY <2>1 DEF Frozen
  <2> QED BY <1>1, <2>2 DEF G!Begin, Adapting, Allowed
<1>2. CASE gpc' = "idle"
  BY <1>2 DEF Adapting
<1>3. CASE gpc # "idle" /\ report' = report
  BY <1>3 DEF Git, Adapting, Frozen, Allowed
<1> QED BY <1>1, <1>2, <1>3
   DEF G!GitStep, G!InitRepository, G!EmptyIndex, G!WriteTree, G!RemoveIndexes,
       G!AddEntry, G!CommitBaseline, G!CommitReport, G!UpdateRef, G!WriteReceipt,
       G!StepFails, G!Kill, G!BeginAgain, G!memoryVars

(* Each tree is complete when it is written.                               *)
LEMMA TreesStep ==
  ASSUME Git, G!GitStep
  PROVE  Trees'
<1> USE DEF Git, Trees, G!TreeSides, G!memoryVars, G!storedVars, G!GitTypeOK
<1>1. CASE G!Begin
  BY <1>1 DEF G!Begin
<1>2. CASE G!InitRepository
  BY <1>2 DEF G!InitRepository
<1>3. CASE G!EmptyIndex
  BY <1>3 DEF G!EmptyIndex
<1>4. ASSUME NEW k \in todo, G!AddEntry(k)
      PROVE  Trees'
  BY <1>4 DEF G!AddEntry
<1>5. CASE G!WriteTree
  BY <1>5 DEF G!WriteTree
<1>6. CASE G!RemoveIndexes \/ G!CommitBaseline \/ G!CommitReport \/ G!UpdateRef \/ G!WriteReceipt
  BY <1>6 DEF G!RemoveIndexes, G!CommitBaseline, G!CommitReport, G!UpdateRef,
              G!WriteReceipt
<1>7. CASE G!StepFails \/ G!BeginAgain \/ G!Kill
  BY <1>7 DEF G!StepFails, G!BeginAgain, G!Kill, G!Forgotten
<1> QED BY <1>1, <1>2, <1>3, <1>4, <1>5, <1>6, <1>7 DEF G!GitStep

(* The commits made now are those of the report.                           *)
LEMMA CommitsOfReport ==
  ASSUME Git, gpc \in {"clean", "commit", "ref", "receipt"}
  PROVE  G!Baseline = BaselineOf(report) /\ G!ReportCommit = ReportOf(report)
BY DEF Git, Trees, G!Baseline, G!ReportCommit, BaselineOf, ReportOf

LEMMA CommittedStep ==
  ASSUME Git, G!GitStep
  PROVE  Committed'
<1> USE DEF Git, Committed, G!memoryVars, G!storedVars
<1>1. CASE G!Begin \/ G!InitRepository \/ G!EmptyIndex \/ G!WriteTree \/ G!RemoveIndexes
  BY <1>1 DEF G!Begin, G!InitRepository, G!EmptyIndex, G!WriteTree, G!RemoveIndexes
<1>2. ASSUME NEW k \in todo, G!AddEntry(k)
      PROVE  Committed'
  BY <1>2 DEF G!AddEntry
<1>3. CASE G!CommitBaseline
  BY <1>3 DEF G!CommitBaseline
<1>4. CASE G!CommitReport \/ G!UpdateRef \/ G!WriteReceipt
  <2>1. UNCHANGED <<report, tree>>
    BY <1>4 DEF G!CommitReport, G!UpdateRef, G!WriteReceipt
  <2>2. BaselineOf(report') = BaselineOf(report) /\ ReportOf(report') = ReportOf(report)
    BY <2>1
  <2> QED BY <1>4, <2>1, <2>2, CommitsOfReport
          DEF G!CommitReport, G!UpdateRef, G!WriteReceipt
<1>5. CASE G!StepFails \/ G!BeginAgain \/ G!Kill
  BY <1>5 DEF G!StepFails, G!BeginAgain, G!Kill
<1> QED BY <1>1, <1>2, <1>3, <1>4, <1>5 DEF G!GitStep

(* A second attempt writes the same receipt, and sets the same ref.        *)
LEMMA ReceiptedStep ==
  ASSUME Git, G!GitStep, UNCHANGED <<sup, made, files, writes>>
  PROVE  Receipted' /\ (receipt # Missing => receipt' = receipt)
<1> USE DEF Git
<1>1. commits \subseteq commits'
  BY DEF G!GitStep, G!Begin, G!InitRepository, G!EmptyIndex, G!WriteTree,
         G!RemoveIndexes, G!AddEntry, G!CommitBaseline, G!CommitReport, G!UpdateRef,
         G!WriteReceipt, G!StepFails, G!Kill, G!BeginAgain, G!storedVars
<1>2. Frozen' = Frozen
  BY DEF Frozen
<1>3. CASE G!UpdateRef
  <2>1. ref' = ReportOf(report) /\ receipt' = receipt /\ report = files["report"]
    BY <1>3, CommitsOfReport DEF G!UpdateRef, Adapting
  <2>2. receipt # Missing => receipt.report = ReportOf(report)
    BY <2>1 DEF Receipted, ReceiptOf
  <2> QED BY <1>1, <1>2, <2>1, <2>2 DEF Receipted
<1>4. CASE G!WriteReceipt
  <2>1. /\ receipt' = ReceiptOf(report) /\ ref' = ref /\ report = files["report"]
        /\ report # Missing /\ Allowed(report) /\ Frozen
    BY <1>4, CommitsOfReport DEF G!WriteReceipt, ReceiptOf, Adapting
  <2>2. ref = ReportOf(report) /\ {BaselineOf(report), ReportOf(report)} \subseteq commits
    BY <1>4 DEF G!WriteReceipt, Committed
  <2> QED BY <1>1, <1>2, <2>1, <2>2 DEF Receipted, ReceiptOf
<1>5. CASE UNCHANGED <<ref, receipt>>
  BY <1>1, <1>2, <1>5 DEF Receipted
<1> QED BY <1>3, <1>4, <1>5
   DEF G!GitStep, G!Begin, G!InitRepository, G!EmptyIndex, G!WriteTree,
       G!RemoveIndexes, G!AddEntry, G!CommitBaseline, G!CommitReport,
       G!StepFails, G!Kill, G!BeginAgain, G!storedVars

(* Only the adapter has these variables; everybody else leaves them, and a *)
(* report it has read, alone.                                              *)
LEMMA GitKept ==
  ASSUME Handshake, Disk, Git, [SessionNext]_sessionVars
  PROVE  Git' /\ (receipt # Missing => receipt' = receipt)
<1>1. CASE Adapter
  <2>1. /\ G!GitStep /\ sup = "gone"
        /\ UNCHANGED <<sup, made, files, writes>>
    BY <1>1 DEF Adapter, vars, outputVars
  <2>2. writes = <<>> /\ OnlyAtTheEnd
    BY <2>1 DEF Disk, Writing
  <2> QED BY <2>1, <2>2, GitTypeStep, AdaptingStep, TreesStep, CommittedStep,
             ReceiptedStep DEF Git
<1>2. CASE UNCHANGED gitVars
  <2>1. UNCHANGED <<attempt, gpc, report, side, todo, tree, repo, index, locked,
                    commits, ref, receipt>>
    BY <1>2 DEF gitVars
  <2>2. Frozen => Frozen' /\ files' = files
    BY FrozenStays
  <2>3. Adapting' /\ Receipted'
    BY <2>1, <2>2 DEF Git, Adapting, Receipted, Allowed
  <2>4. G!GitTypeOK' /\ Trees' /\ Committed'
    BY <2>1 DEF Git, G!GitTypeOK, Trees, Committed, BaselineOf, ReportOf
  <2> QED BY <2>1, <2>3, <2>4 DEF Git
<1> QED BY <1>1, <1>2
   DEF SessionNext, Processes, Kernel, Supervisor, LoopEnds, SupervisorGone, RunAgain,
       sessionVars

LEMMA SupTypeKept ==
  ASSUME SupTypeOK, Handshake, [SessionNext]_sessionVars
  PROVE  SupTypeOK'
<1> USE DEF SupTypeOK
<1>1. CASE Supervisor
  BY <1>1 DEF Supervisor, O!OutputStep, O!MakeDirectory, O!MakeDirectoryFails,
      O!Create, O!Fill, O!Rename, O!WriteFails, O!BeginSpawn, O!SpawnFailed,
      O!FailurePublished, O!Spawned, O!BeginLoop, O!LoopFails, O!NoChange,
      O!DiffFails, O!AddChange, O!RunReturns, O!Goto, O!GotoWriting, O!Publish
<1>2. CASE Step
  BY <1>2, StepMoves
<1>3. CASE ~ Supervisor /\ ~ Step
  BY <1>3, NotTheSupervisor DEF LoopEnds, O!LoopEnds, SupervisorEnds
<1> QED BY <1>1, <1>2, <1>3

-----------------------------------------------------------------------------
LEMMA InitSInv == SessionInit => SInv
<1> SUFFICES ASSUME SessionInit PROVE SInv
  OBVIOUS
<1>1. SupTypeOK /\ Handshake
  BY DEF SessionInit, Init, SupTypeOK, Handshake, ProcessTypeOK, InOrder,
         ChildInOrder, NothingUnseen, Procs, Over, Failed, Handshaking, Spawning,
         Serving, Quiet, Unborn
<1>2. Offsets
  <2>1. left = <<>> /\ changes = {} /\ patch = <<>> /\ gaps = FALSE
    BY DEF SessionInit, O!OutputInit
  <2>2. O!Tiles(changes, patch)
    BY <2>1, EmptySeq DEF O!Tiles
  <2> QED BY <2>1, <2>2, EmptySeq DEF Offsets
<1>3. /\ \A n \in O!Names : files[n] = Missing
      /\ files["status"] = Missing /\ files["report"] = Missing
      /\ DiskTypeOK
  BY DEF SessionInit, O!OutputInit, DiskTypeOK, O!Names
<1>4. Writing /\ Publishing
  BY DEF SessionInit, Init, O!OutputInit, Writing, Publishing
<1>5. OnlyAtTheEnd /\ Outcome /\ O!ReportHasPatch /\ O!FinalStatusIsBacked
  BY <1>3, FilesAssumption
     DEF SessionInit, Init, O!OutputInit, OnlyAtTheEnd, Unborn, Outcome,
         O!ReportHasPatch, O!FinalStatusIsBacked, O!Statuses, O!Final
<1>6. Git
  BY BoundsAssumption DEF SessionInit, G!GitInit, Git, G!GitTypeOK, G!TreeSides,
     Adapting, Trees, Committed, Receipted
<1> QED BY <1>1, <1>2, <1>3, <1>4, <1>5, <1>6 DEF SInv, Disk

LEMMA StepSInv == SInv /\ [SessionNext]_sessionVars => SInv'
BY SupTypeKept, HandshakeKept, DiskKept, OutcomeKept, GitKept DEF SInv, Disk

LEMMA AlwaysSInv == SessionSpec => []SInv
BY InitSInv, StepSInv, PTL DEF SessionSpec

(* Every variable of the three parts of a run keeps its type: a published  *)
(* file is never a torn one, and a commit has a repository.                *)
THEOREM SessionTypeCorrect == SessionSpec => []SessionTypeOK
<1>1. Offsets => O!ToSet(left) \subseteq O!KeySet /\ O!ToSet(patch) \subseteq O!KeySet
  BY ElementOfSeq, LenProperties DEF Offsets, O!ToSet
<1>2. DiskTypeOK => \A n \in O!Names : files[n] # Torn
  BY FilesAssumption DEF DiskTypeOK, O!Names
<1>3. SInv => SessionTypeOK
  BY <1>1, <1>2
     DEF SInv, SupTypeOK, Handshake, ProcessTypeOK, Disk, Offsets, DiskTypeOK,
         Writing, Git, SessionTypeOK, O!OutputTypeOK
<1> QED BY <1>3, AlwaysSInv, PTL

(* The same two facts about the handshake in a whole run, whose directory  *)
(* may be given to a second one (linux.rs:313-403, supervisor.rs:189-240). *)
THEOREM RunIsWatched == SessionSpec => []CommandIsWatchedInRun
<1>1. SInv => CommandIsWatchedInRun
  BY DEF SInv, SupTypeOK, Handshake, ProcessTypeOK, InOrder, CommandIsWatchedInRun,
         Quiet, Unborn, Spawning, Serving, Over, Failed
<1> QED BY <1>1, AlwaysSInv, PTL

THEOREM RunNeverUnseen == SessionSpec => []NothingUnseen
<1>1. SInv => NothingUnseen
  BY DEF SInv, Handshake
<1> QED BY <1>1, AlwaysSInv, PTL

(* "failed" is published only of a command that was never executed and     *)
(* never will be, a final status only of one that has ended                *)
(* (supervisor.rs:189-199, 311-320, report.rs:132).                        *)
THEOREM StatusIsTrue == SessionSpec => []StatusTellsOfCommand
<1>1. SInv => StatusTellsOfCommand
  BY DEF SInv, Outcome, StatusTellsOfCommand, Over, Failed
<1> QED BY <1>1, AlwaysSInv, PTL

(* A report in place has its patch beside it, and every chunk of the patch *)
(* belongs to the one change whose offsets name it (report.rs:47-58, 75,   *)
(* 125), for every number of candidates and size of their diffs.           *)
THEOREM PatchIsThere == SessionSpec => []ReportHasPatch
<1>1. SInv => ReportHasPatch
  BY DEF SInv, Disk, ReportHasPatch
<1> QED BY <1>1, AlwaysSInv, PTL

(* A final status has its report and diagnostics beside it (report.rs:75,  *)
(* 125-132).                                                               *)
THEOREM FinalIsBacked == SessionSpec => []FinalStatusIsBacked
<1>1. SInv => FinalStatusIsBacked
  BY DEF SInv, Disk, FinalStatusIsBacked
<1> QED BY <1>1, AlwaysSInv, PTL

(* A published final status, and every file beside it, stays, also through *)
(* crashes and later runs with the same directory (capture.rs:162-173).    *)
THEOREM FinalRemains == SessionSpec => FinalStays
<1>1. SInv /\ [SessionNext]_sessionVars => (files["status"] \in O!Final => UNCHANGED files)
  BY FrozenStays DEF SInv, Disk, OnlyAtTheEnd
<1>2. SInv /\ [SessionNext]_sessionVars =>
        [files["status"] \in O!Final => UNCHANGED files]_sessionVars
  BY <1>1
<1> QED BY <1>2, AlwaysSInv, PTL DEF SessionSpec, FinalStays

(* A receipt names two commits that are there, with the trees of the       *)
(* report, and the ref names the second (git_adapter.rs:62-67, 84-132).    *)
THEOREM ReceiptBacked == SessionSpec => []ReceiptIsBacked
<1>1. Git => ReceiptIsBacked
  <2> SUFFICES ASSUME Git, receipt # Missing
               PROVE  G!ReceiptIsBacked
    BY DEF ReceiptIsBacked, G!ReceiptIsBacked
  <2>1. /\ receipt = ReceiptOf(files["report"]) /\ Allowed(files["report"])
        /\ ref = receipt.report
        /\ {receipt.baseline, receipt.report} \subseteq commits
    BY DEF Git, Receipted
  <2>2. /\ receipt.baseline = BaselineOf(files["report"])
        /\ receipt.report = ReportOf(files["report"])
    BY <2>1 DEF ReceiptOf
  <2>3. /\ receipt.baseline.tree = G!Entries(files["report"], "before")
        /\ receipt.report.tree = G!Entries(files["report"], "after")
        /\ receipt.report.parent = {receipt.baseline}
    BY <2>2 DEF BaselineOf, ReportOf, G!Commit
  <2> QED BY <2>1, <2>3 DEF G!ReceiptIsBacked, G!Entries, Allowed
<1>2. SInv => ReceiptIsBacked
  BY <1>1 DEF SInv
<1> QED BY <1>2, AlwaysSInv, PTL

(* However often the adapter is killed and started again, a receipt that   *)
(* is there stays the same.                                                *)
THEOREM ReceiptRemains == SessionSpec => ReceiptStays
<1>1. SInv /\ [SessionNext]_sessionVars => [receipt # Missing => UNCHANGED receipt]_sessionVars
  BY GitKept DEF SInv
<1> QED BY <1>1, AlwaysSInv, PTL DEF SessionSpec, ReceiptStays
=============================================================================
