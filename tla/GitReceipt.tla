----------------------------- MODULE GitReceipt -----------------------------
(***************************************************************************)
(* The adapter that turns the output of a run into two commits, a ref and  *)
(* a receipt (git_adapter.rs, create_receipt and what it calls).  It runs  *)
(* one git command after the other; any of them may fail, and the adapter  *)
(* may be killed between or in two of them and be started again.  The      *)
(* commits have fixed authors and dates, so the same report has the same   *)
(* commits.                                                                *)
(*                                                                         *)
(* Trees and commits are named by their content, as in git.  A command     *)
(* that was running when the adapter was killed has happened, or has not,  *)
(* or has left the lock of its index behind; it does not go on beside the  *)
(* next attempt.                                                           *)
(***************************************************************************)
EXTENDS Naturals, FiniteSets

CONSTANTS
  MaxAttempts,    \* bound: how often the adapter is started
  AllowPartial,   \* --allow-partial
  Missing         \* there is no such file

VARIABLES
  files,     \* the output of the run (Output)
  attempt,   \* how often the adapter was started
  gpc,       \* where it is
  report,    \* the report it has read
  side,      \* the tree it builds: of the states "before" or "after"
  todo,      \* keys it has still to add to that tree
  tree,      \* the trees it has built
  repo,      \* the repository: "absent", "partial" (init was interrupted), "ready"
  index,     \* the index file of each tree
  locked,    \* a lock file of the index was left behind
  commits,   \* commits in the repository
  ref,       \* what the report ref names
  receipt    \* the receipt

memoryVars == <<report, side, todo, tree>>
storedVars == <<repo, index, locked, commits, ref, receipt>>
gitVars == <<attempt, gpc, report, side, todo, tree, repo, index, locked,
             commits, ref, receipt>>

TreeSides == {"before", "after"}
Building == {"init", "empty", "add", "clean", "commit", "ref", "receipt"}

GitInit ==
  /\ attempt = 0 /\ gpc = "idle"
  /\ report = Missing /\ side = "before" /\ todo = {}
  /\ tree = [s \in TreeSides |-> Missing]
  /\ repo = "absent"
  /\ index = [s \in TreeSides |-> Missing]
  /\ locked = [s \in TreeSides |-> FALSE]
  /\ commits = {} /\ ref = Missing /\ receipt = Missing

-----------------------------------------------------------------------------
(* The keys that are files on one side of the report.                      *)
Entries(r, s) == {c.key : c \in {d \in r.changes : d[s] = "present"}}

(* The adapter is started and reads the report; without one, or with a     *)
(* partial one that is not allowed, it has ended before it did anything.   *)
Begin ==
  /\ gpc = "idle" /\ attempt < MaxAttempts
  /\ files["report"] # Missing
  /\ files["report"].state = "finished" \/ AllowPartial
  /\ attempt' = attempt + 1
  /\ gpc' = "init" /\ report' = files["report"]
  /\ side' = "before" /\ UNCHANGED <<todo, tree, storedVars>>

(* git init, unless there is something at that path.                       *)
InitRepository ==
  /\ gpc = "init"
  /\ gpc' = "empty"
  /\ repo' = IF repo = "absent" THEN "ready" ELSE repo
  /\ UNCHANGED <<attempt, memoryVars, index, locked, commits, ref, receipt>>

(* The old index is removed and an empty one written.                      *)
EmptyIndex ==
  /\ gpc = "empty" /\ repo = "ready" /\ ~locked[side]
  /\ gpc' = "add"
  /\ index' = [index EXCEPT ![side] = {}]
  /\ todo' = Entries(report, side)
  /\ UNCHANGED <<attempt, report, side, tree, repo, locked, commits, ref, receipt>>

(* hash-object, and update-index with the blob.                            *)
AddEntry(k) ==
  /\ gpc = "add" /\ k \in todo /\ ~locked[side]
  /\ todo' = todo \ {k}
  /\ index' = [index EXCEPT ![side] = @ \cup {k}]
  /\ UNCHANGED <<attempt, gpc, report, side, tree, repo, locked, commits, ref,
                 receipt>>

(* write-tree; the tree before comes first.                                *)
WriteTree ==
  /\ gpc = "add" /\ todo = {}
  /\ tree' = [tree EXCEPT ![side] = index[side]]
  /\ IF side = "before" THEN gpc' = "empty" ELSE gpc' = "clean"
  /\ side' = "after"
  /\ UNCHANGED <<attempt, report, todo, storedVars>>

RemoveIndexes ==
  /\ gpc = "clean"
  /\ gpc' = "commit"
  /\ index' = [s \in TreeSides |-> Missing]
  /\ UNCHANGED <<attempt, memoryVars, repo, locked, commits, ref, receipt>>

Commit(t, parent, date) == [tree |-> t, parent |-> parent, date |-> date]

(* Faulty: the commits are made at the time of the day.                    *)
BaselineNow == Commit(tree["before"], {}, attempt)

Baseline == Commit(tree["before"], {}, 0)
ReportCommit == Commit(tree["after"], {Baseline}, 0)

CommitBaseline ==
  /\ gpc = "commit" /\ Baseline \notin commits
  /\ commits' = commits \cup {Baseline}
  /\ UNCHANGED <<attempt, gpc, memoryVars, repo, index, locked, ref, receipt>>

(* Faulty: the ref is left alone.                                          *)
CommitWithoutRef ==
  /\ gpc = "commit" /\ Baseline \in commits
  /\ commits' = commits \cup {ReportCommit}
  /\ gpc' = "receipt"
  /\ UNCHANGED <<attempt, memoryVars, repo, index, locked, ref, receipt>>

CommitReport ==
  /\ gpc = "commit" /\ Baseline \in commits
  /\ commits' = commits \cup {ReportCommit}
  /\ gpc' = "ref"
  /\ UNCHANGED <<attempt, memoryVars, repo, index, locked, ref, receipt>>

UpdateRef ==
  /\ gpc = "ref"
  /\ ref' = ReportCommit
  /\ gpc' = "receipt"
  /\ UNCHANGED <<attempt, memoryVars, repo, index, locked, commits, receipt>>

(* The receipt is renamed into place.                                      *)
WriteReceipt ==
  /\ gpc = "receipt"
  /\ receipt' = [baseline |-> Baseline, report |-> ReportCommit]
  /\ gpc' = "done"
  /\ UNCHANGED <<attempt, memoryVars, repo, index, locked, commits, ref>>

(* The adapter has ended: what it kept in memory is lost.                  *)
Forgotten ==
  /\ report' = Missing /\ side' = "before" /\ todo' = {}
  /\ tree' = [s \in TreeSides |-> Missing]

(* A git command fails, an object or the mapping of a root is missing, or  *)
(* a file cannot be written.                                               *)
StepFails ==
  /\ gpc \in Building
  /\ gpc' = "idle"
  /\ Forgotten
  /\ UNCHANGED <<attempt, storedVars>>

(* The adapter and its git command are killed.                             *)
Kill ==
  /\ gpc \in Building
  /\ gpc' = "idle"
  /\ IF gpc = "init" /\ repo = "absent"
       THEN repo' \in {"absent", "partial"} /\ UNCHANGED locked
       ELSE /\ UNCHANGED repo
            /\ \E l \in {locked[side], locked[side] \/ gpc \in {"empty", "add"}} :
                 locked' = [locked EXCEPT ![side] = l]
  /\ Forgotten
  /\ UNCHANGED <<attempt, index, commits, ref, receipt>>

(* The caller starts the adapter again although there is a receipt.        *)
BeginAgain ==
  /\ gpc = "done" /\ attempt < MaxAttempts
  /\ gpc' = "idle"
  /\ Forgotten
  /\ UNCHANGED <<attempt, storedVars>>

GitStep ==
  \/ Begin \/ InitRepository \/ EmptyIndex \/ WriteTree \/ RemoveIndexes
  \/ \E k \in todo : AddEntry(k)
  \/ CommitBaseline \/ CommitReport \/ UpdateRef \/ WriteReceipt
  \/ StepFails \/ Kill \/ BeginAgain

-----------------------------------------------------------------------------
(* Every variable keeps its type.                                          *)
GitTypeOK ==
  /\ attempt \in 0 .. MaxAttempts
  /\ gpc \in Building \cup {"idle", "done"}
  /\ side \in TreeSides
  /\ repo \in {"absent", "partial", "ready"}
  /\ \A s \in TreeSides : locked[s] \in BOOLEAN
  /\ commits # {} => repo = "ready"

(* A receipt names two commits that are in the repository, one the parent  *)
(* of the other, whose trees are the two sides of the report, and the ref  *)
(* names the second; the report is finished unless a partial one was       *)
(* allowed (git_adapter.rs:62-67, 84-132).                                 *)
ReceiptIsBacked ==
  receipt # Missing =>
    /\ {receipt.baseline, receipt.report} \subseteq commits
    /\ receipt.report.parent = {receipt.baseline}
    /\ ref = receipt.report
    /\ files["report"].state = "finished" \/ AllowPartial
    /\ receipt.baseline.tree
         = {c.key : c \in {d \in files["report"].changes : d.before = "present"}}
    /\ receipt.report.tree
         = {c.key : c \in {d \in files["report"].changes : d.after = "present"}}
=============================================================================
