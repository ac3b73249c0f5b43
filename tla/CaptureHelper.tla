--------------------------- MODULE CaptureHelper ---------------------------
(***************************************************************************)
(* One capture (capture.rs): CaptureStore::capture_state sends a request   *)
(* to the resident helper process, which reads the path, stores its bytes  *)
(* as an object, appends to the journal and answers.  The caller waits for *)
(* the answer until the deadline; on any error it kills and reaps the      *)
(* helper, and the next capture starts a new one.  The store's mutex makes *)
(* the calls sequential: there is one caller.                              *)
(*                                                                         *)
(* A path is absent, special (neither file nor link) or a regular file, a  *)
(* sequence of chunks.  An object is named by the bytes it should hold (by *)
(* their digest in the code).                                              *)
(***************************************************************************)
EXTENDS Naturals, Sequences, FiniteSets

CONSTANTS
  Paths,
  Pids,         \* bound: process ids, taken again once reaped
  Chunks,
  Contents,     \* contents a regular file may have, sequences of chunks
  Begin,        \* what each path is at first
  MaxFile,      \* --max-file-bytes, in chunks
  MaxTotal,     \* --max-total-bytes, in chunks
  IoMayHang,    \* whether file I/O may block beyond the reach of SIGKILL
  Absent, Special, NotCaptured, Unavailable, NoPid, NoCall

Kinds == Contents \cup {Absent, Special}

(* What a helper is asked; remaining is what is left of the total limit.   *)
Requests == [path : Paths, journal : BOOLEAN, serial : Nat, remaining : Nat]

ASSUME BeginAssumption == Begin \in [Paths -> Kinds]
ASSUME ContentsAssumption == Contents \subseteq Seq(Chunks)
ASSUME LimitsAssumption == MaxFile \in Nat /\ MaxTotal \in Nat /\ IoMayHang \in BOOLEAN
ASSUME DistinctAssumption ==
  /\ NoPid \notin Pids
  /\ Absent # Unavailable /\ NotCaptured \notin {Absent, Unavailable}
  /\ {Absent, Special, NotCaptured, Unavailable} \cap Contents = {}
  /\ NoCall \notin Requests

VARIABLES
  file,        \* what each path is
  \* the caller (CaptureStore and CaptureHelper)
  cpc, call, serial, helper, total, before, after,
  noted,       \* paths with a gap on their account
  \* the helper processes
  hpc, req,
  fd,          \* the opened file: its bytes, and whether the path still names it
  buf, out, answer, stuck,
  \* the output directory
  objects, tmp,
  entries      \* paths whose entry and newline were appended to journal.jsonl

callVars == <<cpc, call, serial, helper, total, before, after, noted>>
helperVars == <<hpc, req, fd, buf, out, answer, stuck>>
outputVars == <<objects, tmp, entries>>
vars == <<file, callVars, helperVars, outputVars>>

Lost(noted_gap) == [state |-> Unavailable, size |-> 0, gap |-> noted_gap]
Closed == [bytes |-> <<>>, linked |-> FALSE]
NoAnswer == [serial |-> 0, out |-> Lost(FALSE)]
Known(s) == s \notin {NotCaptured, Unavailable}
Working(h) == hpc[h] \notin {"unborn", "idle", "zombie", "reaped"}

Init ==
  /\ file = Begin
  /\ cpc = "idle" /\ call = NoCall /\ serial = 0 /\ helper = NoPid /\ total = 0
  /\ before = [p \in Paths |-> NotCaptured]
  /\ after = [p \in Paths |-> NotCaptured]
  /\ noted = {}
  /\ hpc = [h \in Pids |-> "unborn"]
  /\ req = [h \in Pids |-> NoCall]
  /\ fd = [h \in Pids |-> Closed]
  /\ buf = [h \in Pids |-> <<>>]
  /\ out = [h \in Pids |-> Lost(FALSE)]
  /\ answer = [h \in Pids |-> NoAnswer]
  /\ stuck = {}
  /\ objects = {} /\ tmp = {} /\ entries = {}

-----------------------------------------------------------------------------
(* Other processes.                                                        *)

Reads(h, p) == hpc[h] = "reading" /\ req[h].path = p /\ fd[h].linked

(* A file is written in place: an open descriptor sees it.                 *)
Overwrite(p, c) ==
  /\ file[p] \in Contents /\ c # file[p]
  /\ file' = [file EXCEPT ![p] = c]
  /\ fd' = [h \in Pids |-> IF Reads(h, p) THEN [fd[h] EXCEPT !.bytes = c] ELSE fd[h]]
  /\ UNCHANGED <<callVars, hpc, req, buf, out, answer, stuck, outputVars>>

(* A path is removed or gets another file: an open descriptor does not.    *)
Replace(p, k) ==
  /\ k # file[p]
  /\ file' = [file EXCEPT ![p] = k]
  /\ fd' = [h \in Pids |-> IF Reads(h, p) THEN [fd[h] EXCEPT !.linked = FALSE] ELSE fd[h]]
  /\ UNCHANGED <<callVars, hpc, req, buf, out, answer, stuck, outputVars>>

-----------------------------------------------------------------------------
(* The caller: CaptureStore::capture_state and CaptureHelper::capture.     *)

(* Faulty variants, named for what they get wrong, stand before the        *)
(* operator they vary.                                                     *)
RemainingAlwaysAll == MaxTotal

(* Originals come before final states, one of each for a path; only an     *)
(* original is journalled.  The request carries what is left of the total. *)
Remaining == IF total <= MaxTotal THEN MaxTotal - total ELSE 0

Call(p, journal) ==
  /\ cpc = "idle"
  /\ IF journal THEN before[p] = NotCaptured /\ \A q \in Paths : after[q] = NotCaptured
                ELSE before[p] # NotCaptured /\ after[p] = NotCaptured
  /\ cpc' = "starting" /\ serial' = serial + 1
  /\ call' = [path |-> p, journal |-> journal, serial |-> serial + 1,
              remaining |-> Remaining]
  /\ UNCHANGED <<file, helper, total, before, after, noted, helperVars, outputVars>>

(* The call returns: its state and its gaps reach the store.               *)
Return(o) ==
  /\ IF call.journal
       THEN before' = [before EXCEPT ![call.path] = o.state] /\ UNCHANGED after
       ELSE after' = [after EXCEPT ![call.path] = o.state] /\ UNCHANGED before
  /\ total' = total + o.size
  /\ noted' = IF o.gap THEN noted \cup {call.path} ELSE noted
  /\ cpc' = "idle" /\ call' = NoCall

Spawn(h) ==
  /\ cpc = "starting" /\ helper = NoPid /\ hpc[h] \in {"unborn", "reaped"}
  /\ helper' = h
  /\ hpc' = [hpc EXCEPT ![h] = "idle"]
  /\ UNCHANGED <<file, cpc, call, serial, total, before, after, noted, req,
                 fd, buf, out, answer, stuck, outputVars>>

SpawnFails ==
  /\ cpc = "starting" /\ helper = NoPid
  /\ Return(Lost(TRUE))
  /\ UNCHANGED <<file, serial, helper, helperVars, outputVars>>

Send ==
  /\ cpc = "starting" /\ helper # NoPid /\ hpc[helper] = "idle"
  /\ req' = [req EXCEPT ![helper] = call]
  /\ hpc' = [hpc EXCEPT ![helper] = "request"]
  /\ cpc' = "waiting"
  /\ UNCHANGED <<file, call, serial, helper, total, before, after, noted, fd,
                 buf, out, answer, stuck, outputVars>>

Accept ==
  /\ cpc = "waiting" /\ answer[helper] # NoAnswer
  /\ Return(answer[helper].out)
  /\ answer' = [answer EXCEPT ![helper] = NoAnswer]
  /\ UNCHANGED <<file, serial, helper, hpc, req, fd, buf, out, stuck, outputVars>>

TimeoutKeepsHelper ==
  /\ cpc = "waiting"
  /\ Return(Lost(TRUE))
  /\ UNCHANGED <<file, serial, helper, helperVars, outputVars>>

TimeoutOnEndOfFile ==
  /\ cpc = "waiting" /\ hpc[helper] = "zombie"
  /\ cpc' = "killing"
  /\ UNCHANGED <<file, call, serial, helper, total, before, after, noted,
                 helperVars, outputVars>>

(* The deadline: an answer that arrives after the last read is too late.   *)
Timeout ==
  /\ cpc = "waiting"
  /\ cpc' = "killing"
  /\ UNCHANGED <<file, call, serial, helper, total, before, after, noted,
                 helperVars, outputVars>>

(* EPIPE on the request, or end of file instead of an answer.              *)
HelperLost ==
  /\ \/ cpc = "starting" /\ helper # NoPid /\ hpc[helper] = "zombie"
     \/ cpc = "waiting" /\ hpc[helper] = "zombie" /\ answer[helper] = NoAnswer
  /\ cpc' = "killing"
  /\ UNCHANGED <<file, call, serial, helper, total, before, after, noted,
                 helperVars, outputVars>>

KillWithoutReap ==
  /\ cpc = "killing"
  /\ helper' = NoPid
  /\ Return(Lost(TRUE))
  /\ UNCHANGED <<file, serial, helperVars, outputVars>>

(* kill_and_reap: SIGKILL takes effect some time before waitpid returns,   *)
(* and the pipes are closed.                                               *)
Reap ==
  /\ cpc = "killing" /\ hpc[helper] = "zombie"
  /\ hpc' = [hpc EXCEPT ![helper] = "reaped"]
  /\ answer' = [answer EXCEPT ![helper] = NoAnswer]
  /\ helper' = NoPid
  /\ Return(Lost(TRUE))
  /\ UNCHANGED <<file, serial, req, fd, buf, out, stuck, outputVars>>

-----------------------------------------------------------------------------
(* The helper process: capture_helper_loop, CaptureRequest::execute and    *)
(* capture_one.                                                            *)

Running(h, pc) == hpc[h] = pc /\ h \notin stuck
Go(h, pc) == hpc' = [hpc EXCEPT ![h] = pc]

(* The outcome is known: an original is journalled before the answer.      *)
Conclude(h, o) ==
  /\ out' = [out EXCEPT ![h] = o]
  /\ Go(h, IF req[h].journal THEN "journal" ELSE "answering")

(* What the helper held for the request is gone.                           *)
Forget(h) ==
  /\ req' = [req EXCEPT ![h] = NoCall]
  /\ fd' = [fd EXCEPT ![h] = Closed]
  /\ buf' = [buf EXCEPT ![h] = <<>>]
  /\ out' = [out EXCEPT ![h] = Lost(FALSE)]

Present(h) == [state |-> buf[h], size |-> Len(buf[h]), gap |-> FALSE]

(* lstat: what is absent, special or too long is not opened.               *)
Stat(h) ==
  /\ Running(h, "request")
  /\ LET now == file[req[h].path]
     IN  CASE now = Absent  -> Conclude(h, [state |-> Absent, size |-> 0, gap |-> FALSE])
           [] now = Special -> Conclude(h, Lost(TRUE))
           [] now \in Contents /\ Len(now) > MaxFile ->
                Conclude(h, Lost(TRUE))
           [] OTHER -> Go(h, "opening") /\ UNCHANGED out
  /\ UNCHANGED <<file, callVars, req, fd, buf, answer, stuck, outputVars>>

Open(h) ==
  /\ Running(h, "opening") /\ file[req[h].path] \in Contents
  /\ fd' = [fd EXCEPT ![h] = [bytes |-> file[req[h].path], linked |-> TRUE]]
  /\ buf' = [buf EXCEPT ![h] = <<>>]
  /\ Go(h, "reading")
  /\ UNCHANGED <<file, callVars, req, out, answer, stuck, outputVars>>

ReadChunk(h) ==
  /\ Running(h, "reading") /\ Len(buf[h]) < Len(fd[h].bytes)
  /\ buf' = [buf EXCEPT ![h] = Append(@, fd[h].bytes[Len(@) + 1])]
  /\ UNCHANGED <<file, callVars, hpc, req, fd, out, answer, stuck, outputVars>>

EndOfFile(h) ==
  /\ Running(h, "reading") /\ Len(buf[h]) >= Len(fd[h].bytes)
  /\ IF Len(buf[h]) > req[h].remaining
       THEN Conclude(h, Lost(TRUE))
       ELSE Go(h, "storing") /\ UNCHANGED out
  /\ UNCHANGED <<file, callVars, req, fd, buf, answer, stuck, outputVars>>

(* lstat, open or read fails, or the path is a directory.                  *)
InputFails(h) ==
  /\ \E pc \in {"request", "opening", "reading"} : Running(h, pc)
  /\ Conclude(h, Lost(FALSE))
  /\ UNCHANGED <<file, callVars, req, fd, buf, answer, stuck, outputVars>>

(* put_object: an object that exists is not written again.                 *)
Stored(name) == \E o \in objects : o.name = name

ObjectExists(h) ==
  /\ Running(h, "storing") /\ Stored(buf[h])
  /\ Conclude(h, Present(h))
  /\ UNCHANGED <<file, callVars, req, fd, buf, answer, stuck, outputVars>>

CreateInPlace(h) ==
  /\ Running(h, "storing") /\ ~Stored(buf[h])
  /\ objects' = objects \cup {[name |-> buf[h], bytes |-> <<>>]}
  /\ Go(h, "writing")
  /\ UNCHANGED <<file, callVars, req, fd, buf, out, answer, stuck, tmp, entries>>

(* The temporary file has the helper's pid in its name; one that a helper  *)
(* with this pid left behind makes create_new fail.                        *)
CreateTemporary(h) ==
  /\ Running(h, "storing") /\ ~Stored(buf[h])
  /\ IF <<h, buf[h]>> \in tmp
       THEN Conclude(h, Lost(TRUE)) /\ UNCHANGED tmp
       ELSE /\ tmp' = tmp \cup {<<h, buf[h]>>}
            /\ Go(h, "writing") /\ UNCHANGED out
  /\ UNCHANGED <<file, callVars, req, fd, buf, answer, stuck, objects,
                 entries>>

(* write_all, sync_all and rename, the last of which shows the object.     *)
RenameTemporary(h) ==
  /\ Running(h, "writing")
  /\ objects' = {o \in objects : o.name # buf[h]} \cup {[name |-> buf[h], bytes |-> buf[h]]}
  /\ tmp' = tmp \ {<<h, buf[h]>>}
  /\ Conclude(h, Present(h))
  /\ UNCHANGED <<file, callVars, req, fd, buf, answer, stuck, entries>>

ObjectFails(h) ==
  /\ Running(h, "writing")
  /\ tmp' = tmp \ {<<h, buf[h]>>}
  /\ Conclude(h, Lost(TRUE))
  /\ UNCHANGED <<file, callVars, req, fd, buf, answer, stuck, objects,
                 entries>>

(* write_journal appends the entry and then the newline.                   *)
JournalEntry(h) ==
  /\ Running(h, "journal") /\ Go(h, "newline")
  /\ UNCHANGED <<file, callVars, req, fd, buf, out, answer, stuck, outputVars>>

JournalNewline(h) ==
  /\ Running(h, "newline") /\ Go(h, "answering")
  /\ entries' = entries \cup {req[h].path}
  /\ UNCHANGED <<file, callVars, req, fd, buf, out, answer, stuck, objects, tmp>>

JournalFails(h) ==
  /\ \E pc \in {"journal", "newline"} : Running(h, pc)
  /\ out' = [out EXCEPT ![h].gap = TRUE]
  /\ Go(h, "answering")
  /\ UNCHANGED <<file, callVars, req, fd, buf, answer, stuck, outputVars>>

Answer(h) ==
  /\ Running(h, "answering")
  /\ answer' = [answer EXCEPT ![h] = [serial |-> req[h].serial, out |-> out[h]]]
  /\ Go(h, "idle") /\ Forget(h)
  /\ UNCHANGED <<file, callVars, stuck, outputVars>>

(* The helper dies, by SIGKILL or of itself.                               *)
Die(h) ==
  /\ hpc[h] \notin {"unborn", "zombie", "reaped"} /\ h \notin stuck
  /\ Go(h, "zombie") /\ Forget(h)
  /\ UNCHANGED <<file, callVars, answer, stuck, outputVars>>

(* The file system stops answering, and a signal does not end the wait.    *)
Hang(h) ==
  /\ IoMayHang /\ h \notin stuck
  /\ hpc[h] \in {"request", "opening", "reading", "writing"}
  /\ stuck' = stuck \cup {h}
  /\ UNCHANGED <<file, callVars, hpc, req, fd, buf, out, answer, outputVars>>

-----------------------------------------------------------------------------
Caller ==
  \/ \E p \in Paths, journal \in BOOLEAN : Call(p, journal)
  \/ \E h \in Pids : Spawn(h)
  \/ SpawnFails \/ Send \/ Accept \/ Timeout \/ HelperLost \/ Reap

Helper(h) ==
  \/ Stat(h) \/ Open(h) \/ ReadChunk(h) \/ EndOfFile(h) \/ InputFails(h)
  \/ ObjectExists(h) \/ CreateTemporary(h) \/ RenameTemporary(h) \/ ObjectFails(h)
  \/ JournalEntry(h) \/ JournalNewline(h) \/ JournalFails(h)
  \/ Answer(h) \/ Die(h) \/ Hang(h)

Others ==
  \/ \E p \in Paths, c \in Contents : Overwrite(p, c)
  \/ \E p \in Paths, k \in Kinds : Replace(p, k)

Next == Caller \/ (\E h \in Pids : Helper(h)) \/ Others

Spec == Init /\ [][Next]_vars

(* The caller runs and its deadline passes; a process that was sent        *)
(* SIGKILL dies unless it hangs.  The helper may be arbitrarily slow.      *)
FairSpec ==
  /\ Spec
  /\ WF_vars(Send) /\ WF_vars(SpawnFails \/ \E h \in Pids : Spawn(h))
  /\ WF_vars(Timeout) /\ WF_vars(HelperLost) /\ WF_vars(Reap)
  /\ WF_vars(cpc = "killing" /\ Die(helper))

-----------------------------------------------------------------------------
(* Every variable keeps its type; the caller has a call and, while it      *)
(* waits, a helper, and a helper that works has a request                  *)
(* (capture.rs:508-531).                                                   *)
TypeOK ==
  /\ file \in [Paths -> Kinds]
  /\ cpc \in {"idle", "starting", "waiting", "killing"}
  /\ call # NoCall => call.path \in Paths /\ call.serial = serial
  /\ cpc = "idle" <=> call = NoCall
  /\ helper \in Pids \cup {NoPid}
  /\ cpc \in {"waiting", "killing"} => helper # NoPid
  /\ \A h \in Pids : Working(h) => req[h] # NoCall
  /\ stuck \subseteq Pids
  /\ entries \subseteq Paths

(* An answer that waits for the caller is the answer to the current call:  *)
(* after a timeout, a crash or a late answer no call ever gets the answer  *)
(* to an earlier one, though requests carry no identifier                  *)
(* (capture.rs:508-531, 628-660).                                          *)
AnswerIsForCall ==
  cpc = "waiting" /\ answer[helper] # NoAnswer => answer[helper].serial = call.serial

(* While no call runs no helper works: what the supervisor does after a    *)
(* capture, letting a system call continue among it, never overlaps with   *)
(* the reading of a path or the writing of an object (capture.rs:699-709). *)
QuietWhenIdle == cpc = "idle" => \A h \in Pids : ~Working(h)

(* Every state in the store names an object that is there and complete,    *)
(* wherever a helper was killed or failed, and an original that counts as  *)
(* captured, with no gap on its account, was appended to the journal       *)
(* before the call went on (capture.rs:398-433, 474-481;                   *)
(* IMPLEMENTATION_PLAN.md:129).                                            *)
StatesAreStored ==
  \A p \in Paths :
    /\ \A s \in {before[p], after[p]} :
         s \notin {NotCaptured, Unavailable, Absent} => [name |-> s, bytes |-> s] \in objects
    /\ Known(before[p]) /\ p \notin noted => p \in entries

(* The captured bytes stay within --max-total-bytes, summed over helpers   *)
(* that come and go (capture.rs:251, 263).                                 *)
TotalWithinLimit == total <= MaxTotal

(* A capture returns whatever the helper does or fails to do, unless a     *)
(* signal cannot end the helper (capture.rs:508-531, 628-660).             *)
CallReturns == cpc = "starting" ~> cpc = "idle" \/ helper \in stuck

(* What was captured is a content the path had at some moment, and not a   *)
(* mixture of two (IMPLEMENTATION_PLAN.md:218).                            *)
SnapshotIsReal ==
  \A p \in Paths : {before[p], after[p]} \subseteq Contents \cup {Absent, NotCaptured, Unavailable}
=============================================================================
