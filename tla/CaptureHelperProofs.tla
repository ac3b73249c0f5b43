------------------------ MODULE CaptureHelperProofs ------------------------
(***************************************************************************)
(* The safety of captures, for any number of paths, process ids and        *)
(* contents and any limits: answers belong to their calls, no helper works *)
(* between calls, stored states have their objects and journal entries,    *)
(* and the total stays within its limit.                                   *)
(***************************************************************************)
EXTENDS CaptureHelper, TLAPS

USE BeginAssumption, ContentsAssumption, LimitsAssumption, DistinctAssumption

Pcs == {"unborn", "idle", "request", "opening", "reading", "storing", "writing",
        "journal", "newline", "answering", "zombie", "reaped"}
States == Seq(Chunks) \cup {Absent, Unavailable}
Outcomes == [state : States, size : Nat, gap : BOOLEAN]
Object(s) == [name |-> s, bytes |-> s]

CallerTyped ==
  /\ file \in [Paths -> Kinds]
  /\ cpc \in {"idle", "starting", "waiting", "killing"}
  /\ call \in Requests \cup {NoCall} /\ (cpc = "idle" <=> call = NoCall)
  /\ serial \in Nat /\ (call # NoCall => call.serial = serial /\ serial > 0)
  /\ helper \in Pids \cup {NoPid}
  /\ cpc \in {"waiting", "killing"} => helper # NoPid
  /\ total \in Nat
  /\ before \in [Paths -> States \cup {NotCaptured}]
  /\ after \in [Paths -> States \cup {NotCaptured}]
  /\ noted \subseteq Paths

HelpersTyped ==
  /\ hpc \in [Pids -> Pcs]
  /\ req \in [Pids -> Requests \cup {NoCall}]
  /\ fd \in [Pids -> [bytes : Seq(Chunks), linked : BOOLEAN]]
  /\ buf \in [Pids -> Seq(Chunks)]
  /\ out \in [Pids -> Outcomes]
  /\ answer \in [Pids -> [serial : Nat, out : Outcomes]]
  /\ stuck \subseteq Pids
  /\ entries \subseteq Paths

Typed == CallerTyped /\ HelpersTyped

(* There is one helper at most; it works for the call that waits for it,   *)
(* and an answer in its pipe is the answer to that call.                   *)
Roles ==
  /\ \A h \in Pids : h = helper <=> hpc[h] \notin {"unborn", "reaped"}
  /\ \A h \in Pids : Working(h) => req[h] = call /\ cpc \in {"waiting", "killing"}
  /\ \A h \in Pids :
       answer[h] # NoAnswer =>
         /\ h = helper /\ cpc \in {"waiting", "killing"}
         /\ hpc[h] \in {"idle", "zombie"}
         /\ answer[h].serial = serial

Concluded(h) == hpc[h] \in {"journal", "newline", "answering"}

(* What was accepted is within the limit, and so is what may be accepted.  *)
HelperLimits(h) ==
  /\ hpc[h] \in {"storing", "writing"} => Len(buf[h]) <= req[h].remaining
  /\ Concluded(h) => out[h].size <= req[h].remaining
  /\ answer[h] # NoAnswer => answer[h].out.size <= call.remaining

Limits ==
  /\ total <= MaxTotal
  /\ call # NoCall => call.remaining = MaxTotal - total
  /\ \A h \in Pids : HelperLimits(h)

(* A state that is known is stored; an original is in the journal as well, *)
(* or comes with a gap.                                                    *)
IsStored(s) == s \notin {NotCaptured, Unavailable, Absent} => Object(s) \in objects
IsJournalled(p, o) == Known(o.state) /\ ~o.gap => p \in entries

PathStored(p) ==
  /\ IsStored(before[p]) /\ IsStored(after[p])
  /\ Known(before[p]) /\ p \notin noted => p \in entries

HelperStores(h) ==
  /\ Concluded(h) => IsStored(out[h].state)
  /\ hpc[h] = "answering" /\ req[h].journal => IsJournalled(req[h].path, out[h])
  /\ answer[h] # NoAnswer =>
       /\ IsStored(answer[h].out.state)
       /\ call.journal => IsJournalled(call.path, answer[h].out)

Stores ==
  /\ \A o \in objects : o = Object(o.name)
  /\ \A p \in Paths : PathStored(p)
  /\ \A h \in Pids : HelperStores(h)

IInv == Typed /\ Roles /\ Limits /\ Stores

LEMMA InitIInv == Init => IInv
<1> SUFFICES ASSUME Init
             PROVE  IInv
  OBVIOUS
<1> USE DEF Init
<1>1. CallerTyped
  BY DEF CallerTyped, States, Kinds
<1>2. HelpersTyped
  BY DEF HelpersTyped, Pcs, Outcomes, States, Closed, NoAnswer, Lost
<1>3. Roles
  BY DEF Roles, Working
<1>4. Limits
  BY DEF Limits, HelperLimits, Concluded
<1>5. Stores
  BY DEF Stores, PathStored, HelperStores, Concluded, IsStored, Known
<1> QED BY <1>1, <1>2, <1>3, <1>4, <1>5 DEF IInv, Typed

-----------------------------------------------------------------------------
LEMMA LostTyped == \A g \in BOOLEAN : Lost(g) \in Outcomes
BY DEF Lost, Outcomes, States

(* A call that returns leaves the caller without one.                      *)
LEMMA ReturnTyped ==
  ASSUME CallerTyped, cpc # "idle", NEW o \in Outcomes, Return(o)
  PROVE  /\ cpc' = "idle" /\ call' = NoCall
         /\ total' \in Nat
         /\ before' \in [Paths -> States \cup {NotCaptured}]
         /\ after' \in [Paths -> States \cup {NotCaptured}]
         /\ noted' \subseteq Paths
<1>1. call \in Requests /\ call.path \in Paths
  BY DEF CallerTyped, Requests
<1>2. o.state \in States /\ o.size \in Nat
  BY DEF Outcomes
<1> QED BY <1>1, <1>2 DEF CallerTyped, Return

(* Of the steps of the caller, which of its variables keep their types.    *)
LEMMA CallerTypedStep == Typed /\ Roles /\ [Next]_vars => CallerTyped'
<1> SUFFICES ASSUME Typed, Roles, [Next]_vars
             PROVE  CallerTyped'
  OBVIOUS
<1> USE DEF Typed
<1>1. ASSUME NEW p \in Paths, NEW journal \in BOOLEAN, Call(p, journal)
      PROVE  CallerTyped'
  <2>1. Remaining \in Nat
    BY DEF CallerTyped, Remaining
  <2>2. call' \in Requests /\ call'.serial = serial + 1
    BY <1>1, <2>1 DEF Call, Requests, CallerTyped
  <2>3. UNCHANGED <<file, helper, total, before, after, noted>>
        /\ cpc' = "starting" /\ serial' = serial + 1
    BY <1>1 DEF Call
  <2> QED BY <2>2, <2>3 DEF CallerTyped
<1>2. ASSUME NEW h \in Pids, Spawn(h)
      PROVE  CallerTyped'
  BY <1>2 DEF Spawn, CallerTyped
<1>3. CASE SpawnFails
  <2>1. cpc # "idle" /\ Return(Lost(TRUE)) /\ UNCHANGED <<file, serial, helper>>
    BY <1>3 DEF SpawnFails
  <2> QED BY <2>1, ReturnTyped, LostTyped DEF CallerTyped
<1>4. CASE Send
  BY <1>4 DEF Send, CallerTyped
<1>5. CASE Accept
  <2>1. /\ cpc # "idle" /\ Return(answer[helper].out)
        /\ UNCHANGED <<file, serial, helper>>
    BY <1>5 DEF Accept
  <2>2. answer[helper].out \in Outcomes
    BY <1>5 DEF Accept, CallerTyped, HelpersTyped
  <2> QED BY <2>1, <2>2, ReturnTyped DEF CallerTyped
<1>6. CASE Timeout \/ HelperLost
  BY <1>6 DEF Timeout, HelperLost, CallerTyped
<1>7. CASE Reap
  <2>1. cpc # "idle" /\ Return(Lost(TRUE)) /\ UNCHANGED <<file, serial>>
    BY <1>7 DEF Reap
  <2>2. helper' = NoPid
    BY <1>7 DEF Reap
  <2> QED BY <2>1, <2>2, ReturnTyped, LostTyped DEF CallerTyped
<1>8. ASSUME NEW h \in Pids, Helper(h)
      PROVE  UNCHANGED <<file, callVars>>
  BY <1>8 DEF Helper, Stat, Open, ReadChunk, EndOfFile, InputFails, ObjectExists,
     CreateTemporary, RenameTemporary, ObjectFails, JournalEntry, JournalNewline,
     JournalFails, Answer, Die, Hang
<1>9. CASE Others
  <2>1. file' \in [Paths -> Kinds]
    BY <1>9 DEF Others, Overwrite, Replace, Kinds, CallerTyped
  <2>2. UNCHANGED callVars
    BY <1>9 DEF Others, Overwrite, Replace
  <2> QED BY <2>1, <2>2 DEF CallerTyped, callVars
<1>10. CASE UNCHANGED <<file, callVars>>
  BY <1>10 DEF CallerTyped, callVars
<1> QED
  BY <1>1, <1>2, <1>3, <1>4, <1>5, <1>6, <1>7, <1>8, <1>9, <1>10
     DEF Next, Caller, vars

(* Which variables of a helper a step of it may change, and how.           *)
LEMMA ConcludeTyped ==
  ASSUME HelpersTyped, NEW h \in Pids, NEW o \in Outcomes, Conclude(h, o)
  PROVE  hpc' \in [Pids -> Pcs] /\ out' \in [Pids -> Outcomes]
BY DEF Conclude, Go, HelpersTyped, Pcs

LEMMA PresentTyped ==
  ASSUME HelpersTyped
  PROVE  \A h \in Pids : Present(h) \in Outcomes
BY DEF Present, Outcomes, HelpersTyped, States

LEMMA HelperStepTyped ==
  ASSUME Typed, Roles, NEW h \in Pids, Helper(h)
  PROVE  HelpersTyped'
<1> USE DEF Typed
<1>1. CASE Stat(h)
  <2>1. [state |-> Absent, size |-> 0, gap |-> FALSE] \in Outcomes
    BY DEF Outcomes, States
  <2>2. hpc' \in [Pids -> Pcs] /\ out' \in [Pids -> Outcomes]
    BY <1>1, <2>1, ConcludeTyped, LostTyped DEF Stat, Go, HelpersTyped, Pcs
  <2> QED BY <1>1, <2>2 DEF Stat, HelpersTyped, outputVars
<1>2. CASE Open(h)
  <2>1. file[req[h].path] \in Seq(Chunks)
    BY <1>2 DEF Open
  <2>2. [bytes |-> file[req[h].path], linked |-> TRUE]
          \in [bytes : Seq(Chunks), linked : BOOLEAN]
    BY <2>1
  <2> QED BY <1>2, <2>2 DEF Open, Go, HelpersTyped, Pcs, outputVars
<1>3. CASE ReadChunk(h)
  <2>1. buf[h] \in Seq(Chunks) /\ fd[h].bytes \in Seq(Chunks)
    BY DEF HelpersTyped
  <2>2. fd[h].bytes[Len(buf[h]) + 1] \in Chunks
    BY <1>3, <2>1 DEF ReadChunk
  <2>3. Append(buf[h], fd[h].bytes[Len(buf[h]) + 1]) \in Seq(Chunks)
    BY <2>1, <2>2
  <2>4. buf' \in [Pids -> Seq(Chunks)]
    BY <1>3, <2>3 DEF ReadChunk, HelpersTyped
  <2> QED BY <1>3, <2>4 DEF ReadChunk, HelpersTyped, outputVars
<1>4. CASE EndOfFile(h)
  <2>1. hpc' \in [Pids -> Pcs] /\ out' \in [Pids -> Outcomes]
    BY <1>4, ConcludeTyped, LostTyped DEF EndOfFile, Go, HelpersTyped, Pcs
  <2> QED BY <1>4, <2>1 DEF EndOfFile, HelpersTyped, outputVars
<1>5. CASE InputFails(h)
  <2>1. hpc' \in [Pids -> Pcs] /\ out' \in [Pids -> Outcomes]
    BY <1>5, ConcludeTyped, LostTyped DEF InputFails
  <2> QED BY <1>5, <2>1 DEF InputFails, HelpersTyped, outputVars
<1>6. CASE ObjectExists(h) \/ RenameTemporary(h) \/ ObjectFails(h)
  <2>1. hpc' \in [Pids -> Pcs] /\ out' \in [Pids -> Outcomes]
    BY <1>6, ConcludeTyped, LostTyped, PresentTyped
       DEF ObjectExists, RenameTemporary, ObjectFails
  <2> QED BY <1>6, <2>1 DEF ObjectExists, RenameTemporary, ObjectFails, HelpersTyped,
             outputVars
<1>7. CASE CreateTemporary(h)
  <2>1. hpc' \in [Pids -> Pcs] /\ out' \in [Pids -> Outcomes]
    BY <1>7, ConcludeTyped, LostTyped DEF CreateTemporary, Go, HelpersTyped, Pcs
  <2> QED BY <1>7, <2>1 DEF CreateTemporary, HelpersTyped
<1>8. CASE JournalEntry(h)
  BY <1>8 DEF JournalEntry, Go, HelpersTyped, Pcs, outputVars
<1>9. CASE JournalNewline(h)
  <2>1. req[h] \in Requests
    BY <1>9 DEF JournalNewline, Running, Roles, Working, CallerTyped
  <2>2. req[h].path \in Paths
    BY <2>1 DEF Requests
  <2> QED BY <1>9, <2>2 DEF JournalNewline, Go, HelpersTyped, Pcs
<1>10. CASE JournalFails(h)
  <2>1. [out[h] EXCEPT !.gap = TRUE] \in Outcomes
    <3>1. out[h] \in Outcomes
      BY DEF HelpersTyped
    <3> QED BY <3>1 DEF Outcomes
  <2> QED BY <1>10, <2>1 DEF JournalFails, Go, HelpersTyped, Pcs, outputVars
<1>11. ASSUME Forget(h)
       PROVE  /\ req' \in [Pids -> Requests \cup {NoCall}]
              /\ fd' \in [Pids -> [bytes : Seq(Chunks), linked : BOOLEAN]]
              /\ buf' \in [Pids -> Seq(Chunks)]
              /\ out' \in [Pids -> Outcomes]
  <2>1. Closed \in [bytes : Seq(Chunks), linked : BOOLEAN]
    BY DEF Closed
  <2>2. << >> \in Seq(Chunks)
    OBVIOUS
  <2>3. out' \in [Pids -> Outcomes] /\ buf' \in [Pids -> Seq(Chunks)]
    BY <1>11, <2>2, LostTyped DEF Forget, HelpersTyped
  <2>4. req' \in [Pids -> Requests \cup {NoCall}]
    BY <1>11 DEF Forget, HelpersTyped
  <2>5. fd' \in [Pids -> [bytes : Seq(Chunks), linked : BOOLEAN]]
    BY <1>11, <2>1 DEF Forget, HelpersTyped
  <2> QED BY <2>3, <2>4, <2>5
<1>12. CASE Answer(h)
  <2>1. req[h] \in Requests
    BY <1>12 DEF Answer, Running, Roles, Working, CallerTyped
  <2>2. [serial |-> req[h].serial, out |-> out[h]] \in [serial : Nat, out : Outcomes]
    BY <2>1 DEF Requests, HelpersTyped
  <2>3. answer' \in [Pids -> [serial : Nat, out : Outcomes]] /\ hpc' \in [Pids -> Pcs]
    BY <1>12, <2>2 DEF Answer, Go, HelpersTyped, Pcs
  <2> QED BY <1>11, <1>12, <2>3 DEF Answer, HelpersTyped, outputVars
<1>13. CASE Die(h)
  <2>1. hpc' \in [Pids -> Pcs]
    BY <1>13 DEF Die, Go, HelpersTyped, Pcs
  <2> QED BY <1>11, <1>13, <2>1 DEF Die, HelpersTyped, outputVars
<1>14. CASE Hang(h)
  BY <1>14 DEF Hang, HelpersTyped, outputVars
<1> QED
  BY <1>1, <1>2, <1>3, <1>4, <1>5, <1>6, <1>7, <1>8, <1>9, <1>10, <1>12, <1>13, <1>14
     DEF Helper

LEMMA HelpersTypedStep == Typed /\ Roles /\ [Next]_vars => HelpersTyped'
<1> SUFFICES ASSUME Typed, Roles, [Next]_vars
             PROVE  HelpersTyped'
  OBVIOUS
<1> USE DEF Typed
<1>1. CASE \/ \E p \in Paths, journal \in BOOLEAN : Call(p, journal)
           \/ SpawnFails \/ Timeout \/ HelperLost \/ UNCHANGED vars
  <2>1. UNCHANGED <<helperVars, outputVars>>
    BY <1>1 DEF Call, SpawnFails, Timeout, HelperLost, vars
  <2> QED BY <2>1 DEF HelpersTyped, helperVars, outputVars
<1>2. ASSUME NEW h \in Pids, Spawn(h)
      PROVE  HelpersTyped'
  BY <1>2 DEF Spawn, HelpersTyped, Pcs, outputVars
<1>3. CASE Send
  BY <1>3 DEF Send, HelpersTyped, CallerTyped, Pcs, outputVars
<1>4. NoAnswer \in [serial : Nat, out : Outcomes]
  BY LostTyped DEF NoAnswer
<1>5. CASE Accept
  BY <1>4, <1>5 DEF Accept, HelpersTyped, outputVars
<1>6. CASE Reap
  BY <1>4, <1>6 DEF Reap, HelpersTyped, Pcs, outputVars
<1>7. CASE Others
  <2>1. fd' \in [Pids -> [bytes : Seq(Chunks), linked : BOOLEAN]]
    <3>0. \A h \in Pids : fd[h] \in [bytes : Seq(Chunks), linked : BOOLEAN]
      BY DEF HelpersTyped
    <3>1. CASE \E p \in Paths, c \in Contents : Overwrite(p, c)
      <4>1. PICK p \in Paths, c \in Contents : Overwrite(p, c)
        BY <3>1
      <4>2. c \in Seq(Chunks)
        BY DEF Overwrite
      <4>3. \A h \in Pids : [fd[h] EXCEPT !.bytes = c]
                              \in [bytes : Seq(Chunks), linked : BOOLEAN]
        BY <3>0, <4>2
      <4> QED BY <4>1, <4>3 DEF Overwrite, HelpersTyped
    <3>2. CASE \E p \in Paths, k \in Kinds : Replace(p, k)
      <4>1. \A h \in Pids : [fd[h] EXCEPT !.linked = FALSE]
                              \in [bytes : Seq(Chunks), linked : BOOLEAN]
        BY <3>0
      <4> QED BY <3>2, <4>1 DEF Replace, HelpersTyped
    <3> QED BY <1>7, <3>1, <3>2 DEF Others
  <2>2. UNCHANGED <<hpc, req, buf, out, answer, stuck, entries>>
    BY <1>7 DEF Others, Overwrite, Replace, outputVars
  <2> QED BY <2>1, <2>2 DEF HelpersTyped
<1> QED BY <1>1, <1>2, <1>3, <1>5, <1>6, <1>7, HelperStepTyped DEF Next, Caller

-----------------------------------------------------------------------------
(* What a step of a helper leaves to the others.                           *)
LEMMA HelperActs ==
  ASSUME Typed, Roles, NEW h \in Pids, Helper(h)
  PROVE  /\ UNCHANGED callVars
         /\ h = helper /\ hpc'[h] \notin {"unborn", "reaped"}
         /\ \A g \in Pids : g # h =>
              /\ hpc'[g] = hpc[g] /\ req'[g] = req[g] /\ answer'[g] = answer[g]
              /\ out'[g] = out[g] /\ buf'[g] = buf[g]
         /\ (Working(h))' => Working(h) /\ req'[h] = req[h]
         /\ \/ answer'[h] = answer[h]
               /\ (hpc[h] \in {"idle", "zombie"} => hpc'[h] \in {"idle", "zombie"})
            \/ Answer(h)
<1> USE DEF Typed, HelpersTyped, Conclude, Go, Running, Working, Forget
<1>1. CASE Answer(h)
  BY <1>1 DEF Answer, Roles
<1>2. CASE Die(h)
  BY <1>2 DEF Die, Roles
<1>3. CASE Stat(h) \/ EndOfFile(h) \/ InputFails(h)
  BY <1>3 DEF Stat, EndOfFile, InputFails, Roles
<1>4. CASE Open(h) \/ ReadChunk(h) \/ Hang(h)
  BY <1>4 DEF Open, ReadChunk, Hang, Roles
<1>5. CASE ObjectExists(h) \/ CreateTemporary(h) \/ RenameTemporary(h) \/ ObjectFails(h)
  BY <1>5 DEF ObjectExists, CreateTemporary, RenameTemporary, ObjectFails, Roles
<1>6. CASE JournalEntry(h) \/ JournalNewline(h) \/ JournalFails(h)
  BY <1>6 DEF JournalEntry, JournalNewline, JournalFails, Roles
<1> QED BY <1>1, <1>2, <1>3, <1>4, <1>5, <1>6 DEF Helper

(* A call returns when no helper works and no answer is left.              *)
LEMMA RolesStep == Typed /\ Roles /\ [Next]_vars => Roles'
<1> SUFFICES ASSUME Typed, Roles, [Next]_vars
             PROVE  Roles'
  OBVIOUS
<1> USE DEF Typed, CallerTyped, HelpersTyped
<1>1. ASSUME NEW p \in Paths, NEW journal \in BOOLEAN, Call(p, journal)
      PROVE  Roles'
  BY <1>1 DEF Call, Roles, Working, helperVars
<1>2. ASSUME NEW h \in Pids, Spawn(h)
      PROVE  Roles'
  BY <1>2 DEF Spawn, Roles, Working
<1>3. CASE SpawnFails
  BY <1>3 DEF SpawnFails, Return, Roles, Working, helperVars
<1>4. CASE Send
  BY <1>4 DEF Send, Roles, Working
<1>5. CASE Accept
  BY <1>5 DEF Accept, Return, Roles, Working
<1>6. CASE Timeout \/ HelperLost
  BY <1>6 DEF Timeout, HelperLost, Roles, Working, helperVars
<1>7. CASE Reap
  BY <1>7 DEF Reap, Return, Roles, Working
<1>8. ASSUME NEW h \in Pids, Helper(h)
      PROVE  Roles'
  <2>1. UNCHANGED <<cpc, call, serial, helper>>
    BY <1>8, HelperActs DEF callVars
  <2>2. \A g \in Pids : g = helper <=> hpc'[g] \notin {"unborn", "reaped"}
    BY <1>8, HelperActs DEF Roles
  <2>3. \A g \in Pids : (Working(g))' => Working(g) /\ req'[g] = req[g]
    BY <1>8, HelperActs DEF Working
  <2>4. ASSUME NEW g \in Pids, answer'[g] # NoAnswer
        PROVE  /\ g = helper /\ cpc \in {"waiting", "killing"}
               /\ hpc'[g] \in {"idle", "zombie"} /\ answer'[g].serial = serial
    <3>1. CASE answer'[g] = answer[g] /\ hpc'[g] \in {"idle", "zombie"}
      BY <2>4, <3>1 DEF Roles
    <3>2. CASE g = h /\ Answer(h)
      <4>1. Working(h) /\ h = helper
        BY <1>8, <3>2, HelperActs DEF Answer, Running, Working
      <4>2. req[h] = call /\ cpc \in {"waiting", "killing"} /\ call # NoCall
        BY <4>1 DEF Roles
      <4>3. answer'[h].serial = serial /\ hpc'[h] = "idle"
        BY <3>2, <4>2 DEF Answer, Go
      <4> QED BY <3>2, <4>1, <4>2, <4>3
    <3> QED BY <1>8, <2>4, <3>1, <3>2, HelperActs DEF Roles
  <2> QED BY <2>1, <2>2, <2>3, <2>4 DEF Roles
<1>9. CASE Others \/ UNCHANGED vars
  <2>1. UNCHANGED <<cpc, call, serial, helper, hpc, req, answer>>
    BY <1>9 DEF Others, Overwrite, Replace, vars, callVars, helperVars
  <2> QED BY <2>1 DEF Roles, Working
<1> QED
  BY <1>1, <1>2, <1>3, <1>4, <1>5, <1>6, <1>7, <1>8, <1>9 DEF Next, Caller

-----------------------------------------------------------------------------
(* Between calls nothing is under way.                                     *)
LEMMA NothingUnderWay ==
  ASSUME Roles, cpc \in {"idle", "starting"}
  PROVE  \A h \in Pids : ~Working(h) /\ answer[h] = NoAnswer
BY DEF Roles

LEMMA AtRest ==
  ASSUME NEW h \in Pids, ~Working(h), answer[h] = NoAnswer
  PROVE  HelperLimits(h) /\ HelperStores(h)
BY DEF HelperLimits, HelperStores, Concluded, Working

(* The call ends and takes what is in the pipe, or nothing.                *)
LEMMA AllAtRest ==
  ASSUME Typed, Roles, NEW o, Return(o), [Next]_vars
  PROVE  \A h \in Pids : (HelperLimits(h) /\ HelperStores(h))'
<1>1. Roles' /\ cpc' = "idle"
  BY RolesStep DEF Return
<1>2. \A h \in Pids : (~Working(h) /\ answer[h] = NoAnswer)'
  BY <1>1 DEF Roles, Working
<1> QED BY <1>2 DEF HelperLimits, HelperStores, Concluded, Working

(* The outcome a helper comes to is within what the request leaves.        *)
LEMMA HelperLimitsStep ==
  ASSUME Typed, Roles, Limits, NEW h \in Pids, Helper(h)
  PROVE  (HelperLimits(h))'
<1>1. HelperLimits(h) /\ Typed /\ UNCHANGED call
  BY HelperActs DEF Limits, callVars
<1>2. Working(h) => req[h] \in Requests /\ req[h].remaining \in Nat
  BY DEF Typed, Roles, CallerTyped, Requests
<1>3. ASSUME NEW o, Conclude(h, o), o.size <= req[h].remaining,
             UNCHANGED <<req, answer>>
      PROVE  (HelperLimits(h))'
  BY <1>1, <1>3 DEF Conclude, Go, HelperLimits, Concluded, Typed, HelpersTyped
<1>4. ASSUME req[h].remaining \in Nat, UNCHANGED <<req, answer>>,
             Conclude(h, Lost(TRUE)) \/ Conclude(h, Lost(FALSE))
      PROVE  (HelperLimits(h))'
  <2>1. Lost(TRUE).size <= req[h].remaining /\ Lost(FALSE).size <= req[h].remaining
    BY <1>4 DEF Lost
  <2>2. CASE Conclude(h, Lost(TRUE))
    BY <1>3, <1>4, <2>1, <2>2
  <2>3. CASE Conclude(h, Lost(FALSE))
    BY <1>3, <1>4, <2>1, <2>3
  <2> QED BY <1>4, <2>2, <2>3
<1> USE DEF Running, Working
<1>5. CASE Stat(h)
  <2>1. req[h].remaining \in Nat /\ UNCHANGED <<req, answer, buf>>
    BY <1>2, <1>5 DEF Stat
  <2>2. CASE Conclude(h, Lost(TRUE))
    BY <1>4, <2>1, <2>2
  <2>3. CASE Conclude(h, [state |-> Absent, size |-> 0, gap |-> FALSE])
    BY <1>3, <2>1, <2>3
  <2>4. CASE Go(h, "opening") /\ UNCHANGED out
    BY <1>1, <2>1, <2>4 DEF Go, HelperLimits, Concluded, Typed, HelpersTyped
  <2> QED BY <1>5, <2>2, <2>3, <2>4 DEF Stat
<1>6. CASE Open(h) \/ ReadChunk(h)
  BY <1>1, <1>6 DEF Open, ReadChunk, Go, HelperLimits, Concluded, Typed, HelpersTyped
<1>7. CASE EndOfFile(h)
  <2>1. /\ req[h].remaining \in Nat /\ UNCHANGED <<req, answer, buf>>
        /\ Len(buf[h]) \in Nat
    BY <1>2, <1>7 DEF EndOfFile, Typed, HelpersTyped
  <2>2. CASE Conclude(h, Lost(TRUE))
    BY <1>4, <2>1, <2>2
  <2>3. CASE Len(buf[h]) <= req[h].remaining /\ Go(h, "storing") /\ UNCHANGED out
    BY <1>1, <2>1, <2>3 DEF Go, HelperLimits, Concluded, Typed, HelpersTyped
  <2>4. ~(Len(buf[h]) > req[h].remaining) => Len(buf[h]) <= req[h].remaining
    BY <2>1
  <2>5. \/ Conclude(h, Lost(TRUE))
        \/ Len(buf[h]) <= req[h].remaining /\ Go(h, "storing") /\ UNCHANGED out
    BY <1>7, <2>4 DEF EndOfFile
  <2> QED BY <2>2, <2>3, <2>5
<1>8. CASE InputFails(h)
  <2>1. /\ req[h].remaining \in Nat /\ UNCHANGED <<req, answer>>
        /\ Conclude(h, Lost(FALSE))
    BY <1>2, <1>8 DEF InputFails
  <2> QED BY <1>4, <2>1
<1>9. CASE ObjectExists(h) \/ RenameTemporary(h)
  <2>1. Present(h).size = Len(buf[h]) /\ Len(buf[h]) <= req[h].remaining
    BY <1>1, <1>9 DEF ObjectExists, RenameTemporary, HelperLimits, Present
  <2> QED BY <1>3, <1>9, <2>1 DEF ObjectExists, RenameTemporary
<1>10. CASE ObjectFails(h)
  <2>1. /\ req[h].remaining \in Nat /\ UNCHANGED <<req, answer>>
        /\ Conclude(h, Lost(TRUE))
    BY <1>2, <1>10 DEF ObjectFails
  <2> QED BY <1>4, <2>1
<1>11. CASE CreateTemporary(h)
  <2>1. req[h].remaining \in Nat /\ UNCHANGED <<req, answer, buf>>
    BY <1>2, <1>11 DEF CreateTemporary
  <2>2. CASE Conclude(h, Lost(TRUE))
    BY <1>4, <2>1, <2>2
  <2>3. CASE hpc[h] = "storing" /\ Go(h, "writing") /\ UNCHANGED out
    BY <1>1, <2>1, <2>3 DEF Go, HelperLimits, Concluded, Typed, HelpersTyped
  <2> QED BY <1>11, <2>2, <2>3 DEF CreateTemporary
<1>12. CASE JournalEntry(h) \/ JournalNewline(h)
  BY <1>1, <1>12 DEF JournalEntry, JournalNewline, Go, HelperLimits, Concluded, Typed,
     HelpersTyped
<1>13. CASE JournalFails(h)
  <2>1. out'[h].size = out[h].size
    BY <1>13 DEF JournalFails, Typed, HelpersTyped, Outcomes
  <2> QED BY <1>1, <1>13, <2>1 DEF JournalFails, Go, HelperLimits, Concluded, Typed,
             HelpersTyped
<1>14. CASE Answer(h)
  <2>1. req[h] = call /\ out[h].size <= req[h].remaining
    BY <1>1, <1>14 DEF Answer, Roles, HelperLimits, Concluded
  <2>2. answer'[h].out.size = out[h].size /\ hpc'[h] = "idle"
    BY <1>14 DEF Answer, Go, Typed, HelpersTyped
  <2> QED BY <1>1, <2>1, <2>2 DEF HelperLimits, Concluded
<1>15. CASE Die(h)
  BY <1>1, <1>15 DEF Die, Go, HelperLimits, Concluded, Typed, HelpersTyped
<1>16. CASE Hang(h)
  BY <1>1, <1>16 DEF Hang, HelperLimits, Concluded
<1> QED
  BY <1>5, <1>6, <1>7, <1>8, <1>9, <1>10, <1>11, <1>12, <1>13, <1>14, <1>15, <1>16
     DEF Helper

LEMMA LimitsStep == Typed /\ Roles /\ Limits /\ [Next]_vars => Limits'
<1> SUFFICES ASSUME Typed, Roles, Limits, [Next]_vars
             PROVE  Limits'
  OBVIOUS
<1>1. total \in Nat /\ total <= MaxTotal
  BY DEF Typed, CallerTyped, Limits
<1>2. ASSUME NEW p \in Paths, NEW journal \in BOOLEAN, Call(p, journal)
      PROVE  Limits'
  <2>1. call'.remaining = MaxTotal - total /\ UNCHANGED <<total, helperVars>>
    BY <1>1, <1>2 DEF Call, Remaining
  <2>2. \A h \in Pids : ~Working(h) /\ answer[h] = NoAnswer
    BY <1>2, NothingUnderWay DEF Call
  <2>3. \A h \in Pids : (HelperLimits(h))'
    BY <2>1, <2>2 DEF helperVars, HelperLimits, Concluded, Working
  <2> QED BY <1>1, <2>1, <2>3 DEF Limits
<1>3. ASSUME NEW h \in Pids, Spawn(h)
      PROVE  Limits'
  BY <1>3 DEF Spawn, Limits, HelperLimits, Concluded, Typed, HelpersTyped
<1>4. CASE Send
  BY <1>4 DEF Send, Limits, HelperLimits, Concluded, Typed, HelpersTyped, CallerTyped
<1>5. CASE SpawnFails \/ Reap
  <2>1. Return(Lost(TRUE))
    BY <1>5 DEF SpawnFails, Reap
  <2>2. total' = total /\ call' = NoCall
    BY <1>1, <2>1 DEF Return, Lost
  <2> QED BY <1>1, <2>1, <2>2, AllAtRest DEF Limits
<1>6. CASE Accept
  <2>1. /\ Return(answer[helper].out) /\ helper \in Pids /\ call # NoCall
        /\ answer[helper] # NoAnswer
    BY <1>6 DEF Accept, Typed, CallerTyped
  <2>2. answer[helper].out.size \in Nat /\ answer[helper].out.size <= MaxTotal - total
    BY <2>1 DEF Limits, HelperLimits, Typed, HelpersTyped, Outcomes
  <2>3. total' <= MaxTotal /\ call' = NoCall
    BY <1>1, <2>1, <2>2 DEF Return
  <2> QED BY <2>1, <2>3, AllAtRest DEF Limits
<1>7. CASE Timeout \/ HelperLost
  BY <1>7 DEF Timeout, HelperLost, Limits, HelperLimits, Concluded, helperVars
<1>8. ASSUME NEW h \in Pids, Helper(h)
      PROVE  Limits'
  <2>1. \A g \in Pids : g # h => (HelperLimits(g))'
    BY <1>8, HelperActs DEF Limits, HelperLimits, Concluded, callVars
  <2>2. UNCHANGED <<total, call>>
    BY <1>8, HelperActs DEF callVars
  <2> QED BY <1>8, <2>1, <2>2, HelperLimitsStep DEF Limits
<1>9. CASE Others \/ UNCHANGED vars
  <2>1. UNCHANGED <<total, call, hpc, req, buf, out, answer>>
    BY <1>9 DEF Others, Overwrite, Replace, vars, callVars, helperVars
  <2> QED BY <2>1 DEF Limits, HelperLimits, Concluded
<1> QED
  BY <1>2, <1>3, <1>4, <1>5, <1>6, <1>7, <1>8, <1>9 DEF Next, Caller

-----------------------------------------------------------------------------
(* What is stored stays stored, and complete: the rename is the only step  *)
(* that shows an object, and it shows all of it.                           *)
LEMMA ObjectsStay ==
  ASSUME Typed, Stores, NEW h \in Pids, Helper(h)
  PROVE  /\ \A o \in objects' : o = Object(o.name)
         /\ \A s : Object(s) \in objects => Object(s) \in objects'
         /\ entries \subseteq entries'
<1>1. CASE RenameTemporary(h)
  <2>1. /\ objects' = {o \in objects : o.name # buf[h]} \cup {Object(buf[h])}
        /\ entries' = entries
    BY <1>1 DEF RenameTemporary, Object
  <2>2. \A s : Object(s).name = s
    BY DEF Object
  <2>3. \A s : Object(s) \in objects => Object(s) \in objects'
    BY <2>1, <2>2
  <2>4. \A o \in objects' : o = Object(o.name)
    BY <2>1, <2>2 DEF Stores
  <2> QED BY <2>1, <2>3, <2>4
<1>2. CASE JournalNewline(h)
  BY <1>2 DEF JournalNewline, Stores
<1>3. CASE ~RenameTemporary(h) /\ ~JournalNewline(h)
  <2>1. UNCHANGED <<objects, entries>>
    BY <1>3 DEF Helper, Stat, Open, ReadChunk, EndOfFile, InputFails, ObjectExists,
       CreateTemporary, ObjectFails, JournalEntry, JournalFails, Answer, Die, Hang,
       outputVars
  <2> QED BY <2>1 DEF Stores
<1> QED BY <1>1, <1>2, <1>3

(* The outcome a helper comes to is stored, and journalled before it is    *)
(* the answer.                                                             *)
LEMMA HelperStoresStep ==
  ASSUME Typed, Roles, Stores, NEW h \in Pids, Helper(h)
  PROVE  (HelperStores(h))'
<1>1. /\ HelperStores(h) /\ UNCHANGED call /\ entries \subseteq entries'
      /\ \A s : Object(s) \in objects => Object(s) \in objects'
  BY HelperActs, ObjectsStay DEF Stores, callVars
<1>2. Working(h) => answer[h] = NoAnswer
  BY DEF Roles, Working
<1>3. /\ hpc \in [Pids -> Pcs] /\ out \in [Pids -> Outcomes]
      /\ answer \in [Pids -> [serial : Nat, out : Outcomes]]
  BY DEF Typed, HelpersTyped
<1>4. ASSUME NEW o, Conclude(h, o), Working(h), UNCHANGED <<req, answer>>,
             o.state \notin {NotCaptured, Unavailable, Absent} => Object(o.state) \in objects'
      PROVE  (HelperStores(h))'
  <2>1. out'[h] = o /\ hpc'[h] = (IF req[h].journal THEN "journal" ELSE "answering")
    BY <1>3, <1>4 DEF Conclude, Go
  <2> QED BY <1>2, <1>4, <2>1 DEF HelperStores, Concluded, IsStored
<1>5. ASSUME Conclude(h, Lost(TRUE)) \/ Conclude(h, Lost(FALSE)), Working(h),
             UNCHANGED <<req, answer>>
      PROVE  (HelperStores(h))'
  <2>1. Lost(TRUE).state = Unavailable /\ Lost(FALSE).state = Unavailable
    BY DEF Lost
  <2>2. CASE Conclude(h, Lost(TRUE))
    BY <1>4, <1>5, <2>1, <2>2
  <2>3. CASE Conclude(h, Lost(FALSE))
    BY <1>4, <1>5, <2>1, <2>3
  <2> QED BY <1>5, <2>2, <2>3
<1>6. ASSUME ~(Concluded(h))', answer'[h] = NoAnswer
      PROVE  (HelperStores(h))'
  BY <1>6 DEF HelperStores, Concluded
<1> USE DEF Running
<1>7. CASE Stat(h)
  <2>1. Working(h) /\ UNCHANGED <<req, answer>>
    BY <1>7 DEF Stat, Working
  <2>2. CASE Conclude(h, Lost(TRUE))
    BY <1>5, <2>1, <2>2
  <2>3. CASE Conclude(h, [state |-> Absent, size |-> 0, gap |-> FALSE])
    BY <1>4, <2>1, <2>3
  <2>4. CASE Go(h, "opening")
    BY <1>2, <1>3, <1>6, <2>1, <2>4 DEF Go, Concluded
  <2> QED BY <1>7, <2>2, <2>3, <2>4 DEF Stat
<1>8. CASE Open(h) \/ ReadChunk(h)
  BY <1>2, <1>3, <1>6, <1>8 DEF Open, ReadChunk, Go, Working, Concluded
<1>9. CASE EndOfFile(h)
  <2>1. Working(h) /\ UNCHANGED <<req, answer>>
    BY <1>9 DEF EndOfFile, Working
  <2>2. CASE Conclude(h, Lost(TRUE))
    BY <1>5, <2>1, <2>2
  <2>3. CASE Go(h, "storing")
    BY <1>2, <1>3, <1>6, <2>1, <2>3 DEF Go, Concluded
  <2> QED BY <1>9, <2>2, <2>3 DEF EndOfFile
<1>10. CASE InputFails(h)
  <2>1. Working(h) /\ UNCHANGED <<req, answer>> /\ Conclude(h, Lost(FALSE))
    BY <1>10 DEF InputFails, Working
  <2> QED BY <1>5, <2>1
<1>11. CASE ObjectExists(h) \/ RenameTemporary(h)
  <2>1. /\ Working(h) /\ UNCHANGED <<req, answer>> /\ Conclude(h, Present(h))
        /\ Present(h).state = buf[h]
    BY <1>11 DEF ObjectExists, RenameTemporary, Working, Present
  <2>2. Object(buf[h]) \in objects'
    <3>1. CASE ObjectExists(h)
      BY <3>1 DEF ObjectExists, Stored, Stores, outputVars
    <3>2. CASE RenameTemporary(h)
      BY <3>2 DEF RenameTemporary, Object
    <3> QED BY <1>11, <3>1, <3>2
  <2> QED BY <1>4, <2>1, <2>2
<1>12. CASE ObjectFails(h)
  <2>1. Working(h) /\ UNCHANGED <<req, answer>> /\ Conclude(h, Lost(TRUE))
    BY <1>12 DEF ObjectFails, Working
  <2> QED BY <1>5, <2>1
<1>13. CASE CreateTemporary(h)
  <2>1. Working(h) /\ UNCHANGED <<req, answer>>
    BY <1>13 DEF CreateTemporary, Working
  <2>2. CASE Conclude(h, Lost(TRUE))
    BY <1>5, <2>1, <2>2
  <2>3. CASE Go(h, "writing")
    BY <1>2, <1>3, <1>6, <2>1, <2>3 DEF Go, Concluded
  <2> QED BY <1>13, <2>2, <2>3 DEF CreateTemporary
<1>14. CASE JournalEntry(h)
  <2>1. /\ hpc[h] = "journal" /\ hpc'[h] = "newline" /\ answer'[h] = NoAnswer
        /\ out'[h] = out[h]
    BY <1>2, <1>3, <1>14 DEF JournalEntry, Go, Working
  <2> QED BY <1>1, <2>1 DEF HelperStores, Concluded, IsStored
<1>15. CASE JournalNewline(h)
  <2>1. /\ hpc[h] = "newline" /\ hpc'[h] = "answering" /\ answer'[h] = NoAnswer
        /\ out'[h] = out[h] /\ req'[h] = req[h] /\ req[h].path \in entries'
    BY <1>2, <1>3, <1>15 DEF JournalNewline, Go, Working
  <2> QED BY <1>1, <2>1 DEF HelperStores, Concluded, IsStored, IsJournalled
<1>16. CASE JournalFails(h)
  <2>1. /\ hpc[h] \in {"journal", "newline"} /\ hpc'[h] = "answering"
        /\ answer'[h] = NoAnswer
    BY <1>2, <1>3, <1>16 DEF JournalFails, Go, Working
  <2>2. out'[h].state = out[h].state /\ out'[h].gap
    BY <1>3, <1>16 DEF JournalFails, Outcomes
  <2> QED BY <1>1, <2>1, <2>2 DEF HelperStores, Concluded, IsStored, IsJournalled
<1>17. CASE Answer(h)
  <2>1. req[h] = call /\ hpc[h] = "answering" /\ UNCHANGED <<objects, entries>>
    BY <1>17 DEF Answer, Roles, Working, outputVars
  <2>2. answer'[h].out = out[h] /\ hpc'[h] = "idle"
    BY <1>3, <1>17 DEF Answer, Go
  <2> QED BY <1>1, <2>1, <2>2 DEF HelperStores, Concluded, IsStored, IsJournalled
<1>18. CASE Die(h)
  <2>1. hpc'[h] = "zombie" /\ answer'[h] = answer[h] /\ UNCHANGED <<objects, entries>>
    BY <1>3, <1>18 DEF Die, Go, outputVars
  <2> QED BY <1>1, <2>1 DEF HelperStores, Concluded, IsStored, IsJournalled
<1>19. CASE Hang(h)
  <2>1. UNCHANGED <<hpc, req, out, answer, objects, entries>>
    BY <1>19 DEF Hang, outputVars
  <2> QED BY <1>1, <2>1 DEF HelperStores, Concluded, IsStored, IsJournalled
<1> QED
  BY <1>7, <1>8, <1>9, <1>10, <1>11, <1>12, <1>13, <1>14, <1>15, <1>16, <1>17, <1>18,
     <1>19 DEF Helper

(* What a call returns is stored.                                          *)
LEMMA ReturnStores ==
  ASSUME Typed, Stores, cpc # "idle", NEW o \in Outcomes, Return(o),
         IsStored(o.state), call.journal => IsJournalled(call.path, o),
         UNCHANGED <<objects, entries>>
  PROVE  \A p \in Paths : (PathStored(p))'
<1> SUFFICES ASSUME NEW p \in Paths
             PROVE  (PathStored(p))'
  OBVIOUS
<1>1. PathStored(p) /\ noted \subseteq noted'
  BY DEF Stores, Return
<1>2. CASE p = call.path /\ call.journal
  <2>1. before'[p] = o.state /\ after'[p] = after[p]
    BY <1>2 DEF Return, Typed, CallerTyped
  <2>2. o.gap => p \in noted'
    BY <1>2 DEF Return
  <2> QED BY <1>1, <1>2, <2>1, <2>2 DEF PathStored, IsStored, IsJournalled
<1>3. CASE p = call.path /\ ~call.journal
  <2>1. before'[p] = before[p] /\ after'[p] = o.state
    BY <1>3 DEF Return, Typed, CallerTyped
  <2> QED BY <1>1, <2>1 DEF PathStored, IsStored
<1>4. CASE p # call.path
  <2>1. before'[p] = before[p] /\ after'[p] = after[p]
    BY <1>4 DEF Return, Typed, CallerTyped
  <2> QED BY <1>1, <2>1 DEF PathStored, IsStored
<1> QED BY <1>2, <1>3, <1>4

LEMMA StoresStep == Typed /\ Roles /\ Stores /\ [Next]_vars => Stores'
<1> SUFFICES ASSUME Typed, Roles, Stores, [Next]_vars
             PROVE  Stores'
  OBVIOUS
<1>1. ASSUME NEW p \in Paths, NEW journal \in BOOLEAN, Call(p, journal)
      PROVE  Stores'
  <2>1. UNCHANGED <<before, after, noted, helperVars, outputVars>>
    BY <1>1 DEF Call
  <2>2. \A h \in Pids : (HelperStores(h))'
    BY <1>1, <2>1, NothingUnderWay DEF Call, HelperStores, Concluded, Working, helperVars
  <2> QED BY <2>1, <2>2 DEF Stores, PathStored, IsStored, outputVars
<1>2. ASSUME NEW h \in Pids, Spawn(h)
      PROVE  Stores'
  BY <1>2 DEF Spawn, Stores, PathStored, HelperStores, Concluded, IsStored, IsJournalled,
     Typed, HelpersTyped, outputVars
<1>3. CASE Send
  BY <1>3 DEF Send, Stores, PathStored, HelperStores, Concluded, IsStored, IsJournalled,
     Typed, HelpersTyped, CallerTyped, outputVars
<1>4. CASE SpawnFails \/ Reap
  <2>1. /\ Return(Lost(TRUE)) /\ cpc # "idle" /\ UNCHANGED <<objects, entries>>
    BY <1>4 DEF SpawnFails, Reap, outputVars
  <2>2. Lost(TRUE).state = Unavailable /\ Lost(TRUE) \in Outcomes
    BY LostTyped DEF Lost
  <2>3. IsStored(Lost(TRUE).state) /\ IsJournalled(call.path, Lost(TRUE))
    BY <2>2 DEF IsStored, IsJournalled, Known
  <2>4. objects' = objects
    BY <2>1
  <2> QED BY <2>1, <2>2, <2>3, <2>4, ReturnStores, AllAtRest DEF Stores
<1>5. CASE Accept
  <2>1. /\ Return(answer[helper].out) /\ cpc # "idle" /\ helper \in Pids
        /\ answer[helper] # NoAnswer /\ UNCHANGED <<objects, entries>>
    BY <1>5 DEF Accept, Typed, CallerTyped, outputVars
  <2>2. answer[helper].out \in Outcomes
    BY <2>1 DEF Typed, HelpersTyped
  <2>3. /\ IsStored(answer[helper].out.state)
        /\ call.journal => IsJournalled(call.path, answer[helper].out)
    BY <2>1 DEF Stores, HelperStores
  <2> QED BY <2>1, <2>2, <2>3, ReturnStores, AllAtRest DEF Stores
<1>6. CASE Timeout \/ HelperLost
  <2>1. UNCHANGED <<call, before, after, noted, helperVars, outputVars>>
    BY <1>6 DEF Timeout, HelperLost
  <2> QED BY <2>1 DEF Stores, PathStored, HelperStores, Concluded, IsStored, IsJournalled,
             helperVars, outputVars
<1>7. ASSUME NEW h \in Pids, Helper(h)
      PROVE  Stores'
  <2>1. UNCHANGED <<call, before, after, noted>>
    BY <1>7, HelperActs DEF callVars
  <2>2. /\ \A o \in objects' : o = Object(o.name)
        /\ \A s : Object(s) \in objects => Object(s) \in objects'
        /\ entries \subseteq entries'
    BY <1>7, ObjectsStay
  <2>3. \A p \in Paths : (PathStored(p))'
    BY <2>1, <2>2 DEF Stores, PathStored, IsStored
  <2>4. ASSUME NEW g \in Pids, g # h
        PROVE  (HelperStores(g))'
    <3>1. /\ hpc'[g] = hpc[g] /\ req'[g] = req[g] /\ answer'[g] = answer[g]
          /\ out'[g] = out[g]
      BY <1>7, <2>4, HelperActs
    <3>2. HelperStores(g)
      BY DEF Stores
    <3> QED BY <2>1, <2>2, <3>1, <3>2 DEF HelperStores, Concluded, IsStored, IsJournalled
  <2> QED BY <1>7, <2>2, <2>3, <2>4, HelperStoresStep DEF Stores
<1>8. CASE Others \/ UNCHANGED vars
  <2>1. UNCHANGED <<call, before, after, noted, hpc, req, out, answer, objects, entries>>
    BY <1>8 DEF Others, Overwrite, Replace, vars, callVars, helperVars, outputVars
  <2> QED BY <2>1 DEF Stores, PathStored, HelperStores, Concluded, IsStored, IsJournalled
<1> QED
  BY <1>1, <1>2, <1>3, <1>4, <1>5, <1>6, <1>7, <1>8 DEF Next, Caller

-----------------------------------------------------------------------------
(* The inductive invariant holds in every reachable state.                 *)
LEMMA AlwaysIInv == Spec => []IInv
<1>1. IInv /\ [Next]_vars => IInv'
  BY CallerTypedStep, HelpersTypedStep, RolesStep, LimitsStep, StoresStep
     DEF IInv, Typed
<1> QED BY InitIInv, <1>1, PTL DEF Spec

(* Every variable keeps its type (capture.rs:508-531).                     *)
THEOREM CaptureTypeOK == Spec => []TypeOK
<1>1. IInv => TypeOK
  <2>1. Typed => (call # NoCall => call.path \in Paths /\ call.serial = serial)
    BY DEF Typed, CallerTyped, Requests
  <2>2. Typed /\ Roles => \A h \in Pids : Working(h) => req[h] # NoCall
    BY DEF Typed, CallerTyped, Roles
  <2> QED BY <2>1, <2>2 DEF IInv, Typed, CallerTyped, HelpersTyped, TypeOK
<1> QED BY <1>1, AlwaysIInv, PTL

(* No call ever gets the answer to another one, whatever timed out or      *)
(* crashed before it (capture.rs:508-531, 628-660).                        *)
THEOREM AnswersMatch == Spec => []AnswerIsForCall
<1>1. IInv => AnswerIsForCall
  <2>1. Typed /\ cpc = "waiting" => helper \in Pids /\ call.serial = serial
    BY DEF Typed, CallerTyped
  <2> QED BY <2>1 DEF IInv, Roles, AnswerIsForCall
<1> QED BY <1>1, AlwaysIInv, PTL

(* While no call runs no helper works (capture.rs:699-709).                *)
THEOREM HelpersRest == Spec => []QuietWhenIdle
<1>1. IInv => QuietWhenIdle
  BY DEF IInv, Roles, QuietWhenIdle
<1> QED BY <1>1, AlwaysIInv, PTL

(* A state in the store has its complete object, an original without a gap *)
(* its journal entry (capture.rs:398-433, 474-481).                        *)
THEOREM StoreIsBacked == Spec => []StatesAreStored
<1>1. IInv => StatesAreStored
  BY DEF IInv, Stores, PathStored, IsStored, Object, StatesAreStored
<1> QED BY <1>1, AlwaysIInv, PTL

(* The captured bytes stay within the total limit (capture.rs:251, 263).   *)
THEOREM WithinLimit == Spec => []TotalWithinLimit
<1>1. IInv => TotalWithinLimit
  BY DEF IInv, Limits, TotalWithinLimit
<1> QED BY <1>1, AlwaysIInv, PTL
=============================================================================
