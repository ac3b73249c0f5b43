------------------------------- MODULE PumpIo -------------------------------
(***************************************************************************)
(* One git command of the receipt adapter (git_adapter.rs, git_command and *)
(* pump_child_io): three pipes, a thread for each of them, and the main    *)
(* thread, which waits for git and then for the threads.  Git reads and    *)
(* writes in whatever order it likes, and may stop in the middle.          *)
(*                                                                         *)
(* Bytes of a stream are numbered; what is kept is a sequence of them.     *)
(***************************************************************************)
EXTENDS Naturals, Sequences, SequencesExt

CONSTANTS
  Capacity,     \* of a pipe
  MaxInput, MaxOutput,   \* bounds: what is given to git and what it writes
  Limit         \* of what is kept: 64 KiB of stdout, 1 MiB of stderr

ASSUME PumpAssumption ==
  /\ Capacity \in Nat /\ Limit \in Nat
  /\ MaxInput \in Nat /\ MaxOutput \in Nat

Streams == {"stdout", "stderr"}

VARIABLES
  git,        \* "none", "runs", "ended" or "reaped"
  at,         \* the call it is in: "read", a stream it writes to, or "none"
  success,    \* it ended with status 0
  plan,       \* what it will have written of each stream when it succeeds
  wrote,      \* what it has written so far
  input,      \* bytes of the input that are still to be written
  stdin,      \* bytes in its pipe
  pipe,       \* bytes in the pipes of the streams
  kept, truncated,   \* of each stream
  pump,       \* the three threads: "runs" or "done"
  result      \* of the command: "none" until the main thread has it

pumpVars == <<git, at, success, plan, wrote, input, stdin, pipe, kept, truncated,
              pump, result>>

PumpStart ==
  /\ success = FALSE /\ at = "none"
  /\ plan \in [Streams -> 0..MaxOutput] /\ wrote = [s \in Streams |-> 0]
  /\ input \in 0..MaxInput
  /\ stdin = 0 /\ pipe = [s \in Streams |-> 0]
  /\ kept = [s \in Streams |-> << >>] /\ truncated = [s \in Streams |-> FALSE]
  /\ pump = [s \in Streams \cup {"stdin"} |-> "runs"]
  /\ result = "none"

PumpInit == PumpStart /\ git = "runs"

NoCommand ==
  /\ PumpStart /\ git = "none" /\ input = 0 /\ plan = [s \in Streams |-> 0]

-----------------------------------------------------------------------------
InputEnds == stdin = 0 /\ pump["stdin"] = "done"

(* Git goes for a read or a write, and is in it until it returns.          *)
GitCalls ==
  /\ git = "runs" /\ at = "none"
  /\ \/ ~InputEnds /\ at' = "read"
     \/ \E s \in Streams : wrote[s] < plan[s] /\ at' = s
  /\ UNCHANGED <<git, success, plan, wrote, input, stdin, pipe, kept, truncated,
                 pump, result>>

GitReads ==
  /\ git = "runs" /\ at = "read" /\ (stdin > 0 \/ InputEnds)
  /\ at' = "none"
  /\ stdin' = IF stdin > 0 THEN stdin - 1 ELSE 0
  /\ UNCHANGED <<git, success, plan, wrote, input, pipe, kept, truncated, pump,
                 result>>

GitWrites(s) ==
  /\ git = "runs" /\ at = s /\ pipe[s] < Capacity
  /\ at' = "none"
  /\ wrote' = [wrote EXCEPT ![s] = @ + 1]
  /\ pipe' = [pipe EXCEPT ![s] = @ + 1]
  /\ UNCHANGED <<git, success, plan, input, stdin, kept, truncated, pump, result>>

(* It has read the end of its input, which takes the stdin thread to       *)
(* close the pipe, and written everything.                                 *)
GitSucceeds ==
  /\ git = "runs" /\ at = "none" /\ InputEnds /\ wrote = plan
  /\ git' = "ended" /\ success' = TRUE
  /\ UNCHANGED <<at, plan, wrote, input, stdin, pipe, kept, truncated, pump, result>>

(* At any moment; what is in its input pipe is lost.                       *)
GitFails ==
  /\ git = "runs"
  /\ git' = "ended" /\ stdin' = 0
  /\ UNCHANGED <<at, success, plan, wrote, input, pipe, kept, truncated, pump, result>>

-----------------------------------------------------------------------------
(* write_all blocks while the pipe is full.                                *)
PumpInput ==
  /\ git = "runs" /\ input > 0 /\ stdin < Capacity
  /\ input' = input - 1 /\ stdin' = stdin + 1
  /\ UNCHANGED <<git, at, success, plan, wrote, pipe, kept, truncated, pump, result>>

(* Everything is written, or git has gone and the pipe is broken, which is *)
(* no error.                                                               *)
CloseInput ==
  /\ pump["stdin"] = "runs" /\ git # "none"
  /\ input = 0 \/ git # "runs"
  /\ pump' = [pump EXCEPT !["stdin"] = "done"]
  /\ UNCHANGED <<git, at, success, plan, wrote, input, stdin, pipe, kept, truncated,
                 result>>

Least(m, n) == IF m < n THEN m ELSE n

(* drain_bounded: the head of stdout and the tail of stderr are kept, the  *)
(* rest is read and dropped.                                               *)
Keep(s, bytes) ==
  LET all == kept[s] \o bytes
  IN  IF s = "stdout" THEN SubSeq(all, 1, Least(Limit, Len(all)))
      ELSE SubSeq(all, Len(all) - Least(Limit, Len(all)) + 1, Len(all))

Read(s, n) ==
  LET first == wrote[s] - pipe[s] + 1
      bytes == [i \in 1..n |-> first + i - 1]
  IN  /\ kept' = [kept EXCEPT ![s] = Keep(s, bytes)]
      /\ truncated' = [truncated EXCEPT ![s] = @ \/ Len(kept[s]) + n > Limit]
      /\ pipe' = [pipe EXCEPT ![s] = @ - n]

(* Faulty: one thread writes all the input before it reads.                *)
PumpOutputAfterInput(s) ==
  /\ pump["stdin"] = "done"
  /\ pump[s] = "runs" /\ \E n \in 1..pipe[s] : Read(s, n)
  /\ UNCHANGED <<git, at, success, plan, wrote, input, stdin, pump, result>>

PumpOutput(s) ==
  /\ pump[s] = "runs" /\ \E n \in 1..pipe[s] : Read(s, n)
  /\ UNCHANGED <<git, at, success, plan, wrote, input, stdin, pump, result>>

(* Faulty: a thread ends as soon as there is nothing to read.              *)
CloseOutputEarly(s) ==
  /\ pump[s] = "runs" /\ pipe[s] = 0 /\ git # "none"
  /\ pump' = [pump EXCEPT ![s] = "done"]
  /\ UNCHANGED <<git, at, success, plan, wrote, input, stdin, pipe, kept, truncated,
                 result>>

CloseOutput(s) ==
  /\ pump[s] = "runs" /\ pipe[s] = 0 /\ git \in {"ended", "reaped"}
  /\ pump' = [pump EXCEPT ![s] = "done"]
  /\ UNCHANGED <<git, at, success, plan, wrote, input, stdin, pipe, kept, truncated,
                 result>>

Wait ==
  /\ git = "ended"
  /\ git' = "reaped"
  /\ UNCHANGED <<at, success, plan, wrote, input, stdin, pipe, kept, truncated, pump,
                 result>>

(* Too much on stdout is an error whatever git says of itself.             *)
Join ==
  /\ git = "reaped" /\ result = "none"
  /\ \A s \in DOMAIN pump : pump[s] = "done"
  /\ result' = IF truncated["stdout"] THEN "exceeded"
               ELSE IF success THEN "output" ELSE "git_error"
  /\ UNCHANGED <<git, at, success, plan, wrote, input, stdin, pipe, kept, truncated,
                 pump>>

-----------------------------------------------------------------------------
Git == GitCalls \/ GitReads \/ GitSucceeds \/ \E s \in Streams : GitWrites(s)

Adapter ==
  \/ PumpInput \/ CloseInput \/ Wait \/ Join
  \/ \E s \in Streams : PumpOutput(s) \/ CloseOutput(s)

PumpNext == Git \/ GitFails \/ Adapter

(* The threads run on, and git does what it can; it need not fail.         *)
PumpFairness == WF_pumpVars(Git) /\ WF_pumpVars(Adapter)

PumpSpec == PumpInit /\ [][PumpNext]_pumpVars /\ PumpFairness

-----------------------------------------------------------------------------
(* A command whose output is used has written just that, all of its input  *)
(* went to git, and an error comes with the end of what git had to say     *)
(* (git_adapter.rs:374-440).                                               *)
ResultIsComplete ==
  result # "none" =>
    /\ result = "exceeded" <=> wrote["stdout"] > Limit
    /\ result = "output" =>
         /\ kept["stdout"] = [i \in 1..plan["stdout"] |-> i]
         /\ input = 0
    /\ LET n == wrote["stderr"]
           m == Least(Limit, n)
       IN  kept["stderr"] = [i \in 1..m |-> n - m + i]

(* However git mixes its reads and writes, and whatever the pipes hold,    *)
(* the command returns (git_adapter.rs:374-412).                           *)
CommandReturns == git = "runs" ~> result # "none"
=============================================================================
