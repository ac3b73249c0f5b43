--------------------------- MODULE ControlChannel ---------------------------
(***************************************************************************)
(* The descriptor through which a run is asked to finish (supervisor.rs,   *)
(* ControlChannel): bytes arrive in pieces, are collected in a buffer and  *)
(* cut into lines, one event for each poll of the main loop.  What the     *)
(* loop does with an event is in Lifecycle.                                *)
(***************************************************************************)
EXTENDS Naturals, Sequences, SequencesExt

CONSTANTS
  Word,         \* the bytes of "finish"
  Newline, Return,
  MaxBuffer,    \* 1024
  Chunk,        \* 256
  MaxWritten    \* bound: bytes the client writes

ASSUME ControlAssumption ==
  /\ Word \in Seq(ToSet(Word))
  /\ Newline # Return /\ Newline \notin ToSet(Word) /\ Return \notin ToSet(Word)
  /\ MaxBuffer \in Nat /\ Chunk \in Nat

Bytes == ToSet(Word) \cup {Newline, Return}

VARIABLES
  written,    \* everything the client has written
  taken,      \* how much of it was read
  closed,     \* the client has closed its end
  buffer,
  channel,    \* "open", or "none": the loop polls it no more
  events      \* what the polls have returned

controlVars == <<written, taken, closed, buffer, channel, events>>

ControlInit ==
  /\ written = << >> /\ taken = 0 /\ closed = FALSE
  /\ buffer = << >> /\ channel = "open" /\ events = << >>

NoControl ==
  /\ written = << >> /\ taken = 0 /\ closed = FALSE
  /\ buffer = << >> /\ channel = "none" /\ events = << >>

(* The client, who may write on after a finish line.                       *)
ClientWrites ==
  /\ channel = "open" /\ ~closed /\ Len(written) < MaxWritten
  /\ \E b \in Bytes : written' = Append(written, b)
  /\ UNCHANGED <<taken, closed, buffer, channel, events>>

ClientCloses ==
  /\ channel = "open" /\ ~closed
  /\ closed' = TRUE
  /\ UNCHANGED <<written, taken, buffer, channel, events>>

-----------------------------------------------------------------------------
HasLine(b) == Newline \in ToSet(b)
FirstLine(b) == SelectInSeq(b, LAMBDA c : c = Newline)   \* where it ends

(* Faulty: a carriage return is left at the end of a line.                 *)
EventOfRaw(line) == IF line = Word THEN "finish" ELSE "invalid"

EventOf(line) ==
  LET bare == IF line # << >> /\ Last(line) = Return THEN Front(line) ELSE line
  IN  IF bare = Word THEN "finish" ELSE "invalid"

(* The loop drops the channel after a finish or a disconnect.              *)
Returned(e) ==
  /\ events' = Append(events, e)
  /\ channel' = IF e = "invalid" THEN "open" ELSE "none"

(* Faulty: what follows the line is dropped.                               *)
TakeLineAlone(b) ==
  /\ Returned(EventOf(SubSeq(b, 1, FirstLine(b) - 1)))
  /\ buffer' = << >>

TakeLine(b) ==
  /\ Returned(EventOf(SubSeq(b, 1, FirstLine(b) - 1)))
  /\ buffer' = SubSeq(b, FirstLine(b) + 1, Len(b))

(* A line that is already in the buffer goes first.                        *)
PollBuffered ==
  /\ channel = "open" /\ HasLine(buffer)
  /\ TakeLine(buffer)
  /\ UNCHANGED <<written, taken, closed>>

(* One read, of no more than is there and no more than a chunk; a buffer   *)
(* that is too long is dropped, with the lines that are in it.             *)
PollRead ==
  /\ channel = "open" /\ ~HasLine(buffer)
  /\ \E n \in 1..Chunk :
       LET b == buffer \o SubSeq(written, taken + 1, taken + n)
       IN  /\ taken + n <= Len(written)
           /\ taken' = taken + n
           /\ CASE Len(b) > MaxBuffer -> Returned("invalid") /\ buffer' = << >>
                [] Len(b) <= MaxBuffer /\ HasLine(b) -> TakeLine(b)
                [] OTHER -> buffer' = b /\ UNCHANGED <<events, channel>>
  /\ UNCHANGED <<written, closed>>

(* The end of the stream: the word may lack its newline.                   *)
PollEnd ==
  /\ channel = "open" /\ ~HasLine(buffer)
  /\ closed /\ taken = Len(written)
  /\ Returned(IF buffer = Word THEN "finish" ELSE "disconnected")
  /\ buffer' = IF buffer = Word THEN << >> ELSE buffer
  /\ UNCHANGED <<written, taken, closed>>

Poll == PollBuffered \/ PollRead \/ PollEnd

ControlNext == ClientWrites \/ ClientCloses \/ Poll

ControlSpec == ControlInit /\ [][ControlNext]_controlVars /\ WF_controlVars(Poll)

-----------------------------------------------------------------------------
(* What the client has written, as lines and the rest of a line.           *)
NoBytes == [done |-> << >>, rest |-> << >>]

WithByte(ls, b) ==
  IF b = Newline THEN [done |-> Append(ls.done, ls.rest), rest |-> << >>]
  ELSE [done |-> ls.done, rest |-> Append(ls.rest, b)]

Lines(bytes) ==
  LET upTo[n \in 0..Len(bytes)] ==
        IF n = 0 THEN NoBytes ELSE WithByte(upTo[n - 1], bytes[n])
  IN  upTo[Len(bytes)]

(* Lines that leave room for a chunk behind them in the buffer.            *)
Short(line) == Len(line) <= MaxBuffer - Chunk

(* A finish line, with either end of line.                                 *)
Asks(line) == line = Word \/ line = Word \o <<Return>>

LineEvents(lines) ==
  [i \in DOMAIN lines |-> IF Asks(lines[i]) THEN "finish" ELSE "invalid"]

EndEvent(rest) == IF rest = Word THEN "finish" ELSE "disconnected"

Expected ==
  LET ls == Lines(written)
  IN  IF closed THEN Append(LineEvents(ls.done), EndEvent(ls.rest))
      ELSE LineEvents(ls.done)

(* While lines are short, the events are those of the lines, in order and  *)
(* none left out, however the bytes were cut into reads (supervisor.rs:    *)
(* 60-122).                                                                *)
EventsAreLines ==
  LET ls == Lines(written)
  IN  (\A i \in DOMAIN ls.done : Short(ls.done[i])) /\ Short(ls.rest)
        => IsPrefix(events, Expected)

Announced ==
  LET ls == Lines(written).done
  IN  \E i \in DOMAIN ls :
        /\ Asks(ls[i])
        /\ \A j \in 1..i : Short(ls[j])

(* A finish line after short lines is heard, and a client that goes away   *)
(* is noticed, whatever else was written (supervisor.rs:60-122).           *)
ClientIsHeard ==
  /\ Announced ~> \E i \in DOMAIN events : events[i] = "finish"
  /\ closed ~> channel = "none"
=============================================================================
