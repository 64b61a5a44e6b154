----------------------------- MODULE TextFiles ------------------------------
(***************************************************************************)
(* gb::File: reading a text file line by line through a buffer of a fixed  *)
(* size.  A line ends at "\r", "\n" or "\r\n", also when the two are in    *)
(* different blocks; what was read ahead is given back with a seek.        *)
(*                                                                         *)
(* A text is a sequence of "r", "n" and other characters.  Each behaviour  *)
(* opens one text and reads its lines with one of the three functions.     *)
(***************************************************************************)
EXTENDS Integers, Sequences, SequencesExt

CONSTANTS
  LineBufferSize, (* kLineBufferSize                                       *)
  MaxLength,      (* Bound: the characters of a text.                      *)
  NoText

VARIABLES
  text,
  position,       (* position_ of the File                                 *)
  lines,          (* The lines read so far.                                *)
  ended           (* Whether a read has returned false, or read the rest.  *)

vars == <<text, position, lines, ended>>

LineEnds == {"r", "n"}

(* A ReadLineState, with the position of the file behind its buffer.       *)
NewState(at) == [file |-> at, buffer |-> <<>>, pos |-> 0]

(* Mutant: a line feed at the start of the next block is not skipped.      *)
RefillKeepsLinefeed(state, skipLinefeed) ==
  LET last  == IF state.file + LineBufferSize < Len(text)
               THEN state.file + LineBufferSize ELSE Len(text)
  IN [file |-> last, buffer |-> SubSeq(text, state.file + 1, last), pos |-> 0]

(* DoRead into the buffer of the state.                                    *)
Refill(state, skipLinefeed) ==
  LET last  == IF state.file + LineBufferSize < Len(text)
               THEN state.file + LineBufferSize ELSE Len(text)
      block == SubSeq(text, state.file + 1, last)
  IN [file |-> last, buffer |-> block,
      pos  |-> IF block # <<>> /\ skipLinefeed /\ block[1] = "n" THEN 1 ELSE 0]

(* DoReadLine: the part of its loop behind the refill, then the loop.      *)
RECURSIVE DoReadLine(_, _)
Scan(state, line) ==
  LET ends == {i \in state.pos + 1 .. Len(state.buffer) : state.buffer[i] \in LineEnds}
  IN IF ends = {}
     THEN DoReadLine([state EXCEPT !.pos = Len(state.buffer)],
                     line \o SubSeq(state.buffer, state.pos + 1, Len(state.buffer)))
     ELSE LET end  == CHOOSE i \in ends : \A j \in ends : i <= j
              read == line \o SubSeq(state.buffer, state.pos + 1, end - 1)
          IN CASE state.buffer[end] = "r" /\ end = Len(state.buffer) ->
                    [ok |-> TRUE, line |-> read, state |-> Refill(state, TRUE)]
               [] state.buffer[end] = "r" /\ end < Len(state.buffer)
                    /\ state.buffer[end + 1] = "n" ->
                    [ok |-> TRUE, line |-> read, state |-> [state EXCEPT !.pos = end + 1]]
               [] OTHER ->
                    [ok |-> TRUE, line |-> read, state |-> [state EXCEPT !.pos = end]]

DoReadLine(state, line) ==
  IF state.pos < Len(state.buffer) THEN Scan(state, line)
  ELSE LET filled == Refill(state, FALSE)
       IN IF filled.pos = Len(filled.buffer)
          THEN [ok |-> line # <<>>, line |-> line, state |-> filled]
          ELSE Scan(filled, line)

(* Where SeekBy puts the file: behind what was taken from the buffer.      *)
Taken(state) == state.file - (Len(state.buffer) - state.pos)

(* The lines ReadLines gets with one state, and that state.                *)
RECURSIVE DoReadLines(_, _, _)
DoReadLines(count, state, read) ==
  IF count = 0 THEN [ok |-> TRUE, lines |-> read, state |-> state]
  ELSE LET next == DoReadLine(state, <<>>)
       IN IF next.ok THEN DoReadLines(count - 1, next.state, Append(read, next.line))
          ELSE [ok |-> FALSE, lines |-> read, state |-> next.state]

(* ReadRemainingLines: the line ends replaced, and the text split at them. *)
RECURSIVE SplitLines(_)
SplitLines(rest) ==
  LET ends == {i \in DOMAIN rest : rest[i] \in LineEnds}
  IN IF ends = {} THEN IF rest = <<>> THEN <<>> ELSE <<rest>>
     ELSE LET end  == CHOOSE i \in ends : \A j \in ends : i <= j
              size == IF rest[end] = "r" /\ end < Len(rest) /\ rest[end + 1] = "n"
                      THEN 2 ELSE 1
          IN <<SubSeq(rest, 1, end - 1)>> \o SplitLines(SubSeq(rest, end + size, Len(rest)))

-----------------------------------------------------------------------------
Init ==
  /\ text = NoText
  /\ position = 0
  /\ lines = <<>>
  /\ ended = FALSE

Open ==
  /\ text = NoText
  /\ text' \in SeqOf({"r", "n", "x"}, MaxLength)
  /\ UNCHANGED <<position, lines, ended>>

ReadLine ==
  /\ text # NoText /\ ~ended
  /\ LET next == DoReadLine(NewState(position), <<>>)
     IN /\ position' = Taken(next.state)
        /\ ended' = ~next.ok
        /\ lines' = IF next.ok THEN Append(lines, next.line) ELSE lines
  /\ UNCHANGED text

ReadLines ==
  /\ text # NoText /\ ~ended
  /\ LET next == DoReadLines(2, NewState(position), <<>>)
     IN /\ position' = Taken(next.state)
        /\ ended' = ~next.ok
        /\ lines' = lines \o next.lines
  /\ UNCHANGED text

ReadRemainingLines ==
  /\ text # NoText /\ ~ended
  /\ lines' = lines \o SplitLines(SubSeq(text, position + 1, Len(text)))
  /\ position' = Len(text)
  /\ ended' = TRUE
  /\ UNCHANGED text

Next == Open \/ ReadLine \/ ReadLines \/ ReadRemainingLines

-----------------------------------------------------------------------------
(* However the lines are read, one by one, two by two or the rest at once, *)
(* and wherever the blocks of the buffer end: they are the lines of the    *)
(* text, and the file is behind the last one read.                         *)
LinesAgree ==
  text # NoText =>
    /\ IsPrefix(lines, SplitLines(text))
    /\ ended => lines = SplitLines(text)
    /\ SplitLines(SubSeq(text, position + 1, Len(text))) =
         SubSeq(SplitLines(text), Len(lines) + 1, Len(SplitLines(text)))
=============================================================================
