----------------------------- MODULE LineReader -----------------------------
(***************************************************************************)
(* Text that is still being written, read as lines: tailStream()           *)
(* (src/wrappers/stream.ts), and the output of a container, logStream()    *)
(* and the lines of dockerRunStreaming() (src/wrappers/docker.ts).  What   *)
(* is read is cut at newlines and the rest kept for the next read.  A      *)
(* character of two bytes may be cut in two.                               *)
(***************************************************************************)
EXTENDS Naturals, SequencesExt

CONSTANT MaxBytes  \* bound: bytes that are ever written

ASSUME ReaderAssumption == MaxBytes \in Nat /\ MaxBytes >= 2

Newline == "n"
First == "1"   \* the two bytes of a character
Second == "2"
Broken == "?"  \* what is made of one of them alone

VARIABLES
  reader,    \* "tail", "tailAll" (fromEnd: false) or "output"
  written,   \* the file, or all the output so far
  offset,    \* how far it was read
  undecoded,   \* the bytes a streaming decoder keeps
  buffer,    \* the beginning of a line
  yielded,   \* the lines the consumer was given
  start,     \* (history) where the reader began
  open,      \* the writer's end of the output
  reading,   \* "reading", "ended" or "left" by the consumer
  truncated, \* (history) the file has become shorter
  cut        \* (history) a read of the file ended within a character

readerVars == <<reader, written, offset, undecoded, buffer, yielded, start, open, reading, truncated, cut>>

ReaderInit ==
  /\ reader \in {"tail", "tailAll", "output"}
  /\ written \in IF reader = "output" THEN {<<>>} ELSE {<<>>, <<Newline>>, <<First, Second>>}
  /\ offset = (IF reader = "tail" THEN Len(written) ELSE 0) /\ start = offset
  /\ undecoded = <<>> /\ buffer = <<>> /\ yielded = <<>>
  /\ open = TRUE /\ reading = "reading" /\ truncated = FALSE /\ cut = FALSE

Whole(bytes) == bytes = <<>> \/ Last(bytes) # First

\* Half of a character or more.
Writes(bytes) ==
  /\ open /\ Len(written) + Len(bytes) <= MaxBytes
  /\ written' = written \o bytes
  /\ UNCHANGED <<reader, offset, undecoded, buffer, yielded, start, open, reading, truncated, cut>>

SomebodyWrites ==
  IF Whole(written) THEN Writes(<<Newline>>) \/ Writes(<<First>>) \/ Writes(<<First, Second>>)
  ELSE Writes(<<Second>>)

\* A file's alone.
Truncates ==
  /\ reader # "output" /\ written # <<>>
  /\ written' = <<>> /\ truncated' = TRUE
  /\ UNCHANGED <<reader, offset, undecoded, buffer, yielded, start, open, reading, cut>>

WriterEnds ==
  /\ reader = "output" /\ open /\ open' = FALSE
  /\ UNCHANGED <<reader, written, offset, undecoded, buffer, yielded, start, reading, truncated, cut>>

-----------------------------------------------------------------------------
\* Bytes that stand alone are replaced.
Decoded(bytes) ==
  LET lone(n) ==
        \/ bytes[n] = First /\ (n = Len(bytes) \/ bytes[n + 1] # Second)
        \/ bytes[n] = Second /\ (n = 1 \/ bytes[n - 1] # First)
  IN  [n \in DOMAIN bytes |-> IF lone(n) THEN Broken ELSE bytes[n]]

\* text.split("\n")
Lines(text) ==
  FoldLeft(LAMBDA lines, c : IF c = Newline THEN Append(lines, <<>>)
                             ELSE [lines EXCEPT ![Len(lines)] = Append(@, c)],
           <<<<>>>>, text)

\* The last piece is the beginning of a line.
Buffered(text) ==
  LET lines == Lines(buffer \o text)
  IN  buffer' = Last(lines) /\ yielded' = yielded \o Front(lines)

BugTailReads ==
  /\ reader # "output" /\ reading = "reading" /\ Len(written) > offset
  /\ LET lines == Lines(Decoded(SubSeq(written, offset + 1, Len(written))))
     IN  yielded' = yielded \o Front(lines) /\ buffer' = <<>>
  /\ offset' = Len(written) /\ cut' = (cut \/ ~Whole(written))
  /\ UNCHANGED <<reader, written, undecoded, start, open, reading, truncated>>

\* All that the file has more than it had; every read is decoded by itself.
TailReads ==
  /\ reader # "output" /\ reading = "reading" /\ Len(written) > offset
  /\ Buffered(Decoded(SubSeq(written, offset + 1, Len(written))))
  /\ offset' = Len(written) /\ cut' = (cut \/ ~Whole(written))
  /\ UNCHANGED <<reader, written, undecoded, start, open, reading, truncated>>

\* Any part of it; the decoder keeps half a character for the next.
OutputReads(n) ==
  /\ reader = "output" /\ reading = "reading" /\ offset < n /\ n <= Len(written)
  /\ LET bytes == undecoded \o SubSeq(written, offset + 1, n)
         whole == Whole(bytes)
     IN  /\ undecoded' = IF whole THEN <<>> ELSE <<First>>
         /\ Buffered(IF whole THEN bytes ELSE Front(bytes))
  /\ offset' = n
  /\ UNCHANGED <<reader, written, start, open, reading, truncated, cut>>

\* What is left of the last line is a line too; half a character is not.
LastLine ==
  /\ reader = "output" /\ reading = "reading" /\ ~open /\ offset = Len(written)
  /\ reading' = "ended" /\ buffer' = <<>>
  /\ yielded' = IF buffer = <<>> THEN yielded ELSE Append(yielded, buffer)
  /\ UNCHANGED <<reader, written, offset, undecoded, start, open, truncated, cut>>

ConsumerLeaves ==
  /\ reading = "reading" /\ reading' = "left"
  /\ UNCHANGED <<reader, written, offset, undecoded, buffer, yielded, start, open, truncated, cut>>

ReaderNext ==
  \/ SomebodyWrites \/ Truncates \/ WriterEnds
  \/ TailReads \/ (\E n \in 1 .. MaxBytes : OutputReads(n)) \/ LastLine \/ ConsumerLeaves

ReaderSpec == ReaderInit /\ [][ReaderNext]_readerVars
-----------------------------------------------------------------------------
ReaderTypeOK ==
  /\ offset \in 0 .. MaxBytes /\ start <= offset /\ buffer \in Seq({First, Second, Broken})
  /\ undecoded \in {<<>>, <<First>>} /\ reading \in {"reading", "ended", "left"}

\* However the text arrived, the consumer is given its lines, whole and in order:
\* all that were completed in what was read, and at the end of an output the one
\* that was not.  Of a file only if it did not become shorter, and if no read
\* ended within a character.
LinesAreWhole ==
  ~truncated /\ ~cut =>
    LET read == SubSeq(written, start + 1, offset - Len(undecoded))
        lines == Lines(read)
    IN  IF reading = "ended"
        THEN yielded = IF Last(lines) = <<>> THEN Front(lines) ELSE lines
        ELSE yielded = Front(lines) /\ buffer = Last(lines)
=============================================================================
