------------------------------ MODULE Readers ------------------------------
(***************************************************************************)
(* The readers of the standard input in IO/.  阻塞IO.c ("blocking") waits   *)
(* in read; 非阻塞IO.c ("polling") and fcntl.cc ("checking") make descriptor *)
(* 0 non-blocking and look again once a second, the second of them telling *)
(* by errno that nothing has come yet.  All of them echo what they read.   *)
(* The input is text without zero bytes; the calls of printf succeed.      *)
(***************************************************************************)
EXTENDS Naturals, Sequences, SequencesExt

CONSTANTS
  Length,    \* how many bytes are typed at most
  Chunk,     \* how many bytes one read takes at most: 1023
  Room       \* how many bytes the other end of 1 keeps before it shows them, at
             \* least Chunk: a write that waits is a single step

VARIABLES
  reader,     \* which program; it does not change
  terminal,   \* are 0 and 1 one terminal?  If not they are two pipes
  typed,      \* the bytes 1..typed were typed so far
  ended,      \* is the end of the input there?  A terminal can go on after it
  input,      \* the bytes that wait to be read
  rpc,        \* next step: "read", "echo", "report"
  text,       \* buffer: what the last read got and echo has not written
  found,      \* what the last read returned: "data", "end" (0), "nothing" (-1 and
              \* EAGAIN), "error" (-1 and another errno)
  errno,      \* "again", or any "other"
  said,       \* the line printed on it: "success", "not ready", "fail"; "" before
  screen,     \* the bytes written
  queued,     \* how many of them have not been shown
  cut,        \* history: bytes that a write did not take
  refused     \* history: has a call failed with EAGAIN?

vars == <<reader, terminal, typed, ended, input, rpc, text, found, errno, said,
          screen, queued, cut, refused>>
setup == <<reader, terminal>>
user == <<typed, ended>>
output == <<screen, queued, cut>>

Init ==
  /\ reader \in {"blocking", "polling", "checking"}
  /\ terminal \in BOOLEAN
  /\ typed = 0 /\ ended = FALSE /\ input = <<>>
  /\ rpc = "read" /\ text = <<>> /\ found = "data" /\ said = ""
  /\ errno = "other"
  /\ screen = <<>> /\ queued = 0 /\ cut = {} /\ refused = FALSE
-----------------------------------------------------------------------------
(***************************************************************************)
(* The user, and the screen.                                               *)
(***************************************************************************)
Type ==
  /\ typed < Length /\ ~ ended
  /\ typed' = typed + 1
  /\ input' = Append(input, typed')
  /\ UNCHANGED <<setup, ended, rpc, text, found, errno, said, output, refused>>

EndInput ==
  /\ ~ ended
  /\ ended' = TRUE
  /\ UNCHANGED <<setup, typed, input, rpc, text, found, errno, said, output, refused>>

Show ==
  /\ queued > 0
  /\ queued' = 0
  /\ UNCHANGED <<setup, user, input, rpc, text, found, errno, said, screen, cut,
                 refused>>
-----------------------------------------------------------------------------
(***************************************************************************)
(* The programs.                                                           *)
(***************************************************************************)
\* SetNonBlock(0) changes the open file, which on a terminal is that of 1 too.
ReadWaits == reader = "blocking"
WriteWaits == ReadWaits \/ ~ terminal

ReadData ==
  /\ rpc = "read" /\ input # <<>>
  /\ \E n \in 1..Chunk :
       /\ n <= Len(input)
       /\ text' = SubSeq(input, 1, n)
       /\ input' = SubSeq(input, n + 1, Len(input))
  /\ found' = "data" /\ said' = "" /\ rpc' = "echo"
  /\ UNCHANGED <<setup, user, errno, output, refused>>

\* 0 is not an error: errno keeps what an earlier call left in it.
ReadEnd ==
  /\ rpc = "read" /\ input = <<>> /\ ended
  /\ ended' = ~ terminal
  /\ found' = "end" /\ said' = "" /\ rpc' = "report"
  /\ UNCHANGED <<setup, typed, input, text, errno, output, refused>>

ReadNothing ==
  /\ rpc = "read" /\ input = <<>> /\ ~ ended /\ ~ ReadWaits
  /\ found' = "nothing" /\ said' = "" /\ rpc' = "report"
  /\ errno' = "again" /\ refused' = TRUE
  /\ UNCHANGED <<setup, user, input, text, output>>

\* A read can fail for another reason at any time: EIO of a terminal the program
\* is not in front of, EISDIR, EBADF.
ReadFails ==
  /\ rpc = "read"
  /\ found' = "error" /\ said' = "" /\ rpc' = "report"
  /\ errno' = "other"
  /\ UNCHANGED <<setup, user, input, text, output, refused>>

\* What fits of a write to a terminal that does not wait.
Fitting == IF Len(text) <= Room - queued THEN Len(text) ELSE Room - queued

\* A write that waits takes everything; one that does not takes what fits, and
\* its result is thrown away.
Echo ==
  /\ rpc = "echo"
  /\ WriteWaits => Len(text) <= Room - queued
  /\ screen' = screen \o SubSeq(text, 1, Fitting)
  /\ cut' = cut \cup ToSet(SubSeq(text, Fitting + 1, Len(text)))
  /\ queued' = queued + Fitting
  /\ errno' \in IF Fitting = 0 THEN {"again"} ELSE {errno, "other"}
  /\ refused' = (refused \/ Fitting = 0)
  /\ text' = <<>> /\ rpc' = "report"
  /\ UNCHANGED <<setup, user, input, found, said>>

PollingSays == IF found = "data" THEN "success" ELSE "fail"

CheckingSays ==
  CASE found = "data"                      -> "success"
    [] found # "data" /\ errno = "again"   -> "not ready"
    [] OTHER                               -> "fail"

Says ==
  CASE reader = "blocking" -> ""
    [] reader = "polling"  -> PollingSays
    [] reader = "checking" -> CheckingSays

\* The line is printed, which may change errno; blocking prints none.
Report ==
  /\ rpc = "report"
  /\ said' = Says
  /\ errno' \in {errno, "other"}
  /\ rpc' = "read"
  /\ UNCHANGED <<setup, user, input, text, found, output, refused>>
-----------------------------------------------------------------------------
Main == ReadData \/ ReadEnd \/ ReadNothing \/ ReadFails \/ Echo \/ Report

Next == Type \/ EndInput \/ Show \/ Main

Spec == Init /\ [][Next]_vars
-----------------------------------------------------------------------------
(***************************************************************************)
(* Properties.                                                             *)
(***************************************************************************)
\* fcntl.cc:30, 阻塞IO.c:15: the echo is the input in its order; the only bytes
\* missing are those that a full terminal did not take because making its
\* input non-blocking made its output non-blocking.
EchoInOrder ==
  LET bytes == screen \o text \o input
  IN  /\ \A i, j \in DOMAIN bytes : i < j => bytes[i] < bytes[j]
      /\ ToSet(bytes) = (1..typed) \ cut
      /\ cut # {} => terminal /\ reader # "blocking"

\* fcntl.cc:33: write and printf come between one read and the next and touch
\* errno, which a read that returns 0 leaves alone.  "Read fail" is still never said
\* of data or of a pause, and "not ready" never of an error; of an input that has
\* ended it may be, but only after a call did fail with EAGAIN: where the input
\* never pauses, as in a file, the line is right.
LinesJustified ==
  reader = "checking" =>
    /\ said = "fail" => found \in {"end", "error"}
    /\ said = "not ready" => found = "nothing" \/ (found = "end" /\ refused)
=============================================================================
