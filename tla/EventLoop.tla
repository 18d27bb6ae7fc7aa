----------------------------- MODULE EventLoop ------------------------------
(***************************************************************************)
(* event_loop.c: one thread that polls standard input and a periodic       *)
(* timer, and looks at a growing file whenever the timer has expired.  A   *)
(* step is one system call.  Bytes are counted, not kept.                  *)
(***************************************************************************)
EXTENDS Integers

CONSTANTS Chunk,      \* bytes one read returns at most, the size of buf
          MaxBytes    \* bound: bytes typed, and bytes written to the file

ChunkAssumption == Chunk \in Nat \ {0} /\ MaxBytes \in Nat

VARIABLES typed, consumed,  \* bytes typed and read
          eof,              \* standard input is at its end
          size, offset,     \* the file and how far it was read
          expired,          \* the timer has expired since it was read
          pc, revents       \* the loop: location, answer of poll

vars == <<typed, consumed, eof, size, offset, expired, pc, revents>>

TypeOK == /\ typed \in 0 .. MaxBytes /\ consumed \in 0 .. typed /\ eof \in BOOLEAN
          /\ size \in 0 .. MaxBytes /\ offset \in 0 .. size /\ expired \in BOOLEAN
          /\ pc \in {"poll", "stdin", "timer", "file", "end"} /\ revents \subseteq {"stdin", "timer"}

Init == /\ typed = 0 /\ consumed = 0 /\ eof = FALSE /\ size = 0 /\ offset = 0
        /\ expired = FALSE /\ pc = "poll" /\ revents = {}

\* What poll finds ready: input or its end, and an expired timer.
Ready == {f \in {"stdin", "timer"} :
            IF f = "stdin" THEN typed > consumed \/ eof ELSE expired}

Upto(have, all) == IF all - have > Chunk THEN have + Chunk ELSE all

Poll == /\ pc = "poll" /\ Ready # {} /\ revents' = Ready /\ pc' = "stdin"
        /\ UNCHANGED <<typed, consumed, eof, size, offset, expired>>
\* poll fails, when a signal interrupts it for one, and the loop is left.
PollFails == /\ pc = "poll" /\ pc' = "end"
             /\ UNCHANGED <<typed, consumed, eof, size, offset, expired, revents>>
CheckStdin == /\ pc = "stdin" /\ pc' = "timer"
              /\ consumed' = IF "stdin" \in revents THEN Upto(consumed, typed) ELSE consumed
              /\ UNCHANGED <<typed, eof, size, offset, expired, revents>>
CheckTimer == /\ pc = "timer"
              /\ \/ "timer" \in revents /\ expired' = FALSE /\ pc' = "file"
                 \/ "timer" \notin revents /\ pc' = "poll" /\ UNCHANGED expired
              /\ UNCHANGED <<typed, consumed, eof, size, offset, revents>>
ReadFile == /\ pc = "file" /\ pc' = "poll" /\ offset' = Upto(offset, size)
            /\ UNCHANGED <<typed, consumed, eof, size, expired, revents>>
Loop == Poll \/ CheckStdin \/ CheckTimer \/ ReadFile

\* The user, the kernel's timer and the program that writes the file.
Type == /\ typed < MaxBytes /\ ~eof /\ typed' = typed + 1
        /\ UNCHANGED <<consumed, eof, size, offset, expired, pc, revents>>
CloseInput == /\ eof' = TRUE
              /\ UNCHANGED <<typed, consumed, size, offset, expired, pc, revents>>
Tick == /\ expired' = TRUE
        /\ UNCHANGED <<typed, consumed, eof, size, offset, pc, revents>>
Grow == /\ size < MaxBytes /\ size' = size + 1
        /\ UNCHANGED <<typed, consumed, eof, offset, expired, pc, revents>>

Inputs == Type \/ CloseInput \/ Grow
Next == Loop \/ PollFails \/ Inputs \/ Tick
Spec == Init /\ [][Next]_vars
-----------------------------------------------------------------------------
\* "monitors two different inputs at the same time without using any threads and
\* whitout "blocking."": when the loop reads standard input or the timer, there
\* is something to read, so that neither read keeps it from the other input.
NeverBlocks == /\ pc = "stdin" /\ "stdin" \in revents => typed > consumed \/ eof
               /\ pc \in {"stdin", "timer"} /\ "timer" \in revents => expired

\* Everything typed and everything written to the file has been read.
AllRead == consumed = typed /\ offset = size
=============================================================================
