------------------------------ MODULE Console -------------------------------
(***************************************************************************)
(* Console input of kernel/console.c: consoleintr() puts typed characters  *)
(* in a ring and edits the line that is not complete, consoleread() takes  *)
(* complete lines out.  cons.r, cons.w and cons.e are unsigned integers of *)
(* UintBits bits and wrap around.                                          *)
(***************************************************************************)
EXTENDS Counters

CONSTANTS
    Reader,          \* processes that read the console
    Plain,           \* characters without a meaning of their own
    Newline, Eof,    \* '\n' and control-D
    INPUT_BUF_SIZE,
    MaxCount         \* the largest n of a read()

InChar == Plain \cup {Newline, Eof}

At(k) == k % INPUT_BUF_SIZE

ASSUME ConsoleAssumption ==
    /\ WrapsEvenly(INPUT_BUF_SIZE)
    /\ Nobody \notin Reader /\ Newline # Eof /\ MaxCount \in Nat

VARIABLES
    cons_buf, cons_r, cons_w, cons_e, cons_lock,    \* struct cons
    cons_pc,                   \* per process: where it is,
    cons_n, cons_target,       \* locals of consoleread()
    cons_killed

consIndices == <<cons_r, cons_w, cons_e>>
consVars == <<cons_buf, consIndices, cons_lock, cons_pc, cons_n, cons_target,
              cons_killed>>

ConsInit ==
    /\ cons_buf = [k \in 0 .. INPUT_BUF_SIZE - 1 |-> Newline]
    /\ cons_r = 0 /\ cons_w = 0 /\ cons_e = 0
    /\ cons_lock = Nobody
    /\ cons_pc = [t \in Reader |-> "user"]
    /\ cons_n = [t \in Reader |-> 0] /\ cons_target = [t \in Reader |-> 0]
    /\ cons_killed = [t \in Reader |-> FALSE]

-----------------------------------------------------------------------------
(* consoleintr(), which takes cons.lock and gives it back.                 *)

Quiet == UNCHANGED <<cons_lock, cons_n, cons_target, cons_killed>>

\* Mutant of EndsLine: a full buffer is not passed on.
EndsLineOnly(c) == c \in {Newline, Eof}

\* A line or end-of-file has arrived, or the buffer is full.
EndsLine(c) == c \in {Newline, Eof} \/ Minus(Plus(cons_e, 1), cons_r) = INPUT_BUF_SIZE

Wakeup == [t \in Reader |-> IF cons_pc[t] = "asleep" THEN "acquire" ELSE cons_pc[t]]

\* Mutant of IntrChar: the character before is overwritten.
IntrCharBack(c) ==
    /\ cons_lock = Nobody
    /\ Minus(cons_e, cons_r) < INPUT_BUF_SIZE
    /\ cons_buf' = [cons_buf EXCEPT ![At(Minus(cons_e, 1))] = c]
    /\ cons_e' = Plus(cons_e, 1)
    /\ IF EndsLine(c)
         THEN cons_w' = cons_e' /\ cons_pc' = Wakeup
         ELSE UNCHANGED <<cons_w, cons_pc>>
    /\ UNCHANGED cons_r /\ Quiet

\* An ordinary character, echoed and stored; dropped when the buffer is full.
IntrChar(c) ==
    /\ cons_lock = Nobody
    /\ Minus(cons_e, cons_r) < INPUT_BUF_SIZE
    /\ cons_buf' = [cons_buf EXCEPT ![At(cons_e)] = c]
    /\ cons_e' = Plus(cons_e, 1)
    /\ IF EndsLine(c)
         THEN cons_w' = cons_e' /\ cons_pc' = Wakeup
         ELSE UNCHANGED <<cons_w, cons_pc>>
    /\ UNCHANGED cons_r /\ Quiet

\* Control-H or delete.
IntrBackspace ==
    /\ cons_lock = Nobody /\ cons_e # cons_w
    /\ cons_e' = Minus(cons_e, 1)
    /\ UNCHANGED <<cons_buf, cons_r, cons_w, cons_pc>> /\ Quiet

\* Control-U: back to the beginning of the line.
IntrKillLine ==
    /\ cons_lock = Nobody /\ cons_e # cons_w
    /\ LET Kept == {d \in 0 .. Minus(cons_e, cons_w) :
                        d = 0 \/ cons_buf[At(Plus(cons_w, d - 1))] = Newline}
       IN cons_e' = Plus(cons_w, CHOOSE d \in Kept : \A f \in Kept : f <= d)
    /\ UNCHANGED <<cons_buf, cons_r, cons_w, cons_pc>> /\ Quiet

-----------------------------------------------------------------------------
(* consoleread().                                                          *)

ConsHolds(t, l) == cons_lock = t /\ cons_pc[t] = l
ConsGoto(t, l) == cons_pc' = [cons_pc EXCEPT ![t] = l]

ConsCall(t) ==
    /\ cons_pc[t] = "user" /\ ~ cons_killed[t]
    /\ \E k \in 0 .. MaxCount : /\ cons_n' = [cons_n EXCEPT ![t] = k]
                                /\ cons_target' = [cons_target EXCEPT ![t] = k]
    /\ ConsGoto(t, "acquire")
    /\ UNCHANGED <<cons_buf, consIndices, cons_lock, cons_killed>>

ConsAcquire(t) ==
    /\ cons_pc[t] = "acquire" /\ cons_lock = Nobody
    /\ cons_lock' = t
    /\ ConsGoto(t, "loop")
    /\ UNCHANGED <<cons_buf, consIndices, cons_n, cons_target, cons_killed>>

ConsReturn(t) ==
    /\ cons_lock' = Nobody
    /\ ConsGoto(t, "user")
    /\ cons_n' = [cons_n EXCEPT ![t] = 0]
    /\ cons_target' = [cons_target EXCEPT ![t] = 0]
    /\ UNCHANGED <<cons_buf, cons_w, cons_e, cons_killed>>

\* n bytes have been read.
ConsReadDone(t) ==
    ConsHolds(t, "loop") /\ cons_n[t] = 0 /\ ConsReturn(t) /\ UNCHANGED cons_r

Nothing == cons_r = cons_w

ConsReadKilled(t) ==
    /\ ConsHolds(t, "loop") /\ cons_n[t] > 0 /\ Nothing /\ cons_killed[t]
    /\ ConsReturn(t) /\ UNCHANGED cons_r

ConsReadCheck(t) ==
    /\ ConsHolds(t, "loop") /\ cons_n[t] > 0 /\ Nothing /\ ~ cons_killed[t]
    /\ ConsGoto(t, "sleep")
    /\ UNCHANGED <<cons_buf, consIndices, cons_lock, cons_n, cons_target, cons_killed>>

\* sleep(&cons.r, &cons.lock).
ConsReadSleep(t) ==
    /\ ConsHolds(t, "sleep")
    /\ cons_lock' = Nobody
    /\ ConsGoto(t, "asleep")
    /\ UNCHANGED <<cons_buf, consIndices, cons_n, cons_target, cons_killed>>

ConsReady(t) == ConsHolds(t, "loop") /\ cons_n[t] > 0 /\ ~ Nothing

\* End-of-file; it is kept for the next read() when this one has bytes.
ConsReadEof(t) ==
    /\ ConsReady(t) /\ cons_buf[At(cons_r)] = Eof
    /\ cons_r' = IF cons_n[t] < cons_target[t] THEN cons_r ELSE Plus(cons_r, 1)
    /\ ConsReturn(t)

\* A character that does not end the line is copied out.
ConsReadChar(t) ==
    /\ ConsReady(t) /\ cons_buf[At(cons_r)] \notin {Newline, Eof}
    /\ cons_r' = Plus(cons_r, 1)
    /\ cons_n' = [cons_n EXCEPT ![t] = @ - 1]
    /\ UNCHANGED <<cons_buf, cons_w, cons_e, cons_lock, cons_pc, cons_target,
                   cons_killed>>

\* A newline ends the read(), and so does a copyout() that fails.
ConsReadLast(t) ==
    /\ ConsReady(t) /\ cons_buf[At(cons_r)] # Eof
    /\ cons_r' = Plus(cons_r, 1)
    /\ ConsReturn(t)

ConsKill(t) ==
    /\ ~ cons_killed[t]
    /\ cons_killed' = [cons_killed EXCEPT ![t] = TRUE]
    /\ IF cons_pc[t] = "asleep" THEN ConsGoto(t, "acquire") ELSE UNCHANGED cons_pc
    /\ UNCHANGED <<cons_buf, consIndices, cons_lock, cons_n, cons_target>>

\* A killed process exits in user space; another takes its place.
ConsExit(t) ==
    /\ cons_pc[t] = "user" /\ cons_killed[t]
    /\ cons_killed' = [cons_killed EXCEPT ![t] = FALSE]
    /\ UNCHANGED <<cons_buf, consIndices, cons_lock, cons_pc, cons_n, cons_target>>

-----------------------------------------------------------------------------
ConsReadStep(t) ==
    \/ ConsAcquire(t) \/ ConsReadDone(t) \/ ConsReadKilled(t) \/ ConsReadCheck(t)
    \/ ConsReadSleep(t) \/ ConsReadEof(t) \/ ConsReadChar(t) \/ ConsReadLast(t)

ConsNext ==
    \/ \E c \in InChar : IntrChar(c)
    \/ IntrBackspace \/ IntrKillLine
    \/ \E t \in Reader : ConsCall(t) \/ ConsReadStep(t) \/ ConsKill(t) \/ ConsExit(t)

ConsSpec == ConsInit /\ [][ConsNext]_consVars

-----------------------------------------------------------------------------
(* Properties.                                                             *)

ConsTypeOK ==
    /\ cons_buf \in [0 .. INPUT_BUF_SIZE - 1 -> InChar]
    /\ cons_r \in Uint /\ cons_w \in Uint /\ cons_e \in Uint
    /\ cons_lock \in Reader \cup {Nobody}
    /\ cons_pc \in [Reader -> {"user", "acquire", "loop", "sleep", "asleep"}]
    /\ cons_n \in [Reader -> 0 .. MaxCount]
    /\ cons_target \in [Reader -> 0 .. MaxCount]
    /\ cons_killed \in [Reader -> BOOLEAN]

\* The three indices keep their order around the ring: what was read, what is
\* complete, what is being edited, and no more than the buffer holds.  A full
\* buffer holds something to read: otherwise no character could come in any
\* more and no reader would ever be woken.
RingInOrder ==
    /\ ConsTypeOK
    /\ Minus(cons_e, cons_r) <= INPUT_BUF_SIZE
    /\ Minus(cons_w, cons_r) + Minus(cons_e, cons_w) = Minus(cons_e, cons_r)
    /\ Minus(cons_e, cons_r) = INPUT_BUF_SIZE => cons_w = cons_e

\* Editing does not reach into complete lines: what consoleread() could see
\* and has not read stays as it was.
CompleteKept ==
    [][\A d \in 0 .. Minus(cons_w, cons_r') - 1 :
            cons_buf'[At(Plus(cons_r', d))] = cons_buf[At(Plus(cons_r', d))]]_consVars

\* A reader sleeps only when there is nothing to read, also when another one
\* has put end-of-file back.
ReaderJustified ==
    cons_lock = Nobody => \A t \in Reader : cons_pc[t] = "asleep" => Nothing

InputRing == RingInOrder /\ ReaderJustified

=============================================================================
