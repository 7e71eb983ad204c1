-------------------------------- MODULE Pipe --------------------------------
(***************************************************************************)
(* kernel/pipe.c: one pipe, the processes that hold its ends, and pi->lock *)
(* taken and given back around sleep().  Every turn of a loop is a step;   *)
(* kill() comes between any two of them.  nread and nwrite are unsigned    *)
(* integers of UintBits bits and wrap around.                              *)
(***************************************************************************)
EXTENDS Counters, Sequences

CONSTANTS
    Writers, Readers,  \* processes that hold a write end, a read end
    Killable,          \* processes that kill() is called on
    Byte,
    PIPESIZE,
    Counts             \* the n of a read() or write()

Thread == Writers \cup Readers

ASSUME PipeAssumption ==
    /\ WrapsEvenly(PIPESIZE)
    /\ Nobody \notin Thread /\ Writers \cap Readers = {}
    /\ Byte # {} /\ Counts \subseteq Nat

VARIABLES
    data, nread, nwrite, readopen, writeopen, pi_lock,   \* struct pipe
    freed,           \* pipeclose() has called kfree()
    holds,           \* the processes that have not closed their end
    pipe_pc,         \* per process: where it is,
    pipe_i, pipe_n,  \* locals of piperead(), pipewrite()
    pipe_killed,     \* p->killed
    pipe_out         \* the last byte copied out to a reader

pipeRing == <<data, nread, nwrite>>
pipeEnds == <<readopen, writeopen, freed, holds>>
pipeLocals == <<pipe_pc, pipe_i, pipe_n, pipe_killed>>
pipeVars == <<pipeRing, pipeEnds, pi_lock, pipeLocals, pipe_out>>

PipeFull == nwrite = (nread + PIPESIZE) % 2 ^ UintBits
PipeEmpty == nread = nwrite

PipeInit ==
    /\ data \in [0 .. PIPESIZE - 1 -> {CHOOSE b \in Byte : TRUE}]
    /\ nread = 0 /\ nwrite = 0
    /\ readopen = TRUE /\ writeopen = TRUE /\ freed = FALSE
    /\ pi_lock = Nobody
    /\ holds = Thread
    /\ pipe_pc = [t \in Thread |-> "user"]
    /\ pipe_i = [t \in Thread |-> 0] /\ pipe_n = [t \in Thread |-> 0]
    /\ pipe_killed = [t \in Thread |-> FALSE]
    /\ pipe_out = CHOOSE b \in Byte : TRUE

PipeHolds(t, l) == pi_lock = t /\ pipe_pc[t] = l
PipeGoto(t, l) == pipe_pc' = [pipe_pc EXCEPT ![t] = l]

\* t moves to l; wakeup() of the processes in S that sleep.
WakeGoto(S, t, l) ==
    pipe_pc' = [u \in Thread |-> IF u = t THEN l
                                 ELSE IF u \in S /\ pipe_pc[u] = "asleep" THEN "acquire"
                                 ELSE pipe_pc[u]]

-----------------------------------------------------------------------------
(* pipewrite() and piperead().                                             *)

PipeCall(t) ==
    /\ pipe_pc[t] = "user" /\ t \in holds /\ ~ pipe_killed[t]
    /\ \E k \in Counts : pipe_n' = [pipe_n EXCEPT ![t] = k]
    /\ PipeGoto(t, "acquire")
    /\ UNCHANGED <<pipeRing, pipeEnds, pi_lock, pipe_i, pipe_killed, pipe_out>>

\* acquire(&pi->lock), first or at the end of sleep().
PipeAcquire(t) ==
    /\ pipe_pc[t] = "acquire" /\ pi_lock = Nobody
    /\ pi_lock' = t
    /\ PipeGoto(t, "loop")
    /\ UNCHANGED <<pipeRing, pipeEnds, pipe_i, pipe_n, pipe_killed, pipe_out>>

\* release(&pi->lock) and return, waking the processes of S.
ReturnWaking(t, S) ==
    /\ pi_lock' = Nobody
    /\ WakeGoto(S, t, "user")
    /\ pipe_i' = [pipe_i EXCEPT ![t] = 0] /\ pipe_n' = [pipe_n EXCEPT ![t] = 0]
    /\ UNCHANGED <<pipeEnds, pipe_killed>>

\* sleep(), after wakeup() of the processes of S.
PipeSleep(t, S) ==
    /\ pi_lock' = Nobody
    /\ WakeGoto(S, t, "asleep")
    /\ UNCHANGED <<pipeRing, pipeEnds, pipe_i, pipe_n, pipe_killed, pipe_out>>

\* Everything is written.
WriteDone(t) ==
    /\ PipeHolds(t, "loop") /\ t \in Writers /\ ~ pipe_i[t] < pipe_n[t]
    /\ ReturnWaking(t, Readers)
    /\ UNCHANGED <<pipeRing, pipe_out>>

\* No reader is left, or the writer was killed: -1, and no wakeup().
WriteFail(t) ==
    /\ PipeHolds(t, "loop") /\ t \in Writers /\ pipe_i[t] < pipe_n[t]
    /\ ~ readopen \/ pipe_killed[t]
    /\ ReturnWaking(t, {})
    /\ UNCHANGED <<pipeRing, pipe_out>>

WriteCheck(t) ==
    /\ PipeHolds(t, "loop") /\ t \in Writers /\ pipe_i[t] < pipe_n[t]
    /\ readopen /\ ~ pipe_killed[t]
    /\ PipeGoto(t, "body")
    /\ UNCHANGED <<pipeRing, pipeEnds, pi_lock, pipe_i, pipe_n, pipe_killed, pipe_out>>

WriteSleep(t) ==
    /\ PipeHolds(t, "body") /\ t \in Writers /\ PipeFull
    /\ PipeSleep(t, Readers)

\* copyin() of one byte.
WriteByte(t, b) ==
    /\ PipeHolds(t, "body") /\ t \in Writers /\ ~ PipeFull
    /\ data' = [data EXCEPT ![nwrite % PIPESIZE] = b]
    /\ nwrite' = Inc(nwrite)
    /\ pipe_i' = [pipe_i EXCEPT ![t] = @ + 1]
    /\ PipeGoto(t, "loop")
    /\ UNCHANGED <<nread, pipeEnds, pi_lock, pipe_n, pipe_killed, pipe_out>>

\* copyin() fails.
WriteFault(t) ==
    /\ PipeHolds(t, "body") /\ t \in Writers /\ ~ PipeFull
    /\ ReturnWaking(t, Readers)
    /\ UNCHANGED <<pipeRing, pipe_out>>

\* The reader's first loop: nothing to read, and a writer is left.
ReadCheck(t) ==
    /\ PipeHolds(t, "loop") /\ t \in Readers
    /\ PipeEmpty /\ writeopen /\ ~ pipe_killed[t]
    /\ PipeGoto(t, "body")
    /\ UNCHANGED <<pipeRing, pipeEnds, pi_lock, pipe_i, pipe_n, pipe_killed, pipe_out>>

ReadKilled(t) ==
    /\ PipeHolds(t, "loop") /\ t \in Readers
    /\ PipeEmpty /\ writeopen /\ pipe_killed[t]
    /\ ReturnWaking(t, {})
    /\ UNCHANGED <<pipeRing, pipe_out>>

ReadSleep(t) ==
    /\ PipeHolds(t, "body") /\ t \in Readers
    /\ PipeSleep(t, {})

ReadReady(t) ==
    /\ PipeHolds(t, "loop") /\ t \in Readers /\ ~ (PipeEmpty /\ writeopen)
    /\ PipeGoto(t, "copy")
    /\ UNCHANGED <<pipeRing, pipeEnds, pi_lock, pipe_i, pipe_n, pipe_killed, pipe_out>>

\* Mutant of ReadByte: the counter moves on before the byte is read.
ReadByteNext(t) ==
    /\ PipeHolds(t, "copy") /\ t \in Readers /\ pipe_i[t] < pipe_n[t] /\ ~ PipeEmpty
    /\ pipe_out' = data[Inc(nread) % PIPESIZE]
    /\ nread' = Inc(nread)
    /\ pipe_i' = [pipe_i EXCEPT ![t] = @ + 1]
    /\ UNCHANGED <<data, nwrite, pipeEnds, pi_lock, pipe_pc, pipe_n, pipe_killed>>

\* One byte out of the pipe; copyout() succeeds.
ReadByte(t) ==
    /\ PipeHolds(t, "copy") /\ t \in Readers /\ pipe_i[t] < pipe_n[t] /\ ~ PipeEmpty
    /\ pipe_out' = data[nread % PIPESIZE]
    /\ nread' = Inc(nread)
    /\ pipe_i' = [pipe_i EXCEPT ![t] = @ + 1]
    /\ UNCHANGED <<data, nwrite, pipeEnds, pi_lock, pipe_pc, pipe_n, pipe_killed>>

\* copyout() fails: the byte has left the pipe and is not counted.
ReadFault(t) ==
    /\ PipeHolds(t, "copy") /\ t \in Readers /\ pipe_i[t] < pipe_n[t] /\ ~ PipeEmpty
    /\ pipe_out' = data[nread % PIPESIZE]
    /\ nread' = Inc(nread)
    /\ ReturnWaking(t, Writers)
    /\ UNCHANGED <<data, nwrite>>

ReadDone(t) ==
    /\ PipeHolds(t, "copy") /\ t \in Readers /\ (~ pipe_i[t] < pipe_n[t] \/ PipeEmpty)
    /\ ReturnWaking(t, Writers)
    /\ UNCHANGED <<pipeRing, pipe_out>>

-----------------------------------------------------------------------------
(* close(), kill() and a new pipe.                                         *)

\* Mutant of BothClosed: one closed end is enough.
EitherClosed(r, w) == ~ r \/ ~ w

BothClosed(r, w) == ~ r /\ ~ w

\* fileclose() of t's end; the last reference calls pipeclose().
PipeClose(t) ==
    /\ pipe_pc[t] = "user" /\ t \in holds /\ pi_lock = Nobody
    /\ holds' = holds \ {t}
    /\ readopen' = (readopen /\ holds' \cap Readers # {})
    /\ writeopen' = (writeopen /\ holds' \cap Writers # {})
    /\ IF readopen' # readopen THEN WakeGoto(Writers, t, "user")
       ELSE IF writeopen' # writeopen THEN WakeGoto(Readers, t, "user")
       ELSE UNCHANGED pipe_pc
    /\ freed' = BothClosed(readopen', writeopen')
    /\ UNCHANGED <<pipeRing, pi_lock, pipe_i, pipe_n, pipe_killed, pipe_out>>

PipeKill(t) ==
    /\ t \in Killable \cap holds /\ ~ pipe_killed[t]
    /\ pipe_killed' = [pipe_killed EXCEPT ![t] = TRUE]
    /\ IF pipe_pc[t] = "asleep" THEN PipeGoto(t, "acquire") ELSE UNCHANGED pipe_pc
    /\ UNCHANGED <<pipeRing, pipeEnds, pi_lock, pipe_i, pipe_n, pipe_out>>

\* pipealloc() takes the freed page for a new pipe, whose ends other
\* processes share.
PipeAlloc ==
    /\ freed
    /\ nread' = 0 /\ nwrite' = 0
    /\ readopen' = TRUE /\ writeopen' = TRUE /\ freed' = FALSE
    /\ holds' = Thread
    /\ pipe_killed' = [t \in Thread |-> FALSE]
    /\ UNCHANGED <<data, pi_lock, pipe_pc, pipe_i, pipe_n, pipe_out>>

-----------------------------------------------------------------------------
WriteStep(t) ==
    \/ WriteDone(t) \/ WriteFail(t) \/ WriteCheck(t) \/ WriteSleep(t)
    \/ WriteFault(t) \/ \E b \in Byte : WriteByte(t, b)
ReadStep(t) ==
    \/ ReadCheck(t) \/ ReadKilled(t) \/ ReadSleep(t) \/ ReadReady(t)
    \/ ReadByte(t) \/ ReadFault(t) \/ ReadDone(t)

PipeNext ==
    \/ \E t \in Thread : \/ PipeCall(t) \/ PipeAcquire(t) \/ WriteStep(t)
                         \/ ReadStep(t) \/ PipeClose(t) \/ PipeKill(t)
    \/ PipeAlloc

PipeSpec == PipeInit /\ [][PipeNext]_pipeVars

-----------------------------------------------------------------------------
(* Properties.                                                             *)

PipeTypeOK ==
    /\ data \in [0 .. PIPESIZE - 1 -> Byte]
    /\ nread \in Uint /\ nwrite \in Uint
    /\ readopen \in BOOLEAN /\ writeopen \in BOOLEAN /\ freed \in BOOLEAN
    /\ pi_lock \in Thread \cup {Nobody}
    /\ holds \subseteq Thread
    /\ pipe_pc \in [Thread -> {"user", "acquire", "loop", "body", "copy", "asleep"}]
    /\ pipe_n \in [Thread -> Counts \cup {0}]
    /\ \A t \in Thread : pipe_i[t] \in 0 .. pipe_n[t]
    /\ pipe_killed \in [Thread -> BOOLEAN]
    /\ pipe_out \in Byte

\* The pipe is a queue of at most PIPESIZE bytes, also when nread and nwrite
\* have wrapped around: no byte is lost, repeated or overtaken until
\* pipeclose() frees the page.
Used == (nwrite - nread) % 2 ^ UintBits
PipeQueue == [k \in 1 .. Used |-> data[(nread + k - 1) % PIPESIZE]]
PipeAbs == INSTANCE Fifo WITH
    Capacity <- PIPESIZE, queue <- PipeQueue, out <- pipe_out, freed <- freed
PipeFifo == PipeAbs!FSpec

\* Nobody is inside piperead() or pipewrite() when the page of the pipe has
\* been given back to kalloc().
InsideNotFreed ==
    PipeTypeOK /\ \A t \in Thread : pipe_pc[t] # "user" => ~ freed /\ t \in holds

\* When pi->lock is free, who sleeps has a reason to: a reader has nothing to
\* read and a writer that may come, so that it cannot miss the end of file; a
\* writer has no space and a reader.  Otherwise a wakeup() was lost.  One is: a
\* writer killed between two bytes returns without wakeup(&pi->nread), and the
\* readers do not know of what it wrote until the next one.
SleepJustifiedUnlessKilled ==
    pi_lock = Nobody =>
        /\ \A t \in Readers : pipe_pc[t] = "asleep" =>
               /\ writeopen
               /\ PipeEmpty \/ \E w \in Writers : pipe_killed[w]
        /\ \A t \in Writers : pipe_pc[t] = "asleep" => PipeFull /\ readopen

PipeSleepers == InsideNotFreed /\ SleepJustifiedUnlessKilled

=============================================================================
