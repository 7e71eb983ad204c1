-------------------------------- MODULE Log --------------------------------
(***************************************************************************)
(* The redo log of kernel/log.c, with crashes: begin_op(), log_write(),    *)
(* end_op(), commit() block write by block write, and recover_from_log().  *)
(*                                                                         *)
(* Each critical section of log.lock is one step, and so is each write of  *)
(* a disk block.  The buffer cache is seen through pinned: a block that is *)
(* not pinned may be evicted at any time, so its contents are those on     *)
(* disk; cache holds the contents of the pinned ones.  A log or header     *)
(* block reaches the disk whole or not at all.                             *)
(***************************************************************************)
EXTENDS Integers, Sequences, FiniteSets

CONSTANTS
    Thread,       \* processes that make file system calls
    Block,        \* home blocks
    Val,          \* contents of a block
    MAXOPBLOCKS,  \* "max # of blocks any FS op writes" (param.h)
    LogBlocks     \* sb.nlog, the size of the on-disk log with its header

ASSUME LogAssumption ==
    /\ MAXOPBLOCKS \in Nat \ {0} /\ LogBlocks \in Nat \ {0}
    /\ IsFiniteSet(Thread) /\ IsFiniteSet(Block) /\ Val # {}

LOGSIZE == MAXOPBLOCKS * 3

VARIABLES
    home, logblk, hdr,        \* the disk: home blocks, log blocks, log header
    cache, pinned,            \* buffer cache
    lh, outstanding, committing,  \* struct log
    pc,                       \* where each thread is
    wrote,                    \* the blocks its operation has written
    tail,                     \* cursor of write_log() and install_trans()
    kernel                    \* "up", or the stage of recovery

disk == <<home, logblk, hdr>>
logVars == <<lh, outstanding, committing>>
vars == <<disk, cache, pinned, logVars, pc, wrote, tail, kernel>>

-----------------------------------------------------------------------------
\* What bread() returns for a home block.
View == [b \in Block |-> IF b \in pinned THEN cache[b] ELSE home[b]]

Logged == {lh[i] : i \in 1 .. Len(lh)}

\* The home blocks as recovery would leave them.
Recovered ==
    [b \in Block |->
        LET at == {i \in 1 .. Len(hdr) : hdr[i] = b} IN
        IF at = {} THEN home[b]
                   ELSE logblk[CHOOSE i \in at : \A j \in at : j <= i]]

\* A fresh file system, as mkfs leaves it, after initlog().
Init ==
    /\ home \in [Block -> Val]
    /\ logblk \in [1 .. LOGSIZE -> {CHOOSE v \in Val : TRUE}]
    /\ hdr = <<>>
    /\ cache = home
    /\ pinned = {}
    /\ lh = <<>> /\ outstanding = 0 /\ committing = FALSE
    /\ pc = [t \in Thread |-> "idle"]
    /\ wrote = [t \in Thread |-> {}]
    /\ tail = 1
    /\ kernel = "up"

At(t, l) == kernel = "up" /\ pc[t] = l
Goto(t, l) == pc' = [pc EXCEPT ![t] = l]

\* wakeup(&log), and t moves to l.
WakeAndGoto(t, l) ==
    pc' = [u \in Thread |-> IF u = t THEN l
                            ELSE IF pc[u] = "asleep" THEN "begin" ELSE pc[u]]

-----------------------------------------------------------------------------
(* begin_op(), log_write(), end_op().                                      *)

Call(t) ==
    /\ At(t, "idle")
    /\ Goto(t, "begin")
    /\ UNCHANGED <<disk, cache, pinned, logVars, wrote, tail, kernel>>

\* Mutant of NoSpace: the call that begins is not counted.
NoSpaceForOthers == Len(lh) + outstanding * MAXOPBLOCKS > LOGSIZE

NoSpace == Len(lh) + (outstanding + 1) * MAXOPBLOCKS > LOGSIZE

\* One turn of begin_op()'s loop; sleep(&log, &log.lock) gives up log.lock.
BeginOp(t) ==
    /\ At(t, "begin")
    /\ IF committing \/ NoSpace
         THEN Goto(t, "asleep") /\ UNCHANGED outstanding
         ELSE Goto(t, "op") /\ outstanding' = outstanding + 1
    /\ UNCHANGED <<disk, cache, pinned, lh, committing, wrote, tail, kernel>>

PinNew(b) == pinned' = pinned \cup {b}

\* log_write() panics: "too big a transaction".
LogFull == Len(lh) >= LOGSIZE \/ Len(lh) >= LogBlocks - 1

\* A file system call writes at most MAXOPBLOCKS different blocks.
MayWrite(t, b) == At(t, "op") /\ Cardinality(wrote[t] \cup {b}) <= MAXOPBLOCKS

\* The caller modifies the buffer of b and calls log_write(): b is appended
\* to the header, and pinned, unless it is already there (absorption).
LogWrite(t, b, v) ==
    /\ MayWrite(t, b)
    /\ ~ LogFull
    /\ cache' = [cache EXCEPT ![b] = v]
    /\ IF b \in Logged
         THEN UNCHANGED <<lh, pinned>>
         ELSE lh' = Append(lh, b) /\ PinNew(b)
    /\ wrote' = [wrote EXCEPT ![t] = @ \cup {b}]
    /\ UNCHANGED <<disk, outstanding, committing, pc, tail, kernel>>

\* end_op(): the last call commits; otherwise the space it had reserved is
\* given back and sleepers are woken.
EndOp(t) ==
    /\ At(t, "op")
    /\ outstanding' = outstanding - 1
    /\ wrote' = [wrote EXCEPT ![t] = {}]
    /\ IF outstanding = 1
         THEN committing' = TRUE /\ tail' = 1 /\ Goto(t, "write_log")
         ELSE UNCHANGED <<committing, tail>> /\ WakeAndGoto(t, "idle")
    /\ UNCHANGED <<disk, cache, pinned, lh, kernel>>

-----------------------------------------------------------------------------
(* commit().                                                               *)

\* write_log(): one block from the cache to the log.
WriteLog(t) ==
    /\ At(t, "write_log") /\ tail <= Len(lh)
    /\ logblk' = [logblk EXCEPT ![tail] = View[lh[tail]]]
    /\ tail' = tail + 1
    /\ UNCHANGED <<home, hdr, cache, pinned, logVars, pc, wrote, kernel>>

\* Mutant of CommitEmpty: the test of lh.n is lost.
CommitSkipped(t) ==
    /\ At(t, "write_log")
    /\ Goto(t, "done")
    /\ UNCHANGED <<disk, cache, pinned, logVars, wrote, tail, kernel>>

\* commit() has nothing to do when the header is empty.
CommitEmpty(t) ==
    /\ At(t, "write_log") /\ lh = <<>>
    /\ Goto(t, "done")
    /\ UNCHANGED <<disk, cache, pinned, logVars, wrote, tail, kernel>>

\* Mutant of WriteHead: the header is written before the last log block.
WriteHeadEarly(t) ==
    /\ At(t, "write_log") /\ tail = Len(lh) /\ lh # <<>>
    /\ hdr' = lh
    /\ UNCHANGED <<home, logblk, cache, pinned, logVars, pc, wrote, tail, kernel>>

\* write_head(): "the true point at which the current transaction commits".
WriteHead(t) ==
    /\ At(t, "write_log") /\ tail > Len(lh) /\ lh # <<>>
    /\ hdr' = lh
    /\ tail' = 1
    /\ Goto(t, "install")
    /\ UNCHANGED <<home, logblk, cache, pinned, logVars, wrote, kernel>>

\* install_trans(0): one block from the log to its home; its buffer gets the
\* same contents and is unpinned.
Install(t) ==
    /\ At(t, "install") /\ tail <= Len(lh)
    /\ home' = [home EXCEPT ![lh[tail]] = logblk[tail]]
    /\ cache' = [cache EXCEPT ![lh[tail]] = logblk[tail]]
    /\ pinned' = pinned \ {lh[tail]}
    /\ tail' = tail + 1
    /\ UNCHANGED <<logblk, hdr, logVars, pc, wrote, kernel>>

\* commit(): lh.n = 0 and write_head() erase the transaction.
EraseHead(t) ==
    /\ At(t, "install") /\ tail > Len(lh)
    /\ lh' = <<>>
    /\ hdr' = <<>>
    /\ tail' = 1
    /\ Goto(t, "done")
    /\ UNCHANGED <<home, logblk, cache, pinned, outstanding, committing, wrote,
                   kernel>>

\* end_op(): commit() is over; begin_op() may proceed.
EndCommit(t) ==
    /\ At(t, "done")
    /\ committing' = FALSE
    /\ WakeAndGoto(t, "idle")
    /\ UNCHANGED <<disk, cache, pinned, lh, outstanding, wrote, tail, kernel>>

-----------------------------------------------------------------------------
(* Crashes and recovery.                                                   *)

\* Power is lost: memory is gone.  The next boot enters recover_from_log().
Crash ==
    /\ cache' = home /\ pinned' = {}
    /\ lh' = <<>> /\ outstanding' = 0 /\ committing' = FALSE
    /\ pc' = [t \in Thread |-> "idle"]
    /\ wrote' = [t \in Thread |-> {}]
    /\ tail' = 1
    /\ kernel' = "read_head"
    /\ UNCHANGED disk

ReadHead ==
    /\ kernel = "read_head"
    /\ lh' = hdr
    /\ kernel' = "recover"
    /\ UNCHANGED <<disk, cache, pinned, outstanding, committing, pc, wrote, tail>>

\* install_trans(1).
RecoverInstall ==
    /\ kernel = "recover" /\ tail <= Len(lh)
    /\ home' = [home EXCEPT ![lh[tail]] = logblk[tail]]
    /\ cache' = [cache EXCEPT ![lh[tail]] = logblk[tail]]
    /\ tail' = tail + 1
    /\ UNCHANGED <<logblk, hdr, pinned, logVars, pc, wrote, kernel>>

\* recover_from_log(): lh.n = 0; write_head() clears the log.
RecoverErase ==
    /\ kernel = "recover" /\ tail > Len(lh)
    /\ lh' = <<>>
    /\ hdr' = <<>>
    /\ tail' = 1
    /\ kernel' = "up"
    /\ UNCHANGED <<home, logblk, cache, pinned, outstanding, committing, pc,
                   wrote>>

-----------------------------------------------------------------------------
OpStep(t) ==
    \/ Call(t) \/ BeginOp(t) \/ EndOp(t)
    \/ \E b \in Block, v \in Val : LogWrite(t, b, v)
CommitStep(t) ==
    \/ WriteLog(t) \/ CommitEmpty(t) \/ WriteHead(t) \/ Install(t)
    \/ EraseHead(t) \/ EndCommit(t)
RecoverStep == ReadHead \/ RecoverInstall \/ RecoverErase

Next ==
    \/ \E t \in Thread : OpStep(t) \/ CommitStep(t)
    \/ RecoverStep \/ Crash

Spec == Init /\ [][Next]_vars

-----------------------------------------------------------------------------
(* Properties.                                                             *)

TypeOK ==
    /\ home \in [Block -> Val]
    /\ logblk \in [1 .. LOGSIZE -> Val]
    /\ hdr \in Seq(Block) /\ Len(hdr) <= LOGSIZE
    /\ cache \in [Block -> Val] /\ pinned \subseteq Block
    /\ lh \in Seq(Block) /\ Len(lh) <= LOGSIZE
    /\ outstanding \in 0 .. Cardinality(Thread) /\ committing \in BOOLEAN
    /\ pc \in [Thread -> {"idle", "begin", "asleep", "op", "write_log",
                          "install", "done"}]
    /\ wrote \in [Thread -> SUBSET Block]
    /\ tail \in 1 .. LOGSIZE + 1
    /\ kernel \in {"up", "read_head", "recover"}

\* The log implements AtomicLog: whatever happens, and whenever the machine
\* crashes, in recovery too, the disk holds the state after some group of
\* complete calls; commit() happens in one step, at write_head().
Abs == INSTANCE AtomicLog WITH
    mem <- IF kernel = "up" THEN View ELSE Recovered,
    durable <- Recovered,
    active <- {t \in Thread : pc[t] = "op"}
Refinement == Abs!ASpec

\* Once the last end_op() has returned, everything is durable.
DurableWhenIdle ==
    kernel = "up" /\ outstanding = 0 /\ ~ committing => Recovered = View

\* begin_op() reserves enough: what is logged and what the calls in progress
\* may still write, a unit for each block, fit in LOGSIZE header entries, so
\* log_write()'s first test never fires.
Reserved ==
    {u \in Thread \X (1 .. MAXOPBLOCKS) :
        pc[u[1]] = "op" /\ u[2] <= MAXOPBLOCKS - Cardinality(wrote[u[1]])}
SpaceReserved == TypeOK /\ Len(lh) + Cardinality(Reserved) <= LOGSIZE

\* A thread asleep in begin_op() will be woken: a call is in progress, or a
\* commit is.
SleeperHasWaker ==
    \A t \in Thread : pc[t] = "asleep" => outstanding > 0 \/ committing

\* begin_op() admits no more calls than the log has room for, and who sleeps
\* in it will be woken by a call in progress or a commit.
BeginOpSound == SpaceReserved /\ SleeperHasWaker

\* "this op might exhaust log space; wait for commit." (log.c, begin_op()):
\* a call that writes no more than MAXOPBLOCKS blocks does not run out of log
\* space.
NoLogPanic == \A t \in Thread, b \in Block : MayWrite(t, b) => ~ LogFull

=============================================================================
