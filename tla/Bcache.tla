------------------------------- MODULE Bcache -------------------------------
(***************************************************************************)
(* The buffer cache of kernel/bio.c over the sleep locks of                *)
(* kernel/sleeplock.c: bget(), bread(), bwrite(), brelse(), bpin() and     *)
(* bunpin(), by several processes.  Each critical section of bcache.lock   *)
(* or of a sleep lock's spinlock is a step, and so is each disk transfer.  *)
(*                                                                         *)
(* The callers are those of log.c: a process reads a block, or changes it  *)
(* and leaves it pinned for the log (bpin()), or writes it to the disk and *)
(* unpins it.  A process that has two buffers at a time, as in write_log() *)
(* and bmap(), counts as two.                                              *)
(***************************************************************************)
EXTENDS Integers, FiniteSets

CONSTANTS Process, Blockno, Data, NBUF,
          NoBlock,  \* the blockno of a buffer never used
          Nobody,   \* a sleep lock is free
          MaxPinned \* blocks the log keeps pinned at a time

ASSUME BcacheAssumption ==
    /\ NBUF \in Nat \ {0} /\ MaxPinned \in Nat
    /\ IsFiniteSet(Process) /\ Nobody \notin Process
    /\ NoBlock \notin Blockno /\ Data # {}

Buf == 1 .. NBUF

VARIABLES
    blockno, valid, refcnt, data,  \* struct buf
    locked,    \* holder of the buffer's sleep lock
    list,      \* bcache.head: most recently used first
    ondisk,    \* the blocks on disk
    bpc, b,    \* per process: where it is, and its buffer
    want,      \* per process: the block it asked for
    pins,      \* the blocks pinned for the log
    latest     \* what was last stored in each block

bufs == <<blockno, valid, refcnt, data, list>>
cacheVars == <<bufs, locked, ondisk, bpc, b, want, pins, latest>>

CacheInit ==
    /\ blockno = [k \in Buf |-> NoBlock]
    /\ valid = [k \in Buf |-> FALSE]
    /\ refcnt = [k \in Buf |-> 0]
    /\ data = [k \in Buf |-> CHOOSE v \in Data : TRUE]
    /\ locked = [k \in Buf |-> Nobody]
    /\ list = [k \in Buf |-> NBUF + 1 - k]
    /\ ondisk \in [Blockno -> Data]
    /\ bpc = [t \in Process |-> "idle"]
    /\ b = [t \in Process |-> 1]
    /\ want = [t \in Process |-> NoBlock]
    /\ pins = {}
    /\ latest = ondisk

CacheGoto(t, l) == bpc' = [bpc EXCEPT ![t] = l]

-----------------------------------------------------------------------------
(* bget() and bread().                                                     *)

Cached(n) == {k \in Buf : blockno[k] = n}

Unused == {k \in Buf : refcnt[k] = 0}

\* The first unused buffer from the end of the list.
LRU == list[CHOOSE i \in Buf : /\ list[i] \in Unused
                               /\ \A j \in i + 1 .. NBUF : list[j] \notin Unused]

BreadCall(t, n) ==
    /\ bpc[t] = "idle"
    /\ want' = [want EXCEPT ![t] = n]
    /\ CacheGoto(t, "bget")
    /\ UNCHANGED <<bufs, locked, ondisk, b, pins, latest>>

\* bget(): the block is cached.
BgetHit(t) ==
    /\ bpc[t] = "bget"
    /\ \E k \in Cached(want[t]) :
        /\ refcnt' = [refcnt EXCEPT ![k] = @ + 1]
        /\ b' = [b EXCEPT ![t] = k]
    /\ CacheGoto(t, "lock")
    /\ UNCHANGED <<blockno, valid, data, list, locked, ondisk, want, pins, latest>>

\* Mutant of BgetMiss: the valid bit of the old block is kept.
BgetMissValid(t) ==
    /\ bpc[t] = "bget" /\ Cached(want[t]) = {} /\ Unused # {}
    /\ blockno' = [blockno EXCEPT ![LRU] = want[t]]
    /\ refcnt' = [refcnt EXCEPT ![LRU] = 1]
    /\ b' = [b EXCEPT ![t] = LRU]
    /\ CacheGoto(t, "lock")
    /\ UNCHANGED <<valid, data, list, locked, ondisk, want, pins, latest>>

\* bget(): the least recently used unused buffer is recycled.  When there is
\* none, panic("bget: no buffers") ends the kernel: no step follows.
BgetMiss(t) ==
    /\ bpc[t] = "bget" /\ Cached(want[t]) = {} /\ Unused # {}
    /\ blockno' = [blockno EXCEPT ![LRU] = want[t]]
    /\ valid' = [valid EXCEPT ![LRU] = FALSE]
    /\ refcnt' = [refcnt EXCEPT ![LRU] = 1]
    /\ b' = [b EXCEPT ![t] = LRU]
    /\ CacheGoto(t, "lock")
    /\ UNCHANGED <<data, list, locked, ondisk, want, pins, latest>>

\* acquiresleep(): take the lock, or sleep on it.
AcquireSleep(t) ==
    /\ bpc[t] = "lock"
    /\ IF locked[b[t]] = Nobody
         THEN locked' = [locked EXCEPT ![b[t]] = t] /\ CacheGoto(t, "read")
         ELSE UNCHANGED locked /\ CacheGoto(t, "asleep")
    /\ UNCHANGED <<bufs, ondisk, b, want, pins, latest>>

\* kill() makes a process that sleeps in acquiresleep() runnable: it looks again.
KillWake(t) ==
    /\ bpc[t] = "asleep"
    /\ CacheGoto(t, "lock")
    /\ UNCHANGED <<bufs, locked, ondisk, b, want, pins, latest>>

\* bread(): virtio_disk_rw(b, 0) unless the contents are valid.
Bread(t) ==
    /\ bpc[t] = "read"
    /\ IF valid[b[t]]
         THEN UNCHANGED <<data, valid>>
         ELSE /\ data' = [data EXCEPT ![b[t]] = ondisk[blockno[b[t]]]]
              /\ valid' = [valid EXCEPT ![b[t]] = TRUE]
    /\ CacheGoto(t, "held")
    /\ UNCHANGED <<blockno, refcnt, list, locked, ondisk, b, want, pins, latest>>

-----------------------------------------------------------------------------
(* What the holder of a buffer does.                                       *)

\* Mutant of Pin: no reference for the log.
PinNot(k) == UNCHANGED refcnt

Pin(k) == refcnt' = [refcnt EXCEPT ![k] = @ + 1]

\* The holder changes the data and log_write() calls bpin(), unless the log
\* has the block already.
Modify(t, v) ==
    /\ bpc[t] = "held"
    /\ Cardinality(pins \cup {want[t]}) <= MaxPinned
    /\ data' = [data EXCEPT ![b[t]] = v]
    /\ latest' = [latest EXCEPT ![want[t]] = v]
    /\ IF want[t] \in pins THEN UNCHANGED refcnt ELSE Pin(b[t])
    /\ pins' = pins \cup {want[t]}
    /\ UNCHANGED <<blockno, valid, list, locked, ondisk, bpc, b, want>>

\* bwrite(), then bunpin() of a block that the log has pinned.
Bwrite(t) ==
    /\ bpc[t] = "held" /\ want[t] \in pins
    /\ ondisk' = [ondisk EXCEPT ![want[t]] = data[b[t]]]
    /\ CacheGoto(t, "unpin")
    /\ UNCHANGED <<bufs, locked, b, want, pins, latest>>
Bunpin(t) ==
    /\ bpc[t] = "unpin"
    /\ refcnt' = [refcnt EXCEPT ![b[t]] = @ - 1]
    /\ pins' = pins \ {want[t]}
    /\ CacheGoto(t, "held")
    /\ UNCHANGED <<blockno, valid, data, list, locked, ondisk, b, want, latest>>

-----------------------------------------------------------------------------
(* brelse(): releasesleep(), then the reference is dropped.                *)

ReleaseSleep(t) ==
    /\ bpc[t] = "held"
    /\ locked' = [locked EXCEPT ![b[t]] = Nobody]
    /\ bpc' = [u \in Process |-> IF u = t THEN "drop"
                                 ELSE IF bpc[u] = "asleep" /\ b[u] = b[t] THEN "lock"
                                 ELSE bpc[u]]
    /\ UNCHANGED <<bufs, ondisk, b, want, pins, latest>>

\* The list with buffer k moved to its head.
ToHead(k) ==
    LET p == CHOOSE i \in Buf : list[i] = k
    IN  [i \in Buf |-> IF i = 1 THEN k ELSE IF i <= p THEN list[i - 1] ELSE list[i]]

\* A buffer that is no longer used goes to the head of the list.
Brelse(t) ==
    /\ bpc[t] = "drop"
    /\ refcnt' = [refcnt EXCEPT ![b[t]] = @ - 1]
    /\ list' = IF refcnt[b[t]] = 1 THEN ToHead(b[t]) ELSE list
    /\ want' = [want EXCEPT ![t] = NoBlock]
    /\ b' = [b EXCEPT ![t] = 1]
    /\ CacheGoto(t, "idle")
    /\ UNCHANGED <<blockno, valid, data, locked, ondisk, pins, latest>>

-----------------------------------------------------------------------------
BufStep(t) ==
    \/ BgetHit(t) \/ BgetMiss(t) \/ AcquireSleep(t) \/ Bread(t)
    \/ Bunpin(t) \/ ReleaseSleep(t) \/ Brelse(t)

CacheNext == \E t \in Process :
    \/ \E n \in Blockno : BreadCall(t, n)
    \/ BufStep(t) \/ Bwrite(t) \/ KillWake(t)
    \/ \E v \in Data : Modify(t, v)

CacheSpec == CacheInit /\ [][CacheNext]_cacheVars

-----------------------------------------------------------------------------
(* Properties.                                                             *)

CacheTypeOK ==
    /\ blockno \in [Buf -> Blockno \cup {NoBlock}]
    /\ valid \in [Buf -> BOOLEAN]
    /\ refcnt \in [Buf -> 0 .. Cardinality(Process) + 1]
    /\ data \in [Buf -> Data] /\ ondisk \in [Blockno -> Data]
    /\ locked \in [Buf -> Process \cup {Nobody}]
    /\ list \in [Buf -> Buf] /\ \A i, j \in Buf : list[i] = list[j] => i = j
    /\ bpc \in [Process -> {"idle", "bget", "lock", "asleep", "read", "held",
                            "unpin", "drop"}]
    /\ b \in [Process -> Buf]
    /\ want \in [Process -> Blockno \cup {NoBlock}]
    /\ pins \subseteq Blockno /\ latest \in [Blockno -> Data]

\* "only one process at a time can use a buffer" (bio.c), and no block is in
\* two buffers: otherwise two processes would change copies of it.
OneCopy ==
    /\ CacheTypeOK
    /\ \A k, l \in Buf : k # l /\ blockno[k] # NoBlock => blockno[k] # blockno[l]

\* What bread() returns is what was last stored in the block, whether its
\* buffer stayed in the cache or the block was read from disk again.
Coherent ==
    \A t \in Process : bpc[t] \in {"held", "unpin"} =>
        data[b[t]] = latest[want[t]]

\* References are counted: one for each process from bget() to brelse(), one
\* for the log.  So nobody recycles the buffer that a process waits for or
\* holds: until brelse() it is the buffer of the block that was asked for.
Referencing == {t \in Process : bpc[t] \notin {"idle", "bget"}}
Counted ==
    /\ \A k \in Buf :
           refcnt[k] = Cardinality({t \in Referencing : b[t] = k})
                       + Cardinality({n \in pins : blockno[k] = n})
    /\ \A t \in Referencing : blockno[b[t]] = want[t]

\* bget() comes to panic("bget: no buffers") only when all of the NBUF buffers
\* are held, awaited or pinned, each by another process or for another block:
\* none is used up by a reference that was not given back.
PanicMeansFull ==
    Unused = {} => NBUF <= Cardinality(Referencing) + Cardinality(pins)

\* Who sleeps in acquiresleep() is behind a holder that will wake it.
WaiterHasHolder ==
    \A t \in Process : bpc[t] = "asleep" => locked[b[t]] \notin {Nobody, t}

\* A block has one buffer, which is not recycled while refcnt counts a holder,
\* a sleeper or a pin; there is no unused one only when all are in use, and who
\* sleeps for a buffer sleeps behind a holder that will wake it.
BuffersCounted == OneCopy /\ Counted /\ PanicMeansFull /\ WaiterHasHolder

=============================================================================
