# A TLA+ model of this xv6

This directory models the kernel of the repository (xv6 for RISC-V with three
scheduling policies, process statistics and some system calls added), the part
of user space whose correctness is not obvious (shell, `malloc`, `grep`, `wc`),
and the disk that `mkfs` lays out. TLC checks every module on small instances;
the process table, the scheduling policies, the log, the buffer cache, the disk
driver, pipes and the console are also proved correct for every number of
processes, CPUs, blocks and slots.

Sources are named as `kernel/proc.c` for `src/kernel/proc.c`. PROJECT.json maps
every definition to the lines it stands for.

## The system and its modules

CPUs run processes and the scheduler; processes enter the kernel through system
calls and interrupts, and meet there under spinlocks, sleep locks and
`sleep`/`wakeup`. File system calls go through names and inodes, then file
contents, then the log, then the buffer cache, then the disk driver. Each layer
is a module that sees the one below through what it promises; the promise is a
module of its own where another layer depends on it (AtomicLog, Fifo).

| Module | Code | What a step is |
|---|---|---|
| Proc, ProcInv | `proc.c`, the exits and yields of `trap.c`, `sysproc.c` | a critical section; a slot of a table loop; a half of a context switch |
| Sched | `choose_next_process`, `scheduler`, `update_time`, `set_sched`, `wait_sched` | one slot of a scan, read with or without `p->lock` as the code does |
| Clock | `clockintr`, `sys_sleep` | a critical section of `tickslock` |
| Log, AtomicLog | `log.c` | a critical section of `log.lock`, or one block written |
| Bcache | `bio.c`, `sleeplock.c` | a critical section, or one disk transfer |
| Virtio | `virtio_disk.c` and the device | what the device can see the driver do, one write at a time |
| Names | inode table, directories, paths of `fs.c` and `sysfile.c` | what is done to one locked inode; every `iput` on its own |
| Files | `balloc` ... `writei` of `fs.c`, `fileread`, `filewrite`, `mkfs.c` | one block of a file |
| FileTable | `file.c`, descriptors and failure paths of `sysfile.c`, `pipealloc` | a critical section of `ftable.lock`; closing the object |
| Pipe, Fifo | `pipe.c` | one turn of a loop |
| Console | `console.c` | one character |
| Uart, Fifo | `uart.c` and the 16550 | one test or write of a register |
| Counters | the unsigned indices of `pipe.c`, `console.c`, `uart.c` and `virtio_disk.c` | (operators only) |
| Vm | `kalloc.c`, `vm.c`, `exec.c`, `growproc`, memory of `fork` and `exit` | a system call; any of its `kalloc`s may be the first to fail |
| ShellParse, Shell | `sh.c`, orphans in `init.c` | a system call of one of the shell's processes |
| Umalloc | `umalloc.c` | a call of `malloc`, `free`, `sbrk` |
| Calendar | `seconds_to_rtcdate` of `sysutil.c` | a month |
| Filters | `grep.c`, `wc.c` | one `read` of any length |

### How state corresponds to the code

Fields of a struct are functions from the index of the struct: `state[p]`,
`refcnt[k]`, `itable[s]`. Locks are variables that hold their owner (a CPU for a
spinlock, a process for a sleep lock). A local variable that lives across two
steps is a function of the process (`idx`, `np`, `ip`, `cur`, `todo`), and `pc`
says where in a function a process is. Unsigned counters that the code lets
wrap around (`cons.e`, `nread`, `uart_tx_w`, the ring indices, and `ticks` in
Clock) are taken modulo `2^UintBits`, with few bits, so that they do wrap in a
run. In Sched, where `ticks` gives the age of a process, it stops at `MaxTicks`,
below `2^UintBits`; only the difference `waiting_time` wraps.

* **Proc**: `Dispatch`, `Enter`, `Sched`, `SchedulerReturn`, `Yield` are the two
  halves of `swtch` with `p->lock` handed over; `ForkAlloc` ... `ForkRun`,
  `WaitAcquire` ... `SleepGo`, `ExitAcquire` ... `ExitZombie`, `KillHit`,
  `GetptableRow` are the critical sections of the functions they are named for.
  `getppid` and `getptable` read as the code does, the first without a lock.
* **Sched**: `ScanRR`, `ScanFCFS`, `ScanMax`, `ScanMatch` are the loops of the
  three policies. `steady` is a history variable: the processes that have been
  RUNNABLE since a scan began, against which its choice is judged.
* **Log**: `home`, `logblk`, `hdr` are the disk and survive `Crash`, which can
  come between any two block writes, also during recovery.
* **Bcache**: `latest` is a history variable: what was last stored in a block.
* **Virtio**: the device takes requests from the available ring in order,
  completes them in any order, and raises an interrupt that may stand for
  several completions.
* **Names**: a directory is a function from names to inodes and its `..`; `todo`
  holds the `iput`s and `iunlock`s a call still has to do, since other processes
  run between them.
* **Files**: Init is `Mkfs`, which runs the block allocation of `mkfs.c` for the
  root directory and the files. `Word` is what is written at each position, so
  a block given to two files would show.
* **FileTable**: `held` and `todo` are the files that a call in progress has
  references to, or has still to close.
* **Vm**: page tables are pages too, with three levels of two entries. `k` is the
  number of `kalloc`s that succeed in a call. `image` is the memory a process
  should find.
* **Shell**: the command of a line is what `parsecmd` returns for its tokens; a
  process is named by its place in the tree, so that what it is wired to can be
  compared with the tree that the line was written from (`Unparse`).
* **Filters**: the result is compared with the selection and the counts defined
  on the whole text.

## The runs

Parts that share no state are explored in one run, one at a time: a variable
that never changes says which. MCDisk (log and buffer cache) and MCFiles (files,
console, UART and pipe) extend the modules they put together, so the properties
they check are the ones the proofs are about.

**proc** (MCProc.cfg: 3 slots, 2 CPUs, 3 pids, `kill()` of 0
and of 2). `SchedAsserts`: the
conditions under which `sched()` panics do not occur, whichever CPU a process
comes back on. `ParentAlive`: `reparent()` leaves no pointer to a dead parent.
`NoLostWakeup`: no parent sleeps in `wait()` with an exited child when nobody
holds `wait_lock`. `LifeCycle`: a slot moves only along UNUSED, USED, RUNNABLE,
RUNNING, SLEEPING, ZOMBIE as the code means it to. `IInv`: the invariant of the
proofs. Deadlock is checked. Three slots are what it takes: init, a parent that
exits, and a child that is handed over; slots are used again by later pids. init
itself only forks and waits, as `init.c` does. None of the properties speaks of
`p->killed`, which `kill(0)` sets in an UNUSED slot and `allocproc()` does not
clear, so that the next process in the slot is born killed; they hold all the
same.

**sched** (MCSched.cfg: 2 slots, 2 CPUs, ticks to 2, modes changed at any
moment). `CandidateHeld`: the FCFS candidate stays locked and RUNNABLE until it
is dispatched or dropped. `PickRespectsPolicy`: of the processes that waited
throughout a scan, none is older than the one that FCFS returns, none has a
higher priority than the one that PRIORITY returns, and a scan of RR or FCFS
that returns nothing has overlooked none of them. A scan of PRIORITY, which
reads the table twice, may. What RR returns is the subject of sched_rr.
`RunTimeBound`: `run_time` exceeds a process's age by at most one tick. It can
exceed it by one, and then `waiting_time` is `-1`, the largest unsigned number.

**disk** (MCDisk.cfg). Log with 2 threads, 3 blocks, MAXOPBLOCKS 2 and LOGSIZE
6: with three blocks logged and a call in progress, the next one has to wait.
`Refinement`: the log implements AtomicLog, in which the disk changes in one
step between states without calls, and a crash goes back to the last of them.
`DurableWhenIdle`: when the last `end_op()` has returned, all is on disk.
`BeginOpSound`: what is logged and what the calls in progress may still write
fit in LOGSIZE header entries, and who sleeps in `begin_op()` has somebody to
wake it. Buffer cache with 3 processes, 2 buffers and 3 blocks of which one may
be pinned, so that buffers are recycled and `bget()` can find none: `Coherent`,
a reader sees what was stored last; `BuffersCounted`, a block has one buffer,
`refcnt` counts holders, sleepers and pins, a sleeper is behind a holder, and
`panic("bget: no buffers")` comes only when all buffers are held, awaited or
pinned. With the code's constants it can come: NBUF is LOGSIZE, so that the log
alone may pin almost all buffers, and there are 64 processes, some of which hold
two at a time.

**virtio_disk** (MCVirtio.cfg: 3 processes, 8 descriptors as in the code, so two
requests fit and two descriptors are left over; ring indices of 4 bits).
`ChainsOwned`: descriptors are neither shared nor lost, the device works only on
chains whose process waits, and nobody sleeps for descriptors that are there.
`RequestServed`: for every published request `virtio_disk_intr()` clears
`b->disk` and makes the process runnable. When it runs is up to the scheduler.

**names** (MCNames.cfg: 3 inodes, 2 names, 2 processes, paths that lead down
from the root or the current directory). `RefCounted`: `ref` is
the number of pointers. `TableCoherent`: one entry per inode, equal to the disk,
not valid once freed, and no `panic("ilock: no type")`. `IputNoBlock`: the claim
of the comment in `iput()`. `LinksExact`: `nlink` is the number of names an
inode has, of the `..` of its subdirectories, and of the `link()`s in progress.
Deadlock is checked. Inodes are freed and allocated again while the other
process holds on to their table entry. A process that has reached a directory
can make a name in it after another process has removed it; the name then goes
when the directory is freed and its inode stays counted. The history variable
`lost` of MCNames counts such names.

**files** (MCFiles.cfg: 8 blocks of 2 words, 1 direct and 2 indirect ones).
`BlocksOwned`: bitmap and inodes agree, no block is in two places.
`FilesAsWritten`: what is in a file is what was written there. `NoHoles`: every
block below the size is there. One file starts in its indirect range, the disk
fills up, copies from user space fail half-way, two processes share an offset,
one truncates. In the file table, with 3 files and 2 descriptors each:
`FileRefs`, `ref` counts the holders; `ObjectsHeld`, pipe ends and inodes are
closed exactly once, on every failure path of `open` and `pipe`.
Console, UART and pipe have rings of 2 with indices of 2 bits, two readers of the
console, two writers and two printing CPUs at the UART, two writers and a reader
of the pipe. `InputRing`: `r`, `w`, `e` keep their order, a full ring has a
complete line, no reader sleeps on one. `CompleteKept`: editing does not change
complete lines. `SomeoneSends`: while there is output, a transmit interrupt is
due, although `uartputc_sync()` takes no lock. `OutputInOrder`: the characters
that go through the ring reach the transmitter in order; those of
`uartputc_sync()` come anywhere between them, and are not part of it. `PipeFifo`:
bytes leave the pipe in order, and it is empty again only when its page was freed
and `pipealloc()` has made another. Both are refinements of Fifo. `PipeSleepers`:
nobody is inside a pipe that was freed, nobody sleeps in `read()` once the last
write end is closed, and nobody sleeps without a reason as long as no writer was
killed: a writer that is killed returns without the `wakeup(&pi->nread)` of the
normal exit.

**user** (MCUser.cfg). Memory (18 pages, 2 processes, 6 calls): `PagesOwned`, a
page is free or belongs to one process and no failure path loses one;
`PrivateMemory`, a process finds what it stored and zeroes elsewhere. Shell
(every tree of up to two operators, and lines that mean nothing):
`WiredAsWritten`, `InSequence`, `ShellReturns`, with `fork`, `pipe`, `open` and
`exec` failing at will. `HeapTiled`: free and given blocks tile what `sbrk()`
gave. `DateIsRight`: each month up to 2110, which takes in the leap year 2000,
the common year 2100, and the end of a 32-bit counter. `SleepExact`: `sleep(n)`
does not return 0 before `n` ticks, and no process is still asleep, or about to
sleep again, once they have passed, while a 3-bit counter wraps.
`FilterOutput`: output of `grep` and counts of `wc` for all texts of up to 4
characters, all patterns of up to two items, and all ways to cut the text up;
for `grep`, of texts whose lines fit into its buffer.
The run does not check deadlock: a date, a text and a command line have an end.

### Disagreements between code and comments

**sched_vips**. "This acts as Round Robin among the VIPs" (`proc.c:665`):
`VipsTakeTurns` is violated, as the scan always starts at `proc[0]`: the lower
of two slots with the highest priority runs for ever. The counterexample is
under fair scheduling, with one CPU.

**sched_rr**. "0=RR" (`sysproc.c:154`), "Scheduler set to RoundRobin."
(`schedtest.c:28`): `RoundRobin`, by which every RUNNABLE process runs some time,
is violated in SCHED_RR for the same reason. With two processes and one CPU, the
one in the lower slot is RUNNABLE again after each timer interrupt and is chosen
again.

**log_space**. `begin_op()` counts LOGSIZE blocks, but the log that `mkfs` makes
has LOGSIZE blocks with its header, and `log_write()` panics at one less:
`NoLogPanic` is violated by three calls that each stay within MAXOPBLOCKS. The
run has MAXOPBLOCKS 1; only the ratio to the log's size matters. The run disk
has three blocks, which do not fill its log.

**names_orphan**. `iput()` frees an inode on disk before it drops its own
reference. In between, another process can allocate that inode, find the same
table entry, and remove its name; both then let go of a reference, and nobody
frees the inode. `OrphansFreed` states the comment at `fs.c:128`.

**names_dotdot**. `create()` counts the `..` of a new directory in its parent's
`nlink` (`sysfile.c:287`), and `unlink()` takes it back when the directory is
removed (`sysfile.c:226`), although a process may have it as current directory.
If the parent is removed too, it is freed, and a path through `..` then leads to
a free inode: `NoIlockPanic`, the assertion at `fs.c:315`, is violated. The run
names has no paths through `..`, and there the assertion holds.

## Bounds

Counters that only grow are bounded in the guards: `MaxPid` (forks), `MaxTicks`,
`MaxCalls` of Vm. `MaxUser` bounds user memory below the trap frame, where
physical memory ends on the real machine. `MaxLag` of Clock keeps the clock from
running further ahead of a woken process than that: `ticks - ticks0 < n` is
meaningful only if it runs before the counter has gone round once. `MaxPinned` of
Bcache is what `begin_op()` leaves the log to pin. `NINODE >= NINODES` in Names
gives every inode an entry of the table; in the code there are 50 entries and 200
inodes, and `panic("iget: no inodes")` for the case that all 50 are in use is
left out. A panic elsewhere ends a behaviour: what the model does in other
processes afterwards is what they could have done before.
Symmetry is used for CPUs in Proc and for threads and blocks in Log and Bcache,
in runs without liveness properties; these modules compare neither.

## Fairness

Safety runs assume none. Where a property says that something happens:

* virtio_disk: weak fairness of the device (it completes what it has taken);
  strong fairness of the interrupt, which spins for `vdisk_lock` and may find it
  taken any number of times but not for ever; weak fairness of a process that
  holds the lock, as interrupts are off on its CPU. Nothing is assumed of
  processes that wait to be scheduled, and nothing is claimed for them: none of
  the three policies runs every RUNNABLE process in the end.
* user (`ShellReturns`): as long as one of the shell's processes can go on, one
  of them does. Which one is left open.
* sched_vips and sched_rr: weak fairness of each CPU's scheduler, of its timer
  interrupt, of the clock and of a `fork()` in progress, so that starvation is
  the policy's doing.

## What is proved

All theorems hold for every value of the constants that satisfies the
assumptions the module which declares them names: NPROCAssumption and its
neighbours in Proc, CpuAssumption, BoundsAssumption and ModesAssumption in
Sched, LogAssumption, BcacheAssumption, VirtioAssumption, PipeAssumption,
UartAssumption, ConsoleAssumption. They say that sizes are positive numbers,
that the value for "nobody" is not a process, that sets that are counted are
finite, and, of rings, that the indices wrap around at a multiple of the size
and count further than it (`WrapsEvenly` in Counters), which holds of 32-bit and
16-bit indices and of sizes that are powers of two. TLC evaluates them in every
run.

### Processes

ProcProofs proves for any number of slots, any set of CPUs, any `MaxPid`, any
pids given to `kill()` and any choice of system calls:

| Theorem | Statement |
|---|---|
| ProcInvariant | `IInv` always holds |
| ProcTypeOK | type correctness |
| ProcSwitchSafe | a process is on one CPU, a freed slot on none, and `sched()` does not panic |
| ProcLocks | `wait_lock` and `p->lock` are held exactly by the code between their acquire and release |
| ProcParentAlive | parents are live processes |
| ProcNoLostWakeup | `wait()` does not sleep through the exit of a child |
| ProcForkAndPids | a slot being filled belongs to one `fork()`; pids name one process |
| ProcLifeCycle | the action property `LifeCycle` |

The assumptions are that there is a slot, that NoCPU is not a CPU, and that
`MaxPid` is a natural number (Proc.tla).

None of the properties is inductive. That no wakeup is lost, for example, needs
to know where the exiting child is between waking its parent and becoming a
zombie, that the parent cannot go to sleep in between because `wait_lock` is
held, and that nobody else holds it; that in turn needs the relation between
program counters, CPUs and locks. ProcInv collects this: `CpuInv` (who is on
which CPU, what a state says about the program counter, who owns which lock),
`TreeInv` (how far `reparent()` has come, parents are alive, `fork()` owns its
child), `SleepInv` (how far `wait()`'s scan has come, and which sleeping parent
may have an exited child for a moment), `PidInv`. ProcProofs proves
types and `CpuInv` with a step per action. `TreeInv` and `SleepInv` have a
lemma per action of `fork()`, `wait()` and `exit()` that disturbs one of them;
each first says which values the action sets and then argues from those alone.
`TreeQuiet`, `WaitQuiet` and `WakeQuiet` say what leaves a part alone, and
`Quiet` covers the actions that leave all of them alone. `PidInv` is disturbed
only by `allocproc()` and `freeproc()`. TLC checks `IInv` in proc.

### Scheduling

SchedProofs, for any number of slots and CPUs, any modes that `set_sched()` may
choose, any `MaxPid`, and any `MaxTicks` below `2^UintBits`, so as long as
`ticks` has not wrapped around:

| Theorem | Statement |
|---|---|
| SchedInvariant | type correctness and the inductive invariant `SInv` |
| SchedCandidateHeld | `CandidateHeld` |
| SchedRunTimeBound | `RunTimeBound` |
| SchedPicks | the action property `PickRespectsPolicy` |

What a scan returns is judged against the processes that were RUNNABLE all
through it, and the other CPUs, the clock and `set_sched()` move on meanwhile.
So `SInv` says at each slot of a scan what the part already passed has
established (`Scan`): round robin has passed no such process; the candidate of
FCFS is at most as young as each of those passed; the first loop of the
priority scan has a maximum at least as high as each of those passed, and the
second one as high as all of them. `CandidateHeld` is part of it, since the
candidate's `creation_time` could otherwise change under the scan. `Charged`
gives a process that `update_time()` has still to visit one tick in hand;
without it `RunTimeBound` would not survive the clock interrupt.

### Log

LogProofs, for any finite sets of processes and blocks, any contents, any
MAXOPBLOCKS and any size of the log on disk:

| Theorem | Statement |
|---|---|
| LogInvariant | `IInv` of LogProofs always holds |
| LogDurable | `DurableWhenIdle` |
| LogBeginOpSound | `BeginOpSound` |
| LogRefinement | `Refinement`: Log implements AtomicLog |

The refinement maps the abstract disk to `Recovered`, what recovery would make
of the disk if the machine crashed now. Each step has to leave it alone, except
the write of the header, which must change it to what the processes see. That
needs, at each place in `commit()`, which log blocks are already copies of the
cache and which home blocks have been installed (`PhaseInv`), the same for
recovery (`RecoverInv`), that a header names no block twice (`HeaderInv`: with a
block named twice, installing up to `tail` would not decide its contents), and
that there is one committer and no call while it commits (`CallInv`). A crash
between two installs is covered because installing again changes nothing.
`BeginOpSound` rests on a count: each call reserves MAXOPBLOCKS units when
`begin_op()` admits it, and `log_write()` trades one of its units for a header
entry, or gives it up when the block is in the header already.

### Buffer cache

BcacheProofs, for any finite set of processes, any blocks, any number of buffers
and any `MaxPinned`:

| Theorem | Statement |
|---|---|
| CacheInvariant | `IInv` of BcacheProofs always holds |
| CacheCoherent | `Coherent` |
| CacheBuffersCounted | `BuffersCounted` |

A reader sees the last value only if its buffer was not recycled under it
(`Counted`), if it alone has the sleep lock (`LockInv`), and if a block that was
recycled had reached the disk: only pinned blocks differ from the disk, and they
stay in the cache (`DataInv`, `WantInv`). The LRU list has to remain a
permutation of the buffers (`ListInv`) for `bget()`'s scan to find an unused
one. When there is none, every buffer is referred to by a process or holds a
pinned block; these are counted, and come to at least NBUF.

### Disk driver

VirtioProofs, for any set of processes, any number of descriptors from 3 up and
any width of the ring indices:

| Theorem | Statement |
|---|---|
| VirtioInvariant | the inductive invariant `VInv` |
| VirtioChainsOwned | `ChainsOwned` |

The device knows a request by the number of its first descriptor alone, and may
report requests in another order than it was given them. That
`virtio_disk_intr()` wakes the right process therefore needs that this number is
in one place at a time: in the part of the available ring the device has still
to read, with the device, or in the part of the used ring the driver has still
to read, once, with the process it belongs to waiting for it (`Rings`). No ring
then holds more entries than there are descriptors, so that none is overwritten
before it is read, although indices wrap around. `Owned` says that every
descriptor is free or in one chain; `Filling` that the ring entry written before
`avail->idx` moves is still there when it does, because `vdisk_lock` is held.

### Pipes and console

RingProofs has the arithmetic all rings share, those of the disk driver included:
indices that count modulo 2^UintBits, a buffer size that divides it and is
smaller, and what is between two indices as a sequence; a put appends to that
sequence and a get takes its head, also when an index wraps around, and a slot
outside of it may be written. PipeProofs and ConsoleProofs (input and output of
the console) use it, for any such sizes and any sets of processes:

| Theorem | Statement |
|---|---|
| PipeInvariant, UartInvariant, ConsoleInvariant | the inductive invariants `PipeInv`, `UartInv`, `ConsoleInv` |
| PipeSleepersSound | `PipeSleepers` |
| PipeIsFifo | `PipeFifo`: the pipe implements Fifo |
| UartSends | `SomeoneSends` |
| UartIsFifo | `OutputInOrder`: the transmit ring implements Fifo |
| ConsoleInputRing | `InputRing` |
| ConsoleCompleteKept | the action property `CompleteKept` |

The sleepers' properties speak of moments when the lock is free; the invariants
say what holds at every other one. A sleeping reader of a pipe may find bytes
only while a writer has the lock and has yet to wake it, or was killed; a
sleeping writer finds room only while a reader is in its copying loop. For the
UART, `DeviceRoom` counts the characters that may still be written without a
lock. For the console, `r`, `w`, `e` are in order around the ring, and a ring
that is full has no incomplete line, because the last character completes it.

### Only model-checked

The liveness properties, which TLAPS does not reach: `RequestServed` and
`ShellReturns`. Properties of modules with
recursive operators: those of ShellParse, Shell, Umalloc, Filters. And for now
Clock, Names, Files, FileTable, Vm and Calendar. Page tables, block maps and
dates are computed by walking through data, so that much of what Vm, Files and
Calendar say would need induction over it. In Names and FileTable nothing of
that kind is in the way; their invariants are counts over several sets of
pointers at once, and have been checked but not proved.

## Not modelled

* Saving registers, privilege modes, the PLIC, page-table hardware, booting, and
  the memory ordering that `__sync_synchronize()` establishes: machine level,
  below the steps of these models. Memory is sequentially consistent.
* `printf`, `panic`, and formatting in user space: output without state.
* `sys_rand`, `sys_random`, `sys_kbdint`, `sys_countsyscall`, `sys_shutdown`: a
  formula, a counter, a register. The counters `syscall_count` and the random
  seed are updated without a lock; nothing in the repository says how exact
  they have to be.
* Fetching system call arguments, `copyinstr`, the kernel's page table.
* `mknod`: it is `create()` with another type. Directory entries are not laid
  out in blocks. An inode table with all its entries in use.
* Composition of Names with Log: that each call brackets its writes with
  `begin_op()`/`end_op()` is read off the code. That a call stays within
  MAXOPBLOCKS is assumed in Log.
* `mkfs` rounds the size of the root directory up to a block. If its entries
  already fill a whole number of blocks, it adds one more for which there is
  none; `NoHoles` is checked on an image where they do not.
* User programs other than the shell, `init`, `grep` and `wc`: straight-line
  clients of the system calls; and the tests.

## Running

    tlc -workers 2 -config MCNames.cfg MCNames
    for m in Ring Pipe Console Proc Sched Bcache Log Virtio; do
        tlapm ${m}Proofs.tla
    done

Every run takes a few minutes at most, every proof ten minutes or so. Operators
named in comments as mutants are plausible errors: putting one in place of the
definition it names makes TLC report the property listed with it in
PROJECT.json.
