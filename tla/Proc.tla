-------------------------------- MODULE Proc --------------------------------
(***************************************************************************)
(* The process table of kernel/proc.c: fork, exit, wait, kill, getppid and *)
(* getptable, the scheduler's context switches, sleep and wakeup, with the *)
(* locks that protect them (one p->lock per slot and wait_lock), run by    *)
(* several CPUs.                                                           *)
(*                                                                         *)
(* One step is one critical section, except where the code hands a lock    *)
(* over or holds it across other steps: a context switch keeps p->lock     *)
(* from the process to the scheduler and back, sleep() takes p->lock       *)
(* before it drops wait_lock, and the loops over the table take and drop   *)
(* one p->lock per iteration.  A lock is owned by a CPU, as in holding().  *)
(***************************************************************************)
EXTENDS Naturals

CONSTANTS
    NPROC,    \* slots of the process table (param.h)
    CPU,      \* the harts that run scheduler()
    NoCPU,    \* owner of a free lock
    MaxPid,   \* bound: fork() is not called once nextpid exceeds MaxPid
    KillArgs, \* the pids user code gives to kill()
    Calls     \* the system calls user code makes

ASSUME NPROCAssumption == NPROC \in Nat \ {0}
ASSUME NoCPUAssumption == NoCPU \notin CPU
ASSUME MaxPidAssumption == MaxPid \in Nat
ASSUME KillArgsAssumption == KillArgs \subseteq Nat

Slot == 1 .. NPROC
Cursor == 1 .. NPROC + 1   \* of a loop over the table
None == 0              \* the null pointer, as a slot
initproc == 1          \* userinit() gets the first slot of an empty table

States == {"UNUSED", "USED", "SLEEPING", "RUNNABLE", "RUNNING", "ZOMBIE"}

\* Where a process is in its kernel code (pc), and whether that code is being
\* executed (ctx): "exec" it is, "leave" it is about to call swtch() in
\* sched(), "saved" its registers are in p->context, "enter" swtch() has just
\* restored them.
WaitLockLabels == {"wait_scan", "sleep_lk", "sleep_go", "exit_reparent",
                   "rp_wakeup", "ex_wakeup", "exit_zombie"}
Labels == WaitLockLabels \cup
          {"user", "fork_scan", "fork_parent", "fork_run", "kill_scan",
           "getppid", "gpt_scan", "gpt_ppid", "wait_acq", "exit_acq",
           "dead", "panic"}

VARIABLES
    state, chan, killed, pid, parent,   \* struct proc, one value per slot
    nextpid,
    plock, waitlock,                    \* owners of p->lock and wait_lock
    cproc,                              \* c->proc, one value per CPU
    ctx, pc,                            \* where each process is
    idx, widx,                          \* cursors of its loops over the table
    have,                               \* wait()'s havekids
    np,                                 \* the slot it has a pointer to
    arg                                 \* the pid given to kill()

procVars == <<state, chan, killed, pid, parent, nextpid>>
lockVars == <<plock, waitlock>>
cpuVars  == <<cproc, ctx>>
locVars  == <<idx, widx, have, np, arg>>
vars     == <<procVars, lockVars, cpuVars, pc, locVars>>

-----------------------------------------------------------------------------
\* The CPU c executes the kernel (or user) code of process p.
Exec(c, p) == cproc[c] = p /\ ctx[p] = "exec"

At(c, p, l) == Exec(c, p) /\ pc[p] = l
Goto(p, l) == pc' = [pc EXCEPT ![p] = l]

\* mycpu()->noff counts the spinlocks this CPU holds.
PLocksOf(c) == {q \in Slot : plock[q] = c}
HoldsNothing(c) == waitlock # c /\ PLocksOf(c) = {}

PFree(q) == plock[q] = NoCPU

\* procinit(), then userinit(): the first process is RUNNABLE in slot 1, with
\* pid 1 and no parent, ready to enter forkret().
Init ==
    /\ state = [q \in Slot |-> IF q = initproc THEN "RUNNABLE" ELSE "UNUSED"]
    /\ chan = [q \in Slot |-> None]
    /\ killed = [q \in Slot |-> FALSE]
    /\ pid = [q \in Slot |-> IF q = initproc THEN 1 ELSE 0]
    /\ parent = [q \in Slot |-> None]
    /\ nextpid = 2
    /\ plock = [q \in Slot |-> NoCPU]
    /\ waitlock = NoCPU
    /\ cproc = [c \in CPU |-> None]
    /\ ctx = [q \in Slot |-> "saved"]
    /\ pc = [q \in Slot |-> "user"]
    /\ idx = [q \in Slot |-> 1]
    /\ widx = [q \in Slot |-> 1]
    /\ have = [q \in Slot |-> FALSE]
    /\ np = [q \in Slot |-> None]
    /\ arg = [q \in Slot |-> 0]

-----------------------------------------------------------------------------
(* Context switches: scheduler(), yield(), sched() and its return.         *)

\* scheduler(): whatever choose_next_process() proposed, p->lock is taken
\* and the state looked at again before p is run.
Dispatch(c, p) ==
    /\ cproc[c] = None
    /\ PFree(p)
    /\ state[p] = "RUNNABLE"
    /\ plock' = [plock EXCEPT ![p] = c]
    /\ state' = [state EXCEPT ![p] = "RUNNING"]
    /\ cproc' = [cproc EXCEPT ![c] = p]
    /\ ctx' = [ctx EXCEPT ![p] = "enter"]
    /\ UNCHANGED <<chan, killed, pid, parent, nextpid, waitlock, pc, locVars>>

\* The code after sched() in sleep() and yield(), or forkret(): the process
\* drops the p->lock that the scheduler took for it.  sleep() clears p->chan.
Enter(c, p) ==
    /\ cproc[c] = p /\ ctx[p] = "enter"
    /\ chan' = [chan EXCEPT ![p] = None]
    /\ plock' = [plock EXCEPT ![p] = NoCPU]
    /\ ctx' = [ctx EXCEPT ![p] = "exec"]
    /\ UNCHANGED <<state, killed, pid, parent, nextpid, waitlock, cproc, pc,
                   locVars>>

\* yield() from usertrap() or kerneltrap(): a timer interrupt is taken only
\* while the CPU holds no spinlock.
Yield(c, p) ==
    /\ Exec(c, p)
    /\ HoldsNothing(c)
    /\ PFree(p)
    /\ plock' = [plock EXCEPT ![p] = c]
    /\ state' = [state EXCEPT ![p] = "RUNNABLE"]
    /\ ctx' = [ctx EXCEPT ![p] = "leave"]
    /\ UNCHANGED <<chan, killed, pid, parent, nextpid, waitlock, cproc, pc,
                   locVars>>

\* sched(): swtch() saves the process and resumes this CPU's scheduler.
Sched(c, p) ==
    /\ cproc[c] = p /\ ctx[p] = "leave"
    /\ ctx' = [ctx EXCEPT ![p] = "saved"]
    /\ UNCHANGED <<procVars, lockVars, cproc, pc, locVars>>

\* scheduler() after swtch(): c->proc = 0, then release(&p->lock).
SchedulerReturn(c, p) ==
    /\ cproc[c] = p /\ ctx[p] = "saved"
    /\ cproc' = [cproc EXCEPT ![c] = None]
    /\ plock' = [plock EXCEPT ![p] = NoCPU]
    /\ UNCHANGED <<procVars, waitlock, ctx, pc, locVars>>

-----------------------------------------------------------------------------
(* Entry into the kernel.                                                  *)

\* usertrap(): a killed process leaves through exit(-1).  exit() panics when
\* the caller is init.
KilledTrap(c, p) ==
    /\ At(c, p, "user")
    /\ PFree(p) /\ killed[p]
    /\ Goto(p, IF p = initproc THEN "panic" ELSE "exit_acq")
    /\ UNCHANGED <<procVars, lockVars, cpuVars, locVars>>

\* usertrap(): an exception in user code; setkilled(p), then exit(-1).
FaultTrap(c, p) ==
    /\ "fault" \in Calls
    /\ At(c, p, "user")
    /\ PFree(p) /\ ~killed[p]
    /\ killed' = [killed EXCEPT ![p] = TRUE]
    /\ Goto(p, IF p = initproc THEN "panic" ELSE "exit_acq")
    /\ UNCHANGED <<state, chan, pid, parent, nextpid, lockVars, cpuVars,
                   locVars>>

\* usertrap() -> syscall(): the process enters the first label of a call.
Syscall(c, p, call, l) ==
    /\ call \in Calls
    /\ At(c, p, "user")
    /\ PFree(p) /\ ~killed[p]
    /\ Goto(p, l)
    /\ UNCHANGED <<procVars, lockVars, cpuVars>>

SysFork(c, p) ==
    /\ nextpid <= MaxPid
    /\ Syscall(c, p, "fork", "fork_scan")
    /\ UNCHANGED locVars

\* init only forks and waits (init.c); its exit() after a failure, a panic of
\* the kernel, is left out.
SysExit(c, p) ==
    /\ p # initproc
    /\ Syscall(c, p, "exit", "exit_acq")
    /\ UNCHANGED locVars

\* wait() and wait_sched(), which differ in what they copy out and in how
\* they look at p->killed.
SysWait(c, p) ==
    /\ \E call \in {"wait", "wait_sched"} : Syscall(c, p, call, "wait_acq")
    /\ UNCHANGED locVars

SysKill(c, p) ==
    /\ p # initproc
    /\ Syscall(c, p, "kill", "kill_scan")
    /\ \E v \in KillArgs : arg' = [arg EXCEPT ![p] = v]
    /\ UNCHANGED <<idx, widx, have, np>>

\* sys_getppid() loads the pointer p->parent without wait_lock; init has no
\* parent and does not make this call.
SysGetppid(c, p) ==
    /\ p # initproc
    /\ Syscall(c, p, "getppid", "getppid")
    /\ np' = [np EXCEPT ![p] = parent[p]]
    /\ UNCHANGED <<idx, widx, have, arg>>

SysGetptable(c, p) ==
    /\ p # initproc
    /\ Syscall(c, p, "getptable", "gpt_scan")
    /\ UNCHANGED locVars

\* A system call returns: its locals are gone.
Return(p) ==
    /\ Goto(p, "user")
    /\ idx' = [idx EXCEPT ![p] = 1]
    /\ widx' = [widx EXCEPT ![p] = 1]
    /\ have' = [have EXCEPT ![p] = FALSE]
    /\ np' = [np EXCEPT ![p] = None]
    /\ arg' = [arg EXCEPT ![p] = 0]

\* The fields freeproc() resets.
FreeProc(q) ==
    /\ state' = [state EXCEPT ![q] = "UNUSED"]
    /\ chan' = [chan EXCEPT ![q] = None]
    /\ killed' = [killed EXCEPT ![q] = FALSE]
    /\ pid' = [pid EXCEPT ![q] = 0]
    /\ parent' = [parent EXCEPT ![q] = None]

-----------------------------------------------------------------------------
(* fork() and allocproc().                                                 *)

\* The loop at label l locks the slot under its cursor, or has run out of
\* slots.
Visit(c, p, l) == At(c, p, l) /\ idx[p] \in Slot /\ PFree(idx[p])
EndOfTable(c, p, l) == At(c, p, l) /\ idx[p] \notin Slot

\* An iteration that found nothing.
NextSlot(p) ==
    /\ idx' = [idx EXCEPT ![p] = @ + 1]
    /\ UNCHANGED <<widx, have, np, arg>>

\* allocproc(): this slot is in use.
ForkSkip(c, p) ==
    /\ Visit(c, p, "fork_scan")
    /\ state[idx[p]] # "UNUSED"
    /\ NextSlot(p)
    /\ UNCHANGED <<procVars, lockVars, cpuVars, pc>>

\* allocproc() found an UNUSED slot and everything is allocated and copied
\* under np->lock.  killed keeps the value it had in the UNUSED slot.
ForkAlloc(c, p) ==
    /\ Visit(c, p, "fork_scan")
    /\ LET n == idx[p] IN
       /\ state[n] = "UNUSED"
       /\ state' = [state EXCEPT ![n] = "USED"]
       /\ pid' = [pid EXCEPT ![n] = nextpid]
       /\ nextpid' = nextpid + 1
       /\ pc' = [pc EXCEPT ![n] = "user", ![p] = "fork_parent"]
       /\ ctx' = [ctx EXCEPT ![n] = "saved"]
       /\ np' = [np EXCEPT ![p] = n]
       /\ idx' = [idx EXCEPT ![p] = 1]
    /\ UNCHANGED <<chan, killed, parent, lockVars, cproc, widx, have, arg>>

\* kalloc() fails in allocproc() or uvmcopy(): freeproc(np), return -1.  The
\* pid is spent.
ForkFail(c, p) ==
    /\ Visit(c, p, "fork_scan")
    /\ state[idx[p]] = "UNUSED"
    /\ FreeProc(idx[p])
    /\ nextpid' = nextpid + 1
    /\ Return(p)
    /\ UNCHANGED <<lockVars, cpuVars>>

\* allocproc(): no free slot.
ForkNone(c, p) ==
    /\ EndOfTable(c, p, "fork_scan")
    /\ Return(p)
    /\ UNCHANGED <<procVars, lockVars, cpuVars>>

\* fork(): np->parent = p under wait_lock.
ForkParent(c, p) ==
    /\ At(c, p, "fork_parent")
    /\ waitlock = NoCPU
    /\ parent' = [parent EXCEPT ![np[p]] = p]
    /\ Goto(p, "fork_run")
    /\ UNCHANGED <<state, chan, killed, pid, nextpid, lockVars, cpuVars,
                   locVars>>

\* fork(): the child becomes RUNNABLE under its own lock.
ForkRun(c, p) ==
    /\ At(c, p, "fork_run")
    /\ PFree(np[p])
    /\ state' = [state EXCEPT ![np[p]] = "RUNNABLE"]
    /\ Return(p)
    /\ UNCHANGED <<chan, killed, pid, parent, nextpid, lockVars, cpuVars>>

-----------------------------------------------------------------------------
(* kill(), getppid() and getptable().                                      *)

KillSkip(c, p) ==
    /\ Visit(c, p, "kill_scan")
    /\ pid[idx[p]] # arg[p]
    /\ NextSlot(p)
    /\ UNCHANGED <<procVars, lockVars, cpuVars, pc>>

\* Mutant of KillHit: a victim that has already exited is made RUNNABLE too.
KillHitZombie(c, p) ==
    /\ Visit(c, p, "kill_scan")
    /\ LET q == idx[p] IN
       /\ pid[q] = arg[p]
       /\ killed' = [killed EXCEPT ![q] = TRUE]
       /\ state' = [state EXCEPT ![q] = IF @ \in {"SLEEPING", "ZOMBIE"}
                                         THEN "RUNNABLE" ELSE @]
    /\ Return(p)
    /\ UNCHANGED <<chan, pid, parent, nextpid, lockVars, cpuVars>>

KillHit(c, p) ==
    /\ Visit(c, p, "kill_scan")
    /\ LET q == idx[p] IN
       /\ pid[q] = arg[p]
       /\ killed' = [killed EXCEPT ![q] = TRUE]
       /\ state' = [state EXCEPT ![q] = IF @ = "SLEEPING" THEN "RUNNABLE"
                                                          ELSE @]
    /\ Return(p)
    /\ UNCHANGED <<chan, pid, parent, nextpid, lockVars, cpuVars>>

KillNone(c, p) ==
    /\ EndOfTable(c, p, "kill_scan")
    /\ Return(p)
    /\ UNCHANGED <<procVars, lockVars, cpuVars>>

\* The second load of sys_getppid(): the pid in the slot pointed to.
GetppidReturn(c, p) ==
    /\ At(c, p, "getppid")
    /\ Return(p)
    /\ UNCHANGED <<procVars, lockVars, cpuVars>>

\* getptable(): an UNUSED slot is passed over.
GetptableSkip(c, p) ==
    /\ Visit(c, p, "gpt_scan")
    /\ state[idx[p]] = "UNUSED"
    /\ NextSlot(p)
    /\ UNCHANGED <<procVars, lockVars, cpuVars, pc>>

\* getptable(): p->lock is held while p->parent is loaded; wait_lock is not.
GetptableRow(c, p) ==
    /\ Visit(c, p, "gpt_scan")
    /\ state[idx[p]] # "UNUSED"
    /\ plock' = [plock EXCEPT ![idx[p]] = c]
    /\ np' = [np EXCEPT ![p] = parent[idx[p]]]
    /\ Goto(p, "gpt_ppid")
    /\ UNCHANGED <<procVars, waitlock, cpuVars, idx, widx, have, arg>>

\* getptable(): the parent's pid is loaded and the row copied out.
GetptableCopy(c, p) ==
    /\ At(c, p, "gpt_ppid")
    /\ plock' = [plock EXCEPT ![idx[p]] = NoCPU]
    /\ np' = [np EXCEPT ![p] = None]
    /\ idx' = [idx EXCEPT ![p] = @ + 1]
    /\ Goto(p, "gpt_scan")
    /\ UNCHANGED <<procVars, waitlock, cpuVars, widx, have, arg>>

\* getptable(): copyout() fails, return 0.
GetptableFail(c, p) ==
    /\ At(c, p, "gpt_ppid")
    /\ plock' = [plock EXCEPT ![idx[p]] = NoCPU]
    /\ Return(p)
    /\ UNCHANGED <<procVars, waitlock, cpuVars>>

\* getptable(): the end of the table, or nproc rows were asked for and copied
\* (at least init's).  Invalid arguments return before anything is touched.
GetptableDone(c, p) ==
    /\ At(c, p, "gpt_scan")
    /\ idx[p] # initproc
    /\ idx[p] \in Slot => PFree(idx[p]) /\ state[idx[p]] # "UNUSED"
    /\ Return(p)
    /\ UNCHANGED <<procVars, lockVars, cpuVars>>

-----------------------------------------------------------------------------
(* wait(), sleep().                                                        *)

\* acquire(&wait_lock), at the start of wait() and at the end of sleep().
WaitAcquire(c, p) ==
    /\ At(c, p, "wait_acq")
    /\ waitlock = NoCPU
    /\ waitlock' = c
    /\ Goto(p, "wait_scan")
    /\ idx' = [idx EXCEPT ![p] = 1]
    /\ have' = [have EXCEPT ![p] = FALSE]
    /\ UNCHANGED <<procVars, plock, cpuVars, widx, np, arg>>

\* wait(): not a child of p, or one that has not exited.
WaitSkip(c, p) ==
    /\ At(c, p, "wait_scan")
    /\ idx[p] \in Slot
    /\ LET q == idx[p] IN
       /\ parent[q] = p => PFree(q) /\ state[q] # "ZOMBIE"
       /\ have' = [have EXCEPT ![p] = IF parent[q] = p THEN TRUE ELSE @]
    /\ idx' = [idx EXCEPT ![p] = @ + 1]
    /\ UNCHANGED <<procVars, lockVars, cpuVars, pc, widx, np, arg>>

\* The child idx[p] has exited, and has left its kernel stack: its lock is
\* free.
WaitFound(c, p) ==
    /\ Visit(c, p, "wait_scan")
    /\ parent[idx[p]] = p /\ state[idx[p]] = "ZOMBIE"

\* wait(): freeproc(pp), return its pid.
WaitReap(c, p) ==
    /\ WaitFound(c, p)
    /\ FreeProc(idx[p])
    /\ waitlock' = NoCPU
    /\ Return(p)
    /\ UNCHANGED <<nextpid, plock, cpuVars>>

\* wait(): copyout() of the status fails, return -1; the child stays.
WaitFail(c, p) ==
    /\ WaitFound(c, p)
    /\ waitlock' = NoCPU
    /\ Return(p)
    /\ UNCHANGED <<procVars, plock, cpuVars>>

\* wait() reads p->killed in killed(), under p->lock; wait_sched() reads it
\* without the lock.
SeesKilled(p) == "wait_sched" \in Calls \/ PFree(p)

\* wait(): no children, or killed(p): return -1.
WaitGiveUp(c, p) ==
    /\ EndOfTable(c, p, "wait_scan")
    /\ have[p] => SeesKilled(p) /\ killed[p]
    /\ waitlock' = NoCPU
    /\ Return(p)
    /\ UNCHANGED <<procVars, plock, cpuVars>>

\* wait(): killed(p) was false; sleep(p, &wait_lock) is called.
WaitSleep(c, p) ==
    /\ EndOfTable(c, p, "wait_scan")
    /\ have[p] /\ SeesKilled(p) /\ ~killed[p]
    /\ Goto(p, "sleep_lk")
    /\ UNCHANGED <<procVars, lockVars, cpuVars, locVars>>

\* sleep(): acquire(&p->lock), with lk still held.
SleepAcquire(c, p) ==
    /\ At(c, p, "sleep_lk")
    /\ PFree(p)
    /\ plock' = [plock EXCEPT ![p] = c]
    /\ Goto(p, "sleep_go")
    /\ UNCHANGED <<procVars, waitlock, cpuVars, locVars>>

\* Mutant of SleepGo: lk is still held when sched() is called.
SleepGoLocked(c, p) ==
    /\ At(c, p, "sleep_go")
    /\ chan' = [chan EXCEPT ![p] = p]
    /\ state' = [state EXCEPT ![p] = "SLEEPING"]
    /\ ctx' = [ctx EXCEPT ![p] = "leave"]
    /\ Goto(p, "wait_acq")
    /\ UNCHANGED <<killed, pid, parent, nextpid, lockVars, cproc, locVars>>

\* sleep(): release(lk), p->chan = p, p->state = SLEEPING, sched().  When the
\* process runs again it reacquires lk and scans anew.
SleepGo(c, p) ==
    /\ At(c, p, "sleep_go")
    /\ waitlock' = NoCPU
    /\ chan' = [chan EXCEPT ![p] = p]
    /\ state' = [state EXCEPT ![p] = "SLEEPING"]
    /\ ctx' = [ctx EXCEPT ![p] = "leave"]
    /\ Goto(p, "wait_acq")
    /\ UNCHANGED <<killed, pid, parent, nextpid, plock, cproc, locVars>>

-----------------------------------------------------------------------------
(* exit(), reparent(), wakeup().                                           *)

\* exit(): the open files are closed by now; acquire(&wait_lock).
ExitAcquire(c, p) ==
    /\ At(c, p, "exit_acq")
    /\ waitlock = NoCPU
    /\ waitlock' = c
    /\ Goto(p, "exit_reparent")
    /\ idx' = [idx EXCEPT ![p] = 1]
    /\ UNCHANGED <<procVars, plock, cpuVars, widx, have, np, arg>>

\* Mutant of ReparentSkip: a child may be passed over.
ReparentSkipAny(c, p) ==
    /\ At(c, p, "exit_reparent")
    /\ idx[p] \in Slot
    /\ NextSlot(p)
    /\ UNCHANGED <<procVars, lockVars, cpuVars, pc>>

\* reparent(): pass over a slot that is not p's child.
ReparentSkip(c, p) ==
    /\ At(c, p, "exit_reparent")
    /\ idx[p] \in Slot
    /\ parent[idx[p]] # p
    /\ NextSlot(p)
    /\ UNCHANGED <<procVars, lockVars, cpuVars, pc>>

\* Mutant of Reparent: wakeup(initproc) is forgotten.
ReparentQuietly(c, p) ==
    /\ At(c, p, "exit_reparent")
    /\ idx[p] \in Slot
    /\ parent[idx[p]] = p
    /\ parent' = [parent EXCEPT ![idx[p]] = initproc]
    /\ NextSlot(p)
    /\ UNCHANGED <<state, chan, killed, pid, nextpid, lockVars, cpuVars, pc>>

\* reparent(): give a child to init, then wakeup(initproc).
Reparent(c, p) ==
    /\ At(c, p, "exit_reparent")
    /\ idx[p] \in Slot
    /\ parent[idx[p]] = p
    /\ parent' = [parent EXCEPT ![idx[p]] = initproc]
    /\ Goto(p, "rp_wakeup")
    /\ widx' = [widx EXCEPT ![p] = 1]
    /\ UNCHANGED <<state, chan, killed, pid, nextpid, lockVars, cpuVars,
                   idx, have, np, arg>>

\* Mutant of ExitWakeup: wakeup(p->parent) is forgotten.
ExitNoWakeup(c, p) ==
    /\ EndOfTable(c, p, "exit_reparent")
    /\ Goto(p, "exit_zombie")
    /\ UNCHANGED <<procVars, lockVars, cpuVars, locVars>>

\* exit(): reparent() is done; wakeup(p->parent).
ExitWakeup(c, p) ==
    /\ EndOfTable(c, p, "exit_reparent")
    /\ Goto(p, "ex_wakeup")
    /\ widx' = [widx EXCEPT ![p] = 1]
    /\ UNCHANGED <<procVars, lockVars, cpuVars, idx, have, np, arg>>

\* The channel of the wakeup() that p is executing.
WakeChan(p) == IF pc[p] = "rp_wakeup" THEN initproc ELSE parent[p]

\* One iteration of wakeup(): the slot's lock is taken, unless it is p's own.
WakeupStep(c, p) ==
    /\ At(c, p, "rp_wakeup") \/ At(c, p, "ex_wakeup")
    /\ widx[p] \in Slot
    /\ LET q == widx[p] IN
       /\ q # p => PFree(q)
       /\ state' = [state EXCEPT ![q] =
              IF q # p /\ @ = "SLEEPING" /\ chan[q] = WakeChan(p)
                THEN "RUNNABLE" ELSE @]
    /\ widx' = [widx EXCEPT ![p] = @ + 1]
    /\ UNCHANGED <<chan, killed, pid, parent, nextpid, lockVars, cpuVars, pc,
                   idx, have, np, arg>>

\* wakeup(initproc) returns into reparent().
ReparentNext(c, p) ==
    /\ At(c, p, "rp_wakeup")
    /\ widx[p] \notin Slot
    /\ Goto(p, "exit_reparent")
    /\ idx' = [idx EXCEPT ![p] = @ + 1]
    /\ UNCHANGED <<procVars, lockVars, cpuVars, widx, have, np, arg>>

\* wakeup(p->parent) returns into exit().
ExitWoken(c, p) ==
    /\ At(c, p, "ex_wakeup")
    /\ widx[p] \notin Slot
    /\ Goto(p, "exit_zombie")
    /\ UNCHANGED <<procVars, lockVars, cpuVars, locVars>>

\* exit(): acquire(&p->lock), state = ZOMBIE, release(&wait_lock), sched().
ExitZombie(c, p) ==
    /\ At(c, p, "exit_zombie")
    /\ PFree(p)
    /\ plock' = [plock EXCEPT ![p] = c]
    /\ state' = [state EXCEPT ![p] = "ZOMBIE"]
    /\ waitlock' = NoCPU
    /\ ctx' = [ctx EXCEPT ![p] = "leave"]
    /\ Goto(p, "dead")
    /\ idx' = [idx EXCEPT ![p] = 1]
    /\ widx' = [widx EXCEPT ![p] = 1]
    /\ UNCHANGED <<chan, killed, pid, parent, nextpid, cproc, have, np, arg>>

-----------------------------------------------------------------------------
SwitchStep(c, p) ==
    \/ Dispatch(c, p) \/ Enter(c, p) \/ Yield(c, p) \/ Sched(c, p)
    \/ SchedulerReturn(c, p)
TrapStep(c, p) ==
    \/ KilledTrap(c, p) \/ FaultTrap(c, p) \/ SysFork(c, p) \/ SysExit(c, p)
    \/ SysWait(c, p) \/ SysKill(c, p) \/ SysGetppid(c, p)
    \/ SysGetptable(c, p)
ForkStep(c, p) ==
    \/ ForkSkip(c, p) \/ ForkAlloc(c, p) \/ ForkFail(c, p) \/ ForkNone(c, p)
    \/ ForkParent(c, p) \/ ForkRun(c, p)
TableStep(c, p) ==
    \/ KillSkip(c, p) \/ KillHit(c, p) \/ KillNone(c, p)
    \/ GetppidReturn(c, p) \/ GetptableSkip(c, p) \/ GetptableRow(c, p)
    \/ GetptableCopy(c, p) \/ GetptableFail(c, p) \/ GetptableDone(c, p)
WaitStep(c, p) ==
    \/ WaitAcquire(c, p) \/ WaitSkip(c, p) \/ WaitReap(c, p) \/ WaitFail(c, p)
    \/ WaitGiveUp(c, p) \/ WaitSleep(c, p) \/ SleepAcquire(c, p)
    \/ SleepGo(c, p)
ExitStep(c, p) ==
    \/ ExitAcquire(c, p) \/ ReparentSkip(c, p) \/ Reparent(c, p)
    \/ ExitWakeup(c, p) \/ WakeupStep(c, p) \/ ReparentNext(c, p)
    \/ ExitWoken(c, p) \/ ExitZombie(c, p)

Next ==
    \E c \in CPU, p \in Slot :
        \/ SwitchStep(c, p)
        \/ /\ Exec(c, p)
           /\ \/ TrapStep(c, p) \/ ForkStep(c, p) \/ TableStep(c, p)
              \/ WaitStep(c, p) \/ ExitStep(c, p)

Spec == Init /\ [][Next]_vars

-----------------------------------------------------------------------------
(* Properties.                                                             *)

TypeOK ==
    /\ state \in [Slot -> States]
    /\ chan \in [Slot -> Slot \cup {None}]
    /\ killed \in [Slot -> BOOLEAN]
    /\ pid \in [Slot -> Nat]
    /\ parent \in [Slot -> Slot \cup {None}]
    /\ nextpid \in Nat
    /\ plock \in [Slot -> CPU \cup {NoCPU}]
    /\ waitlock \in CPU \cup {NoCPU}
    /\ cproc \in [CPU -> Slot \cup {None}]
    /\ ctx \in [Slot -> {"exec", "leave", "saved", "enter"}]
    /\ pc \in [Slot -> Labels]
    /\ idx \in [Slot -> Cursor]
    /\ widx \in [Slot -> Cursor]
    /\ have \in [Slot -> BOOLEAN]
    /\ np \in [Slot -> Slot \cup {None}]
    /\ arg \in [Slot -> Nat]

\* A process is on at most one CPU, so no two CPUs ever share its kernel
\* stack, from the moment scheduler() sets c->proc until it clears it after
\* swtch() has come back (proc.c, scheduler(), sched()).
OneCpuPerProc ==
    \A c, d \in CPU : cproc[c] = cproc[d] /\ cproc[c] # None => c = d

\* A slot that wait() or a failing fork() has freed is on no CPU: the child
\* that exited has really left its kernel stack ("make sure the child isn't
\* still in exit() or swtch()", proc.c, wait()).
FreedIsOffCpu ==
    \A c \in CPU : cproc[c] # None => state[cproc[c]] # "UNUSED"

\* The panics of sched() cannot happen: whoever switches away holds its own
\* p->lock, holds no other spinlock, and has changed p->state.
SchedAsserts ==
    \A c \in CPU, p \in Slot :
        cproc[c] = p /\ ctx[p] = "leave" =>
            /\ PLocksOf(c) = {p}
            /\ waitlock # c
            /\ state[p] # "RUNNING"

\* Exactly who holds wait_lock: the CPU that executes a process between its
\* acquire(&wait_lock) and release(&wait_lock).  So a process that is about
\* to acquire wait_lock never holds it already (acquire() would panic), and
\* nobody sleeps, is preempted or dies with it.
WaitLockOwner ==
    \A c \in CPU : waitlock = c <=>
        cproc[c] # None /\ ctx[cproc[c]] = "exec"
                        /\ pc[cproc[c]] \in WaitLockLabels

\* Exactly who holds p->lock: a CPU that is switching to or from p, p itself
\* in sleep(), or a process copying p's row in getptable().
PLockOwner ==
    \A c \in CPU, q \in Slot : plock[q] = c <=>
        \/ cproc[c] = q /\ ctx[q] # "exec"
        \/ At(c, q, "sleep_go")
        \/ \E p \in Slot : At(c, p, "gpt_ppid") /\ idx[p] = q

\* A process's parent is alive: exit() hands its children to init before it
\* becomes a zombie, so wait() in some live process can reap every zombie, and
\* wakeup(p->parent) names a process that may be in wait().
ParentAlive ==
    \A q \in Slot : parent[q] # None =>
        state[q] # "UNUSED" /\ state[parent[q]] \notin {"UNUSED", "ZOMBIE"}

\* No wakeup is lost: when no one holds wait_lock, a parent asleep in wait()
\* has no child that has already exited, whether its own child exited or one
\* was handed over by reparent() (proc.c, exit(), reparent(), sleep()).
NoLostWakeup ==
    waitlock = NoCPU =>
        \A z \in Slot : parent[z] # None /\ state[z] = "ZOMBIE" =>
            ~ (state[parent[z]] = "SLEEPING" /\ chan[parent[z]] = parent[z])

\* Between allocproc() and the last lines of fork() the new slot belongs to
\* the forking process alone: nobody runs, frees or reallocates it although
\* np->lock has been dropped.
ForkOwnsChild ==
    \A p \in Slot : pc[p] \in {"fork_parent", "fork_run"} =>
        /\ np[p] # None
        /\ state[np[p]] = "USED"
        /\ \A q \in Slot : pc[q] \in {"fork_parent", "fork_run"} /\ np[q] = np[p]
                           => q = p

\* Two slots in use never have the same pid, so kill(pid) and wait() name one
\* process.
PidUnique ==
    \A p, q \in Slot : state[p] # "UNUSED" /\ pid[p] = pid[q] => p = q

\* The life of a slot, one step of it: allocproc(), fork(), scheduler(),
\* yield(), sleep(), wakeup(), kill(), exit() and freeproc() take it through
\* these transitions and no others.
LifeStep(q) ==
    \/ state[q] = "UNUSED" /\ state'[q] = "USED"
    \/ state[q] = "USED" /\ state'[q] = "RUNNABLE"
    \/ state[q] = "RUNNABLE" /\ state'[q] = "RUNNING"
    \/ state[q] = "RUNNING" /\ state'[q] \in {"RUNNABLE", "SLEEPING", "ZOMBIE"}
    \/ state[q] = "SLEEPING" /\ state'[q] = "RUNNABLE"
    \/ /\ state[q] = "ZOMBIE" /\ state'[q] = "UNUSED"
       /\ parent[q] # None /\ pc[parent[q]] = "wait_scan"

\* However the calls interleave, a slot changes its state only along its life;
\* a zombie in particular is only ever freed, by its parent, inside wait().
LifeCycle == [][\A q \in Slot : state'[q] # state[q] => LifeStep(q)]_vars

=============================================================================
