------------------------------- MODULE Sched -------------------------------
(***************************************************************************)
(* The scheduling policies of kernel/proc.c: choose_next_process() in its  *)
(* three modes, scheduler()'s use of its choice, set_sched(), the clock    *)
(* interrupt's update_time(), and the times that exit() computes and       *)
(* wait_sched() reports.                                                   *)
(*                                                                         *)
(* A scan of the table is one step per slot, under p->lock where the code  *)
(* takes it.  The switch from a process to its CPU's scheduler is one      *)
(* step: p->lock is held across it (module Proc).  Sleeping processes are  *)
(* left out; they are not candidates.                                      *)
(***************************************************************************)
EXTENDS Integers

CONSTANTS
    NPROC,     \* slots of the process table
    CPU,       \* the harts
    Cpu0,      \* the hart whose timer interrupt advances ticks
    NoCPU,     \* owner of a free lock
    Modes,     \* the modes that set_sched() is called with
    FirstMode, \* sched_mode's initial value
    UintBits,  \* width of uint, 32 in the build
    MaxPid,    \* bound: fork() is not called once nextpid exceeds MaxPid
    MaxTicks   \* bound: ticks, a uint, stops at MaxTicks and does not wrap

ASSUME CpuAssumption == Cpu0 \in CPU /\ NoCPU \notin CPU
ASSUME BoundsAssumption ==
    /\ NPROC \in Nat \ {0} /\ 2 ^ UintBits \in Nat \ {0}
    /\ MaxPid \in Nat /\ MaxTicks \in Nat /\ MaxTicks < 2 ^ UintBits

Slot == 1 .. NPROC
Cursor == 1 .. NPROC + 1
None == 0
SCHED_ROUND_ROBIN == 0
SCHED_FCFS == 1
SCHED_PRIORITY == 2

ASSUME ModesAssumption == Modes \subseteq 0 .. 2 /\ FirstMode \in 0 .. 2

VARIABLES
    state, pid, nextpid,        \* struct proc
    creation_time, run_time,
    turnaround_time, waiting_time,
    ticks, sched_mode,
    plock,                      \* owner of p->lock, held by the FCFS scan
    cproc,                      \* c->proc
    child,                      \* the slot a process's fork() is filling
    spc,                        \* where each CPU's scheduler() is
    idx, cand, maxprio,         \* its cursor, min_proc or choice, max_prio
    irq,                        \* Cpu0's cursor in update_time(), None outside
    steady                      \* history: RUNNABLE ever since the scan began

procVars == <<state, pid, nextpid, creation_time, run_time, turnaround_time,
              waiting_time, child>>
scanVars == <<idx, cand, maxprio>>
vars == <<procVars, ticks, sched_mode, plock, cproc, spc, scanVars, irq, steady>>

-----------------------------------------------------------------------------
PFree(p) == plock[p] = NoCPU
Holds(c) == \E p \in Slot : plock[p] = c
Runnable == {p \in Slot : state[p] = "RUNNABLE"}

\* allocproc() gives processes with odd pids priority 10, the others 5.
priority(p) == IF pid[p] % 2 # 0 THEN 10 ELSE 5

\* c executes its scheduler or its process, not an interrupt handler.
Ready(c) == c = Cpu0 => irq = None
InScheduler(c, l) == Ready(c) /\ cproc[c] = None /\ spc[c] = l
Running(c, p) == Ready(c) /\ cproc[c] = p

Init ==
    /\ state = [p \in Slot |-> IF p = 1 THEN "RUNNABLE" ELSE "UNUSED"]
    /\ pid = [p \in Slot |-> IF p = 1 THEN 1 ELSE 0]
    /\ nextpid = 2
    /\ creation_time = [p \in Slot |-> 0]
    /\ run_time = [p \in Slot |-> 0]
    /\ turnaround_time = [p \in Slot |-> 0]
    /\ waiting_time = [p \in Slot |-> 0]
    /\ child = [p \in Slot |-> None]
    /\ ticks = 0
    /\ sched_mode = FirstMode
    /\ plock = [p \in Slot |-> NoCPU]
    /\ cproc = [c \in CPU |-> None]
    /\ spc = [c \in CPU |-> "rr?"]
    /\ idx = [c \in CPU |-> 1]
    /\ cand = [c \in CPU |-> None]
    /\ maxprio = [c \in CPU |-> 0]
    /\ irq = None
    /\ steady = [c \in CPU |-> Runnable]

\* The history of each scan: which processes have been RUNNABLE, without a
\* break, since choose_next_process() was called; outside of a scan, which are
\* RUNNABLE.
TrackSteady ==
    steady' = [c \in CPU |-> IF spc'[c] \in {"rr?", "got", "wfi"}
                               THEN Runnable' ELSE steady[c] \cap Runnable']

-----------------------------------------------------------------------------
(* choose_next_process().                                                  *)

ScanFrame ==
    UNCHANGED <<procVars, ticks, sched_mode, cproc, irq>> /\ TrackSteady

\* choose_next_process() returns p to scheduler(); a null choice sends the CPU
\* to wfi.
Choose(c, p) ==
    /\ cand' = [cand EXCEPT ![c] = p]
    /\ spc' = [spc EXCEPT ![c] = IF p = None THEN "wfi" ELSE "got"]
    /\ idx' = [idx EXCEPT ![c] = 1]
    /\ maxprio' = [maxprio EXCEPT ![c] = 0]

Advance(c) == idx' = [idx EXCEPT ![c] = @ + 1]

\* The chain of tests of sched_mode.  It is read without a lock, each time it
\* is compared, so it may change between two comparisons and match none.
ModeTest(c, test, mode, scan, other) ==
    /\ InScheduler(c, test)
    /\ IF sched_mode = mode
         THEN /\ spc' = [spc EXCEPT ![c] = scan]
              /\ cand' = [cand EXCEPT ![c] = None]
              /\ UNCHANGED <<idx, maxprio>>
         ELSE IF other # "none"
         THEN /\ spc' = [spc EXCEPT ![c] = other]
              /\ UNCHANGED scanVars
         ELSE Choose(c, None)
    /\ UNCHANGED plock
    /\ ScanFrame

TestMode(c) ==
    \/ ModeTest(c, "rr?", SCHED_ROUND_ROBIN, "rr", "fcfs?")
    \/ ModeTest(c, "fcfs?", SCHED_FCFS, "fcfs", "prio?")
    \/ ModeTest(c, "prio?", SCHED_PRIORITY, "max", "none")

\* SCHED_ROUND_ROBIN: the first RUNNABLE slot, read without p->lock.
ScanRR(c) ==
    /\ InScheduler(c, "rr")
    /\ IF idx[c] \notin Slot THEN Choose(c, None)
       ELSE IF state[idx[c]] = "RUNNABLE" THEN Choose(c, idx[c])
       ELSE Advance(c) /\ UNCHANGED <<spc, cand, maxprio>>
    /\ UNCHANGED plock
    /\ ScanFrame

\* Mutant of Older: the comparison of creation times is turned round.
Younger(c, p) ==
    cand[c] = None \/ creation_time[p] > creation_time[cand[c]]

\* p replaces the FCFS scan's candidate.
Older(c, p) == cand[c] = None \/ creation_time[p] < creation_time[cand[c]]

\* Mutant of HoldOnly: the previous candidate stays locked.
HoldBoth(c, p) == plock' = [plock EXCEPT ![p] = c]

\* p's lock is kept, the previous candidate's is released.
HoldOnly(c, p) ==
    plock' = [q \in Slot |-> IF q = p THEN c
                             ELSE IF q = cand[c] THEN NoCPU ELSE plock[q]]

\* The end of the FCFS scan.
DropCandidate(c) ==
    plock' = [q \in Slot |-> IF q = cand[c] THEN NoCPU ELSE plock[q]]

\* SCHED_FCFS: the oldest RUNNABLE process; the lock of the candidate is kept
\* until a better one is found or the scan ends.
ScanFCFS(c) ==
    /\ InScheduler(c, "fcfs")
    /\ IF idx[c] \in Slot
         THEN LET p == idx[c] IN
              /\ PFree(p)
              /\ IF state[p] = "RUNNABLE" /\ Older(c, p)
                   THEN HoldOnly(c, p) /\ cand' = [cand EXCEPT ![c] = p]
                   ELSE UNCHANGED <<plock, cand>>
              /\ Advance(c)
              /\ UNCHANGED <<spc, maxprio>>
         ELSE DropCandidate(c) /\ Choose(c, cand[c])
    /\ ScanFrame

\* SCHED_PRIORITY, step A: the highest priority of any RUNNABLE process; 0
\* stands for max_prio's -1.
ScanMax(c) ==
    /\ InScheduler(c, "max")
    /\ IF idx[c] \in Slot
         THEN LET p == idx[c] IN
              /\ PFree(p)
              /\ maxprio' = [maxprio EXCEPT ![c] =
                     IF state[p] = "RUNNABLE" /\ priority(p) > @
                       THEN priority(p) ELSE @]
              /\ Advance(c)
              /\ UNCHANGED <<spc, cand>>
         ELSE IF maxprio[c] = 0 THEN Choose(c, None)
         ELSE /\ spc' = [spc EXCEPT ![c] = "match"]
              /\ idx' = [idx EXCEPT ![c] = 1]
              /\ UNCHANGED <<cand, maxprio>>
    /\ UNCHANGED plock
    /\ ScanFrame

\* SCHED_PRIORITY, step B: the first RUNNABLE process with that priority.
ScanMatch(c) ==
    /\ InScheduler(c, "match")
    /\ IF idx[c] \in Slot
         THEN /\ PFree(idx[c])
              /\ IF state[idx[c]] = "RUNNABLE" /\ priority(idx[c]) = maxprio[c]
                   THEN Choose(c, idx[c])
                   ELSE Advance(c) /\ UNCHANGED <<spc, cand, maxprio>>
         ELSE Choose(c, None)
    /\ UNCHANGED plock
    /\ ScanFrame

\* scheduler(): run the choice if it is still RUNNABLE, else wfi.
Dispatch(c) ==
    /\ InScheduler(c, "got")
    /\ LET p == cand[c] IN
       /\ PFree(p)
       /\ IF state[p] = "RUNNABLE"
            THEN /\ state' = [state EXCEPT ![p] = "RUNNING"]
                 /\ cproc' = [cproc EXCEPT ![c] = p]
                 /\ spc' = [spc EXCEPT ![c] = "rr?"]
            ELSE /\ spc' = [spc EXCEPT ![c] = "wfi"]
                 /\ UNCHANGED <<state, cproc>>
    /\ cand' = [cand EXCEPT ![c] = None]
    /\ UNCHANGED <<pid, nextpid, creation_time, run_time, turnaround_time,
                   waiting_time, child, ticks, sched_mode, plock, idx, maxprio,
                   irq>>
    /\ TrackSteady

-----------------------------------------------------------------------------
(* Timer interrupts.                                                       *)

\* Mutant of ClockIntr: update_time() also runs when other harts' timers fire.
ClockIntrEach ==
    /\ irq = None
    /\ ~ Holds(Cpu0)
    /\ ticks < MaxTicks
    /\ ticks' \in {ticks, ticks + 1}
    /\ irq' = 1
    /\ UNCHANGED <<procVars, sched_mode, plock, cproc, spc, scanVars>>
    /\ TrackSteady

\* clockintr() on hart 0: ticks++, then update_time(); interrupts are off
\* while a spinlock is held.
ClockIntr ==
    /\ irq = None
    /\ ~ Holds(Cpu0)
    /\ ticks < MaxTicks
    /\ ticks' = ticks + 1
    /\ irq' = 1
    /\ UNCHANGED <<procVars, sched_mode, plock, cproc, spc, scanVars>>
    /\ TrackSteady

\* update_time(): one slot, under its lock.
UpdateTime ==
    /\ irq \in Slot
    /\ PFree(irq)
    /\ run_time' = [run_time EXCEPT ![irq] =
           IF state[irq] = "RUNNING" THEN @ + 1 ELSE @]
    /\ irq' = irq + 1
    /\ UNCHANGED <<state, pid, nextpid, creation_time, turnaround_time,
                   waiting_time, child, ticks, sched_mode, plock, cproc, spc,
                   scanVars>>
    /\ TrackSteady

\* The rest of a timer interrupt: usertrap() and kerneltrap() yield() the
\* process, if there is one; wfi is left.  On hart 0 it follows update_time(),
\* or stands alone once ticks has reached its bound.
TimerIntr(c) ==
    /\ ~ Holds(c)
    /\ c = Cpu0 => irq = NPROC + 1 \/ (irq = None /\ ticks = MaxTicks)
    /\ IF cproc[c] # None
         THEN /\ PFree(cproc[c])
              /\ state' = [state EXCEPT ![cproc[c]] = "RUNNABLE"]
              /\ cproc' = [cproc EXCEPT ![c] = None]
              /\ UNCHANGED spc
         ELSE /\ spc[c] = "wfi" \/ (c = Cpu0 /\ irq # None)
              /\ spc' = [spc EXCEPT ![c] = IF @ = "wfi" THEN "rr?" ELSE @]
              /\ UNCHANGED <<state, cproc>>
    /\ irq' = IF c = Cpu0 THEN None ELSE irq
    /\ UNCHANGED <<pid, nextpid, creation_time, run_time, turnaround_time,
                   waiting_time, child, ticks, sched_mode, plock, scanVars>>
    /\ TrackSteady

-----------------------------------------------------------------------------
(* The processes.                                                          *)

\* fork() -> allocproc(): the new slot gets its pid, its creation time (ticks
\* is read without tickslock) and zero times.  It need not be the first UNUSED
\* slot: one that the scan has passed may have been freed since.
ForkAlloc(c, p, n) ==
    /\ Running(c, p) /\ child[p] = None
    /\ nextpid <= MaxPid
    /\ PFree(n) /\ state[n] = "UNUSED"
    /\ state' = [state EXCEPT ![n] = "USED"]
    /\ pid' = [pid EXCEPT ![n] = nextpid]
    /\ nextpid' = nextpid + 1
    /\ creation_time' = [creation_time EXCEPT ![n] = ticks]
    /\ run_time' = [run_time EXCEPT ![n] = 0]
    /\ turnaround_time' = [turnaround_time EXCEPT ![n] = 0]
    /\ waiting_time' = [waiting_time EXCEPT ![n] = 0]
    /\ child' = [child EXCEPT ![p] = n]
    /\ UNCHANGED <<ticks, sched_mode, plock, cproc, spc, scanVars, irq>>
    /\ TrackSteady

\* fork(): np->state = RUNNABLE.
ForkRun(c, p) ==
    /\ Running(c, p) /\ child[p] # None
    /\ PFree(child[p])
    /\ state' = [state EXCEPT ![child[p]] = "RUNNABLE"]
    /\ child' = [child EXCEPT ![p] = None]
    /\ UNCHANGED <<pid, nextpid, creation_time, run_time, turnaround_time,
                   waiting_time, ticks, sched_mode, plock, cproc, spc, scanVars,
                   irq>>
    /\ TrackSteady

\* exit(): the times are uint, so the subtractions wrap.
Exit(c, p) ==
    /\ Running(c, p) /\ child[p] = None
    /\ PFree(p)
    /\ LET tt == (ticks - creation_time[p]) % 2 ^ UintBits IN
       /\ turnaround_time' = [turnaround_time EXCEPT ![p] = tt]
       /\ waiting_time' = [waiting_time EXCEPT ![p] =
              (tt - run_time[p]) % 2 ^ UintBits]
    /\ state' = [state EXCEPT ![p] = "ZOMBIE"]
    /\ cproc' = [cproc EXCEPT ![c] = None]
    /\ UNCHANGED <<pid, nextpid, creation_time, run_time, child, ticks,
                   sched_mode, plock, spc, scanVars, irq>>
    /\ TrackSteady

\* wait_sched(): a running process reaps a zombie, is told its times, and
\* freeproc() resets them.
Reap(c, p, z) ==
    /\ Running(c, p) /\ child[p] = None
    /\ PFree(z) /\ state[z] = "ZOMBIE"
    /\ state' = [state EXCEPT ![z] = "UNUSED"]
    /\ pid' = [pid EXCEPT ![z] = 0]
    /\ creation_time' = [creation_time EXCEPT ![z] = ticks]
    /\ run_time' = [run_time EXCEPT ![z] = 0]
    /\ turnaround_time' = [turnaround_time EXCEPT ![z] = 0]
    /\ waiting_time' = [waiting_time EXCEPT ![z] = 0]
    /\ UNCHANGED <<nextpid, child, ticks, sched_mode, plock, cproc, spc, scanVars, irq>>
    /\ TrackSteady

\* sys_set_sched().
SetSched(c, p) ==
    /\ Running(c, p) /\ child[p] = None
    /\ \E m \in Modes : sched_mode' = m
    /\ UNCHANGED <<procVars, ticks, plock, cproc, spc, scanVars, irq>>
    /\ TrackSteady

-----------------------------------------------------------------------------
SchedulerStep(c) ==
    \/ TestMode(c) \/ ScanRR(c) \/ ScanFCFS(c) \/ ScanMax(c) \/ ScanMatch(c)
    \/ Dispatch(c)
ProcessStep(c, p) ==
    \/ \E n \in Slot : ForkAlloc(c, p, n)
    \/ ForkRun(c, p)
    \/ Exit(c, p)
    \/ \E z \in Slot : Reap(c, p, z)
    \/ SetSched(c, p)

Next ==
    \/ \E c \in CPU : \/ SchedulerStep(c) \/ TimerIntr(c)
                      \/ \E p \in Slot : ProcessStep(c, p)
    \/ ClockIntr \/ UpdateTime

Spec == Init /\ [][Next]_vars

\* Every hart keeps executing its scheduler and its interrupt handlers, and
\* its timer keeps firing (clockintr() rearms it each time).
Fairness ==
    /\ \A c \in CPU : WF_vars(SchedulerStep(c)) /\ WF_vars(TimerIntr(c))
    /\ WF_vars(ClockIntr) /\ WF_vars(UpdateTime)
    /\ \A c \in CPU, p \in Slot : WF_vars(ForkRun(c, p))
FairSpec == Spec /\ Fairness

-----------------------------------------------------------------------------
(* Properties.                                                             *)

TypeOK ==
    /\ state \in [Slot -> {"UNUSED", "USED", "RUNNABLE", "RUNNING", "ZOMBIE"}]
    /\ pid \in [Slot -> Nat] /\ nextpid \in Nat
    /\ creation_time \in [Slot -> Nat] /\ run_time \in [Slot -> Nat]
    /\ turnaround_time \in [Slot -> Nat] /\ waiting_time \in [Slot -> Nat]
    /\ child \in [Slot -> Slot \cup {None}]
    /\ ticks \in Nat /\ sched_mode \in 0 .. 2
    /\ plock \in [Slot -> CPU \cup {NoCPU}]
    /\ cproc \in [CPU -> Slot \cup {None}]
    /\ spc \in [CPU -> {"rr?", "fcfs?", "prio?", "rr", "fcfs", "max", "match",
                        "got", "wfi"}]
    /\ idx \in [CPU -> Cursor]
    /\ cand \in [CPU -> Slot \cup {None}]
    /\ maxprio \in [CPU -> {0, 5, 10}]
    /\ irq \in Cursor \cup {None}
    /\ steady \in [CPU -> SUBSET Slot]

\* The choice of c's scan, measured against every process that stayed RUNNABLE
\* during the whole scan: it is not younger (SCHED_FCFS), or has no lower
\* priority (SCHED_PRIORITY).  Whose turn it is in SCHED_ROUND_ROBIN is not a
\* matter of one scan: RoundRobin, below.
GoodPick(c) ==
    LET p == cand'[c] IN
    \A q \in steady[c] :
        /\ spc[c] = "fcfs"  => creation_time[p] <= creation_time[q]
        /\ spc[c] = "match" => priority(p) >= priority(q)

\* What choose_next_process() returns, it returns for a reason.  In the first
\* two modes it comes back empty-handed only if no process stayed RUNNABLE
\* throughout.
PickRespectsPolicy ==
    /\ [][\A c \in CPU : spc[c] # "got" /\ spc'[c] = "got" => GoodPick(c)]_vars
    /\ [][\A c \in CPU : spc[c] \in {"rr", "fcfs"} /\ spc'[c] = "wfi" =>
             steady[c] = {}]_vars

\* p->lock is held across steps by an FCFS scan alone, for its candidate,
\* which is still RUNNABLE when its creation time is compared, and which the
\* scan has passed: so scans on several CPUs take the locks in table order and
\* none waits for one that waits for it.
CandidateHeld ==
    /\ TypeOK
    /\ \A c \in CPU, p \in Slot :
           plock[p] = c <=> spc[c] = "fcfs" /\ cand[c] = p
    /\ \A c \in CPU : spc[c] = "fcfs" /\ cand[c] # None =>
           state[cand[c]] = "RUNNABLE" /\ cand[c] < idx[c]

\* update_time() charges a process at most one tick more than have passed
\* since its creation.
RunTimeBound ==
    \A p \in Slot : state[p] \notin {"UNUSED", "ZOMBIE"} =>
        run_time[p] <= ticks - creation_time[p] + 1

\* Mode 0 is "RR" (sysproc.c, sys_set_sched()) and "RoundRobin" (schedtest.c):
\* each process that waits for the CPU gets its turn.
RoundRobin == \A p \in Slot : state[p] = "RUNNABLE" ~> state[p] # "RUNNABLE"

\* "(This acts as Round Robin among the VIPs)" (proc.c, SCHED_PRIORITY): a
\* process of the highest priority that waits for the CPU gets it.
VipsTakeTurns ==
    \A p \in Slot : state[p] = "RUNNABLE" /\ priority(p) = 10
                       ~> state[p] # "RUNNABLE"

=============================================================================
