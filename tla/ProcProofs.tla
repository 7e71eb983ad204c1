----------------------------- MODULE ProcProofs -----------------------------
(***************************************************************************)
(* Proofs about Proc for every number of slots, CPUs and pids: types, CPUs *)
(* and locks, the process tree, sleeping parents and pids, that IInv is    *)
(* inductive, and the theorems.                                            *)
(***************************************************************************)
EXTENDS ProcInv, TLAPS

\* The provers, in the order of the attempts.
USE ZenonT(4), SMT, SMTT(20), SMTT(40), ZenonT(30)

-----------------------------------------------------------------------------
(* Part 1: facts about slots and locks, the initial state, and the steps   *)
(* that keep the types, one per action of the model.                       *)

\* Slots and cursors as the table loops of proc.c use them: numbers, ordered,
\* a cursor past the end being above every slot.
LEMMA SlotFacts ==
    initproc \in Slot /\ None \notin Slot /\ 1 \in Cursor
  BY NPROCAssumption DEF Slot, Cursor, initproc, None

\* A loop over the table starts before every slot and moves within Cursor.
LEMMA CursorFacts ==
    /\ Slot \subseteq Nat /\ Cursor \subseteq Nat /\ Slot \subseteq Cursor
    /\ \A i \in Slot : i + 1 \in Cursor
    /\ \A q \in Slot : ~ (q < 1)
  BY NPROCAssumption DEF Slot, Cursor

\* What a cursor that has just moved from slot i has passed.
LEMMA Before ==
    ASSUME NEW i \in Slot, NEW q \in Slot
    PROVE  /\ q < i + 1 => q <= i /\ (q < i \/ q = i)
           /\ q <= i => q < i \/ q = i
           /\ i + 1 > q => i > q \/ i = q
           /\ i + 1 <= q => i <= q
           /\ ~ (1 > q)
  BY DEF Slot

\* A cursor past the end has passed every slot.
LEMMA PastEnd ==
    ASSUME NEW i \in Cursor \ Slot, NEW q \in Slot
    PROVE  q < i /\ i > q /\ ~ (i <= q)
  BY NPROCAssumption DEF Slot, Cursor

USE DEF procVars, lockVars, cpuVars, locVars

\* The table that procinit() and userinit() leave satisfies the invariant.
LEMMA InitIInv == Init => IInv
<1> SUFFICES ASSUME Init  PROVE IInv
  OBVIOUS
<1> USE SlotFacts
    DEF Init
<1>1. TypeOK
  BY DEF TypeOK, States, Labels
<1>2. CpuInv
  BY NoCPUAssumption DEF CpuInv, OneCpuPerProc, SwitchInv, LabelInv,
     WaitLockOwner, PLockOwner, At, Exec, WaitLockLabels
<1>3. TreeInv
  BY DEF TreeInv, InitInv, ReparentInv, ParentInv, ForkInv, ForkOwnsChild
<1>4. SleepInv /\ PidInv
  BY DEF SleepInv, WaitInv, WakeInv, PidInv, PidUnique
<1> QED  BY <1>1, <1>2, <1>3, <1>4 DEF IInv

\* A step that changes nothing keeps the invariant.
LEMMA StutterIInv == IInv /\ UNCHANGED vars => IInv'
<1> SUFFICES ASSUME IInv, UNCHANGED vars  PROVE IInv'
  OBVIOUS
<1> USE DEF vars, IInv
<1>1. TypeOK'
  BY SMTT(30) DEF TypeOK
<1>2. CpuInv'
  BY SMTT(30) DEF CpuInv, OneCpuPerProc, SwitchInv, LabelInv, WaitLockOwner,
     PLockOwner, At, Exec
<1>3. TreeInv'
  BY SMTT(30) DEF TreeInv, InitInv, ReparentInv, ParentInv, ForkInv,
     ForkOwnsChild
<1>4. SleepInv' /\ PidInv'
  BY SMTT(30) DEF SleepInv, WaitInv, WakeInv, PidInv, PidUnique
<1> QED  BY <1>1, <1>2, <1>3, <1>4

-----------------------------------------------------------------------------
(* What CpuInv says to the other groups.                                   *)

\* wait_lock has one holder: a process between acquire(&wait_lock) and
\* release(&wait_lock) excludes every other one.
LEMMA HolderFacts ==
    ASSUME TypeOK, CpuInv, NEW p \in Slot, pc[p] \in WaitLockLabels
    PROVE  /\ waitlock # NoCPU
           /\ \A q \in Slot : pc[q] \in WaitLockLabels => q = p
<1> USE DEF TypeOK, CpuInv
<1>1. ASSUME NEW q \in Slot, pc[q] \in WaitLockLabels
      PROVE  \E c \in CPU : cproc[c] = q /\ waitlock = c
  <2>1. ctx[q] = "exec"  BY <1>1 DEF LabelInv
  <2>2. PICK c \in CPU : cproc[c] = q  BY <2>1 DEF SwitchInv
  <2> QED  BY <1>1, <2>1, <2>2, SlotFacts DEF WaitLockOwner
<1>2. PICK c \in CPU : cproc[c] = p /\ waitlock = c  BY <1>1
<1> QED  BY <1>1, <1>2, NoCPUAssumption

\* A process whose code is being executed is RUNNING.
LEMMA RunFacts ==
    ASSUME TypeOK, CpuInv, NEW c \in CPU, NEW p \in Slot, Exec(c, p)
    PROVE  state[p] = "RUNNING"
  BY DEF TypeOK, CpuInv, SwitchInv, Exec

\* getptable() copies a row with that row's lock held.
LEMMA RowLock ==
    ASSUME PLockOwner, NEW c \in CPU, NEW p \in Slot,
           At(c, p, "gpt_ppid"), idx[p] \in Slot
    PROVE  plock[idx[p]] = c
  BY DEF PLockOwner

\* Where processes on CPUs neither enter nor leave wait_lock's sections, the
\* owner of wait_lock stays.
LEMMA WaitLockFrame ==
    ASSUME TypeOK, WaitLockOwner, cproc' = cproc, waitlock' = waitlock,
           \A q \in Slot : (\E c \in CPU : cproc[c] = q) =>
               /\ ctx'[q] = ctx[q]
               /\ pc'[q] \in WaitLockLabels <=> pc[q] \in WaitLockLabels
    PROVE  WaitLockOwner'
<1> SUFFICES ASSUME NEW c \in CPU, cproc[c] # None
             PROVE  /\ ctx'[cproc[c]] = ctx[cproc[c]]
                    /\ pc'[cproc[c]] \in WaitLockLabels
                         <=> pc[cproc[c]] \in WaitLockLabels
  BY DEF WaitLockOwner
<1> QED  BY DEF TypeOK

\* Seen under p->lock, a process that is not RUNNING is on no CPU.
LEMMA OffCpuFacts ==
    ASSUME TypeOK, CpuInv, NEW q \in Slot, PFree(q), state[q] # "RUNNING"
    PROVE  /\ \A c \in CPU : cproc[c] # q
           /\ ctx[q] = "saved"
  BY NoCPUAssumption DEF TypeOK, CpuInv, SwitchInv, PLockOwner, PFree

\* fork() owns the slot it is filling: it is USED, hence on no CPU.
LEMMA ForkFacts ==
    ASSUME IInv, NEW p \in Slot, pc[p] \in {"fork_parent", "fork_run"}
    PROVE  np[p] \in Slot /\ state[np[p]] = "USED" /\ pc[np[p]] = "user"
  BY DEF IInv, TypeOK, CpuInv, LabelInv, TreeInv, ForkInv, ForkOwnsChild

\* A step of the table takes every slot along its life, or leaves it as it is.
LEMMA LifeSteps ==
    ASSUME IInv, NEW c \in CPU, NEW p \in Slot,
           \/ SwitchStep(c, p) \/ TrapStep(c, p) \/ ForkStep(c, p)
           \/ TableStep(c, p) \/ WaitStep(c, p) \/ ExitStep(c, p)
    PROVE  \A q \in Slot : state'[q] # state[q] => LifeStep(q)
<1>a. state \in [Slot -> States]
  BY DEF IInv, TypeOK
<1>r. Exec(c, p) => state[p] = "RUNNING"
  BY RunFacts DEF IInv
<1>f. pc[p] = "fork_run" => np[p] \in Slot /\ state[np[p]] = "USED"
  BY ForkFacts
<1>1. SwitchStep(c, p) => \A q \in Slot : state'[q] # state[q] => LifeStep(q)
  BY <1>a, <1>r, Zenon DEF SwitchStep, Dispatch, Enter, Yield, Sched,
     SchedulerReturn, At, LifeStep
<1>2. TrapStep(c, p) => state' = state
  BY Zenon DEF TrapStep, KilledTrap, FaultTrap, SysFork, SysExit, SysWait, SysKill,
     SysGetppid, SysGetptable, Syscall
<1>3. ForkStep(c, p) => \A q \in Slot : state'[q] # state[q] => LifeStep(q)
  <2>1. ForkSkip(c, p) \/ ForkNone(c, p) \/ ForkParent(c, p) => state' = state
    BY Zenon DEF ForkSkip, ForkNone, ForkParent
  <2>2. ForkFail(c, p) => \A q \in Slot : state'[q] = state[q]
    BY <1>a, Zenon DEF ForkFail, FreeProc, Visit
  <2>3. ForkAlloc(c, p) => \A q \in Slot : state'[q] # state[q] => LifeStep(q)
    BY <1>a DEF ForkAlloc, Visit, LifeStep
  <2>4. ForkRun(c, p) => \A q \in Slot : state'[q] # state[q] => LifeStep(q)
    BY <1>a, <1>f, Zenon DEF ForkRun, At, LifeStep
  <2> QED  BY <2>1, <2>2, <2>3, <2>4 DEF ForkStep
<1>4. TableStep(c, p) => \A q \in Slot : state'[q] # state[q] => LifeStep(q)
  BY <1>a, Zenon DEF TableStep, KillSkip, KillHit, KillNone, GetppidReturn,
     GetptableSkip, GetptableRow, GetptableCopy, GetptableFail,
     GetptableDone, Visit, LifeStep
<1>5. WaitStep(c, p) => \A q \in Slot : state'[q] # state[q] => LifeStep(q)
  <2>1. WaitReap(c, p) => \A q \in Slot : state'[q] # state[q] => LifeStep(q)
    BY <1>a, SlotFacts, Zenon DEF WaitReap, WaitFound, FreeProc, Visit, At, LifeStep
  <2>2. SleepGo(c, p) => \A q \in Slot : state'[q] # state[q] => LifeStep(q)
    BY <1>a, <1>r, Zenon DEF SleepGo, At, LifeStep
  <2>3. WaitStep(c, p) => \/ state' = state \/ WaitReap(c, p)
                          \/ SleepGo(c, p)
    BY Zenon DEF WaitStep, WaitAcquire, WaitSkip, WaitFail, WaitGiveUp,
       WaitSleep, SleepAcquire
  <2> QED  BY <2>1, <2>2, <2>3
<1>6. ExitStep(c, p) => \A q \in Slot : state'[q] # state[q] => LifeStep(q)
  <2>1. WakeupStep(c, p) => \A q \in Slot : state'[q] # state[q] => LifeStep(q)
    BY <1>a, Zenon DEF WakeupStep, LifeStep
  <2>2. ExitZombie(c, p) => \A q \in Slot : state'[q] # state[q] => LifeStep(q)
    BY <1>a, <1>r, Zenon DEF ExitZombie, At, LifeStep
  <2>3. ExitStep(c, p) => \/ state' = state \/ WakeupStep(c, p)
                          \/ ExitZombie(c, p)
    BY Zenon DEF ExitStep, ExitAcquire, ReparentSkip, Reparent, ExitWakeup,
       ReparentNext, ExitWoken
  <2> QED  BY <2>1, <2>2, <2>3
<1> QED  BY <1>1, <1>2, <1>3, <1>4, <1>5, <1>6

\* Every step of the process table keeps the types.
LEMMA TypeOKStep ==
    ASSUME IInv, NEW c \in CPU, NEW p \in Slot,
           \/ SwitchStep(c, p) \/ TrapStep(c, p) \/ ForkStep(c, p)
           \/ TableStep(c, p) \/ WaitStep(c, p) \/ ExitStep(c, p)
    PROVE  TypeOK'
<1>a. TypeOK  BY DEF IInv
<1>i. pc[p] \in {"gpt_ppid", "rp_wakeup"} => idx[p] \in Slot
  BY DEF IInv, CpuInv, LabelInv
<1>n. /\ idx[p] \in Slot => idx[p] + 1 \in Cursor
      /\ widx[p] \in Slot => widx[p] + 1 \in Cursor
  BY CursorFacts, Zenon
<1>k. pc[p] \in {"fork_parent", "fork_run"} => np[p] \in Slot  BY ForkFacts
<1> USE <1>a, <1>i, <1>n, <1>k, SlotFacts, KillArgsAssumption, SMTT(30),
   SMTT(60)
    DEF TypeOK, Labels, States, Exec, At, Goto, PFree, NextSlot, Visit,
        EndOfTable, Syscall, WaitLockLabels, Return, FreeProc
<1>1. Dispatch(c, p) => TypeOK'  BY DEF Dispatch
<1>2. Enter(c, p) => TypeOK'  BY DEF Enter
<1>3. Yield(c, p) => TypeOK'  BY DEF Yield
<1>4. Sched(c, p) => TypeOK'  BY DEF Sched
<1>5. SchedulerReturn(c, p) => TypeOK'  BY DEF SchedulerReturn
<1>6. KilledTrap(c, p) => TypeOK'  BY DEF KilledTrap
<1>7. FaultTrap(c, p) => TypeOK'  BY DEF FaultTrap
<1>8. SysFork(c, p) => TypeOK'  BY DEF SysFork
<1>9. SysExit(c, p) => TypeOK'  BY DEF SysExit
<1>10. SysWait(c, p) => TypeOK'  BY DEF SysWait
<1>11. SysKill(c, p) => TypeOK'  BY DEF SysKill
<1>12. SysGetppid(c, p) => TypeOK'  BY DEF SysGetppid
<1>13. SysGetptable(c, p) => TypeOK'  BY DEF SysGetptable
<1>14. ForkSkip(c, p) => TypeOK'  BY DEF ForkSkip
<1>15. ForkAlloc(c, p) => TypeOK'  BY DEF ForkAlloc
<1>16. ForkFail(c, p) => TypeOK'  BY DEF ForkFail
<1>17. ForkNone(c, p) => TypeOK'  BY DEF ForkNone
<1>18. ForkParent(c, p) => TypeOK'  BY DEF ForkParent
<1>19. ForkRun(c, p) => TypeOK'  BY DEF ForkRun
<1>20. KillSkip(c, p) => TypeOK'  BY DEF KillSkip
<1>21. KillHit(c, p) => TypeOK'  BY DEF KillHit
<1>22. KillNone(c, p) => TypeOK'  BY DEF KillNone
<1>23. GetppidReturn(c, p) => TypeOK'  BY DEF GetppidReturn
<1>24. GetptableSkip(c, p) => TypeOK'  BY DEF GetptableSkip
<1>25. GetptableRow(c, p) => TypeOK'  BY DEF GetptableRow
<1>26. GetptableCopy(c, p) => TypeOK'  BY DEF GetptableCopy
<1>27. GetptableFail(c, p) => TypeOK'  BY DEF GetptableFail
<1>28. GetptableDone(c, p) => TypeOK'  BY DEF GetptableDone
<1>29. WaitAcquire(c, p) => TypeOK'  BY DEF WaitAcquire
<1>30. CASE WaitSkip(c, p)
  <2>1. have' \in [Slot -> BOOLEAN]  BY <1>30, Zenon DEF WaitSkip
  <2>2. /\ idx' = [idx EXCEPT ![p] = @ + 1] /\ idx[p] \in Slot
        /\ UNCHANGED <<procVars, lockVars, cpuVars, pc, widx, np, arg>>
    BY <1>30, Zenon DEF WaitSkip
  <2> QED  BY <2>1, <2>2
<1>31. WaitReap(c, p) => TypeOK'  BY DEF WaitReap, WaitFound
<1>32. WaitFail(c, p) => TypeOK'  BY DEF WaitFail, WaitFound
<1>33. WaitGiveUp(c, p) => TypeOK'  BY DEF WaitGiveUp
<1>34. WaitSleep(c, p) => TypeOK'  BY DEF WaitSleep
<1>35. SleepAcquire(c, p) => TypeOK'  BY DEF SleepAcquire
<1>36. SleepGo(c, p) => TypeOK'  BY DEF SleepGo
<1>37. ExitAcquire(c, p) => TypeOK'  BY DEF ExitAcquire
<1>38. ReparentSkip(c, p) => TypeOK'  BY DEF ReparentSkip
<1>39. Reparent(c, p) => TypeOK'  BY DEF Reparent
<1>40. ExitWakeup(c, p) => TypeOK'  BY DEF ExitWakeup
<1>41. WakeupStep(c, p) => TypeOK'  BY DEF WakeupStep, WakeChan
<1>42. ReparentNext(c, p) => TypeOK'  BY DEF ReparentNext
<1>43. ExitWoken(c, p) => TypeOK'  BY DEF ExitWoken
<1>44. ExitZombie(c, p) => TypeOK'  BY DEF ExitZombie
<1> HIDE <1>a, <1>i, <1>n, <1>k, SlotFacts, KillArgsAssumption
    DEF TypeOK, Labels, States, Exec, At, Goto, PFree, NextSlot, Visit,
        EndOfTable, Syscall, WaitLockLabels, Return, FreeProc
<1> QED  BY <1>1, <1>2, <1>3, <1>4, <1>5, <1>6, <1>7, <1>8, <1>9, <1>10, Zenon,
         <1>11, <1>12, <1>13, <1>14, <1>15, <1>16, <1>17, <1>18, <1>19,
         <1>20, <1>21, <1>22, <1>23, <1>24, <1>25, <1>26, <1>27, <1>28,
         <1>29, <1>30, <1>31, <1>32, <1>33, <1>34, <1>35, <1>36, <1>37,
         <1>38, <1>39, <1>40, <1>41, <1>42, <1>43, <1>44, Zenon
  DEF SwitchStep, TrapStep, ForkStep, TableStep, WaitStep, ExitStep

-----------------------------------------------------------------------------
(* Part 2: the steps that keep the part of the invariant about CPUs and    *)
(* locks, one per action of the model.                                     *)

\* Context switches and locks: every step keeps CpuInv.
LEMMA CpuInvStep ==
    ASSUME IInv, NEW c \in CPU, NEW p \in Slot,
           \/ SwitchStep(c, p) \/ TrapStep(c, p) \/ ForkStep(c, p)
           \/ TableStep(c, p) \/ WaitStep(c, p) \/ ExitStep(c, p)
    PROVE  CpuInv'
<1>a. TypeOK /\ CpuInv  BY DEF IInv
<1>t. /\ state \in [Slot -> States] /\ chan \in [Slot -> Slot \cup {None}]
      /\ plock \in [Slot -> CPU \cup {NoCPU}] /\ waitlock \in CPU \cup {NoCPU}
      /\ cproc \in [CPU -> Slot \cup {None}]
      /\ ctx \in [Slot -> {"exec", "leave", "saved", "enter"}]
      /\ pc \in [Slot -> Labels] /\ idx \in [Slot -> Cursor]
  BY <1>a DEF TypeOK
<1> USE <1>a, <1>t, SlotFacts, NoCPUAssumption, SMTT(30), SMTT(60)
    DEF CpuInv, OneCpuPerProc, SwitchInv, LabelInv, WaitLockOwner,
        PLockOwner, Exec, At, Goto, HoldsNothing, PLocksOf, PFree, Return,
        FreeProc, NextSlot, Visit, EndOfTable, Syscall, WaitLockLabels
<1>1. Dispatch(c, p) => CpuInv'  BY DEF Dispatch
<1>2. Enter(c, p) => CpuInv'  BY DEF Enter
<1>3. CASE Yield(c, p)
  <2>1. pc[p] \notin WaitLockLabels
    BY <1>3 DEF Yield
  <2>2. ASSUME pc[p] = "gpt_ppid"  PROVE FALSE
    <3>1. idx[p] \in Slot  BY <2>2
    <3>2. At(c, p, "gpt_ppid")  BY <1>3, <2>2 DEF Yield
    <3>3. plock[idx[p]] = c  BY <3>1, <3>2, RowLock
    <3> QED  BY <1>3, <3>1, <3>3 DEF Yield
  <2> QED  BY <1>3, <2>1, <2>2 DEF Yield
<1>4. Sched(c, p) => CpuInv'  BY DEF Sched
<1>5. SchedulerReturn(c, p) => CpuInv'  BY DEF SchedulerReturn
<1>6. KilledTrap(c, p) \/ FaultTrap(c, p) => CpuInv'
  BY DEF KilledTrap, FaultTrap
<1>7. SysFork(c, p) \/ SysExit(c, p) \/ SysWait(c, p) => CpuInv'
  BY DEF SysFork, SysExit, SysWait
<1>8. SysKill(c, p) \/ SysGetppid(c, p) \/ SysGetptable(c, p) => CpuInv'
  BY DEF SysKill, SysGetppid, SysGetptable
<1>9. ForkSkip(c, p) \/ ForkNone(c, p) => CpuInv'  BY DEF ForkSkip, ForkNone
<1>10. CASE ForkAlloc(c, p)
  <2> DEFINE n == idx[p]
  <2>1. n \in Slot /\ state[n] = "UNUSED" /\ PFree(n)
    BY <1>10 DEF ForkAlloc
  <2>2. n # p /\ \A d \in CPU : cproc[d] # n
    BY <1>10, <2>1, OffCpuFacts, RunFacts DEF ForkAlloc
  <2>3. OneCpuPerProc' /\ SwitchInv'
    BY <1>10, <2>1, <2>2 DEF ForkAlloc
  <2>4. LabelInv'
    BY <1>10, <2>1, <2>2 DEF ForkAlloc
  <2>5. ASSUME NEW q \in Slot, q # n
        PROVE  /\ ctx'[q] = ctx[q]
               /\ pc'[q] \in WaitLockLabels <=> pc[q] \in WaitLockLabels
    BY <1>10, <2>1, <2>2, <2>5 DEF ForkAlloc
  <2>6. cproc' = cproc /\ waitlock' = waitlock  BY <1>10 DEF ForkAlloc
  <2>7. WaitLockOwner'
    BY <2>2, <2>5, <2>6, WaitLockFrame
  <2>8. PLockOwner'
    BY <1>10, <2>1, <2>2 DEF ForkAlloc
  <2> QED  BY <2>3, <2>4, <2>7, <2>8
<1>11. ForkFail(c, p) => CpuInv'  BY DEF ForkFail
<1>12. ForkParent(c, p) => CpuInv'  BY DEF ForkParent
<1>13. CASE ForkRun(c, p)
  <2>1. np[p] \in Slot /\ state[np[p]] = "USED" /\ pc[np[p]] = "user"
    BY <1>13, ForkFacts DEF ForkRun
  <2> QED  BY <1>13, <2>1 DEF ForkRun
<1>14. KillSkip(c, p) \/ KillNone(c, p) \/ GetppidReturn(c, p) => CpuInv'
  BY DEF KillSkip, KillNone, GetppidReturn
<1>15. KillHit(c, p) => CpuInv'  BY DEF KillHit
<1>16. GetptableSkip(c, p) \/ GetptableRow(c, p) => CpuInv'
  BY DEF GetptableSkip, GetptableRow
<1>17. GetptableCopy(c, p) \/ GetptableFail(c, p) \/ GetptableDone(c, p)
         => CpuInv'
  BY DEF GetptableCopy, GetptableFail, GetptableDone
<1>18. WaitAcquire(c, p) => CpuInv'  BY DEF WaitAcquire
<1>19. WaitSkip(c, p) => CpuInv'  BY DEF WaitSkip
<1>20. WaitReap(c, p) => CpuInv'  BY DEF WaitReap, WaitFound
<1>21. WaitFail(c, p) => CpuInv'  BY DEF WaitFail, WaitFound
<1>22. WaitGiveUp(c, p) => CpuInv'  BY DEF WaitGiveUp
<1>23. WaitSleep(c, p) => CpuInv'  BY DEF WaitSleep
<1>24. SleepAcquire(c, p) => CpuInv'  BY DEF SleepAcquire
<1>25. SleepGo(c, p) => CpuInv'  BY DEF SleepGo
<1>26. ExitAcquire(c, p) => CpuInv'  BY DEF ExitAcquire
<1>27. ReparentSkip(c, p) => CpuInv'  BY DEF ReparentSkip
<1>28. Reparent(c, p) => CpuInv'  BY DEF Reparent
<1>29. ExitWakeup(c, p) => CpuInv'  BY DEF ExitWakeup
<1>30. WakeupStep(c, p) => CpuInv'  BY DEF WakeupStep, WakeChan
<1>31. ReparentNext(c, p) => CpuInv'  BY DEF ReparentNext
<1>32. ExitWoken(c, p) => CpuInv'  BY DEF ExitWoken
<1>33. ExitZombie(c, p) => CpuInv'  BY DEF ExitZombie
<1> HIDE <1>a, <1>t, SlotFacts, NoCPUAssumption
    DEF CpuInv, OneCpuPerProc, SwitchInv, LabelInv, WaitLockOwner,
        PLockOwner, Exec, At, Goto, HoldsNothing, PLocksOf, PFree, Return,
        FreeProc, NextSlot, Visit, EndOfTable, Syscall, WaitLockLabels
<1> QED  BY <1>1, <1>2, <1>3, <1>4, <1>5, <1>6, <1>7, <1>8, <1>9, <1>10, Zenon,
         <1>11, <1>12, <1>13, <1>14, <1>15, <1>16, <1>17, <1>18, <1>19,
         <1>20, <1>21, <1>22, <1>23, <1>24, <1>25, <1>26, <1>27, <1>28,
         <1>29, <1>30, <1>31, <1>32, <1>33, Zenon
  DEF SwitchStep, TrapStep, ForkStep, TableStep, WaitStep, ExitStep

-----------------------------------------------------------------------------
(* Part 3: the process tree and the sleeping parents.                      *)

\* The fields and locals they are about.
RowTypes ==
    /\ state \in [Slot -> States] /\ parent \in [Slot -> Slot \cup {None}]
    /\ pc \in [Slot -> Labels] /\ np \in [Slot -> Slot \cup {None}]
    /\ idx \in [Slot -> Cursor] /\ widx \in [Slot -> Cursor]
    /\ have \in [Slot -> BOOLEAN]

\* f1 is f with the value of p replaced by v.
Sets(f1, f, p, v) == f1[p] = v /\ \A q \in Slot \ {p} : f1[q] = f[q]

\* The locals of a call that returns.
Returned(p) ==
    /\ Sets(pc', pc, p, "user") /\ Sets(idx', idx, p, 1)
    /\ Sets(widx', widx, p, 1) /\ Sets(have', have, p, FALSE)
    /\ Sets(np', np, p, None)

\* A process that is executed is RUNNING; if it has wait_lock, or the lock is
\* free, nobody else is between its acquire and release.
LEMMA StepFacts ==
    ASSUME IInv, NEW c \in CPU, NEW p \in Slot, Exec(c, p)
    PROVE  /\ RowTypes /\ state[p] = "RUNNING"
           /\ pc[p] \in WaitLockLabels \/ waitlock = NoCPU =>
                  \A q \in Slot \ {p} : pc[q] \notin WaitLockLabels
<1>1. TypeOK /\ CpuInv
  BY DEF IInv
<1>2. RowTypes
  BY <1>1 DEF TypeOK, RowTypes
<1>3. state[p] = "RUNNING"
  BY <1>1, RunFacts
<1>4. ASSUME pc[p] \in WaitLockLabels \/ waitlock = NoCPU,
             NEW q \in Slot \ {p}, pc[q] \in WaitLockLabels
      PROVE  FALSE
  BY <1>1, <1>4, HolderFacts
<1> QED  BY <1>2, <1>3, <1>4

\* Return() in these terms.
LEMMA ReturnFacts ==
    ASSUME RowTypes, NEW p \in Slot, Return(p) PROVE Returned(p)
  BY DEF RowTypes, Return, Goto, Returned, Sets

-----------------------------------------------------------------------------
(* Steps that do not disturb them.                                         *)

\* Parents stay, a live process stays alive, and whoever is in fork() or
\* exit() stays where it is.
TreeQuiet ==
    /\ parent' = parent
    /\ \A q \in Slot : state'[q] # state[q] =>
        /\ state[q] \in {"RUNNABLE", "RUNNING", "SLEEPING"}
        /\ state'[q] \in {"RUNNABLE", "RUNNING", "SLEEPING"}
    /\ \A q \in Slot :
        /\ pc'[q] = "exit_acq" => q # initproc
        /\ pc'[q] \in {"fork_parent", "fork_run", "exit_reparent", "rp_wakeup",
                       "ex_wakeup", "exit_zombie", "dead"}
           => pc'[q] = pc[q] /\ idx'[q] = idx[q] /\ np'[q] = np[q]

\* Nobody exits, and whoever is in wait()'s scan stays there, with no child
\* more.
WaitQuiet ==
    /\ \A z \in Slot : state'[z] = "ZOMBIE" => state[z] = "ZOMBIE"
    /\ \A q \in Slot : pc'[q] \in {"wait_scan", "sleep_lk", "sleep_go"} =>
        /\ pc'[q] = pc[q] /\ idx'[q] = idx[q] /\ have'[q] = have[q]
        /\ \A z \in Slot : parent'[z] = q => parent[z] = q

\* Nobody exits or goes to sleep, and whoever is in exit()'s wakeups stays
\* there.
WakeQuiet ==
    /\ \A z \in Slot : state'[z] = "ZOMBIE" =>
                           state[z] = "ZOMBIE" /\ parent'[z] = parent[z]
    /\ \A q \in Slot : state'[q] = "SLEEPING" => state[q] = "SLEEPING"
    /\ \A q \in Slot :
        /\ pc[q] = "rp_wakeup" => pc'[q] = pc[q] /\ widx'[q] = widx[q]
        /\ pc'[q] \in {"ex_wakeup", "exit_zombie"} =>
               pc'[q] = pc[q] /\ widx'[q] = widx[q] /\ parent'[q] = parent[q]

\* Such a step keeps the process tree: parents, and who is alive.
LEMMA TreeKept ==
    ASSUME RowTypes, TreeInv, TreeQuiet PROVE TreeInv'
<1>1. InitInv'
  BY SlotFacts DEF TreeInv, InitInv, TreeQuiet
<1>2. ReparentInv'
  BY DEF TreeInv, ReparentInv, TreeQuiet
<1>3. ParentInv'
  BY DEF RowTypes, TreeInv, ParentInv, TreeQuiet
<1>4. ForkInv'
  <2>1. ASSUME NEW q \in Slot, pc'[q] \in {"fork_parent", "fork_run"}
        PROVE  /\ pc'[q] = pc[q] /\ np'[q] = np[q] /\ np[q] \in Slot
               /\ state'[np[q]] = "USED"
    BY <2>1 DEF RowTypes, TreeInv, ForkInv, ForkOwnsChild, TreeQuiet
  <2>2. ForkOwnsChild'
    BY <2>1, SlotFacts DEF TreeInv, ForkInv, ForkOwnsChild
  <2>3. \A q \in Slot : pc'[q] = "fork_run" => parent'[np'[q]] = q
    BY <2>1 DEF TreeInv, ForkInv, TreeQuiet
  <2> QED  BY <2>2, <2>3 DEF ForkInv
<1> QED  BY <1>1, <1>2, <1>3, <1>4 DEF TreeInv

\* Such a step keeps what wait() has seen of its children.
LEMMA WaitKept ==
    ASSUME WaitInv, WaitQuiet PROVE WaitInv'
  BY DEF WaitInv, WaitQuiet

\* Such a step loses no wakeup.
LEMMA WakeKept ==
    ASSUME RowTypes, WakeInv, WakeQuiet PROVE WakeInv'
<1>1. ASSUME NEW z \in Slot, state'[z] = "ZOMBIE", parent'[z] # None,
             state'[parent'[z]] = "SLEEPING"
      PROVE  /\ parent'[z] = initproc
             /\ \E q \in Slot : pc'[q] = "rp_wakeup" /\ widx'[q] <= initproc
  <2>1. /\ state[z] = "ZOMBIE" /\ parent[z] # None /\ parent'[z] = parent[z]
        /\ state[parent[z]] = "SLEEPING"
    BY <1>1 DEF RowTypes, WakeQuiet
  <2>2. PICK q \in Slot : pc[q] = "rp_wakeup" /\ widx[q] <= initproc
    BY <2>1 DEF WakeInv
  <2> QED  BY <2>1, <2>2 DEF WakeInv, WakeQuiet
<1>2. ASSUME NEW q \in Slot, parent'[q] # None,
             pc'[q] = "ex_wakeup" => widx'[q] > parent'[q],
             pc'[q] \in {"ex_wakeup", "exit_zombie"}
      PROVE  state'[parent'[q]] # "SLEEPING"
  <2>1. /\ pc'[q] = pc[q] /\ widx'[q] = widx[q] /\ parent'[q] = parent[q]
        /\ parent[q] \in Slot
    BY <1>2 DEF RowTypes, WakeQuiet
  <2> QED  BY <1>2, <2>1 DEF WakeInv, WakeQuiet
<1> QED  BY <1>1, <1>2 DEF WakeInv

QuietLabels == {"user", "fork_scan", "kill_scan", "getppid", "gpt_scan",
                "gpt_ppid", "wait_acq", "exit_acq", "panic"}

\* A step of p that leaves parents alone, puts nobody to sleep, creates and
\* ends nobody, and keeps p where it is or takes it to a quiet label.
Quiet(p) ==
    /\ parent' = parent
    /\ \A q \in Slot : state'[q] # state[q] =>
        /\ state[q] \in {"RUNNABLE", "RUNNING", "SLEEPING"}
        /\ state'[q] \in {"RUNNABLE", "RUNNING"}
    /\ \A q \in Slot :
        \/ /\ pc'[q] = pc[q] /\ idx'[q] = idx[q] /\ widx'[q] = widx[q]
           /\ have'[q] = have[q] /\ np'[q] = np[q]
        \/ /\ q = p /\ pc[p] # "rp_wakeup" /\ pc'[p] \in QuietLabels
           /\ pc'[p] = "exit_acq" => p # initproc

\* It disturbs nothing.
LEMMA QuietKeeps ==
    ASSUME IInv, NEW p \in Slot, Quiet(p) PROVE TreeInv' /\ SleepInv'
<1>1. RowTypes /\ TreeInv /\ WaitInv /\ WakeInv
  BY DEF IInv, TypeOK, RowTypes, SleepInv
<1>2. TreeQuiet
  <2>1. \A q \in Slot : pc[q] = "exit_acq" => q # initproc
    BY <1>1 DEF TreeInv, InitInv
  <2> QED  BY <2>1 DEF Quiet, QuietLabels, TreeQuiet
<1>3. WaitQuiet
  BY DEF Quiet, QuietLabels, WaitQuiet
<1>4. WakeQuiet
  BY DEF Quiet, QuietLabels, WakeQuiet
<1> QED  BY <1>1, <1>2, <1>3, <1>4, TreeKept, WaitKept, WakeKept DEF SleepInv

\* Context switches, traps, kill(), getppid(), getptable() and the failing
\* exits of fork() and wait() are quiet.
LEMMA QuietStep ==
    ASSUME IInv, NEW c \in CPU, NEW p \in Slot,
           \/ SwitchStep(c, p) \/ TrapStep(c, p) \/ TableStep(c, p)
           \/ ForkSkip(c, p) \/ ForkFail(c, p) \/ ForkNone(c, p)
           \/ WaitFail(c, p) \/ WaitGiveUp(c, p)
    PROVE  Quiet(p)
<1>a. RowTypes
  BY DEF IInv, TypeOK, RowTypes
<1>r. Exec(c, p) => state[p] = "RUNNING"
  BY RunFacts DEF IInv
<1>1. CASE SwitchStep(c, p)
  BY <1>1, <1>a, <1>r, Zenon DEF SwitchStep, Dispatch, Enter, Yield, Sched,
     SchedulerReturn, RowTypes, Quiet, At
<1>2. CASE TrapStep(c, p)
  <2>1. /\ parent' = parent /\ state' = state /\ pc[p] = "user"
        /\ \E l \in QuietLabels :
               pc' = [pc EXCEPT ![p] = l] /\ (l = "exit_acq" => p # initproc)
        /\ idx' = idx /\ widx' = widx /\ have' = have
        /\ \A q \in Slot \ {p} : np'[q] = np[q]
    <3>1. CASE KilledTrap(c, p) \/ FaultTrap(c, p)
      BY <3>1 DEF KilledTrap, FaultTrap, At, Goto, QuietLabels
    <3>2. CASE SysFork(c, p) \/ SysExit(c, p) \/ SysWait(c, p)
      BY <3>2 DEF Syscall, SysFork, SysExit, SysWait, At, Goto, QuietLabels
    <3>3. CASE SysKill(c, p) \/ SysGetptable(c, p)
      BY <3>3 DEF Syscall, SysKill, SysGetptable, At, Goto, QuietLabels
    <3>4. CASE SysGetppid(c, p)
      BY <3>4, <1>a DEF Syscall, SysGetppid, At, Goto, QuietLabels, RowTypes
    <3> QED  BY <1>2, <3>1, <3>2, <3>3, <3>4, Zenon DEF TrapStep
  <2> QED  BY <1>a, <2>1 DEF RowTypes, Quiet
<1>m. ASSUME \/ /\ Return(p) /\ pc[p] # "rp_wakeup"
             \/ NextSlot(p) /\ pc' = pc /\ pc[p] \in QuietLabels \ {"exit_acq"}
      PROVE  \A q \in Slot :
                 \/ /\ pc'[q] = pc[q] /\ idx'[q] = idx[q] /\ widx'[q] = widx[q]
                    /\ have'[q] = have[q] /\ np'[q] = np[q]
                 \/ /\ q = p /\ pc[p] # "rp_wakeup" /\ pc'[p] \in QuietLabels
                    /\ pc'[p] # "exit_acq"
  BY <1>m, <1>a DEF RowTypes, Return, Goto, NextSlot, QuietLabels
<1>3. CASE TableStep(c, p)
  <2>1. CASE KillHit(c, p)
    <3>1. /\ Return(p) /\ pc[p] = "kill_scan" /\ parent' = parent
          /\ \A q \in Slot : \/ state'[q] = state[q]
                             \/ state[q] = "SLEEPING" /\ state'[q] = "RUNNABLE"
      BY <2>1, <1>a, Zenon DEF KillHit, Visit, At, RowTypes
    <3> QED  BY <3>1, <1>m DEF Quiet
  <2>2. CASE KillSkip(c, p) \/ GetptableSkip(c, p)
    <3>1. NextSlot(p) /\ pc' = pc /\ pc[p] \in {"kill_scan", "gpt_scan"}
          /\ parent' = parent /\ state' = state
      BY <2>2, Zenon DEF KillSkip, GetptableSkip, Visit, At
    <3> QED  BY <3>1, <1>m DEF Quiet, QuietLabels
  <2>3. CASE \/ KillNone(c, p) \/ GetppidReturn(c, p) \/ GetptableFail(c, p)
             \/ GetptableDone(c, p)
    <3>1. /\ Return(p) /\ pc[p] \in {"kill_scan", "getppid", "gpt_ppid", "gpt_scan"}
          /\ parent' = parent /\ state' = state
      BY <2>3, Zenon DEF KillNone, GetppidReturn, GetptableFail, GetptableDone,
         EndOfTable, At
    <3> QED  BY <3>1, <1>m DEF Quiet
  <2>4. CASE GetptableRow(c, p) \/ GetptableCopy(c, p)
    BY <2>4, <1>a DEF GetptableRow, GetptableCopy, Visit, At, Goto, RowTypes,
       Quiet, QuietLabels
  <2> QED  BY <1>3, <2>1, <2>2, <2>3, <2>4, Zenon DEF TableStep
<1>4. CASE ForkSkip(c, p)
  BY <1>4, <1>m DEF ForkSkip, Visit, At, Quiet, QuietLabels
<1>5. CASE ForkFail(c, p)
  <2>1. Return(p) /\ pc[p] = "fork_scan" /\ idx[p] \in Slot /\ state[idx[p]] = "UNUSED"
    BY <1>5, Zenon DEF ForkFail, Visit, At
  <2>2. parent[idx[p]] = None
    BY <2>1 DEF IInv, TreeInv, ParentInv
  <2>3. parent' = parent /\ \A q \in Slot : state'[q] = state[q]
    BY <1>5, <1>a, <2>1, <2>2 DEF ForkFail, FreeProc, RowTypes
  <2> QED  BY <2>1, <2>3, <1>m DEF Quiet
<1>6. CASE ForkNone(c, p) \/ WaitFail(c, p) \/ WaitGiveUp(c, p)
  <2>1. /\ Return(p) /\ pc[p] \in {"fork_scan", "wait_scan"}
        /\ parent' = parent /\ state' = state
    BY <1>6, Zenon DEF ForkNone, WaitFail, WaitFound, WaitGiveUp, Visit,
       EndOfTable, At
  <2> QED  BY <2>1, <1>m DEF Quiet
<1> QED  BY <1>1, <1>2, <1>3, <1>4, <1>5, <1>6, Zenon

-----------------------------------------------------------------------------
(* fork().                                                                 *)

\* allocproc() takes a slot that nobody has anything to do with.
LEMMA ForkAllocKeeps ==
    ASSUME IInv, NEW c \in CPU, NEW p \in Slot, ForkAlloc(c, p)
    PROVE  TreeInv' /\ SleepInv'
<1> DEFINE n == idx[p]
<1>1. RowTypes /\ state[p] = "RUNNING"
  BY StepFacts, Zenon DEF ForkAlloc, Visit, At
<1>2. TreeInv /\ WaitInv /\ WakeInv
  BY DEF IInv, SleepInv
<1>3. /\ n \in Slot /\ state[n] = "UNUSED" /\ n # p
      /\ parent' = parent /\ widx' = widx /\ have' = have
      /\ Sets(state', state, n, "USED") /\ Sets(np', np, p, n)
      /\ Sets(idx', idx, p, 1)
  BY <1>1 DEF ForkAlloc, Visit, RowTypes, Sets
<1>4. /\ pc[p] = "fork_scan" /\ pc'[p] = "fork_parent" /\ pc'[n] = "user"
      /\ \A q \in Slot \ {n, p} : pc'[q] = pc[q]
  BY <1>1, <1>3 DEF ForkAlloc, Visit, At, RowTypes
<1>5. pc[n] \in {"user", "dead"}
  BY <1>3 DEF IInv, CpuInv, LabelInv
<1> HIDE DEF n
<1>6. InitInv'
  BY <1>2, <1>3, <1>4, SlotFacts DEF TreeInv, InitInv, Sets
<1>7. ReparentInv'
  BY <1>2, <1>3, <1>4 DEF TreeInv, ReparentInv, Sets
<1>8. ParentInv'
  BY <1>1, <1>2, <1>3 DEF TreeInv, ParentInv, Sets, RowTypes
<1>9. ForkInv'
  <2>1. ASSUME NEW q \in Slot \ {p}, pc'[q] \in {"fork_parent", "fork_run"}
        PROVE  /\ pc[q] = pc'[q] /\ np'[q] = np[q] /\ np[q] \in Slot \ {n}
               /\ state'[np[q]] = "USED"
    BY <1>1, <1>2, <1>3, <1>4, <2>1
       DEF TreeInv, ForkInv, ForkOwnsChild, Sets, RowTypes
  <2>2. ForkOwnsChild'
    BY <1>2, <1>3, <1>4, <2>1, SlotFacts DEF TreeInv, ForkInv, ForkOwnsChild, Sets
  <2> QED  BY <1>2, <1>3, <1>4, <2>1, <2>2 DEF TreeInv, ForkInv
<1>10. WaitQuiet
  BY <1>3, <1>4 DEF WaitQuiet, Sets
<1>11. WakeQuiet
  BY <1>3, <1>4, <1>5 DEF WakeQuiet, Sets
<1> QED  BY <1>1, <1>2, <1>6, <1>7, <1>8, <1>9, <1>10, <1>11, WaitKept, WakeKept
         DEF TreeInv, SleepInv

\* The child gets its parent.
LEMMA ForkParentKeeps ==
    ASSUME IInv, NEW c \in CPU, NEW p \in Slot, ForkParent(c, p)
    PROVE  TreeInv' /\ SleepInv'
<1> DEFINE n == np[p]
<1>1. RowTypes /\ state[p] = "RUNNING" /\ pc[p] = "fork_parent"
  BY StepFacts, Zenon DEF ForkParent, At
<1>2. TreeInv /\ WaitInv /\ WakeInv
  BY DEF IInv, SleepInv
<1>3. n \in Slot /\ state[n] = "USED" /\ pc[n] = "user"
  BY <1>1, ForkFacts
<1>4. /\ Sets(parent', parent, n, p) /\ Sets(pc', pc, p, "fork_run")
      /\ state' = state /\ idx' = idx /\ widx' = widx /\ have' = have /\ np' = np
  BY <1>1, <1>3 DEF ForkParent, Goto, RowTypes, Sets
<1>5. \A q \in Slot \ {p} : pc[q] \in {"fork_parent", "fork_run"} => np[q] # n
  BY <1>1, <1>2 DEF TreeInv, ForkInv, ForkOwnsChild
<1>6. np[p] = n
  OBVIOUS
<1> HIDE DEF n
<1>7. InitInv'
  BY <1>1, <1>2, <1>4, SlotFacts DEF TreeInv, InitInv, Sets
<1>8. ReparentInv'
  BY <1>2, <1>3, <1>4 DEF TreeInv, ReparentInv, Sets
<1>9. ParentInv'
  BY <1>1, <1>2, <1>3, <1>4, SlotFacts DEF TreeInv, ParentInv, Sets, RowTypes
<1>10. ForkInv'
  <2>1. ForkOwnsChild'
    BY <1>1, <1>2, <1>4 DEF TreeInv, ForkInv, ForkOwnsChild, Sets
  <2>2. ASSUME NEW q \in Slot, pc'[q] = "fork_run" PROVE parent'[np'[q]] = q
    <3>1. CASE q = p  BY <1>4, <1>6, <3>1 DEF Sets
    <3>2. CASE q # p
      BY <1>1, <1>2, <1>4, <1>5, <2>2, <3>2
         DEF TreeInv, ForkInv, ForkOwnsChild, Sets, RowTypes
    <3> QED  BY <3>1, <3>2
  <2> QED  BY <2>1, <2>2 DEF ForkInv
<1>11. WaitQuiet
  BY <1>3, <1>4 DEF WaitQuiet, Sets
<1>12. WakeQuiet
  BY <1>1, <1>3, <1>4 DEF WakeQuiet, Sets
<1> QED  BY <1>1, <1>2, <1>7, <1>8, <1>9, <1>10, <1>11, <1>12, WaitKept, WakeKept
         DEF TreeInv, SleepInv

\* The child may run.
LEMMA ForkRunKeeps ==
    ASSUME IInv, NEW c \in CPU, NEW p \in Slot, ForkRun(c, p)
    PROVE  TreeInv' /\ SleepInv'
<1> DEFINE n == np[p]
<1>1. RowTypes /\ state[p] = "RUNNING" /\ pc[p] = "fork_run"
  BY StepFacts, Zenon DEF ForkRun, At
<1>2. TreeInv /\ WaitInv /\ WakeInv
  BY DEF IInv, SleepInv
<1>3. n \in Slot /\ state[n] = "USED" /\ parent[n] = p
  BY <1>1, <1>2, ForkFacts DEF TreeInv, ForkInv
<1>4. Sets(state', state, n, "RUNNABLE") /\ parent' = parent
  BY <1>1, <1>3 DEF ForkRun, RowTypes, Sets
<1>5. Returned(p)
  BY <1>1, ReturnFacts DEF ForkRun
<1>6. \A q \in Slot \ {p} : pc[q] \in {"fork_parent", "fork_run"} => np[q] # n
  BY <1>1, <1>2 DEF TreeInv, ForkInv, ForkOwnsChild
<1> HIDE DEF n
<1>7. InitInv'
  BY <1>2, <1>4, <1>5, SlotFacts DEF TreeInv, InitInv, Sets, Returned
<1>8. ReparentInv'
  BY <1>2, <1>4, <1>5 DEF TreeInv, ReparentInv, Sets, Returned
<1>9. ParentInv'
  BY <1>1, <1>2, <1>3, <1>4, SlotFacts DEF TreeInv, ParentInv, Sets, RowTypes
<1>10. ForkInv'
  BY <1>1, <1>2, <1>4, <1>5, <1>6
     DEF TreeInv, ForkInv, ForkOwnsChild, Sets, Returned, RowTypes
<1>11. WaitQuiet
  BY <1>4, <1>5 DEF WaitQuiet, Sets, Returned
<1>12. WakeQuiet
  BY <1>1, <1>4, <1>5 DEF WakeQuiet, Sets, Returned
<1> QED  BY <1>1, <1>2, <1>7, <1>8, <1>9, <1>10, <1>11, <1>12, WaitKept, WakeKept
         DEF TreeInv, SleepInv

-----------------------------------------------------------------------------
(* wait().                                                                 *)

\* The steps of wait() and sleep() up to the last one move only the process
\* itself; the scan has seen no exited child in the slots it has passed.
LEMMA WaitScanKeeps ==
    ASSUME IInv, NEW c \in CPU, NEW p \in Slot,
           WaitAcquire(c, p) \/ WaitSkip(c, p) \/ WaitSleep(c, p) \/ SleepAcquire(c, p)
    PROVE  TreeInv' /\ SleepInv'
<1>1. RowTypes
  BY DEF IInv, TypeOK, RowTypes
<1>2. TreeInv /\ WaitInv /\ WakeInv
  BY DEF IInv, SleepInv
<1>3. /\ parent' = parent /\ state' = state /\ widx' = widx /\ np' = np
      /\ pc[p] \in {"wait_acq", "wait_scan", "sleep_lk"}
      /\ pc'[p] \in {"wait_scan", "sleep_lk", "sleep_go"}
      /\ \A q \in Slot \ {p} : pc'[q] = pc[q] /\ idx'[q] = idx[q] /\ have'[q] = have[q]
  BY <1>1 DEF WaitAcquire, WaitSkip, WaitSleep, SleepAcquire, EndOfTable, At, Goto,
     RowTypes
<1>4. TreeQuiet
  <2>1. \A q \in Slot : pc[q] = "exit_acq" => q # initproc
    BY <1>2 DEF TreeInv, InitInv
  <2> QED  BY <1>3, <2>1 DEF TreeQuiet
<1>5. WakeQuiet
  BY <1>3 DEF WakeQuiet
<1>6. ASSUME NEW z \in Slot, parent[z] = p
      PROVE  /\ pc'[p] = "wait_scan" /\ z < idx'[p] => state[z] # "ZOMBIE" /\ have'[p]
             /\ pc'[p] \in {"sleep_lk", "sleep_go"} => state[z] # "ZOMBIE"
  <2>1. CASE WaitAcquire(c, p)
    BY <1>1, <2>1, CursorFacts DEF WaitAcquire, Goto, RowTypes
  <2>2. CASE WaitSkip(c, p)
    <3>1. /\ idx[p] \in Slot /\ pc[p] = "wait_scan" /\ pc'[p] = "wait_scan"
          /\ idx'[p] = idx[p] + 1 /\ (z = idx[p] => state[z] # "ZOMBIE" /\ have'[p])
          /\ have[p] => have'[p]
      BY <1>1, <1>6, <2>2 DEF WaitSkip, At, RowTypes
    <3>2. z < idx[p] + 1 => z < idx[p] \/ z = idx[p]
      BY <3>1, Before
    <3> QED  BY <1>2, <1>6, <3>1, <3>2 DEF WaitInv
  <2>3. CASE WaitSleep(c, p)
    <3>1. idx[p] \in Cursor \ Slot /\ pc[p] = "wait_scan" /\ pc'[p] = "sleep_lk"
      BY <1>1, <2>3 DEF WaitSleep, EndOfTable, At, Goto, RowTypes
    <3>2. z < idx[p]
      BY <3>1, PastEnd
    <3> QED  BY <1>2, <1>6, <3>1, <3>2 DEF WaitInv
  <2>4. CASE SleepAcquire(c, p)
    <3>1. pc[p] = "sleep_lk" /\ pc'[p] = "sleep_go"
      BY <1>1, <2>4 DEF SleepAcquire, At, Goto, RowTypes
    <3> QED  BY <1>2, <1>6, <3>1 DEF WaitInv
  <2> QED  BY <2>1, <2>2, <2>3, <2>4
<1>7. WaitInv'
  BY <1>2, <1>3, <1>6 DEF WaitInv
<1> QED  BY <1>1, <1>2, <1>4, <1>5, <1>7, TreeKept, WakeKept DEF SleepInv

\* freeproc() on an exited child, which has no children of its own.
LEMMA WaitReapKeeps ==
    ASSUME IInv, NEW c \in CPU, NEW p \in Slot, WaitReap(c, p)
    PROVE  TreeInv' /\ SleepInv'
<1> DEFINE n == idx[p]
<1>1. RowTypes /\ state[p] = "RUNNING" /\ pc[p] = "wait_scan"
  BY StepFacts, Zenon DEF WaitReap, WaitFound, Visit, At
<1>2. TreeInv /\ WaitInv /\ WakeInv
  BY DEF IInv, SleepInv
<1>3. n \in Slot /\ state[n] = "ZOMBIE" /\ parent[n] = p
  BY DEF WaitReap, WaitFound, Visit
<1>4. Sets(state', state, n, "UNUSED") /\ Sets(parent', parent, n, None)
  BY <1>1, <1>3 DEF WaitReap, FreeProc, RowTypes, Sets
<1>5. Returned(p)
  BY <1>1, ReturnFacts DEF WaitReap
<1>6. pc[n] = "dead"
  BY <1>3 DEF IInv, CpuInv, LabelInv
<1> HIDE DEF n
<1>7. InitInv'
  BY <1>2, <1>3, <1>4, <1>5, SlotFacts DEF TreeInv, InitInv, Sets, Returned
<1>8. ReparentInv'
  BY <1>2, <1>3, <1>4, <1>5, SlotFacts DEF TreeInv, ReparentInv, Sets, Returned
<1>9. ParentInv'
  BY <1>1, <1>2, <1>3, <1>4 DEF TreeInv, ParentInv, Sets, RowTypes
<1>10. ForkInv'
  <2>1. ASSUME NEW q \in Slot, pc'[q] \in {"fork_parent", "fork_run"}
        PROVE  /\ pc'[q] = pc[q] /\ np'[q] = np[q] /\ np[q] \in Slot \ {n}
               /\ state'[np[q]] = "USED"
    BY <1>1, <1>2, <1>3, <1>4, <1>5, <2>1
       DEF TreeInv, ForkInv, ForkOwnsChild, Sets, Returned, RowTypes
  <2>2. ForkOwnsChild'
    BY <1>2, <2>1, SlotFacts DEF TreeInv, ForkInv, ForkOwnsChild
  <2> QED  BY <1>2, <1>4, <2>1, <2>2 DEF TreeInv, ForkInv, Sets
<1>11. WaitQuiet
  BY <1>4, <1>5, SlotFacts DEF WaitQuiet, Sets, Returned
<1>12. WakeQuiet
  BY <1>1, <1>4, <1>5, <1>6 DEF WakeQuiet, Sets, Returned
<1> QED  BY <1>1, <1>2, <1>7, <1>8, <1>9, <1>10, <1>11, <1>12, WaitKept, WakeKept
         DEF TreeInv, SleepInv

\* sleep(): the process has no exited child, and wait_lock has kept every
\* other one from exiting or being handed over since it looked.
LEMMA SleepGoKeeps ==
    ASSUME IInv, NEW c \in CPU, NEW p \in Slot, SleepGo(c, p)
    PROVE  TreeInv' /\ SleepInv'
<1>1. /\ RowTypes /\ state[p] = "RUNNING" /\ pc[p] = "sleep_go"
      /\ \A q \in Slot \ {p} : pc[q] \notin WaitLockLabels
  BY StepFacts DEF SleepGo, At, WaitLockLabels
<1>2. TreeInv /\ WaitInv /\ WakeInv
  BY DEF IInv, SleepInv
<1>3. /\ Sets(state', state, p, "SLEEPING") /\ Sets(pc', pc, p, "wait_acq")
      /\ parent' = parent /\ idx' = idx /\ widx' = widx /\ have' = have /\ np' = np
  BY <1>1 DEF SleepGo, Goto, RowTypes, Sets
<1>4. TreeQuiet
  <2>1. \A q \in Slot : pc[q] = "exit_acq" => q # initproc
    BY <1>2 DEF TreeInv, InitInv
  <2> QED  BY <1>1, <1>3, <2>1 DEF TreeQuiet, Sets
<1>5. WaitQuiet
  BY <1>3 DEF WaitQuiet, Sets
<1>6. WakeInv'
  <2>1. ASSUME NEW z \in Slot, state'[z] = "ZOMBIE", parent'[z] # None,
               state'[parent'[z]] = "SLEEPING"
        PROVE  FALSE
    <3>1. state[z] = "ZOMBIE" /\ parent[z] \in Slot
      BY <1>1, <1>3, <2>1 DEF Sets, RowTypes
    <3>2. parent[z] # p
      BY <1>1, <1>2, <3>1 DEF WaitInv
    <3>3. state[parent[z]] = "SLEEPING"
      BY <1>3, <2>1, <3>1, <3>2 DEF Sets
    <3>4. PICK q \in Slot : pc[q] = "rp_wakeup"
      BY <1>2, <3>1, <3>3, SlotFacts DEF WakeInv
    <3> QED  BY <1>1, <3>4 DEF WaitLockLabels
  <2>2. \A q \in Slot : pc'[q] \notin {"ex_wakeup", "exit_zombie"}
    BY <1>1, <1>3 DEF WaitLockLabels, Sets
  <2> QED  BY <2>1, <2>2 DEF WakeInv
<1> QED  BY <1>1, <1>2, <1>4, <1>5, <1>6, TreeKept, WaitKept DEF SleepInv

-----------------------------------------------------------------------------
(* exit().                                                                 *)

\* Where exit() has wait_lock, or takes it, it alone is in exit() or wait().
LEMMA ExitFacts ==
    ASSUME IInv, NEW c \in CPU, NEW p \in Slot, ExitStep(c, p)
    PROVE  /\ RowTypes /\ TreeInv /\ WaitInv /\ WakeInv
           /\ state[p] = "RUNNING" /\ p # initproc
           /\ \A q \in Slot \ {p} : pc[q] \notin WaitLockLabels
<1>1. RowTypes /\ TreeInv /\ WaitInv /\ WakeInv
  BY DEF IInv, TypeOK, RowTypes, SleepInv
<1>2. /\ Exec(c, p)
      /\ \/ pc[p] \in {"exit_reparent", "rp_wakeup", "ex_wakeup", "exit_zombie"}
         \/ pc[p] = "exit_acq" /\ waitlock = NoCPU
  BY DEF ExitStep, ExitAcquire, ReparentSkip, Reparent, ExitWakeup, WakeupStep,
     ReparentNext, ExitWoken, ExitZombie, EndOfTable, At
<1>3. p # initproc
  BY <1>1, <1>2 DEF TreeInv, InitInv
<1>4. pc[p] \in WaitLockLabels \/ waitlock = NoCPU
  BY <1>2 DEF WaitLockLabels
<1> QED  BY <1>1, <1>2, <1>3, <1>4, StepFacts

\* A step within exit() before the process is a zombie: reparent() has handed
\* over the children in the slots it has passed.
LEMMA ExitTree ==
    ASSUME RowTypes, TreeInv, NEW p \in Slot, p # initproc, ReparentInv',
           parent' = parent, state' = state, np' = np,
           pc[p] \notin {"fork_parent", "fork_run"},
           pc'[p] \notin {"fork_parent", "fork_run"},
           \A q \in Slot \ {p} : pc'[q] = pc[q]
    PROVE  TreeInv'
<1>1. InitInv'
  BY SlotFacts DEF TreeInv, InitInv
<1>2. ParentInv'
  BY DEF TreeInv, ParentInv
<1>3. ForkInv'
  BY DEF TreeInv, ForkInv, ForkOwnsChild
<1> QED  BY <1>1, <1>2, <1>3 DEF TreeInv

\* exit() takes wait_lock, or passes over a slot.
LEMMA ReparentScanKeeps ==
    ASSUME IInv, NEW c \in CPU, NEW p \in Slot, ExitAcquire(c, p) \/ ReparentSkip(c, p)
    PROVE  TreeInv' /\ SleepInv'
<1>1. /\ RowTypes /\ TreeInv /\ WaitInv /\ WakeInv /\ p # initproc
  BY ExitFacts DEF ExitStep
<1>2. /\ parent' = parent /\ state' = state /\ np' = np /\ widx' = widx /\ have' = have
      /\ pc[p] \in {"exit_acq", "exit_reparent"} /\ Sets(pc', pc, p, "exit_reparent")
      /\ \A q \in Slot \ {p} : idx'[q] = idx[q]
  BY <1>1 DEF ExitAcquire, ReparentSkip, NextSlot, At, Goto, RowTypes, Sets
<1>3. ASSUME NEW q \in Slot, q < idx'[p] PROVE parent[q] # p
  <2>1. CASE ExitAcquire(c, p)
    BY <1>1, <1>3, <2>1, CursorFacts DEF ExitAcquire, RowTypes
  <2>2. CASE ReparentSkip(c, p)
    <3>1. /\ idx[p] \in Slot /\ pc[p] = "exit_reparent" /\ parent[idx[p]] # p
          /\ idx'[p] = idx[p] + 1
      BY <1>1, <2>2 DEF ReparentSkip, NextSlot, At, RowTypes
    <3>2. q < idx[p] \/ q = idx[p]
      BY <1>3, <3>1, Before
    <3> QED  BY <1>1, <3>1, <3>2 DEF TreeInv, ReparentInv
  <2> QED  BY <2>1, <2>2
<1>4. ReparentInv'
  BY <1>1, <1>2, <1>3 DEF TreeInv, ReparentInv, Sets
<1>5. TreeInv'
  BY <1>1, <1>2, <1>4, ExitTree DEF Sets
<1>6. WaitQuiet /\ WakeQuiet
  BY <1>2 DEF WaitQuiet, WakeQuiet, Sets
<1> QED  BY <1>1, <1>5, <1>6, WaitKept, WakeKept DEF SleepInv

\* reparent() gives a child to init, which is about to be woken.
LEMMA ReparentKeeps ==
    ASSUME IInv, NEW c \in CPU, NEW p \in Slot, Reparent(c, p)
    PROVE  TreeInv' /\ SleepInv'
<1> DEFINE n == idx[p]
<1>1. /\ RowTypes /\ TreeInv /\ WaitInv /\ WakeInv
      /\ state[p] = "RUNNING" /\ p # initproc
      /\ \A q \in Slot \ {p} : pc[q] \notin WaitLockLabels
  BY ExitFacts DEF ExitStep
<1>2. n \in Slot /\ pc[p] = "exit_reparent" /\ parent[n] = p
  BY DEF Reparent, At
<1>3. /\ Sets(parent', parent, n, initproc) /\ Sets(pc', pc, p, "rp_wakeup")
      /\ Sets(widx', widx, p, 1)
      /\ state' = state /\ idx' = idx /\ have' = have /\ np' = np
  BY <1>1, <1>2 DEF Reparent, Goto, RowTypes, Sets
<1>4. \A q \in Slot : q <= n => q < n \/ q = n
  BY <1>2, Before
<1>5. idx[p] = n
  OBVIOUS
<1> HIDE DEF n
<1>6. InitInv'
  BY <1>1, <1>3, SlotFacts DEF TreeInv, InitInv, Sets
<1>7. ReparentInv'
  BY <1>1, <1>2, <1>3, <1>4, <1>5, SlotFacts
     DEF TreeInv, ReparentInv, Sets, WaitLockLabels
<1>8. ParentInv'
  BY <1>1, <1>2, <1>3, SlotFacts DEF TreeInv, InitInv, ParentInv, Sets
<1>9. ForkInv'
  <2>1. ForkOwnsChild'
    BY <1>1, <1>2, <1>3 DEF TreeInv, ForkInv, ForkOwnsChild, Sets
  <2>2. ASSUME NEW q \in Slot, pc'[q] = "fork_run"
        PROVE  parent'[np'[q]] = q
    <3>1. q # p /\ pc[q] = "fork_run" /\ np[q] \in Slot /\ parent[np[q]] = q
      BY <1>1, <1>2, <1>3, <2>2 DEF TreeInv, ForkInv, ForkOwnsChild, Sets, RowTypes
    <3> QED  BY <1>2, <1>3, <3>1 DEF Sets
  <2> QED  BY <2>1, <2>2 DEF ForkInv
<1>10. WaitQuiet
  BY <1>1, <1>3 DEF WaitQuiet, Sets, WaitLockLabels
<1>11. WakeInv'
  <2>1. ASSUME NEW z \in Slot, state'[z] = "ZOMBIE", parent'[z] # None,
               state'[parent'[z]] = "SLEEPING"
        PROVE  parent'[z] = initproc
    <3>1. CASE z = n  BY <1>3, <3>1 DEF Sets
    <3>2. CASE z # n  BY <1>1, <1>3, <2>1, <3>2 DEF WakeInv, Sets
    <3> QED  BY <3>1, <3>2
  <2>2. pc'[p] = "rp_wakeup" /\ widx'[p] <= initproc
    BY <1>3 DEF Sets, initproc
  <2>3. \A q \in Slot : pc'[q] \notin {"ex_wakeup", "exit_zombie"}
    BY <1>1, <1>3 DEF WaitLockLabels, Sets
  <2> QED  BY <2>1, <2>2, <2>3 DEF WakeInv
<1> QED  BY <1>1, <1>6, <1>7, <1>8, <1>9, <1>10, <1>11, WaitKept DEF TreeInv, SleepInv

\* reparent() is done, and the parent is about to be woken.
LEMMA ExitWakeupKeeps ==
    ASSUME IInv, NEW c \in CPU, NEW p \in Slot, ExitWakeup(c, p)
    PROVE  TreeInv' /\ SleepInv'
<1>1. /\ RowTypes /\ TreeInv /\ WaitInv /\ WakeInv /\ p # initproc
      /\ \A q \in Slot \ {p} : pc[q] \notin WaitLockLabels
  BY ExitFacts DEF ExitStep
<1>2. /\ idx[p] \in Cursor \ Slot /\ pc[p] = "exit_reparent"
      /\ parent' = parent /\ state' = state /\ np' = np /\ idx' = idx /\ have' = have
      /\ Sets(pc', pc, p, "ex_wakeup") /\ Sets(widx', widx, p, 1)
  BY <1>1 DEF ExitWakeup, EndOfTable, At, Goto, RowTypes, Sets
<1>3. \A q \in Slot : parent[q] # p
  <2>1. \A q \in Slot : q < idx[p]
    BY <1>2, PastEnd
  <2> QED  BY <1>1, <1>2, <2>1 DEF TreeInv, ReparentInv
<1>4. ReparentInv'
  BY <1>1, <1>2, <1>3 DEF TreeInv, ReparentInv, Sets
<1>5. TreeInv'
  BY <1>1, <1>2, <1>4, ExitTree DEF Sets
<1>6. WaitQuiet
  BY <1>2 DEF WaitQuiet, Sets
<1>7. WakeInv'
  <2>1. \A q \in Slot : pc[q] # "rp_wakeup"
    BY <1>1, <1>2 DEF WaitLockLabels
  <2>2. \A q \in Slot : pc'[q] \in {"ex_wakeup", "exit_zombie"} => q = p
    BY <1>1, <1>2 DEF WaitLockLabels, Sets
  <2>3. parent[p] # None => ~ (widx'[p] > parent[p])
    BY <1>1, <1>2, Before DEF RowTypes, Sets
  <2>4. pc'[p] = "ex_wakeup"
    BY <1>2 DEF Sets
  <2> QED  BY <1>1, <1>2, <2>1, <2>2, <2>3, <2>4 DEF WakeInv
<1> QED  BY <1>1, <1>5, <1>6, <1>7, WaitKept DEF SleepInv

\* wakeup() reaches the parent of the exiting process, or init in reparent():
\* the one case where a sleeping parent may already have an exited child.
LEMMA WakeupStepInv ==
    ASSUME TypeOK, CpuInv, TreeInv, WakeInv,
           NEW c \in CPU, NEW p \in Slot, WakeupStep(c, p)
    PROVE  WakeInv'
<1>1. widx[p] \in Slot /\ pc[p] \in {"rp_wakeup", "ex_wakeup"}
  BY DEF WakeupStep, At
<1>2. \A q \in Slot : pc[q] \in WaitLockLabels => q = p
  BY <1>1, HolderFacts DEF WaitLockLabels
<1>3. /\ \A q \in Slot : state'[q] \in {"ZOMBIE", "SLEEPING"} =>
             state'[q] = state[q]
      /\ parent' = parent /\ pc' = pc /\ widx'[p] = widx[p] + 1
  BY <1>1 DEF WakeupStep, TypeOK
<1>4. \A q \in Slot : q # p /\ q = widx[p] /\ q = WakeChan(p) =>
          state'[q] # "SLEEPING"
  BY <1>1 DEF WakeupStep, TypeOK, CpuInv, LabelInv
<1>5. ASSUME NEW z \in Slot, state'[z] = "ZOMBIE", parent'[z] # None,
             state'[parent'[z]] = "SLEEPING"
      PROVE  /\ parent'[z] = initproc
             /\ \E q \in Slot : pc'[q] = "rp_wakeup" /\ widx'[q] <= initproc
  <2>1. /\ state[z] = "ZOMBIE" /\ parent[z] \in Slot
        /\ state[parent[z]] = "SLEEPING"
    BY <1>3, <1>5 DEF TypeOK
  <2>2. parent[z] = initproc /\ pc[p] = "rp_wakeup" /\ widx[p] <= initproc
    BY <1>2, <2>1, SlotFacts DEF WakeInv, WaitLockLabels
  <2>3. p # initproc
    BY <2>2 DEF TreeInv, InitInv
  <2>4. widx[p] # initproc
    BY <1>3, <1>4, <1>5, <2>2, <2>3, SlotFacts DEF WakeChan
  <2>5. widx[p] + 1 <= initproc
    BY <1>1, <2>2, <2>4 DEF initproc, Slot
  <2> QED  BY <1>3, <2>2, <2>5
<1>6. ASSUME NEW q \in Slot, parent'[q] # None,
             pc'[q] = "ex_wakeup" => widx'[q] > parent'[q],
             pc'[q] \in {"ex_wakeup", "exit_zombie"}
      PROVE  state'[parent'[q]] # "SLEEPING"
  <2>1. q = p /\ pc[p] = "ex_wakeup" /\ parent[p] \in Slot /\ parent[p] # p
    BY <1>1, <1>2, <1>3, <1>6
       DEF WaitLockLabels, TypeOK, TreeInv, ReparentInv
  <2>2. widx[p] > parent[p] \/ widx[p] = parent[p]
    BY <1>1, <1>3, <1>6, <2>1, Before
  <2>3. CASE widx[p] > parent[p]
    BY <1>3, <2>1, <2>3, SlotFacts DEF WakeInv
  <2>4. CASE widx[p] = parent[p]
    BY <1>3, <1>4, <2>1, <2>4 DEF WakeChan
  <2> QED  BY <2>2, <2>3, <2>4
<1> QED  BY <1>5, <1>6 DEF WakeInv

\* wakeup() wakes whoever sleeps.
LEMMA WakeupStepKeeps ==
    ASSUME IInv, NEW c \in CPU, NEW p \in Slot, WakeupStep(c, p)
    PROVE  TreeInv' /\ SleepInv'
<1>1. /\ RowTypes /\ TreeInv /\ WaitInv
  BY ExitFacts DEF ExitStep
<1>2. /\ parent' = parent /\ pc' = pc /\ idx' = idx /\ have' = have /\ np' = np
      /\ \A q \in Slot : \/ state'[q] = state[q]
                         \/ state[q] = "SLEEPING" /\ state'[q] = "RUNNABLE"
  BY <1>1, Zenon DEF WakeupStep, RowTypes
<1>3. TreeQuiet
  <2>1. \A q \in Slot : pc[q] = "exit_acq" => q # initproc
    BY <1>1 DEF TreeInv, InitInv
  <2> QED  BY <1>2, <2>1 DEF TreeQuiet
<1>4. WaitQuiet
  BY <1>2 DEF WaitQuiet
<1>5. WakeInv'
  BY WakeupStepInv DEF IInv, SleepInv
<1> QED  BY <1>1, <1>3, <1>4, <1>5, TreeKept, WaitKept DEF SleepInv

\* init has been woken, and reparent() goes on.
LEMMA ReparentNextKeeps ==
    ASSUME IInv, NEW c \in CPU, NEW p \in Slot, ReparentNext(c, p)
    PROVE  TreeInv' /\ SleepInv'
<1>1. /\ RowTypes /\ TreeInv /\ WaitInv /\ WakeInv /\ p # initproc
      /\ \A q \in Slot \ {p} : pc[q] \notin WaitLockLabels
  BY ExitFacts DEF ExitStep
<1>2. /\ widx[p] \in Cursor \ Slot /\ pc[p] = "rp_wakeup"
      /\ parent' = parent /\ state' = state /\ np' = np /\ widx' = widx /\ have' = have
      /\ Sets(pc', pc, p, "exit_reparent") /\ Sets(idx', idx, p, idx[p] + 1)
  BY <1>1 DEF ReparentNext, At, Goto, RowTypes, Sets
<1>3. ASSUME NEW q \in Slot, q < idx'[p] PROVE parent[q] # p
  <2>1. idx[p] \in Slot
    BY <1>2 DEF IInv, CpuInv, LabelInv
  <2>2. q <= idx[p]
    BY <1>2, <1>3, <2>1, Before DEF Sets
  <2> QED  BY <1>1, <1>2, <2>2 DEF TreeInv, ReparentInv
<1>4. ReparentInv'
  BY <1>1, <1>2, <1>3 DEF TreeInv, ReparentInv, Sets
<1>5. TreeInv'
  BY <1>1, <1>2, <1>4, ExitTree DEF Sets
<1>6. WaitQuiet
  BY <1>2 DEF WaitQuiet, Sets
<1>7. WakeInv'
  <2>1. \A q \in Slot : pc[q] = "rp_wakeup" => ~ (widx[q] <= initproc)
    <3>1. ~ (widx[p] <= initproc)
      BY <1>2, PastEnd, SlotFacts
    <3> QED  BY <1>1, <3>1 DEF WaitLockLabels
  <2>2. \A q \in Slot : pc'[q] \notin {"ex_wakeup", "exit_zombie"}
    BY <1>1, <1>2 DEF WaitLockLabels, Sets
  <2> QED  BY <1>1, <1>2, <2>1, <2>2 DEF WakeInv
<1> QED  BY <1>1, <1>5, <1>6, <1>7, WaitKept DEF SleepInv

\* The parent has been woken.
LEMMA ExitWokenKeeps ==
    ASSUME IInv, NEW c \in CPU, NEW p \in Slot, ExitWoken(c, p)
    PROVE  TreeInv' /\ SleepInv'
<1>1. /\ RowTypes /\ TreeInv /\ WaitInv /\ WakeInv /\ p # initproc
      /\ \A q \in Slot \ {p} : pc[q] \notin WaitLockLabels
  BY ExitFacts DEF ExitStep
<1>2. /\ widx[p] \in Cursor \ Slot /\ pc[p] = "ex_wakeup"
      /\ parent' = parent /\ state' = state /\ np' = np /\ idx' = idx /\ widx' = widx
      /\ have' = have /\ Sets(pc', pc, p, "exit_zombie")
  BY <1>1 DEF ExitWoken, At, Goto, RowTypes, Sets
<1>3. ReparentInv'
  BY <1>1, <1>2 DEF TreeInv, ReparentInv, Sets
<1>4. TreeInv'
  BY <1>1, <1>2, <1>3, ExitTree DEF Sets
<1>5. WaitQuiet
  BY <1>2 DEF WaitQuiet, Sets
<1>6. WakeInv'
  <2>1. \A q \in Slot : pc[q] # "rp_wakeup"
    BY <1>1, <1>2 DEF WaitLockLabels
  <2>2. \A q \in Slot : pc'[q] \in {"ex_wakeup", "exit_zombie"} => q = p
    BY <1>1, <1>2 DEF WaitLockLabels, Sets
  <2>3. parent[p] # None => state[parent[p]] # "SLEEPING"
    <3>1. parent[p] # None => widx[p] > parent[p]
      BY <1>1, <1>2, PastEnd DEF RowTypes
    <3> QED  BY <1>1, <1>2, <3>1 DEF WakeInv
  <2> QED  BY <1>1, <1>2, <2>1, <2>2, <2>3 DEF WakeInv
<1> QED  BY <1>1, <1>4, <1>5, <1>6, WaitKept DEF SleepInv

\* The process becomes a zombie: it has no children, and its parent does not
\* sleep.
LEMMA ExitZombieKeeps ==
    ASSUME IInv, NEW c \in CPU, NEW p \in Slot, ExitZombie(c, p)
    PROVE  TreeInv' /\ SleepInv'
<1>1. /\ RowTypes /\ TreeInv /\ WaitInv /\ WakeInv
      /\ state[p] = "RUNNING" /\ p # initproc
      /\ \A q \in Slot \ {p} : pc[q] \notin WaitLockLabels
  BY ExitFacts DEF ExitStep
<1>2. /\ pc[p] = "exit_zombie" /\ parent' = parent /\ np' = np /\ have' = have
      /\ Sets(pc', pc, p, "dead") /\ Sets(state', state, p, "ZOMBIE")
      /\ Sets(idx', idx, p, 1) /\ Sets(widx', widx, p, 1)
  BY <1>1 DEF ExitZombie, At, Goto, RowTypes, Sets
<1>3. \A q \in Slot : parent[q] # p
  BY <1>1, <1>2 DEF TreeInv, ReparentInv
<1>4. InitInv'
  BY <1>1, <1>2, SlotFacts DEF TreeInv, InitInv, Sets
<1>5. ReparentInv'
  BY <1>1, <1>2 DEF TreeInv, ReparentInv, Sets
<1>6. ParentInv'
  BY <1>1, <1>2, <1>3 DEF TreeInv, ParentInv, Sets, RowTypes
<1>7. ForkInv'
  BY <1>1, <1>2 DEF TreeInv, ForkInv, ForkOwnsChild, Sets, RowTypes
<1>8. WaitInv'
  <2>1. \A q \in Slot : pc'[q] \notin {"wait_scan", "sleep_lk", "sleep_go"}
    BY <1>1, <1>2 DEF WaitLockLabels, Sets
  <2> QED  BY <2>1 DEF WaitInv
<1>9. WakeInv'
  <2>1. \A q \in Slot : pc[q] # "rp_wakeup"
    BY <1>1, <1>2 DEF WaitLockLabels
  <2>2. \A q \in Slot : pc'[q] \notin {"ex_wakeup", "exit_zombie"}
    BY <1>1, <1>2 DEF WaitLockLabels, Sets
  <2>3. ASSUME NEW z \in Slot, state'[z] = "ZOMBIE", parent[z] # None
        PROVE  state'[parent[z]] # "SLEEPING"
    <3>1. parent[z] \in Slot \ {p}
      BY <1>1, <1>3, <2>3 DEF RowTypes
    <3>2. state[parent[z]] # "SLEEPING"
      <4>1. CASE z = p  BY <1>1, <1>2, <2>3, <4>1 DEF WakeInv
      <4>2. CASE z # p  BY <1>1, <1>2, <2>1, <2>3, <4>2 DEF WakeInv, Sets
      <4> QED  BY <4>1, <4>2
    <3> QED  BY <1>2, <3>1, <3>2 DEF Sets
  <2> QED  BY <1>2, <2>2, <2>3 DEF WakeInv
<1> QED  BY <1>1, <1>4, <1>5, <1>6, <1>7, <1>8, <1>9 DEF TreeInv, SleepInv

\* Every step keeps the process tree and loses no wakeup.
LEMMA TreeSleepStep ==
    ASSUME IInv, NEW c \in CPU, NEW p \in Slot,
           \/ SwitchStep(c, p) \/ TrapStep(c, p) \/ ForkStep(c, p)
           \/ TableStep(c, p) \/ WaitStep(c, p) \/ ExitStep(c, p)
    PROVE  TreeInv' /\ SleepInv'
<1>1. CASE Quiet(p)
  BY <1>1, QuietKeeps
<1>2. CASE ForkStep(c, p)
  BY <1>1, <1>2, QuietStep, ForkAllocKeeps, ForkParentKeeps, ForkRunKeeps, Zenon
     DEF ForkStep
<1>3. CASE WaitStep(c, p)
  BY <1>1, <1>3, QuietStep, WaitScanKeeps, WaitReapKeeps, SleepGoKeeps, Zenon
     DEF WaitStep
<1>4. CASE ExitStep(c, p)
  BY <1>4, ReparentScanKeeps, ReparentKeeps, ExitWakeupKeeps, WakeupStepKeeps,
     ReparentNextKeeps, ExitWokenKeeps, ExitZombieKeeps, Zenon DEF ExitStep
<1> QED  BY <1>1, <1>2, <1>3, <1>4, QuietStep, Zenon

-----------------------------------------------------------------------------
(* Part 4: pids, that IInv is inductive, and the theorems.                 *)

\* A step that hands out no pid and frees no slot.
PidQuiet ==
    /\ UNCHANGED <<pid, nextpid>>
    /\ \A q \in Slot : state'[q] = "UNUSED" <=> state[q] = "UNUSED"

\* All steps but the two outcomes of allocproc() and freeproc() in wait().
LEMMA PidQuietStep ==
    ASSUME IInv, NEW c \in CPU, NEW p \in Slot,
           \/ SwitchStep(c, p) \/ TrapStep(c, p) \/ ForkStep(c, p)
           \/ TableStep(c, p) \/ WaitStep(c, p) \/ ExitStep(c, p)
    PROVE  PidQuiet \/ ForkAlloc(c, p) \/ ForkFail(c, p) \/ WaitReap(c, p)
<1>a. state \in [Slot -> States]
  BY DEF IInv, TypeOK
<1>r. Exec(c, p) => state[p] # "UNUSED"
  BY RunFacts DEF IInv
<1>f. pc[p] = "fork_run" => np[p] \in Slot /\ state[np[p]] # "UNUSED"
  BY ForkFacts
<1>u. CASE UNCHANGED <<pid, nextpid, state>>
  BY <1>u DEF PidQuiet
<1>1. CASE SwitchStep(c, p)
  BY <1>1, <1>a, <1>r, Zenon DEF SwitchStep, Dispatch, Enter, Yield, Sched,
     SchedulerReturn, PidQuiet
<1>2. CASE TrapStep(c, p)
  BY <1>2, <1>u, Zenon DEF TrapStep, KilledTrap, FaultTrap, SysFork, SysExit, SysWait,
     SysKill, SysGetppid, SysGetptable, Syscall
<1>3. CASE ForkStep(c, p)
  <2>1. CASE ForkRun(c, p)
    BY <2>1, <1>a, <1>f, Zenon DEF ForkRun, At, PidQuiet
  <2>2. CASE ForkSkip(c, p) \/ ForkNone(c, p) \/ ForkParent(c, p)
    BY <2>2, <1>u, Zenon DEF ForkSkip, ForkNone, ForkParent
  <2> QED  BY <1>3, <2>1, <2>2, Zenon DEF ForkStep
<1>4. CASE TableStep(c, p)
  <2>1. CASE KillHit(c, p)
    BY <2>1, <1>a, Zenon DEF KillHit, Visit, PidQuiet
  <2> QED  BY <1>4, <1>u, <2>1, Zenon DEF TableStep, KillSkip, KillNone,
        GetppidReturn, GetptableSkip, GetptableRow, GetptableCopy,
        GetptableFail, GetptableDone
<1>5. CASE WaitStep(c, p)
  <2>1. CASE SleepGo(c, p)
    BY <2>1, <1>a, <1>r, Zenon DEF SleepGo, At, PidQuiet
  <2> QED  BY <1>5, <1>u, <2>1, Zenon DEF WaitStep, WaitAcquire, WaitSkip, WaitFail,
        WaitGiveUp, WaitSleep, SleepAcquire
<1>6. CASE ExitStep(c, p)
  <2>1. CASE WakeupStep(c, p)
    BY <2>1, <1>a, Zenon DEF WakeupStep, PidQuiet
  <2>2. CASE ExitZombie(c, p)
    BY <2>2, <1>a, <1>r, Zenon DEF ExitZombie, At, PidQuiet
  <2> QED  BY <1>6, <1>u, <2>1, <2>2, Zenon DEF ExitStep, ExitAcquire, ReparentSkip,
        Reparent, ExitWakeup, ReparentNext, ExitWoken
<1> QED  BY <1>1, <1>2, <1>3, <1>4, <1>5, <1>6, Zenon

\* Pids: every step keeps PidInv.
LEMMA PidInvStep ==
    ASSUME IInv, NEW c \in CPU, NEW p \in Slot,
           \/ SwitchStep(c, p) \/ TrapStep(c, p) \/ ForkStep(c, p)
           \/ TableStep(c, p) \/ WaitStep(c, p) \/ ExitStep(c, p)
    PROVE  PidInv'
<1>1. /\ state \in [Slot -> States] /\ pid \in [Slot -> Nat] /\ nextpid \in Nat
      /\ PidInv
  BY DEF IInv, TypeOK
<1>2. CASE PidQuiet
  BY <1>1, <1>2 DEF PidQuiet, PidInv, PidUnique
<1>3. CASE ForkAlloc(c, p)
  <2>1. PICK n \in Slot :
            /\ Sets(state', state, n, "USED") /\ Sets(pid', pid, n, nextpid)
            /\ nextpid' = nextpid + 1
    BY <1>1, <1>3 DEF ForkAlloc, Visit, Sets
  <2> QED  BY <1>1, <2>1 DEF PidInv, PidUnique, Sets
<1>4. CASE ForkFail(c, p) \/ WaitReap(c, p)
  <2>1. PICK n \in Slot :
            /\ Sets(state', state, n, "UNUSED") /\ Sets(pid', pid, n, 0)
            /\ nextpid' \in {nextpid, nextpid + 1}
    BY <1>1, <1>4 DEF ForkFail, WaitReap, WaitFound, FreeProc, Visit, Sets
  <2> QED  BY <1>1, <2>1 DEF PidInv, PidUnique, Sets
<1> QED  BY <1>2, <1>3, <1>4, PidQuietStep, Zenon

-----------------------------------------------------------------------------
(* The theorems.                                                           *)

\* Every step of the process table preserves the invariant.
LEMMA NextIInv == IInv /\ [Next]_vars => IInv'
<1> SUFFICES ASSUME IInv, [Next]_vars  PROVE IInv'
  OBVIOUS
<1>1. CASE Next
  <2>1. PICK c \in CPU, p \in Slot :
            \/ SwitchStep(c, p) \/ TrapStep(c, p) \/ ForkStep(c, p)
            \/ TableStep(c, p) \/ WaitStep(c, p) \/ ExitStep(c, p)
    BY <1>1 DEF Next
  <2>2. TypeOK'    BY <2>1, TypeOKStep
  <2>3. CpuInv'    BY <2>1, CpuInvStep
  <2>4. TreeInv' /\ SleepInv'  BY <2>1, TreeSleepStep
  <2>5. PidInv'    BY <2>1, PidInvStep
  <2> QED  BY <2>2, <2>3, <2>4, <2>5 DEF IInv
<1>2. CASE UNCHANGED vars  BY <1>2, StutterIInv
<1> QED  BY <1>1, <1>2

\* The inductive invariant holds in every reachable state of the table.
THEOREM ProcInvariant == Spec => []IInv
  BY InitIInv, NextIInv, PTL DEF Spec

\* Type correctness of the process table.
THEOREM ProcTypeOK == Spec => []TypeOK
  BY ProcInvariant, PTL DEF IInv

\* However many CPUs run scheduler(), no process is on two of them, no freed
\* slot is on any, and sched() never meets the conditions it panics on.
THEOREM ProcSwitchSafe ==
    Spec => [](OneCpuPerProc /\ FreedIsOffCpu /\ SchedAsserts)
<1>1. IInv => OneCpuPerProc
  BY DEF IInv, CpuInv
<1>2. IInv => FreedIsOffCpu
  <2> SUFFICES ASSUME IInv, NEW c \in CPU, NEW p \in Slot, cproc[c] = p
               PROVE  state[p] # "UNUSED"
    BY DEF FreedIsOffCpu, IInv, TypeOK
  <2>1. ctx[p] \in {"exec", "leave", "saved", "enter"}
    BY DEF IInv, TypeOK
  <2> QED  BY <2>1 DEF IInv, CpuInv, SwitchInv
<1>3. IInv => SchedAsserts
  <2> SUFFICES ASSUME IInv, NEW c \in CPU, NEW p \in Slot,
                      cproc[c] = p, ctx[p] = "leave"
               PROVE  PLocksOf(c) = {p} /\ waitlock # c /\ state[p] # "RUNNING"
    BY DEF SchedAsserts
  <2>1. PLocksOf(c) = {p}
    BY DEF IInv, CpuInv, PLockOwner, PLocksOf, At, Exec
  <2>2. waitlock # c
    BY SlotFacts DEF IInv, CpuInv, WaitLockOwner
  <2>3. state[p] # "RUNNING"
    BY DEF IInv, CpuInv, SwitchInv
  <2> QED  BY <2>1, <2>2, <2>3
<1> QED  BY ProcInvariant, <1>1, <1>2, <1>3, PTL

\* wait_lock and every p->lock are held exactly by the code between their
\* acquire() and release().
THEOREM ProcLocks == Spec => [](WaitLockOwner /\ PLockOwner)
<1>1. IInv => WaitLockOwner /\ PLockOwner
  BY DEF IInv, CpuInv
<1> QED  BY ProcInvariant, <1>1, PTL

\* exit() leaves no process with a dead parent.
THEOREM ProcParentAlive == Spec => []ParentAlive
<1>1. IInv => ParentAlive
  BY DEF IInv, TreeInv, ParentInv, ParentAlive
<1> QED  BY ProcInvariant, <1>1, PTL

\* wait() never sleeps through the exit of a child.
THEOREM ProcNoLostWakeup == Spec => []NoLostWakeup
<1>1. IInv => NoLostWakeup
  <2> SUFFICES ASSUME IInv, waitlock = NoCPU, NEW z \in Slot,
                      parent[z] # None, state[z] = "ZOMBIE",
                      state[parent[z]] = "SLEEPING"
               PROVE  FALSE
    BY DEF NoLostWakeup
  <2>1. PICK p \in Slot : pc[p] = "rp_wakeup"
    BY DEF IInv, SleepInv, WakeInv
  <2> QED  BY <2>1, HolderFacts DEF IInv, WaitLockLabels
<1> QED  BY ProcInvariant, <1>1, PTL

\* fork() alone holds the slot it is filling, and pids name one process.
THEOREM ProcForkAndPids == Spec => [](ForkOwnsChild /\ PidUnique)
<1>1. IInv => ForkOwnsChild /\ PidUnique
  BY DEF IInv, TreeInv, ForkInv, PidInv
<1> QED  BY ProcInvariant, <1>1, PTL

\* A slot changes its state only along its life, however the calls interleave;
\* a zombie is only ever freed by its parent inside wait().
THEOREM ProcLifeCycle == Spec => LifeCycle
<1>1. IInv /\ Next => \A q \in Slot : state'[q] # state[q] => LifeStep(q)
  BY LifeSteps DEF Next
<1> QED  BY ProcInvariant, <1>1, PTL DEF Spec, LifeCycle
=============================================================================
