---------------------------- MODULE SchedProofs -----------------------------
(***************************************************************************)
(* The scheduling policies, for any number of processes and CPUs: a scan   *)
(* of choose_next_process() holds the lock of its candidate and no other,  *)
(* its choice is right by every process that stayed RUNNABLE, and          *)
(* update_time() charges no more ticks than passed.                        *)
(***************************************************************************)
EXTENDS Sched, TLAPS

\* What a scan of CPU d has found out about the processes that stay RUNNABLE.
Scan(d) ==
    /\ spc[d] \in {"rr?", "fcfs?", "prio?", "got", "wfi"} => idx[d] = 1
    /\ spc[d] = "got" => cand[d] # None
    /\ \A q \in steady[d] :
        /\ state[q] = "RUNNABLE"
        /\ spc[d] = "rr" => idx[d] <= q
        /\ spc[d] = "fcfs" /\ q < idx[d] =>
               cand[d] # None /\ creation_time[cand[d]] <= creation_time[q]
        /\ spc[d] = "max" /\ q < idx[d] => priority(q) <= maxprio[d]
        /\ spc[d] = "match" => priority(q) <= maxprio[d]

\* A process that update_time() has still to visit has one tick in hand.
Charged ==
    \A p \in Slot :
        run_time[p] + creation_time[p] <=
            ticks + (IF irq # None /\ irq <= p THEN 0 ELSE 1)

\* The inductive invariant.
SInv == CandidateHeld /\ (\A d \in CPU : Scan(d)) /\ Charged

\* The provers, in the order of the attempts.
USE SMT, SMTT(20), SMTT(40), ZenonT(30)

-----------------------------------------------------------------------------
(* Facts about single steps.                                               *)

\* The slots and cursors are numbers.
LEMMA SlotFacts ==
  /\ NPROC \in Nat \ {0} /\ Slot \subseteq Cursor /\ 1 \in Cursor /\ None \notin Cursor
  /\ \A k \in Cursor : k \in Nat \ {0} /\ (k \notin Slot => k = NPROC + 1)
  /\ \A k \in Slot : k + 1 \in Cursor /\ k <= NPROC
  BY BoundsAssumption DEF Slot, Cursor, None

\* A scan that is through has passed every slot.
LEMMA PastSlots ==
  ASSUME NEW k \in Cursor \ Slot, NEW q \in Slot PROVE q < k /\ ~ k <= q
  BY SlotFacts

\* steady[d] is of RUNNABLE processes, and grows only outside of a scan.
LEMMA SteadyFacts ==
  ASSUME TrackSteady, NEW d \in CPU, NEW q \in steady'[d]
  PROVE  /\ q \in Slot /\ state'[q] = "RUNNABLE"
         /\ spc'[d] \notin {"rr?", "got", "wfi"} => q \in steady[d]
  BY DEF TrackSteady, Runnable

\* Every step records the history.
LEMMA EveryStepTracks ==
  ASSUME Next PROVE TrackSteady
  BY DEF Next, SchedulerStep, ProcessStep, TestMode, ModeTest, ScanRR, ScanFCFS,
     ScanMax, ScanMatch, Dispatch, TimerIntr, ClockIntr, UpdateTime, ForkAlloc,
     ForkRun, Exit, Reap, SetSched, ScanFrame

\* steady keeps its type.
LEMMA SteadyType ==
  ASSUME TrackSteady PROVE steady' \in [CPU -> SUBSET Slot]
  BY DEF TrackSteady, Runnable

-----------------------------------------------------------------------------
(* Types.                                                                  *)

\* What a scan has of its own.
ScanTypes ==
    /\ plock \in [Slot -> CPU \cup {NoCPU}]
    /\ spc \in [CPU -> {"rr?", "fcfs?", "prio?", "rr", "fcfs", "max", "match",
                        "got", "wfi"}]
    /\ idx \in [CPU -> Cursor]
    /\ cand \in [CPU -> Slot \cup {None}]
    /\ maxprio \in [CPU -> {0, 5, 10}]

\* A scan changes nothing else.
LEMMA ScanFrameType ==
  ASSUME TypeOK, ScanFrame, ScanTypes' PROVE TypeOK'
<1>1. steady' \in [CPU -> SUBSET Slot]
  BY SteadyType DEF ScanFrame
<1>. QED BY <1>1 DEF TypeOK, ScanTypes, ScanFrame, procVars

\* choose_next_process() returns.
LEMMA ChooseType ==
  ASSUME ScanTypes, NEW c \in CPU, NEW p \in Slot \cup {None}, Choose(c, p),
         plock' \in [Slot -> CPU \cup {NoCPU}]
  PROVE  ScanTypes'
  BY SlotFacts DEF ScanTypes, Choose

\* Every step keeps the types.
LEMMA TypeStep ==
  ASSUME TypeOK, Next PROVE TypeOK'
<1>. USE SlotFacts, CpuAssumption DEF TypeOK
<1>0. steady' \in [CPU -> SUBSET Slot]
  BY EveryStepTracks, SteadyType
<1>s. ScanTypes
  BY DEF ScanTypes
<1>1. ASSUME NEW c \in CPU, TestMode(c) PROVE TypeOK'
  <2>1. CASE Choose(c, None) /\ UNCHANGED plock
    BY <1>s, <1>1, <2>1, ChooseType, ScanFrameType DEF TestMode, ModeTest, ScanTypes
  <2>2. CASE ~ (Choose(c, None) /\ UNCHANGED plock)
    <3>1. ScanTypes'
      BY <1>s, <1>1, <2>2 DEF TestMode, ModeTest, ScanTypes, scanVars
    <3>. QED BY <1>1, <3>1, ScanFrameType DEF TestMode, ModeTest
  <2>. QED BY <2>1, <2>2
<1>2. ASSUME NEW c \in CPU, ScanRR(c) PROVE TypeOK'
  <2>1. ScanTypes'
    <3>1. CASE idx[c] \in Slot /\ Advance(c) /\ UNCHANGED <<plock, spc, cand, maxprio>>
      BY <1>s, <3>1 DEF Advance, ScanTypes
    <3>2. CASE Choose(c, idx[c]) /\ idx[c] \in Slot /\ UNCHANGED plock
      BY <1>s, <3>2, ChooseType DEF ScanTypes
    <3>3. CASE Choose(c, None) /\ UNCHANGED plock
      BY <1>s, <3>3, ChooseType DEF ScanTypes
    <3>. QED BY <1>2, <3>1, <3>2, <3>3, Zenon DEF ScanRR
  <2>. QED BY <1>2, <2>1, ScanFrameType DEF ScanRR
<1>3. ASSUME NEW c \in CPU, ScanFCFS(c) PROVE TypeOK'
  <2>1. plock' \in [Slot -> CPU \cup {NoCPU}]
    BY <1>3 DEF ScanFCFS, HoldOnly, DropCandidate
  <2>2. CASE idx[c] \in Slot
    <3>1. ScanTypes'
      BY <1>s, <1>3, <2>1, <2>2 DEF ScanFCFS, Advance, ScanTypes
    <3>. QED BY <1>3, <3>1, ScanFrameType DEF ScanFCFS
  <2>3. CASE idx[c] \notin Slot
    <3>1. ScanTypes'
      BY <1>s, <1>3, <2>1, <2>3, ChooseType DEF ScanFCFS
    <3>. QED BY <1>3, <3>1, ScanFrameType DEF ScanFCFS
  <2>. QED BY <2>2, <2>3
<1>4. ASSUME NEW c \in CPU, ScanMax(c) PROVE TypeOK'
  <2>1. CASE idx[c] \in Slot
    <3>0. priority(idx[c]) \in {5, 10}
      BY DEF priority
    <3>1. ScanTypes'
      BY <1>s, <1>4, <2>1, <3>0 DEF ScanMax, Advance, ScanTypes
    <3>. QED BY <1>4, <3>1, ScanFrameType DEF ScanMax
  <2>2. CASE idx[c] \notin Slot
    <3>1. ScanTypes'
      BY <1>s, <1>4, <2>2, ChooseType, Zenon DEF ScanMax, ScanTypes
    <3>. QED BY <1>4, <3>1, ScanFrameType DEF ScanMax
  <2>. QED BY <2>1, <2>2
<1>5. ASSUME NEW c \in CPU, ScanMatch(c) PROVE TypeOK'
  <2>1. ScanTypes'
    BY <1>s, <1>5, ChooseType DEF ScanMatch, Advance, ScanTypes
  <2>. QED BY <1>5, <2>1, ScanFrameType DEF ScanMatch
<1>6. ASSUME NEW c \in CPU, Dispatch(c) PROVE TypeOK'
  <2>1. /\ state' \in [Slot -> {"UNUSED", "USED", "RUNNABLE", "RUNNING", "ZOMBIE"}]
        /\ cproc' \in [CPU -> Slot \cup {None}]
    <3>1. cand[c] \in Slot \cup {None}
      OBVIOUS
    <3>2. CASE state[cand[c]] = "RUNNABLE"
      <4>1. /\ state' = [state EXCEPT ![cand[c]] = "RUNNING"]
            /\ cproc' = [cproc EXCEPT ![c] = cand[c]]
        BY <1>6, <3>2 DEF Dispatch
      <4>. QED BY <3>1, <4>1, Zenon
    <3>3. CASE state[cand[c]] # "RUNNABLE"
      BY <1>6, <3>3 DEF Dispatch
    <3>. QED BY <3>2, <3>3
  <2>2. ScanTypes'
    BY <1>s, <1>6 DEF Dispatch, ScanTypes
  <2>. QED BY <1>0, <1>6, <2>1, <2>2 DEF Dispatch, ScanTypes
<1>7. ASSUME NEW c \in CPU, TimerIntr(c) PROVE TypeOK'
  BY <1>0, <1>7 DEF TimerIntr, scanVars
<1>8. ASSUME ClockIntr PROVE TypeOK'
  BY <1>0, <1>8 DEF ClockIntr, procVars, scanVars
<1>9. ASSUME UpdateTime PROVE TypeOK'
  BY <1>0, <1>9 DEF UpdateTime, scanVars
<1>10. ASSUME NEW c \in CPU, NEW p \in Slot, NEW n \in Slot, ForkAlloc(c, p, n) PROVE TypeOK'
  BY <1>0, <1>10 DEF ForkAlloc, scanVars
<1>11. ASSUME NEW c \in CPU, NEW p \in Slot, ForkRun(c, p) PROVE TypeOK'
  BY <1>0, <1>11 DEF ForkRun, scanVars
<1>12. ASSUME NEW c \in CPU, NEW p \in Slot, Exit(c, p) PROVE TypeOK'
  BY <1>0, <1>12, BoundsAssumption DEF Exit, scanVars
<1>13. ASSUME NEW c \in CPU, NEW p \in Slot, NEW z \in Slot, Reap(c, p, z) PROVE TypeOK'
  BY <1>0, <1>13 DEF Reap, scanVars
<1>14. ASSUME NEW c \in CPU, NEW p \in Slot, SetSched(c, p) PROVE TypeOK'
  BY <1>0, <1>14, ModesAssumption DEF SetSched, procVars, scanVars
<1>. QED
  BY <1>1, <1>2, <1>3, <1>4, <1>5, <1>6, <1>7, <1>8, <1>9, <1>10, <1>11, <1>12, Zenon,
     <1>13, <1>14 DEF Next, SchedulerStep, ProcessStep

-----------------------------------------------------------------------------
(* The lock of the candidate.                                              *)

\* CandidateHeld without the types.
Held ==
    /\ \A c \in CPU, p \in Slot :
           plock[p] = c <=> spc[c] = "fcfs" /\ cand[c] = p
    /\ \A c \in CPU : spc[c] = "fcfs" /\ cand[c] # None =>
           state[cand[c]] = "RUNNABLE" /\ cand[c] < idx[c]

\* A step that takes and gives no p->lock, leaves the FCFS scans alone, and
\* changes the state of free slots only, or to RUNNABLE.
LEMMA HeldKept ==
  ASSUME TypeOK, Held, UNCHANGED plock,
         \A d \in CPU : /\ spc'[d] = "fcfs" <=> spc[d] = "fcfs"
                        /\ spc[d] = "fcfs" => cand'[d] = cand[d] /\ idx'[d] = idx[d],
         \A p \in Slot : state'[p] = state[p] \/ state'[p] = "RUNNABLE" \/ PFree(p)
  PROVE  Held'
<1>1. \A c \in CPU, p \in Slot : plock'[p] = c <=> spc'[c] = "fcfs" /\ cand'[c] = p
  BY DEF Held
<1>2. ASSUME NEW c \in CPU, spc'[c] = "fcfs", cand'[c] # None
      PROVE  state'[cand'[c]] = "RUNNABLE" /\ cand'[c] < idx'[c]
  <2>1. spc[c] = "fcfs" /\ cand'[c] = cand[c] /\ idx'[c] = idx[c]
    BY <1>2
  <2>2. cand[c] \in Slot /\ plock[cand[c]] = c
    BY <1>2, <2>1 DEF Held, TypeOK
  <2>3. ~ PFree(cand[c])
    BY <2>2, CpuAssumption DEF PFree
  <2>. QED BY <1>2, <2>1, <2>2, <2>3 DEF Held
<1>. QED BY <1>1, <1>2 DEF Held

\* Every step keeps it.
LEMMA HeldStep ==
  ASSUME TypeOK, Held, Next PROVE Held'
<1>1. ASSUME NEW c \in CPU, TestMode(c) PROVE Held'
  <2>1. CASE spc'[c] = "fcfs"
    <3>1. /\ spc[c] = "fcfs?" /\ cand'[c] = None /\ UNCHANGED <<plock, state>>
          /\ \A d \in CPU \ {c} : spc'[d] = spc[d] /\ cand'[d] = cand[d] /\ idx'[d] = idx[d]
      BY <1>1, <2>1 DEF TestMode, ModeTest, InScheduler, ScanFrame, Choose, TypeOK,
         procVars, scanVars
    <3>. QED BY <2>1, <3>1, SlotFacts DEF Held, TypeOK
  <2>2. CASE spc'[c] # "fcfs"
    <3>1. /\ spc[c] # "fcfs" /\ UNCHANGED <<plock, state>>
          /\ \A d \in CPU \ {c} : spc'[d] = spc[d] /\ cand'[d] = cand[d] /\ idx'[d] = idx[d]
      BY <1>1, <2>2 DEF TestMode, ModeTest, InScheduler, ScanFrame, Choose, TypeOK,
         procVars, scanVars
    <3>. QED BY <2>2, <3>1, HeldKept
  <2>. QED BY <2>1, <2>2
<1>2. ASSUME NEW c \in CPU, ScanRR(c) \/ ScanMax(c) \/ ScanMatch(c) PROVE Held'
  <2>1. /\ spc[c] # "fcfs" /\ spc'[c] # "fcfs" /\ UNCHANGED <<plock, state>>
        /\ \A d \in CPU \ {c} : spc'[d] = spc[d] /\ cand'[d] = cand[d] /\ idx'[d] = idx[d]
    BY <1>2 DEF ScanRR, ScanMax, ScanMatch, InScheduler, ScanFrame, Choose, Advance,
       TypeOK, procVars, scanVars
  <2>. QED BY <2>1, HeldKept
<1>3. ASSUME NEW c \in CPU, ScanFCFS(c) PROVE Held'
  <2>1. /\ spc[c] = "fcfs" /\ UNCHANGED state
        /\ \A d \in CPU \ {c} : spc'[d] = spc[d] /\ cand'[d] = cand[d] /\ idx'[d] = idx[d]
    BY <1>3 DEF ScanFCFS, InScheduler, ScanFrame, Choose, Advance, TypeOK, procVars
  <2>2. CASE idx[c] \in Slot /\ state[idx[c]] = "RUNNABLE" /\ Older(c, idx[c])
    <3>1. /\ PFree(idx[c]) /\ spc'[c] = "fcfs" /\ cand'[c] = idx[c] /\ idx'[c] = idx[c] + 1
          /\ HoldOnly(c, idx[c])
      BY <1>3, <2>1, <2>2 DEF ScanFCFS, Advance, TypeOK
    <3>. QED BY <2>1, <2>2, <3>1, CpuAssumption, SlotFacts DEF Held, HoldOnly, PFree, TypeOK
  <2>3. CASE idx[c] \in Slot /\ ~ (state[idx[c]] = "RUNNABLE" /\ Older(c, idx[c]))
    <3>1. spc'[c] = "fcfs" /\ cand'[c] = cand[c] /\ idx'[c] = idx[c] + 1 /\ UNCHANGED plock
      BY <1>3, <2>1, <2>3 DEF ScanFCFS, Advance, TypeOK
    <3>. QED BY <2>1, <2>3, <3>1, SlotFacts DEF Held, TypeOK
  <2>4. CASE idx[c] \notin Slot
    <3>1. spc'[c] # "fcfs" /\ DropCandidate(c)
      BY <1>3, <2>4 DEF ScanFCFS, Choose, TypeOK
    <3>. QED BY <2>1, <3>1, CpuAssumption DEF Held, DropCandidate, TypeOK
  <2>. QED BY <2>2, <2>3, <2>4
<1>4. ASSUME NEW c \in CPU, Dispatch(c) PROVE Held'
  <2>1. /\ spc[c] # "fcfs" /\ spc'[c] # "fcfs" /\ UNCHANGED plock
        /\ \A d \in CPU \ {c} : spc'[d] = spc[d] /\ cand'[d] = cand[d] /\ idx'[d] = idx[d]
        /\ \A p \in Slot : state'[p] = state[p] \/ PFree(p)
    BY <1>4 DEF Dispatch, InScheduler, TypeOK
  <2>. QED BY <2>1, HeldKept
<1>5. ASSUME NEW c \in CPU, TimerIntr(c) PROVE Held'
  <2>1. /\ UNCHANGED <<plock, idx, cand>>
        /\ \A d \in CPU : spc'[d] = "fcfs" <=> spc[d] = "fcfs"
        /\ \A p \in Slot : state'[p] = state[p] \/ state'[p] = "RUNNABLE"
    BY <1>5 DEF TimerIntr, TypeOK, scanVars
  <2>. QED BY <2>1, HeldKept
<1>6. ASSUME ClockIntr \/ UpdateTime PROVE Held'
  BY <1>6, HeldKept DEF ClockIntr, UpdateTime, procVars, scanVars
<1>7. ASSUME NEW c \in CPU, NEW p \in Slot, ProcessStep(c, p) PROVE Held'
  <2>1. /\ UNCHANGED <<plock, spc, idx, cand>>
        /\ \A q \in Slot : state'[q] = state[q] \/ state'[q] = "RUNNABLE" \/ PFree(q)
    BY <1>7 DEF ProcessStep, ForkAlloc, ForkRun, Exit, Reap, SetSched, TypeOK,
       procVars, scanVars
  <2>. QED BY <2>1, HeldKept
<1>. QED BY <1>1, <1>2, <1>3, <1>4, <1>5, <1>6, <1>7 DEF Next, SchedulerStep

-----------------------------------------------------------------------------
(* What a scan has found out.                                              *)

\* A step that leaves d's scan alone, and the pid and creation time of what
\* stays RUNNABLE.
LEMMA ScanKept ==
  ASSUME TypeOK, Held, NEW d \in CPU, Scan(d), Held', TrackSteady,
         spc'[d] = spc[d], idx'[d] = idx[d], cand'[d] = cand[d], maxprio'[d] = maxprio[d],
         \A q \in Slot : state[q] = "RUNNABLE" /\ state'[q] = "RUNNABLE" =>
            creation_time'[q] = creation_time[q] /\ pid'[q] = pid[q]
  PROVE  Scan(d)'
<1>1. CASE spc[d] \in {"rr?", "got", "wfi"}
  BY <1>1, SteadyFacts DEF Scan
<1>2. CASE spc[d] \notin {"rr?", "got", "wfi"}
  <2>. SUFFICES ASSUME NEW q \in steady'[d]
       PROVE  /\ state'[q] = "RUNNABLE"
              /\ spc[d] = "rr" => idx[d] <= q
              /\ spc[d] = "fcfs" /\ q < idx[d] =>
                    cand[d] # None /\ creation_time'[cand[d]] <= creation_time'[q]
              /\ spc[d] = "max" /\ q < idx[d] => priority(q)' <= maxprio[d]
              /\ spc[d] = "match" => priority(q)' <= maxprio[d]
    BY DEF Scan
  <2>1. q \in Slot /\ state'[q] = "RUNNABLE" /\ q \in steady[d]
    BY <1>2, SteadyFacts
  <2>2. state[q] = "RUNNABLE"
    BY <2>1 DEF Scan
  <2>3. creation_time'[q] = creation_time[q] /\ priority(q)' = priority(q)
    BY <2>1, <2>2 DEF priority
  <2>4. ASSUME spc[d] = "fcfs", cand[d] # None
        PROVE  creation_time'[cand[d]] = creation_time[cand[d]]
    <3>1. cand[d] \in Slot
      BY <2>4 DEF TypeOK
    <3>2. state[cand[d]] = "RUNNABLE" /\ state'[cand[d]] = "RUNNABLE"
      BY <2>4 DEF Held
    <3>. QED BY <3>1, <3>2
  <2>. QED BY <2>1, <2>3, <2>4 DEF Scan
<1>. QED BY <1>1, <1>2

\* A scan that begins has found out nothing yet.
LEMMA ScanBegins ==
  ASSUME NEW c \in CPU, TrackSteady, idx'[c] = 1, spc'[c] \notin {"got", "match"}
  PROVE  Scan(c)'
<1>1. ASSUME NEW q \in steady'[c] PROVE state'[q] = "RUNNABLE" /\ 1 <= q /\ ~ q < 1
  BY <1>1, SteadyFacts, SlotFacts
<1>. QED BY <1>1 DEF Scan

\* A scan that ends.
LEMMA ScanEnds ==
  ASSUME TypeOK, NEW c \in CPU, NEW p, Choose(c, p), TrackSteady
  PROVE  Scan(c)'
<1>1. /\ idx'[c] = 1 /\ cand'[c] = p
      /\ spc'[c] = IF p = None THEN "wfi" ELSE "got"
  BY DEF Choose, TypeOK
<1>. QED BY <1>1, SteadyFacts DEF Scan

\* One more slot is looked at.
LEMMA ScanGoesOn ==
  ASSUME TypeOK, NEW c \in CPU, Scan(c), TrackSteady,
         spc[c] \in {"rr", "fcfs", "max", "match"}, UNCHANGED <<spc, procVars>>,
         idx[c] \in Slot, idx'[c] = idx[c] + 1,
         spc[c] = "rr" => state[idx[c]] # "RUNNABLE",
         spc[c] = "fcfs" =>
            /\ cand[c] # None =>
                  cand'[c] # None /\ creation_time[cand'[c]] <= creation_time[cand[c]]
            /\ state[idx[c]] = "RUNNABLE" =>
                  cand'[c] # None /\ creation_time[cand'[c]] <= creation_time[idx[c]],
         maxprio[c] <= maxprio'[c],
         spc[c] = "max" /\ state[idx[c]] = "RUNNABLE" => priority(idx[c]) <= maxprio'[c],
         cand'[c] \in Slot \cup {None}, maxprio'[c] \in Nat
  PROVE  Scan(c)'
<1>. SUFFICES ASSUME NEW q \in steady'[c]
     PROVE  /\ state'[q] = "RUNNABLE"
            /\ spc[c] = "rr" => idx[c] + 1 <= q
            /\ spc[c] = "fcfs" /\ q < idx[c] + 1 =>
                  cand'[c] # None /\ creation_time[cand'[c]] <= creation_time[q]
            /\ spc[c] = "max" /\ q < idx[c] + 1 => priority(q) <= maxprio'[c]
            /\ spc[c] = "match" => priority(q) <= maxprio'[c]
  BY DEF Scan, procVars, priority
<1>1. q \in Slot /\ state[q] = "RUNNABLE" /\ q \in steady[c] /\ state'[q] = state[q]
  BY SteadyFacts DEF procVars
<1>2. q \in Nat /\ idx[c] \in Nat /\ priority(q) \in Nat /\ maxprio[c] \in Nat
  BY <1>1, SlotFacts DEF priority, TypeOK
<1>3. CASE q = idx[c]
  <2>1. state[idx[c]] = "RUNNABLE"
    BY <1>1, <1>3
  <2>2. spc[c] = "match" => priority(q) <= maxprio[c]
    BY <1>1 DEF Scan
  <2>. QED BY <1>1, <1>2, <1>3, <2>1, <2>2
<1>4. CASE q # idx[c]
  <2>1. spc[c] = "rr" => idx[c] + 1 <= q
    BY <1>1, <1>2, <1>4 DEF Scan
  <2>2. ASSUME spc[c] = "fcfs", q < idx[c] + 1
        PROVE  cand'[c] # None /\ creation_time[cand'[c]] <= creation_time[q]
    <3>1. q < idx[c]
      BY <1>2, <1>4, <2>2
    <3>2. cand[c] # None /\ creation_time[cand[c]] <= creation_time[q]
      BY <1>1, <2>2, <3>1 DEF Scan
    <3>3. cand'[c] \in Slot /\ creation_time[cand'[c]] <= creation_time[cand[c]]
      BY <2>2, <3>2
    <3>. QED BY <1>1, <3>2, <3>3, SlotFacts DEF TypeOK, None
  <2>3. spc[c] = "max" /\ q < idx[c] + 1 => priority(q) <= maxprio'[c]
    BY <1>1, <1>2, <1>4 DEF Scan
  <2>4. spc[c] = "match" => priority(q) <= maxprio'[c]
    BY <1>1, <1>2 DEF Scan
  <2>. QED BY <1>1, <2>1, <2>2, <2>3, <2>4
<1>. QED BY <1>3, <1>4

\* A scheduler leaves the variables of the other CPUs alone.
LEMMA OthersAlone ==
  ASSUME TypeOK, NEW c \in CPU, SchedulerStep(c), NEW d \in CPU \ {c}
  PROVE  /\ spc'[d] = spc[d] /\ idx'[d] = idx[d] /\ cand'[d] = cand[d]
         /\ maxprio'[d] = maxprio[d]
<1>1. CASE TestMode(c)
  BY <1>1 DEF TestMode, ModeTest, Choose, TypeOK, scanVars
<1>2. CASE ScanRR(c) \/ ScanFCFS(c)
  BY <1>2 DEF ScanRR, ScanFCFS, Choose, Advance, TypeOK
<1>3. CASE ScanMax(c) \/ ScanMatch(c)
  BY <1>3 DEF ScanMax, ScanMatch, Choose, Advance, TypeOK
<1>4. CASE Dispatch(c)
  BY <1>4 DEF Dispatch, TypeOK
<1>. QED BY <1>1, <1>2, <1>3, <1>4 DEF SchedulerStep

\* So it does not disturb their scans.
LEMMA OthersScan ==
  ASSUME TypeOK, Held, Held', \A d \in CPU : Scan(d), NEW c \in CPU, SchedulerStep(c),
         NEW d \in CPU \ {c}
  PROVE  Scan(d)'
<1>1. /\ spc'[d] = spc[d] /\ idx'[d] = idx[d] /\ cand'[d] = cand[d]
      /\ maxprio'[d] = maxprio[d]
  BY OthersAlone
<1>2. UNCHANGED <<creation_time, pid>> /\ TrackSteady
  BY Zenon DEF SchedulerStep, TestMode, ModeTest, ScanRR, ScanFCFS, ScanMax, ScanMatch,
     Dispatch, ScanFrame, procVars
<1>. QED BY <1>1, <1>2, ScanKept

\* Every step keeps what the scans have found out.
LEMMA ScanStep ==
  ASSUME TypeOK, Held, Held', \A d \in CPU : Scan(d), Next
  PROVE  \A d \in CPU : Scan(d)'
<1>0. TrackSteady
  BY EveryStepTracks
<1>1. ASSUME NEW c \in CPU, TestMode(c) PROVE Scan(c)'
  <2>1. CASE Choose(c, None)
    BY <1>0, <2>1, ScanEnds
  <2>2. CASE ~ Choose(c, None)
    <3>1. spc[c] \in {"rr?", "fcfs?", "prio?"}
      BY <1>1 DEF TestMode, ModeTest, InScheduler
    <3>2. spc'[c] \notin {"got", "match"} /\ idx'[c] = idx[c]
      BY <1>1, <2>2 DEF TestMode, ModeTest, TypeOK, scanVars
    <3>3. idx[c] = 1
      BY <3>1 DEF Scan
    <3>. QED BY <1>0, <3>2, <3>3, ScanBegins
  <2>. QED BY <2>1, <2>2
<1>2. ASSUME NEW c \in CPU, ScanRR(c) PROVE Scan(c)'
  <2>1. CASE \E p : Choose(c, p)
    BY <1>0, <2>1, ScanEnds
  <2>2. CASE ~ \E p : Choose(c, p)
    <3>1. /\ spc[c] = "rr" /\ UNCHANGED <<spc, procVars, cand, maxprio>>
          /\ idx[c] \in Slot /\ idx'[c] = idx[c] + 1 /\ state[idx[c]] # "RUNNABLE"
      BY <1>2, <2>2 DEF ScanRR, InScheduler, Advance, ScanFrame, TypeOK
    <3>2. maxprio[c] \in Nat /\ cand[c] \in Slot \cup {None}
      BY DEF TypeOK
    <3>. QED BY <1>0, <3>1, <3>2, ScanGoesOn
  <2>. QED BY <2>1, <2>2
<1>3. ASSUME NEW c \in CPU, ScanFCFS(c) PROVE Scan(c)'
  <2>1. CASE idx[c] \notin Slot
    BY <1>0, <1>3, <2>1, ScanEnds DEF ScanFCFS
  <2>2. CASE idx[c] \in Slot
    <3>1. /\ spc[c] = "fcfs" /\ UNCHANGED <<spc, procVars, maxprio>>
          /\ idx'[c] = idx[c] + 1
          /\ cand'[c] = IF state[idx[c]] = "RUNNABLE" /\ Older(c, idx[c])
                          THEN idx[c] ELSE cand[c]
      BY <1>3, <2>2 DEF ScanFCFS, InScheduler, Advance, ScanFrame, TypeOK
    <3>2. maxprio[c] \in Nat /\ cand[c] \in Slot \cup {None}
      BY DEF TypeOK
    <3>3. \A q \in Slot : creation_time[q] \in Nat
      BY DEF TypeOK
    <3>4. /\ cand[c] # None =>
               cand'[c] # None /\ creation_time[cand'[c]] <= creation_time[cand[c]]
          /\ state[idx[c]] = "RUNNABLE" =>
               cand'[c] # None /\ creation_time[cand'[c]] <= creation_time[idx[c]]
          /\ cand'[c] \in Slot \cup {None}
      BY <2>2, <3>1, <3>2, <3>3, SlotFacts DEF Older
    <3>. QED BY <1>0, <2>2, <3>1, <3>2, <3>4, ScanGoesOn
  <2>. QED BY <2>1, <2>2
<1>4. ASSUME NEW c \in CPU, ScanMax(c) PROVE Scan(c)'
  <2>1. CASE \E p : Choose(c, p)
    BY <1>0, <2>1, ScanEnds
  <2>2. CASE idx[c] \in Slot
    <3>1. /\ spc[c] = "max" /\ UNCHANGED <<spc, procVars, cand>>
          /\ idx'[c] = idx[c] + 1
          /\ maxprio'[c] = IF state[idx[c]] = "RUNNABLE" /\ priority(idx[c]) > maxprio[c]
                             THEN priority(idx[c]) ELSE maxprio[c]
      BY <1>4, <2>2 DEF ScanMax, InScheduler, Advance, ScanFrame, TypeOK
    <3>2. maxprio[c] \in Nat /\ priority(idx[c]) \in Nat /\ cand[c] \in Slot \cup {None}
      BY DEF TypeOK, priority
    <3>3. /\ maxprio[c] <= maxprio'[c] /\ maxprio'[c] \in Nat
          /\ state[idx[c]] = "RUNNABLE" => priority(idx[c]) <= maxprio'[c]
      BY <3>1, <3>2
    <3>. QED BY <1>0, <2>2, <3>1, <3>2, <3>3, ScanGoesOn
  <2>3. CASE idx[c] \notin Slot /\ ~ \E p : Choose(c, p)
    <3>1. /\ spc[c] = "max" /\ spc'[c] = "match" /\ UNCHANGED <<procVars, maxprio>>
          /\ idx[c] = NPROC + 1
      BY <1>4, <2>3, SlotFacts DEF ScanMax, InScheduler, ScanFrame, TypeOK
    <3>2. ASSUME NEW q \in steady'[c] PROVE state'[q] = "RUNNABLE" /\ priority(q) <= maxprio[c]
      <4>1. q \in Slot /\ q \in steady[c] /\ state'[q] = "RUNNABLE"
        BY <1>0, <3>1, <3>2, SteadyFacts
      <4>2. q < idx[c]
        BY <3>1, <4>1, SlotFacts
      <4>. QED BY <3>1, <4>1, <4>2 DEF Scan
    <3>. QED BY <3>1, <3>2 DEF Scan, procVars, priority
  <2>. QED BY <2>1, <2>2, <2>3
<1>5. ASSUME NEW c \in CPU, ScanMatch(c) PROVE Scan(c)'
  <2>1. CASE \E p : Choose(c, p)
    BY <1>0, <2>1, ScanEnds
  <2>2. CASE ~ \E p : Choose(c, p)
    <3>1. /\ spc[c] = "match" /\ UNCHANGED <<spc, procVars, cand, maxprio>>
          /\ idx[c] \in Slot /\ idx'[c] = idx[c] + 1
      BY <1>5, <2>2 DEF ScanMatch, InScheduler, Advance, ScanFrame, TypeOK
    <3>2. maxprio[c] \in Nat /\ cand[c] \in Slot \cup {None}
      BY DEF TypeOK
    <3>. QED BY <1>0, <3>1, <3>2, ScanGoesOn
  <2>. QED BY <2>1, <2>2
<1>6. ASSUME NEW c \in CPU, Dispatch(c) PROVE Scan(c)'
  <2>1. spc[c] = "got" /\ spc'[c] \in {"rr?", "wfi"} /\ idx' = idx
    BY <1>6 DEF Dispatch, InScheduler, TypeOK
  <2>. QED BY <1>0, <2>1, ScanBegins DEF Scan
<1>7. ASSUME NEW c \in CPU, TimerIntr(c), NEW d \in CPU PROVE Scan(d)'
  <2>1. /\ UNCHANGED <<idx, cand, maxprio, creation_time, pid>>
        /\ spc'[d] = spc[d] \/ (spc[d] = "wfi" /\ spc'[d] = "rr?")
    BY <1>7 DEF TimerIntr, TypeOK, scanVars
  <2>2. CASE spc'[d] = spc[d]
    BY <1>0, <2>1, <2>2, ScanKept, Zenon
  <2>3. CASE spc[d] = "wfi" /\ spc'[d] = "rr?"
    BY <1>0, <2>1, <2>3, ScanBegins DEF Scan
  <2>. QED BY <2>1, <2>2, <2>3, Zenon
<1>8. ASSUME ClockIntr \/ UpdateTime, NEW d \in CPU PROVE Scan(d)'
  BY <1>0, <1>8, ScanKept, Zenon DEF ClockIntr, UpdateTime, procVars, scanVars
<1>9. ASSUME NEW c \in CPU, NEW p \in Slot, ProcessStep(c, p), NEW d \in CPU PROVE Scan(d)'
  <2>1. /\ UNCHANGED <<spc, idx, cand, maxprio>>
        /\ \A q \in Slot : state[q] = "RUNNABLE" =>
               creation_time'[q] = creation_time[q] /\ pid'[q] = pid[q]
    BY <1>9 DEF ProcessStep, ForkAlloc, ForkRun, Exit, Reap, SetSched, TypeOK,
       procVars, scanVars
  <2>. QED BY <1>0, <2>1, ScanKept, Zenon
<1>10. ASSUME NEW c \in CPU, SchedulerStep(c), NEW d \in CPU PROVE Scan(d)'
  <2>1. CASE d # c
    BY <1>10, <2>1, OthersScan
  <2>2. CASE d = c
    BY <1>1, <1>2, <1>3, <1>4, <1>5, <1>6, <1>10, <2>2 DEF SchedulerStep
  <2>. QED BY <2>1, <2>2
<1>. QED BY <1>7, <1>8, <1>9, <1>10 DEF Next

-----------------------------------------------------------------------------
(* The clock.                                                              *)

\* Every step keeps the bound on the ticks that were charged.
LEMMA ChargedStep ==
  ASSUME TypeOK, Charged, Next PROVE Charged'
<1>1. ASSUME UNCHANGED <<run_time, creation_time, ticks, irq>> PROVE Charged'
  BY <1>1 DEF Charged
<1>2. ASSUME NEW c \in CPU, SchedulerStep(c) PROVE Charged'
  <2>1. UNCHANGED <<run_time, creation_time, ticks, irq>>
    BY <1>2, Zenon DEF SchedulerStep, TestMode, ModeTest, ScanRR, ScanFCFS, ScanMax,
       ScanMatch, Dispatch, ScanFrame, procVars
  <2>. QED BY <1>1, <2>1
<1>3. ASSUME NEW c \in CPU, TimerIntr(c) PROVE Charged'
  <2>1. UNCHANGED <<run_time, creation_time, ticks>>
    BY <1>3 DEF TimerIntr
  <2>2. irq' = irq \/ irq' = None
    BY <1>3 DEF TimerIntr
  <2>3. CASE irq' = irq
    BY <1>1, <2>1, <2>3
  <2>4. CASE irq' = None
    <3>. SUFFICES ASSUME NEW p \in Slot PROVE run_time[p] + creation_time[p] <= ticks + 1
      BY <2>1, <2>4 DEF Charged
    <3>1. run_time[p] \in Nat /\ creation_time[p] \in Nat /\ ticks \in Nat
      BY DEF TypeOK
    <3>. QED BY <3>1 DEF Charged
  <2>. QED BY <2>2, <2>3, <2>4
<1>4. ASSUME ClockIntr PROVE Charged'
  <2>1. /\ irq = None /\ ticks' = ticks + 1 /\ irq' = 1 /\ UNCHANGED <<run_time, creation_time>>
    BY <1>4 DEF ClockIntr, procVars
  <2>. SUFFICES ASSUME NEW p \in Slot PROVE run_time[p] + creation_time[p] <= ticks + 1
    BY <2>1 DEF Charged, TypeOK, None
  <2>. QED BY <2>1 DEF Charged
<1>5. ASSUME UpdateTime PROVE Charged'
  <2>. SUFFICES ASSUME NEW p \in Slot
       PROVE  run_time'[p] + creation_time'[p] <=
                 ticks' + (IF irq' # None /\ irq' <= p THEN 0 ELSE 1)
    BY DEF Charged
  <2>1. /\ irq \in Slot /\ irq' = irq + 1 /\ ticks' = ticks /\ creation_time' = creation_time
        /\ p # irq => run_time'[p] = run_time[p]
        /\ run_time'[p] <= run_time[p] + 1
    BY <1>5 DEF UpdateTime, TypeOK
  <2>2. /\ run_time[p] \in Nat /\ run_time'[p] \in Nat /\ creation_time[p] \in Nat
        /\ ticks \in Nat
    BY <1>5 DEF UpdateTime, TypeOK
  <2>3. run_time[p] + creation_time[p] <= ticks + (IF irq # None /\ irq <= p THEN 0 ELSE 1)
    BY DEF Charged
  <2>. QED BY <2>1, <2>2, <2>3, SlotFacts DEF None
<1>6. ASSUME NEW c \in CPU, NEW p \in Slot, ProcessStep(c, p) PROVE Charged'
  <2>. SUFFICES ASSUME NEW q \in Slot
       PROVE  run_time'[q] + creation_time'[q] <=
                 ticks' + (IF irq' # None /\ irq' <= q THEN 0 ELSE 1)
    BY DEF Charged
  <2>1. ticks' = ticks /\ irq' = irq /\ ticks \in Nat
    BY <1>6 DEF ProcessStep, ForkAlloc, ForkRun, Exit, Reap, SetSched, TypeOK, procVars
  <2>2. \/ run_time'[q] = run_time[q] /\ creation_time'[q] = creation_time[q]
        \/ run_time'[q] = 0 /\ creation_time'[q] = ticks
    BY <1>6 DEF ProcessStep, ForkAlloc, ForkRun, Exit, Reap, SetSched, TypeOK, procVars
  <2>3. run_time[q] + creation_time[q] <= ticks + (IF irq # None /\ irq <= q THEN 0 ELSE 1)
    BY DEF Charged
  <2>. QED BY <2>1, <2>2, <2>3
<1>. QED BY <1>2, <1>3, <1>4, <1>5, <1>6 DEF Next

-----------------------------------------------------------------------------
(* The theorems.                                                           *)

\* It holds when main() calls scheduler().
LEMMA InitSInv == Init => SInv
<1>. SUFFICES ASSUME Init PROVE SInv
  OBVIOUS
<1>. USE SlotFacts DEF Init
<1>1. TypeOK
  BY ModesAssumption DEF TypeOK, Runnable, None, Slot
<1>2. Held
  BY CpuAssumption DEF Held
<1>3. \A d \in CPU : Scan(d)
  BY DEF Scan, Runnable
<1>4. Charged
  BY DEF Charged, None
<1>. QED BY <1>1, <1>2, <1>3, <1>4 DEF SInv, CandidateHeld, Held

\* Every step keeps it.
LEMMA StepSInv == SInv /\ [Next]_vars => SInv'
<1>. SUFFICES ASSUME SInv, [Next]_vars PROVE SInv'
  OBVIOUS
<1>0. TypeOK /\ Held /\ (\A d \in CPU : Scan(d)) /\ Charged
  BY DEF SInv, CandidateHeld, Held
<1>1. CASE Next
  <2>1. TypeOK' /\ Held' /\ Charged'
    BY <1>0, <1>1, TypeStep, HeldStep, ChargedStep
  <2>2. \A d \in CPU : Scan(d)'
    BY <1>0, <1>1, <2>1, ScanStep
  <2>. QED BY <2>1, <2>2 DEF SInv, CandidateHeld, Held
<1>2. CASE UNCHANGED vars
  <2>1. TypeOK'
    BY <1>0, <1>2 DEF TypeOK, vars, procVars, scanVars
  <2>2. Held' /\ Charged'
    BY <1>0, <1>2 DEF Held, Charged, vars, procVars, scanVars
  <2>3. \A d \in CPU : Scan(d)'
    BY <1>0, <1>2 DEF Scan, priority, vars, procVars, scanVars
  <2>. QED BY <2>1, <2>2, <2>3 DEF SInv, CandidateHeld, Held
<1>. QED BY <1>1, <1>2

\* The inductive invariant of the scheduler.
THEOREM SchedInvariant == Spec => []SInv
  BY InitSInv, StepSInv, PTL DEF Spec

\* p->lock is held across steps by an FCFS scan of choose_next_process() alone,
\* for its candidate, which stays RUNNABLE and which the scan has passed.
THEOREM SchedCandidateHeld == Spec => []CandidateHeld
<1>1. SInv => CandidateHeld
  BY DEF SInv
<1>. QED BY <1>1, SchedInvariant, PTL

\* update_time() charges a process at most one tick more than have passed since
\* allocproc() set its creation time, wherever the clock interrupt is.
THEOREM SchedRunTimeBound == Spec => []RunTimeBound
<1>1. SInv => RunTimeBound
  <2>. SUFFICES ASSUME SInv, NEW p \in Slot
       PROVE  run_time[p] <= ticks - creation_time[p] + 1
    BY DEF RunTimeBound
  <2>1. run_time[p] \in Nat /\ creation_time[p] \in Nat /\ ticks \in Nat
    BY DEF SInv, CandidateHeld, TypeOK
  <2>2. run_time[p] + creation_time[p] <= ticks + (IF irq # None /\ irq <= p THEN 0 ELSE 1)
    BY DEF SInv, Charged
  <2>. QED BY <2>1, <2>2
<1>. QED BY <1>1, SchedInvariant, PTL

\* Only a scan that ends makes a choice, and returns to scheduler().
LEMMA WhoPicks ==
  ASSUME TypeOK, Next, NEW c \in CPU, spc'[c] # spc[c], spc'[c] \in {"got", "wfi"},
         spc[c] \in {"rr", "fcfs", "max", "match"} \/ spc'[c] = "got"
  PROVE  /\ spc[c] = "rr" => ScanRR(c)
         /\ spc[c] = "fcfs" => ScanFCFS(c)
         /\ spc'[c] = "got" => ScanRR(c) \/ ScanFCFS(c) \/ ScanMatch(c)
<1>1. ASSUME NEW d \in CPU, SchedulerStep(d) PROVE c = d
  BY <1>1, OthersAlone, Zenon
<1>2. ASSUME NEW d \in CPU, TimerIntr(d) PROVE FALSE
  BY <1>2, Zenon DEF TimerIntr, TypeOK
<1>3. ASSUME ClockIntr \/ UpdateTime \/ \E d \in CPU, p \in Slot : ProcessStep(d, p)
      PROVE  FALSE
  BY <1>3 DEF ClockIntr, UpdateTime, ProcessStep, ForkAlloc, ForkRun, Exit, Reap, SetSched
<1>4. SchedulerStep(c)
  BY <1>1, <1>2, <1>3 DEF Next
<1>5. ASSUME TestMode(c) \/ Dispatch(c) PROVE FALSE
  BY <1>5 DEF TestMode, ModeTest, Dispatch, InScheduler, Choose, TypeOK
<1>6. ASSUME ScanMax(c) PROVE spc[c] = "max" /\ spc'[c] # "got"
  BY <1>6 DEF ScanMax, InScheduler, Choose, TypeOK
<1>7. ASSUME ScanMatch(c) PROVE spc[c] = "match"
  BY <1>7 DEF ScanMatch, InScheduler
<1>8. /\ ScanRR(c) => spc[c] = "rr"
      /\ ScanFCFS(c) => spc[c] = "fcfs"
  BY DEF ScanRR, ScanFCFS, InScheduler
<1>. QED BY <1>4, <1>5, <1>6, <1>7, <1>8 DEF SchedulerStep

\* A choice is right by every process that stayed RUNNABLE.
LEMMA PickStep ==
  ASSUME SInv, Next, NEW c \in CPU
  PROVE  /\ spc[c] # "got" /\ spc'[c] = "got" => GoodPick(c)
         /\ spc[c] \in {"rr", "fcfs"} /\ spc'[c] = "wfi" => steady[c] = {}
<1>0. TypeOK /\ Held /\ Scan(c) /\ idx[c] \in Cursor /\ steady[c] \subseteq Slot
  BY DEF SInv, CandidateHeld, Held, TypeOK
<1>1. ASSUME idx[c] \notin Slot PROVE \A q \in steady[c] : q < idx[c] /\ ~ idx[c] <= q
  BY <1>0, <1>1, PastSlots, Zenon
<1>2. CASE spc[c] = "rr" /\ spc'[c] \in {"got", "wfi"}
  <2>1. ScanRR(c)
    BY <1>0, <1>2, WhoPicks
  <2>2. CASE spc'[c] = "got"
    BY <1>2, <2>2 DEF GoodPick
  <2>3. CASE spc'[c] = "wfi"
    <3>1. idx[c] \notin Slot
      BY <1>0, <1>2, <2>1, <2>3, SlotFacts DEF ScanRR, Choose, TypeOK
    <3>. QED BY <1>0, <1>1, <1>2, <2>3, <3>1 DEF Scan
  <2>. QED BY <1>2, <2>2, <2>3
<1>3. CASE spc[c] = "fcfs" /\ spc'[c] \in {"got", "wfi"}
  <2>1. ScanFCFS(c)
    BY <1>0, <1>3, WhoPicks
  <2>2. idx[c] \notin Slot /\ Choose(c, cand[c])
    BY <1>0, <1>3, <2>1 DEF ScanFCFS, TypeOK
  <2>3. \A q \in steady[c] : cand[c] # None /\ creation_time[cand[c]] <= creation_time[q]
    BY <1>0, <1>1, <1>3, <2>2 DEF Scan
  <2>4. /\ cand'[c] = cand[c]
        /\ spc'[c] = IF cand[c] = None THEN "wfi" ELSE "got"
    BY <1>0, <2>2 DEF Choose, TypeOK
  <2>. QED BY <1>3, <2>3, <2>4 DEF GoodPick
<1>4. CASE spc[c] \notin {"rr", "fcfs", "got"} /\ spc'[c] = "got"
  <2>1. ScanMatch(c) /\ spc[c] = "match"
    <3>1. ScanRR(c) \/ ScanFCFS(c) \/ ScanMatch(c)
      BY <1>0, <1>4, WhoPicks
    <3>. QED BY <1>4, <3>1, Zenon DEF ScanRR, ScanFCFS, ScanMatch, InScheduler
  <2>2. cand'[c] = idx[c] /\ priority(idx[c]) = maxprio[c]
    BY <1>0, <1>4, <2>1 DEF ScanMatch, Choose, TypeOK
  <2>3. \A q \in steady[c] : priority(q) <= maxprio[c]
    BY <1>0, <2>1 DEF Scan
  <2>4. \A q \in steady[c] : priority(q) \in Nat /\ priority(idx[c]) \in Nat
    BY DEF priority
  <2>5. \A q \in steady[c] : priority(cand'[c]) >= priority(q)
    BY <2>2, <2>3, <2>4
  <2>. QED BY <1>4, <2>1, <2>5 DEF GoodPick
<1>. QED BY <1>2, <1>3, <1>4

\* What choose_next_process() returns is not younger (FCFS), or has no lower
\* priority (PRIORITY), than every process that stayed RUNNABLE during the
\* scan, and it returns nothing in RR and FCFS only if there is none, although
\* the other CPUs and set_sched() run beside it.
THEOREM SchedPicks == Spec => PickRespectsPolicy
<1>1. SInv /\ [Next]_vars =>
        [\A c \in CPU : spc[c] # "got" /\ spc'[c] = "got" => GoodPick(c)]_vars
  BY PickStep
<1>2. SInv /\ [Next]_vars =>
        [\A c \in CPU : spc[c] \in {"rr", "fcfs"} /\ spc'[c] = "wfi" => steady[c] = {}]_vars
  BY PickStep
<1>. QED BY <1>1, <1>2, SchedInvariant, PTL DEF Spec, PickRespectsPolicy

=============================================================================
