------------------------------- MODULE Clock --------------------------------
(***************************************************************************)
(* The clock: clockintr() of kernel/trap.c advances ticks under tickslock  *)
(* and wakes the processes in sys_sleep() of kernel/sysproc.c.  ticks is   *)
(* an unsigned integer of UintBits bits and wraps around; ticks - ticks0   *)
(* is what sys_sleep() compares.                                           *)
(***************************************************************************)
EXTENDS Integers

CONSTANTS
    Thread,    \* processes that call sleep()
    Nobody,    \* tickslock is free
    UintBits,  \* width of ticks
    MaxSleep,  \* the longest sleep asked for
    MaxLag     \* ticks that a woken process may miss before it runs;
               \* MaxSleep + MaxLag < 2 ^ UintBits

VARIABLES
    ticks, tickslock,
    pc, n, ticks0,  \* per process: where it is, locals of sys_sleep()
    killed,
    gone            \* clock interrupts since ticks0 was read

vars == <<ticks, tickslock, pc, n, ticks0, killed, gone>>

Uint == 0 .. 2 ^ UintBits - 1
Elapsed(t) == (ticks - ticks0[t]) % 2 ^ UintBits

Init ==
    /\ ticks = 0
    /\ tickslock = Nobody
    /\ pc = [t \in Thread |-> "user"]
    /\ n = [t \in Thread |-> 0]
    /\ ticks0 = [t \in Thread |-> 0]
    /\ killed = [t \in Thread |-> FALSE]
    /\ gone = [t \in Thread |-> 0]

Goto(t, l) == pc' = [pc EXCEPT ![t] = l]

\* Return to user space; the locals are dead.
Return(t, l) ==
    /\ tickslock' = Nobody
    /\ Goto(t, l)
    /\ n' = [n EXCEPT ![t] = 0] /\ ticks0' = [ticks0 EXCEPT ![t] = 0]
    /\ gone' = [gone EXCEPT ![t] = 0]
    /\ UNCHANGED <<ticks, killed>>

\* sys_sleep(): a negative n counts as 0.
Call(t) ==
    /\ pc[t] \in {"user", "woke"} /\ ~ killed[t]
    /\ \E k \in -1 .. MaxSleep : n' = [n EXCEPT ![t] = IF k < 0 THEN 0 ELSE k]
    /\ Goto(t, "call")
    /\ UNCHANGED <<ticks, tickslock, ticks0, killed, gone>>

\* acquire(&tickslock), ticks0 = ticks.
Start(t) ==
    /\ pc[t] = "call" /\ tickslock = Nobody
    /\ tickslock' = t
    /\ ticks0' = [ticks0 EXCEPT ![t] = ticks]
    /\ Goto(t, "loop")
    /\ UNCHANGED <<ticks, n, killed, gone>>

\* acquire() at the end of sleep().
Reacquire(t) ==
    /\ pc[t] = "runnable" /\ tickslock = Nobody
    /\ tickslock' = t
    /\ Goto(t, "loop")
    /\ UNCHANGED <<ticks, n, ticks0, killed, gone>>

\* The condition of the loop.
TooSoon(t) == Elapsed(t) < n[t]

Done(t) ==
    /\ pc[t] = "loop" /\ ~ TooSoon(t)
    /\ Return(t, "woke")

Interrupted(t) ==
    /\ pc[t] = "loop" /\ TooSoon(t) /\ killed[t]
    /\ Return(t, "user")

NotKilled(t) ==
    /\ pc[t] = "loop" /\ TooSoon(t) /\ ~ killed[t]
    /\ Goto(t, "sleep")
    /\ UNCHANGED <<ticks, tickslock, n, ticks0, killed, gone>>

\* sleep(&ticks, &tickslock).
Sleep(t) ==
    /\ pc[t] = "sleep"
    /\ tickslock' = Nobody
    /\ Goto(t, "asleep")
    /\ UNCHANGED <<ticks, n, ticks0, killed, gone>>

Kill(t) ==
    /\ ~ killed[t]
    /\ killed' = [killed EXCEPT ![t] = TRUE]
    /\ pc' = IF pc[t] = "asleep" THEN [pc EXCEPT ![t] = "runnable"] ELSE pc
    /\ UNCHANGED <<ticks, tickslock, n, ticks0, gone>>

\* A killed process exits when it is back in user space; a new one takes its
\* place.
Exit(t) ==
    /\ pc[t] \in {"user", "woke"} /\ killed[t]
    /\ killed' = [killed EXCEPT ![t] = FALSE]
    /\ Goto(t, "user")
    /\ UNCHANGED <<ticks, tickslock, n, ticks0, gone>>

Capped(k) == IF k > MaxSleep + MaxLag THEN MaxSleep + MaxLag ELSE k
InSleep(t) == pc[t] \in {"loop", "sleep", "asleep", "runnable"}

\* Mutant of Woken: no wakeup(&ticks).
WokenNobody == pc

Woken == [t \in Thread |-> IF pc[t] = "asleep" THEN "runnable" ELSE pc[t]]

NextTick == (ticks + 1) % 2 ^ UintBits

\* clockintr() on CPU 0: ticks++, update_time(), wakeup(&ticks).
ClockIntr ==
    /\ tickslock = Nobody
    /\ \A t \in Thread : pc[t] = "runnable" => gone[t] < n[t] + MaxLag
    /\ ticks' = NextTick
    /\ pc' = Woken
    /\ gone' = [t \in Thread |-> IF InSleep(t) THEN Capped(gone[t] + 1) ELSE 0]
    /\ UNCHANGED <<tickslock, n, ticks0, killed>>

InKernel(t) ==
    Start(t) \/ Reacquire(t) \/ Done(t) \/ Interrupted(t) \/ NotKilled(t)
    \/ Sleep(t)

Next ==
    \/ \E t \in Thread : Call(t) \/ InKernel(t) \/ Kill(t) \/ Exit(t)
    \/ ClockIntr

Spec == Init /\ [][Next]_vars

-----------------------------------------------------------------------------
(* Properties.                                                             *)

TypeOK ==
    /\ ticks \in Uint
    /\ tickslock \in Thread \cup {Nobody}
    /\ pc \in [Thread -> {"user", "call", "loop", "sleep", "asleep",
                          "runnable", "woke"}]
    /\ n \in [Thread -> 0 .. MaxSleep]
    /\ ticks0 \in [Thread -> Uint]
    /\ killed \in [Thread -> BOOLEAN]
    /\ gone \in [Thread -> 0 .. MaxSleep + MaxLag]

\* sys_sleep(n) is exact, also when ticks wraps around meanwhile.  It finds that
\* it is too soon, and does not return 0, if and only if there have been fewer
\* than n clock interrupts since it began; and who sleeps, or is about to, has
\* some to wait for, since each clockintr() wakes the sleepers.
SleepExact ==
    \A t \in Thread :
        /\ pc[t] = "loop" => (TooSoon(t) <=> gone[t] < n[t])
        /\ pc[t] \in {"sleep", "asleep"} => gone[t] < n[t]

=============================================================================
