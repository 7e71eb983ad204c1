------------------------------ MODULE ProcInv -------------------------------
(***************************************************************************)
(* The inductive invariant of Proc, part by part.                          *)
(***************************************************************************)
EXTENDS Proc


\* A process on a CPU is RUNNING exactly while its own code runs; it is
\* already marked otherwise when it leaves.  Off every CPU it is saved.
SwitchInv ==
    /\ \A c \in CPU, p \in Slot : cproc[c] = p =>
        /\ ctx[p] \in {"exec", "enter"} => state[p] = "RUNNING"
        /\ ctx[p] \in {"leave", "saved"} =>
               state[p] \in {"RUNNABLE", "SLEEPING", "ZOMBIE"}
    /\ \A p \in Slot : (\A c \in CPU : cproc[c] # p) =>
        ctx[p] = "saved" /\ state[p] # "RUNNING"

\* What the state of a process says about where it is in its code.
LabelInv ==
    \A p \in Slot :
        /\ state[p] = "UNUSED" => pc[p] \in {"user", "dead"}
        /\ state[p] = "USED" => pc[p] = "user"
        /\ state[p] = "SLEEPING" => pc[p] = "wait_acq" /\ chan[p] = p
        /\ state[p] = "ZOMBIE" => pc[p] = "dead"
        /\ state[p] \in {"RUNNABLE", "RUNNING"} => pc[p] # "dead"
        /\ pc[p] \in WaitLockLabels => ctx[p] = "exec"
        /\ pc[p] = "gpt_ppid" => ctx[p] = "exec"
        /\ pc[p] \in {"gpt_ppid", "rp_wakeup"} => idx[p] \in Slot

\* init never exits; the slot it was given stays its own.
InitInv ==
    /\ state[initproc] \notin {"UNUSED", "USED", "ZOMBIE"}
    /\ pc[initproc] \notin {"exit_acq", "exit_reparent", "rp_wakeup",
                            "ex_wakeup", "exit_zombie", "dead"}

\* How far reparent() has come in handing over p's children.
ReparentInv ==
    \A p, q \in Slot :
        /\ pc[p] = "exit_reparent" /\ q < idx[p] => parent[q] # p
        /\ pc[p] = "rp_wakeup" /\ q <= idx[p] => parent[q] # p
        /\ pc[p] \in {"ex_wakeup", "exit_zombie"} => parent[q] # p

\* Parents are live processes; every started process but init has one.
ParentInv ==
    /\ \A q \in Slot : parent[q] # None =>
        /\ state[q] # "UNUSED"
        /\ state[parent[q]] \notin {"UNUSED", "USED", "ZOMBIE"}
    /\ \A q \in Slot : q # initproc /\ state[q] \notin {"UNUSED", "USED"} =>
        parent[q] # None

ForkInv ==
    /\ ForkOwnsChild
    /\ \A p \in Slot : pc[p] = "fork_run" => parent[np[p]] = p

\* How far wait()'s scan has come without finding an exited child.
WaitInv ==
    \A p, z \in Slot : parent[z] = p =>
        /\ pc[p] = "wait_scan" /\ z < idx[p] => state[z] # "ZOMBIE" /\ have[p]
        /\ pc[p] \in {"sleep_lk", "sleep_go"} => state[z] # "ZOMBIE"

\* A sleeping parent has an exited child only while the child is being handed
\* to init and init is about to be woken; a process about to become a zombie
\* has woken its parent.
WakeInv ==
    /\ \A z \in Slot :
        state[z] = "ZOMBIE" /\ parent[z] # None /\ state[parent[z]] = "SLEEPING"
        => /\ parent[z] = initproc
           /\ \E p \in Slot : pc[p] = "rp_wakeup" /\ widx[p] <= initproc
    /\ \A p \in Slot :
        /\ parent[p] # None
        /\ pc[p] = "ex_wakeup" => widx[p] > parent[p]
        /\ pc[p] \in {"ex_wakeup", "exit_zombie"}
        => state[parent[p]] # "SLEEPING"

PidInv ==
    /\ nextpid > 0
    /\ \A p \in Slot : pid[p] < nextpid /\ (pid[p] = 0 <=> state[p] = "UNUSED")
    /\ PidUnique

\* The parts, grouped by the theorem they serve: CPUs and locks, the process
\* tree, sleeping parents.
CpuInv == OneCpuPerProc /\ SwitchInv /\ LabelInv /\ WaitLockOwner /\ PLockOwner
TreeInv == InitInv /\ ReparentInv /\ ParentInv /\ ForkInv
SleepInv == WaitInv /\ WakeInv

\* The inductive invariant: TypeOK and the parts above hold in every reachable
\* state of the process table, and each step of proc.c preserves their
\* conjunction.
IInv == TypeOK /\ CpuInv /\ TreeInv /\ SleepInv /\ PidInv

=============================================================================
