----------------------------- MODULE AtomicLog ------------------------------
(***************************************************************************)
(* What the log of kernel/log.c promises to the file system calls that     *)
(* bracket their writes with begin_op() and end_op(): the disk moves, in   *)
(* one step, from one state without calls in progress to another, and a    *)
(* crash throws away everything since the last such step.                  *)
(***************************************************************************)
CONSTANTS Thread, Block, Val

VARIABLES
    mem,      \* the contents of the blocks as the running system sees them
    durable,  \* the contents that a crash leaves behind
    active    \* the threads between begin_op() and end_op()

absVars == <<mem, durable, active>>

AInit ==
    /\ durable \in [Block -> Val]
    /\ mem = durable
    /\ active = {}

ABegin(t) ==
    /\ t \notin active
    /\ active' = active \cup {t}
    /\ UNCHANGED <<mem, durable>>

AWrite(t, b, v) ==
    /\ t \in active
    /\ mem' = [mem EXCEPT ![b] = v]
    /\ UNCHANGED <<durable, active>>

AEnd(t) ==
    /\ t \in active
    /\ active' = active \ {t}
    /\ UNCHANGED <<mem, durable>>

ACommit ==
    /\ active = {}
    /\ durable' = mem
    /\ UNCHANGED <<mem, active>>

ACrash ==
    /\ mem' = durable
    /\ active' = {}
    /\ UNCHANGED durable

ANext ==
    \/ \E t \in Thread : \/ ABegin(t) \/ AEnd(t)
                         \/ \E b \in Block, v \in Val : AWrite(t, b, v)
    \/ ACommit \/ ACrash

ASpec == AInit /\ [][ANext]_absVars

=============================================================================
