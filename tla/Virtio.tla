------------------------------- MODULE Virtio -------------------------------
(***************************************************************************)
(* The disk driver of kernel/virtio_disk.c with the device: descriptors,   *)
(* the available and the used ring, virtio_disk_rw() by several processes  *)
(* and virtio_disk_intr().  The device runs beside the driver and takes no *)
(* lock, so the driver's writes that it can see are steps of their own.    *)
(* Every process transfers one buffer at a time: b->disk is a flag of the  *)
(* process.                                                                *)
(***************************************************************************)
EXTENDS Counters, FiniteSets

CONSTANTS
    Thread,    \* processes that read and write the disk
    Intr,      \* vdisk_lock is held by virtio_disk_intr()
    NUM        \* number of descriptors

Desc == 0 .. NUM - 1

\* Nobody stands for vdisk_lock being free, and for info[].b = 0.
ASSUME VirtioAssumption ==
    /\ WrapsEvenly(NUM) /\ NUM >= 3
    /\ Nobody \notin Thread /\ Intr \notin Thread /\ Nobody # Intr

VARIABLES
    free, next, info, status,  \* disk.free, desc[].next, info[].b, .status
    avail, availIdx,           \* disk.avail->ring, ->idx
    used, usedIdx,             \* disk.used->ring, ->idx, written by the device
    used_idx,                  \* how far virtio_disk_intr() has looked
    lock,                      \* vdisk_lock
    pc, idx, bdisk,            \* per process: idx[3], b->disk
    devIdx, inFlight, irq      \* the device

driver == <<free, next, info, idx>>
device == <<devIdx, inFlight>>
vars == <<driver, device, status, avail, availIdx, used, usedIdx, used_idx,
          lock, pc, bdisk, irq>>

Init ==
    /\ free = Desc
    /\ next = [d \in Desc |-> 0]
    /\ info = [d \in Desc |-> Nobody]
    /\ status = [d \in Desc |-> 0]
    /\ avail = [d \in Desc |-> 0] /\ availIdx = 0
    /\ used = [d \in Desc |-> 0] /\ usedIdx = 0
    /\ used_idx = 0
    /\ lock = Nobody
    /\ pc = [t \in Thread |-> "idle"]
    /\ idx = [t \in Thread |-> <<>>]
    /\ bdisk = [t \in Thread |-> FALSE]
    /\ devIdx = 0 /\ inFlight = {} /\ irq = FALSE

Goto(t, l) == pc' = [pc EXCEPT ![t] = l]

\* wakeup(&disk.free[0]), and t moves to l.
WakeFreeGoto(t, l) ==
    pc' = [u \in Thread |-> IF u = t THEN l
                            ELSE IF pc[u] = "asleep_free" THEN "alloc"
                            ELSE pc[u]]

-----------------------------------------------------------------------------
(* virtio_disk_rw().                                                       *)

Call(t) ==
    /\ pc[t] = "idle"
    /\ Goto(t, "alloc")
    /\ UNCHANGED <<driver, device, status, avail, availIdx, used, usedIdx,
                   used_idx, lock, bdisk, irq>>

\* What alloc3_desc() finds: the first free descriptor, three times.
Lowest(S) == CHOOSE d \in S : \A e \in S : d <= e
Three ==
    LET d0 == Lowest(free)
        d1 == Lowest(free \ {d0})
        d2 == Lowest(free \ {d0, d1})
    IN <<d0, d1, d2>>

\* Mutant of AllocFail: the descriptors it got are not given back.
AllocFailLeak(t) ==
    /\ pc[t] = "alloc" /\ lock = Nobody /\ Cardinality(free) < 3
    /\ free' = {}
    /\ Goto(t, "asleep_free")
    /\ UNCHANGED <<next, info, idx, device, status, avail, availIdx, used,
                   usedIdx, used_idx, lock, bdisk, irq>>

\* alloc3_desc() gives back what it got, which wakes the others that wait for
\* descriptors, and the process sleeps.
AllocFail(t) ==
    /\ pc[t] = "alloc" /\ lock = Nobody /\ Cardinality(free) < 3
    /\ IF free = {} THEN Goto(t, "asleep_free") ELSE WakeFreeGoto(t, "asleep_free")
    /\ UNCHANGED <<driver, device, status, avail, availIdx, used, usedIdx,
                   used_idx, lock, bdisk, irq>>

\* The entry of disk.info that describes a chain.
InfoIndex(c) == c[1]

\* Three descriptors are taken, chained, and described in disk.info.
Format(t) ==
    /\ pc[t] = "alloc" /\ lock = Nobody /\ Cardinality(free) >= 3
    /\ lock' = t
    /\ LET c == Three IN
       /\ free' = free \ {c[1], c[2], c[3]}
       /\ next' = [next EXCEPT ![c[1]] = c[2], ![c[2]] = c[3], ![c[3]] = 0]
       /\ idx' = [idx EXCEPT ![t] = c]
       /\ info' = [info EXCEPT ![InfoIndex(c)] = t]
       /\ status' = [status EXCEPT ![InfoIndex(c)] = 255]
    /\ bdisk' = [bdisk EXCEPT ![t] = TRUE]
    /\ Goto(t, "ring")
    /\ UNCHANGED <<avail, availIdx, used, usedIdx, used_idx, devIdx, inFlight,
                   irq>>

PutRing(t) ==
    /\ pc[t] = "ring"
    /\ avail' = [avail EXCEPT ![availIdx % NUM] = idx[t][1]]
    /\ Goto(t, "publish")
    /\ UNCHANGED <<driver, device, status, availIdx, used, usedIdx, used_idx,
                   lock, bdisk, irq>>

\* avail->idx += 1, notify; then sleep(b, &disk.vdisk_lock): nobody has taken
\* the lock, so b->disk is still 1.
Publish(t) ==
    /\ pc[t] = "publish"
    /\ availIdx' = Inc(availIdx)
    /\ lock' = Nobody
    /\ Goto(t, "asleep_buf")
    /\ UNCHANGED <<driver, device, status, avail, used, usedIdx, used_idx,
                   bdisk, irq>>

StillBusy(t) == bdisk[t]

\* Awake, but not by virtio_disk_intr(): sleep again.
Rewait(t) ==
    /\ pc[t] = "woken" /\ lock = Nobody /\ StillBusy(t)
    /\ Goto(t, "asleep_buf")
    /\ UNCHANGED <<driver, device, status, avail, availIdx, used, usedIdx,
                   used_idx, lock, bdisk, irq>>

\* Awake again: free_chain(idx[0]) and return.
Finish(t) ==
    /\ pc[t] = "woken" /\ lock = Nobody /\ ~ StillBusy(t)
    /\ LET c == idx[t] IN
       /\ free' = free \cup {c[1], c[2], c[3]}
       /\ info' = [info EXCEPT ![c[1]] = Nobody]
       /\ next' = [d \in Desc |-> IF d \in {c[1], c[2], c[3]} THEN 0 ELSE next[d]]
    /\ idx' = [idx EXCEPT ![t] = <<>>]
    /\ WakeFreeGoto(t, "idle")
    /\ UNCHANGED <<devIdx, inFlight, status, avail, availIdx, used, usedIdx, used_idx,
                   lock, bdisk, irq>>

\* kill() makes a process that sleeps in virtio_disk_rw() runnable.
KillWake(t) ==
    /\ pc[t] \in {"asleep_buf", "asleep_free"}
    /\ Goto(t, IF pc[t] = "asleep_buf" THEN "woken" ELSE "alloc")
    /\ UNCHANGED <<driver, device, status, avail, availIdx, used, usedIdx,
                   used_idx, lock, bdisk, irq>>

-----------------------------------------------------------------------------
(* The device.                                                             *)

\* It takes the next chain from the available ring.  An entry that has been
\* taken is not read again, and is forgotten.
DevTake ==
    /\ devIdx # availIdx
    /\ inFlight' = inFlight \cup {avail[devIdx % NUM]}
    /\ avail' = [avail EXCEPT ![devIdx % NUM] = 0]
    /\ devIdx' = Inc(devIdx)
    /\ UNCHANGED <<driver, status, availIdx, used, usedIdx, used_idx,
                   lock, pc, bdisk, irq>>

\* It has moved the data of chain d, in any order, and asks for an interrupt.
DevComplete(d) ==
    /\ d \in inFlight
    /\ inFlight' = inFlight \ {d}
    /\ status' = [status EXCEPT ![d] = 0]
    /\ used' = [used EXCEPT ![usedIdx % NUM] = d]
    /\ usedIdx' = Inc(usedIdx)
    /\ irq' = TRUE
    /\ UNCHANGED <<driver, avail, availIdx, used_idx, lock, pc, bdisk, devIdx>>

-----------------------------------------------------------------------------
(* virtio_disk_intr().                                                     *)

IntrStart ==
    /\ irq /\ lock = Nobody
    /\ lock' = Intr
    /\ irq' = FALSE
    /\ UNCHANGED <<driver, device, status, avail, availIdx, used, usedIdx,
                   used_idx, pc, bdisk>>

\* Mutant of IntrEntry: one entry per interrupt.
IntrEntryOnce ==
    /\ lock = Intr /\ used_idx # usedIdx
    /\ LET t == info[used[used_idx % NUM]] IN
       /\ bdisk' = [bdisk EXCEPT ![t] = FALSE]
       /\ pc' = IF pc[t] = "asleep_buf" THEN [pc EXCEPT ![t] = "woken"] ELSE pc
    /\ used' = [used EXCEPT ![used_idx % NUM] = 0]
    /\ used_idx' = Inc(used_idx)
    /\ lock' = Nobody
    /\ UNCHANGED <<driver, device, status, avail, availIdx, usedIdx, irq>>

\* One entry of the used ring, which is then forgotten.
IntrEntry ==
    /\ lock = Intr /\ used_idx # usedIdx
    /\ LET t == info[used[used_idx % NUM]] IN
       /\ bdisk' = [bdisk EXCEPT ![t] = FALSE]
       /\ pc' = IF pc[t] = "asleep_buf" THEN [pc EXCEPT ![t] = "woken"] ELSE pc
    /\ used' = [used EXCEPT ![used_idx % NUM] = 0]
    /\ used_idx' = Inc(used_idx)
    /\ UNCHANGED <<driver, device, status, avail, availIdx, usedIdx, lock, irq>>

IntrEnd ==
    /\ lock = Intr /\ used_idx = usedIdx
    /\ lock' = Nobody
    /\ UNCHANGED <<driver, device, status, avail, availIdx, used, usedIdx,
                   used_idx, pc, bdisk, irq>>

-----------------------------------------------------------------------------
RwStep(t) ==
    \/ AllocFail(t) \/ Format(t) \/ PutRing(t) \/ Publish(t)
    \/ Rewait(t) \/ Finish(t)
Interrupt == IntrStart \/ IntrEntry \/ IntrEnd

Next ==
    \/ \E t \in Thread : Call(t) \/ RwStep(t) \/ KillWake(t)
    \/ DevTake \/ \E d \in Desc : DevComplete(d)
    \/ Interrupt

Spec == Init /\ [][Next]_vars

\* The device goes on; the CPU that takes its interrupt and spins for
\* vdisk_lock, released again and again, gets it; and a process that holds the
\* lock goes on, since interrupts are off on its CPU.  Nothing is assumed of a
\* process that has to be scheduled first.
FairSpec ==
    /\ Spec
    /\ WF_vars(DevTake) /\ \A d \in Desc : WF_vars(DevComplete(d))
    /\ SF_vars(Interrupt)
    /\ \A t \in Thread : WF_vars(PutRing(t) \/ Publish(t))

-----------------------------------------------------------------------------
(* Properties.                                                             *)

TypeOK ==
    /\ free \subseteq Desc
    /\ next \in [Desc -> Desc]
    /\ info \in [Desc -> Thread \cup {Nobody}]
    /\ status \in [Desc -> {0, 255}]
    /\ avail \in [Desc -> Desc] /\ used \in [Desc -> Desc]
    /\ availIdx \in Uint /\ usedIdx \in Uint /\ used_idx \in Uint /\ devIdx \in Uint
    /\ lock \in Thread \cup {Nobody, Intr}
    /\ pc \in [Thread -> {"idle", "alloc", "asleep_free", "ring", "publish",
                          "asleep_buf", "woken"}]
    /\ idx \in [Thread -> {<<>>} \cup Desc \X Desc \X Desc]
    /\ bdisk \in [Thread -> BOOLEAN]
    /\ inFlight \subseteq Desc /\ irq \in BOOLEAN

\* Every descriptor is free or belongs to one request, as a chain of three
\* that free_chain() can follow: panic("free_desc 2") is not reached.
Chain(t) == {idx[t][i] : i \in DOMAIN idx[t]}
DescOwned ==
    /\ TypeOK
    /\ \A t \in Thread : \A d \in Chain(t) : d \notin free
    /\ \A t, u \in Thread : t # u => Chain(t) \cap Chain(u) = {}
    /\ free \cup UNION {Chain(t) : t \in Thread} = Desc
    /\ \A t \in Thread : idx[t] # <<>> =>
        next[idx[t][1]] = idx[t][2] /\ next[idx[t][2]] = idx[t][3]

\* What the device works on, and what it has reported, belongs to a process
\* that waits for it: no request is reported twice or for the wrong buffer, so
\* virtio_disk_rw() returns only when the device has moved the data, and
\* virtio_disk_intr() finds a buffer, and status 0 instead of
\* panic("virtio_disk_intr status").
Reported == {used[(used_idx + k) % NUM] :
                k \in 0 .. Minus(usedIdx, used_idx) - 1}
Pending == {avail[(devIdx + k) % NUM] :
                k \in 0 .. Minus(availIdx, devIdx) - 1}
DeviceOwnsChain ==
    /\ \A d \in Pending \cup inFlight \cup Reported :
           \E t \in Thread : /\ idx[t] # <<>> /\ idx[t][1] = d /\ info[d] = t
                             /\ bdisk[t] /\ pc[t] \in {"asleep_buf", "woken"}
    /\ \A d \in Reported : status[d] = 0

\* Who sleeps for descriptors could not have them.
FreeSleeperJustified ==
    \A t \in Thread : pc[t] = "asleep_free" => Cardinality(free) < 3

\* The descriptors are shared out soundly: among the requests of the driver
\* (DescOwned), between driver and device (DeviceOwnsChain), and nobody sleeps
\* for descriptors that are there (FreeSleeperJustified).
ChainsOwned == DescOwned /\ DeviceOwnsChain /\ FreeSleeperJustified

\* Every request that virtio_disk_rw() sets up is served: virtio_disk_intr()
\* clears b->disk and does not leave its process asleep, although an interrupt
\* may stand for several completions and one may come while it runs.
RequestServed ==
    \A t \in Thread : bdisk[t] ~> ~ bdisk[t] /\ pc[t] # "asleep_buf"

=============================================================================
