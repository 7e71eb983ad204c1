---------------------------- MODULE VirtioProofs ----------------------------
(***************************************************************************)
(* The disk driver beside the device, for any number of processes and      *)
(* descriptors: no descriptor is shared or lost, what the device works on  *)
(* or has reported is a chain whose process waits for it, and nobody       *)
(* sleeps for descriptors that are there.                                  *)
(***************************************************************************)
EXTENDS Virtio, RingProofs, FiniteSetTheorems, WellFoundedInduction

\* The provers, in the order of the attempts.
USE SMT, SMTT(20), SMTT(40), ZenonT(30)

-----------------------------------------------------------------------------
(* Queues in which nothing is twice.                                       *)

Members(q) == {q[i] : i \in 1 .. Len(q)}
OnceEach(q) == \A i, j \in 1 .. Len(q) : q[i] = q[j] => i = j

\* Putting in what is not there yet.
LEMMA PutInOnce ==
  ASSUME NEW V, NEW q \in Seq(V), NEW v \in V, OnceEach(q), v \notin Members(q),
         NEW q1, NEW n, PutIn(q1, q, v, n)
  PROVE  q1 \in Seq(V) /\ OnceEach(q1) /\ Members(q1) = Members(q) \cup {v}
<1>1. q1 = Append(q, v) /\ Len(q) \in Nat
  BY DEF PutIn
<1>2. /\ q1 \in Seq(V) /\ Len(q1) = Len(q) + 1 /\ q1[Len(q) + 1] = v
      /\ \A i \in 1 .. Len(q) : q1[i] = q[i]
  BY <1>1
<1>3. \A i \in 1 .. Len(q1) : i \in 1 .. Len(q) \/ i = Len(q) + 1
  BY <1>1, <1>2
<1>4. \A i \in 1 .. Len(q) : i \in 1 .. Len(q1) /\ q[i] # v
  BY <1>1, <1>2 DEF Members
<1>5. Len(q) + 1 \in 1 .. Len(q1)
  BY <1>1, <1>2
<1>6. OnceEach(q1)
  BY <1>2, <1>3, <1>4 DEF OnceEach
<1>7. Members(q1) = Members(q) \cup {v}
  BY <1>2, <1>3, <1>4, <1>5 DEF Members
<1>. QED BY <1>2, <1>6, <1>7

\* Taking out the first.
LEMMA TakenOutOnce ==
  ASSUME NEW V, NEW q \in Seq(V), OnceEach(q), NEW q1, NEW x, TakenOut(q1, q, x)
  PROVE  /\ q1 \in Seq(V) /\ OnceEach(q1) /\ x \in Members(q)
         /\ Members(q1) = Members(q) \ {x}
<1>1. /\ q # <<>> /\ Len(q) \in Nat \ {0} /\ x = q[1]
      /\ q1 \in Seq(V) /\ Len(q1) = Len(q) - 1
      /\ \A i \in 1 .. Len(q) - 1 : q1[i] = q[i + 1]
  BY HeadTailProperties, EmptySeq DEF TakenOut
<1>2. \A i \in 1 .. Len(q1) : i + 1 \in 1 .. Len(q) /\ q1[i] = q[i + 1] /\ i + 1 # 1
  BY <1>1
<1>3. \A j \in 1 .. Len(q) : j = 1 \/ (j - 1 \in 1 .. Len(q1) /\ q1[j - 1] = q[j])
  BY <1>1
<1>4. 1 \in 1 .. Len(q)
  BY <1>1
<1>5. OnceEach(q1)
  BY <1>1, <1>2 DEF OnceEach
<1>6. ASSUME NEW i \in 1 .. Len(q1) PROVE q1[i] \in Members(q) /\ q1[i] # x
  BY <1>1, <1>2, <1>4 DEF Members, OnceEach
<1>7. Members(q1) = Members(q) \ {x}
  BY <1>1, <1>3, <1>6 DEF Members
<1>. QED BY <1>1, <1>4, <1>5, <1>7, Zenon DEF Members

\* A queue of descriptors that misses one of them is not full.
LEMMA RoomLeft ==
  ASSUME NEW q \in Seq(Desc), OnceEach(q), NEW h \in Desc, h \notin Members(q)
  PROVE  Len(q) < NUM
<1>1. Len(q) \in Nat /\ NUM \in Nat /\ q \in [1 .. Len(q) -> Desc \ {h}]
  BY VirtioAssumption DEF Members, WrapsEvenly
<1>2. q \in Injection(1 .. Len(q), Desc \ {h})
  BY <1>1 DEF OnceEach, Injection, IsInjective
<1>3. IsFiniteSet(Desc) /\ Cardinality(Desc) = NUM
  BY <1>1, FS_Interval DEF Desc
<1>4. IsFiniteSet(Desc \ {h}) /\ Cardinality(Desc \ {h}) = NUM - 1
  BY <1>3, FS_RemoveElement
<1>5. Cardinality(1 .. Len(q)) <= NUM - 1
  BY <1>2, <1>4, FS_Injection
<1>6. Cardinality(1 .. Len(q)) = Len(q)
  <2>1. 1 \in Int /\ Len(q) \in Int
    BY <1>1
  <2>2. Cardinality(1 .. Len(q)) = IF 1 > Len(q) THEN 0 ELSE Len(q) - 1 + 1
    BY <2>1, FS_Interval
  <2>. QED BY <1>1, <2>2
<1>. QED BY <1>1, <1>5, <1>6

-----------------------------------------------------------------------------
(* The rings of the driver and the device, as such queues.                 *)

Wrap == 2 ^ UintBits

Queue(buf, r, w) ==
    Ring(buf, r, w, NUM, Wrap, Desc) /\ OnceEach(Contents(buf, r, w, NUM, Wrap))
Entries(buf, r, w) == Members(Contents(buf, r, w, NUM, Wrap))

\* The contents are a sequence as long as the ring is full.
LEMMA QueueSeq ==
  ASSUME NEW buf, NEW r, NEW w, Queue(buf, r, w)
  PROVE  /\ Contents(buf, r, w, NUM, Wrap) \in Seq(Desc)
         /\ Len(Contents(buf, r, w, NUM, Wrap)) = Fill(r, w, Wrap)
         /\ RingSizes(NUM, Wrap) /\ r \in 0 .. Wrap - 1 /\ w \in 0 .. Wrap - 1
<1>1. /\ RingSizes(NUM, Wrap) /\ r \in 0 .. Wrap - 1 /\ w \in 0 .. Wrap - 1
      /\ Slots(buf, NUM, Desc)
  BY DEF Queue, Ring
<1>2. Lists(Contents(buf, r, w, NUM, Wrap), buf, r, Fill(r, w, Wrap), NUM, Desc)
  BY <1>1, SeqOf
<1>. QED BY <1>1, <1>2 DEF Lists

\* While a descriptor is missing in a ring, the slot after the last is unused.
LEMMA QueueRoom ==
  ASSUME NEW buf, NEW r, NEW w, Queue(buf, r, w),
         NEW h \in Desc, h \notin Entries(buf, r, w)
  PROVE  Fill(r, w, Wrap) < NUM /\ w # (r + NUM) % Wrap
<1>. DEFINE q == Contents(buf, r, w, NUM, Wrap)
<1>1. /\ q \in Seq(Desc) /\ Len(q) = Fill(r, w, Wrap)
      /\ RingSizes(NUM, Wrap) /\ r \in 0 .. Wrap - 1 /\ w \in 0 .. Wrap - 1
  BY QueueSeq
<1>2. OnceEach(q) /\ h \notin Members(q)
  BY DEF Queue, Entries
<1>. HIDE DEF q
<1>3. Fill(r, w, Wrap) < NUM
  BY <1>1, <1>2, RoomLeft
<1>4. w = (r + NUM) % Wrap <=> Fill(r, w, Wrap) = NUM
  BY <1>1, RingAhead
<1>. QED BY <1>1, <1>3, <1>4, Sizes

\* So it may be written, and is not the first.
LEMMA QueueStore ==
  ASSUME NEW buf, NEW r, NEW w, Queue(buf, r, w),
         NEW h \in Desc, h \notin Entries(buf, r, w),
         NEW v \in Desc, NEW b1, Stored(b1, buf, w % NUM, v)
  PROVE  /\ Queue(b1, r, w) /\ Entries(b1, r, w) = Entries(buf, r, w)
         /\ r # w => r % NUM # w % NUM
<1>1. Fill(r, w, Wrap) < NUM
  BY QueueRoom
<1>2. /\ Ring(b1, r, w, NUM, Wrap, Desc)
      /\ Contents(b1, r, w, NUM, Wrap) = Contents(buf, r, w, NUM, Wrap)
      /\ r # w => r % NUM # w % NUM
  BY <1>1, RingOutside DEF Queue
<1>. QED BY <1>2 DEF Queue, Entries

\* One more entry.
LEMMA QueuePut ==
  ASSUME NEW buf, NEW r, NEW w, Queue(buf, r, w),
         NEW v \in Desc, v \notin Entries(buf, r, w),
         NEW b1, Stored(b1, buf, w % NUM, v)
  PROVE  /\ Queue(b1, r, Inc(w))
         /\ Entries(b1, r, Inc(w)) = Entries(buf, r, w) \cup {v}
<1>. DEFINE q == Contents(buf, r, w, NUM, Wrap)
            q1 == Contents(b1, r, Inc(w), NUM, Wrap)
<1>1. w # (r + NUM) % Wrap
  BY QueueRoom
<1>2. Ring(b1, r, Inc(w), NUM, Wrap, Desc) /\ PutIn(q1, q, v, NUM)
  BY <1>1, RingPut, Zenon DEF Queue, Inc, Wrap, Stored
<1>3. q \in Seq(Desc) /\ OnceEach(q) /\ v \notin Members(q)
  BY QueueSeq DEF Queue, Entries
<1>. HIDE DEF q, q1
<1>4. OnceEach(q1) /\ Members(q1) = Members(q) \cup {v}
  BY <1>2, <1>3, PutInOnce
<1>. QED BY <1>2, <1>4 DEF Queue, Entries, q, q1

\* One entry less.  What it says is forgotten.
LEMMA QueueTake ==
  ASSUME NEW buf, NEW r, NEW w, Queue(buf, r, w), r # w,
         NEW b1, Stored(b1, buf, r % NUM, 0)
  PROVE  /\ Queue(b1, Inc(r), w) /\ buf[r % NUM] \in Entries(buf, r, w)
         /\ Entries(b1, Inc(r), w) = Entries(buf, r, w) \ {buf[r % NUM]}
<1>. DEFINE q == Contents(buf, r, w, NUM, Wrap)
            q1 == Contents(b1, Inc(r), w, NUM, Wrap)
<1>1. TakenOut(Contents(buf, Inc(r), w, NUM, Wrap), q, buf[r % NUM])
  BY RingGet, Zenon DEF Queue, Inc, Wrap
<1>2. 0 \in Desc
  BY VirtioAssumption DEF Desc, WrapsEvenly
<1>3. Ring(b1, Inc(r), w, NUM, Wrap, Desc) /\ q1 = Contents(buf, Inc(r), w, NUM, Wrap)
  BY <1>2, RingForget DEF Queue, Inc, Wrap
<1>4. q \in Seq(Desc) /\ OnceEach(q)
  BY QueueSeq DEF Queue
<1>5. TakenOut(q1, q, buf[r % NUM])
  BY <1>1, <1>3
<1>. HIDE DEF q, q1
<1>6. /\ OnceEach(q1) /\ buf[r % NUM] \in Members(q)
      /\ Members(q1) = Members(q) \ {buf[r % NUM]}
  BY <1>4, <1>5, TakenOutOnce
<1>. QED BY <1>3, <1>6 DEF Queue, Entries, q, q1

\* The entries, as the model lists them.
LEMMA EntriesAre ==
  ASSUME NEW buf, NEW r, NEW w, Queue(buf, r, w)
  PROVE  Entries(buf, r, w) = {buf[(r + k) % NUM] : k \in 0 .. Minus(w, r) - 1}
<1>. DEFINE q == Contents(buf, r, w, NUM, Wrap)
            m == Fill(r, w, Wrap)
<1>1. /\ q \in Seq(Desc) /\ Len(q) = m /\ RingSizes(NUM, Wrap)
      /\ r \in 0 .. Wrap - 1 /\ w \in 0 .. Wrap - 1
  BY QueueSeq
<1>2. m \in Nat /\ Wrap \in Nat
  BY <1>1, RingAhead, Sizes
<1>3. \A i \in 1 .. m : q[i] = buf[(r + i - 1) % NUM]
  BY DEF Contents
<1>4. Minus(w, r) = m
  BY DEF Minus, Fill, Wrap
<1>. HIDE DEF q, m
<1>5. ASSUME NEW i \in 1 .. m
      PROVE  i - 1 \in 0 .. m - 1 /\ q[i] = buf[(r + (i - 1)) % NUM]
  <2>1. r + i - 1 = r + (i - 1)
    BY <1>1, <1>2
  <2>. QED BY <1>2, <1>3, <2>1
<1>6. ASSUME NEW k \in 0 .. m - 1
      PROVE  k + 1 \in 1 .. m /\ q[k + 1] = buf[(r + k) % NUM]
  <2>1. r + (k + 1) - 1 = r + k
    BY <1>1, <1>2
  <2>. QED BY <1>2, <1>3, <2>1
<1>. DEFINE g(k) == buf[(r + k) % NUM]
<1>7. /\ \A i \in 1 .. m : i - 1 \in 0 .. m - 1 /\ q[i] = g(i - 1)
      /\ \A k \in 0 .. m - 1 : k + 1 \in 1 .. m /\ q[k + 1] = g(k)
  BY <1>5, <1>6
<1>. HIDE DEF g
<1>8. Members(q) = {g(k) : k \in 0 .. m - 1}
  BY <1>1, <1>7 DEF Members
<1>. QED BY <1>4, <1>8 DEF Entries, q, g

-----------------------------------------------------------------------------
(* Descriptors.                                                            *)

\* alloc_desc() finds one if there is one.
LEMMA LowestIn ==
  ASSUME NEW S, S \subseteq Desc, S # {} PROVE Lowest(S) \in S
<1>1. S \subseteq Nat
  BY VirtioAssumption DEF Desc, WrapsEvenly
<1>2. PICK d \in S : \A e \in S : <<e, d>> \notin OpToRel(<, Nat)
  BY <1>1, NatLessThanWellFounded, WFMin, Zenon
<1>3. \A e \in S : ~ (e < d)
  BY <1>1, <1>2, Zenon DEF OpToRel
<1>4. \A e \in S : d <= e
  BY <1>1, <1>3
<1>. QED BY <1>4 DEF Lowest

\* alloc3_desc() gets three.
LEMMA ThreeFree ==
  ASSUME free \subseteq Desc, Cardinality(free) >= 3
  PROVE  /\ Three \in Desc \X Desc \X Desc /\ Three # <<>>
         /\ Three[1] \in free /\ Three[2] \in free /\ Three[3] \in free
         /\ Three[1] # Three[2] /\ Three[1] # Three[3] /\ Three[2] # Three[3]
<1>. DEFINE d0 == Lowest(free)
            d1 == Lowest(free \ {d0})
            d2 == Lowest(free \ {d0, d1})
<1>1. IsFiniteSet(free) /\ Cardinality(free) \in Nat
  <2>1. IsFiniteSet(Desc)
    BY VirtioAssumption, FS_Interval DEF Desc, WrapsEvenly
  <2>. QED BY <2>1, FS_Subset, FS_CardinalityType
<1>2. d0 \in free
  <2>1. free # {}
    BY FS_EmptySet
  <2>. QED BY <2>1, LowestIn
<1>. HIDE DEF d0
<1>3. IsFiniteSet(free \ {d0}) /\ Cardinality(free \ {d0}) >= 2
  BY <1>1, <1>2, FS_RemoveElement
<1>4. d1 \in free \ {d0}
  <2>1. free \ {d0} # {}
    BY <1>3, FS_EmptySet
  <2>. QED BY <2>1, LowestIn
<1>. HIDE DEF d1
<1>5. Cardinality((free \ {d0}) \ {d1}) = Cardinality(free \ {d0}) - 1
  BY <1>3, <1>4, FS_RemoveElement
<1>6. d2 \in free \ {d0, d1}
  <2>1. (free \ {d0}) \ {d1} = free \ {d0, d1}
    OBVIOUS
  <2>2. Cardinality(free \ {d0}) = Cardinality(free) - 1
    BY <1>1, <1>2, FS_RemoveElement, Zenon
  <2>3. Cardinality((free \ {d0}) \ {d1}) # 0
    BY <1>1, <1>5, <2>2
  <2>4. free \ {d0, d1} # {}
    BY <2>1, <2>3, FS_EmptySet, Zenon
  <2>. QED BY <2>4, LowestIn
<1>. HIDE DEF d2
<1>7. Three = <<d0, d1, d2>>
  BY DEF Three, d0, d1, d2
<1>. QED BY <1>2, <1>4, <1>6, <1>7

-----------------------------------------------------------------------------
(* The inductive invariant.                                                *)

\* t's request has descriptor d.
Has(t, d) == idx[t] # <<>> /\ (d = idx[t][1] \/ d = idx[t][2] \/ d = idx[t][3])

\* The descriptors are free or in one chain, of three different ones, which
\* the chain's entry of disk.info names.
Owned ==
    /\ \A t \in Thread, d \in free : ~ Has(t, d)
    /\ \A t, u \in Thread : \A d \in Desc : Has(t, d) /\ Has(u, d) => t = u
    /\ \A d \in Desc : d \in free \/ \E t \in Thread : Has(t, d)
    /\ \A t \in Thread :
        /\ idx[t] # <<>> <=> pc[t] \in {"ring", "publish", "asleep_buf", "woken"}
        /\ idx[t] # <<>> =>
              /\ idx[t][1] # idx[t][2] /\ idx[t][1] # idx[t][3] /\ idx[t][2] # idx[t][3]
              /\ next[idx[t][1]] = idx[t][2] /\ next[idx[t][2]] = idx[t][3]
              /\ info[idx[t][1]] = t

\* Whoever fills in a request holds vdisk_lock, and the ring entry it has
\* written stays.
Filling ==
    \A t \in Thread : pc[t] \in {"ring", "publish"} =>
        /\ lock = t /\ bdisk[t]
        /\ pc[t] = "publish" => avail[availIdx % NUM] = idx[t][1]

\* Chain d belongs to t, which waits for it.
Waits(t, d) ==
    /\ idx[t] # <<>> /\ idx[t][1] = d /\ info[d] = t /\ bdisk[t]
    /\ pc[t] \in {"asleep_buf", "woken"}

AvailSet == Entries(avail, devIdx, availIdx)
UsedSet == Entries(used, used_idx, usedIdx)

\* Every request the device knows of is in one place.
Rings ==
    /\ Queue(avail, devIdx, availIdx) /\ Queue(used, used_idx, usedIdx)
    /\ \A d \in AvailSet : d \notin inFlight /\ d \notin UsedSet
    /\ \A d \in UsedSet : d \notin inFlight /\ status[d] = 0
    /\ \A d \in AvailSet \cup inFlight \cup UsedSet :
        d \in Desc /\ \E t \in Thread : Waits(t, d)

VInv == TypeOK /\ Owned /\ Filling /\ FreeSleeperJustified /\ Rings

-----------------------------------------------------------------------------
(* Types.                                                                  *)

\* Slots and indices are in range.
LEMMA Ranges ==
  /\ 0 \in Desc /\ 0 \in Uint
  /\ \A k \in Uint : k % NUM \in Desc /\ Inc(k) \in Uint
  BY VirtioAssumption DEF Desc, Uint, Inc, WrapsEvenly

\* A request has three descriptors.
LEMMA RequestDescs ==
  ASSUME TypeOK, NEW t \in Thread, idx[t] # <<>>
  PROVE  idx[t][1] \in Desc /\ idx[t][2] \in Desc /\ idx[t][3] \in Desc
<1>1. idx[t] \in Desc \X Desc \X Desc
  BY DEF TypeOK
<1>. QED BY <1>1

\* Every step keeps the types.
LEMMA TypeStep ==
  ASSUME TypeOK, Owned, Next PROVE TypeOK'
<1>. USE Ranges DEF TypeOK, driver, device
<1>1. ASSUME NEW t \in Thread, Call(t) PROVE TypeOK'
  BY <1>1 DEF Call, Goto
<1>2. ASSUME NEW t \in Thread, AllocFail(t) PROVE TypeOK'
  BY <1>2 DEF AllocFail, Goto, WakeFreeGoto
<1>3. ASSUME NEW t \in Thread, Format(t) PROVE TypeOK'
  <2>. DEFINE c == Three
  <2>1. c \in Desc \X Desc \X Desc
    BY <1>3, ThreeFree DEF Format
  <2>2. c[1] \in Desc /\ c[2] \in Desc /\ c[3] \in Desc
    BY <2>1
  <2>3. /\ free' = free \ {c[1], c[2], c[3]}
        /\ next' = [next EXCEPT ![c[1]] = c[2], ![c[2]] = c[3], ![c[3]] = 0]
        /\ idx' = [idx EXCEPT ![t] = c]
        /\ info' = [info EXCEPT ![c[1]] = t]
        /\ status' = [status EXCEPT ![c[1]] = 255]
    BY <1>3 DEF Format, InfoIndex
  <2>. HIDE DEF c
  <2>4. next' \in [Desc -> Desc]
    BY <2>2, <2>3
  <2>5. idx' \in [Thread -> {<<>>} \cup Desc \X Desc \X Desc]
    BY <2>1, <2>3
  <2>6. info' \in [Desc -> Thread \cup {Nobody}] /\ status' \in [Desc -> {0, 255}]
    BY <2>2, <2>3
  <2>7. bdisk' \in [Thread -> BOOLEAN]
    BY <1>3 DEF Format
  <2>. QED BY <1>3, <2>3, <2>4, <2>5, <2>6, <2>7, Zenon DEF Format, Goto
<1>4. ASSUME NEW t \in Thread, PutRing(t) PROVE TypeOK'
  <2>1. idx[t][1] \in Desc
    BY <1>4, RequestDescs DEF PutRing, Owned
  <2>. QED BY <1>4, <2>1 DEF PutRing, Goto
<1>5. ASSUME NEW t \in Thread, Publish(t) PROVE TypeOK'
  BY <1>5 DEF Publish, Goto
<1>6. ASSUME NEW t \in Thread, Rewait(t) PROVE TypeOK'
  BY <1>6 DEF Rewait, Goto
<1>7. ASSUME NEW t \in Thread, Finish(t) PROVE TypeOK'
  <2>1. idx[t][1] \in Desc /\ idx[t][2] \in Desc /\ idx[t][3] \in Desc
    BY <1>7, RequestDescs DEF Finish, Owned
  <2>. QED BY <1>7, <2>1 DEF Finish, WakeFreeGoto
<1>8. ASSUME NEW t \in Thread, KillWake(t) PROVE TypeOK'
  BY <1>8 DEF KillWake, Goto
<1>9. ASSUME DevTake PROVE TypeOK'
  BY <1>9 DEF DevTake
<1>10. ASSUME NEW d \in Desc, DevComplete(d) PROVE TypeOK'
  BY <1>10 DEF DevComplete
<1>11. ASSUME IntrStart \/ IntrEnd PROVE TypeOK'
  <2>1. /\ lock' \in {Nobody, Intr} /\ irq' \in BOOLEAN
        /\ UNCHANGED <<driver, device, status, avail, availIdx, used, usedIdx, used_idx,
                       pc, bdisk>>
    BY <1>11, Zenon DEF IntrStart, IntrEnd
  <2>. QED BY <2>1
<1>12. ASSUME IntrEntry PROVE TypeOK'
  BY <1>12, Zenon DEF IntrEntry
<1>. QED BY <1>1, <1>2, <1>3, <1>4, <1>5, <1>6, <1>7, <1>8, <1>9, <1>10, <1>11, <1>12,
        Zenon DEF Next, RwStep, Interrupt

-----------------------------------------------------------------------------
(* Who has which descriptor.                                               *)

Busy == {"ring", "publish", "asleep_buf", "woken"}

\* Only alloc3_desc() and free_chain() move descriptors.
LEMMA OwnedKept ==
  ASSUME Owned, UNCHANGED driver, \A u \in Thread : pc'[u] \in Busy <=> pc[u] \in Busy
  PROVE  Owned'
  BY DEF Owned, Has, driver, Busy

\* alloc3_desc() hands out free descriptors.
LEMMA OwnedFormat ==
  ASSUME TypeOK, Owned, NEW t \in Thread, Format(t) PROVE Owned'
<1>. DEFINE c == Three
<1>1. /\ c \in Desc \X Desc \X Desc /\ c # <<>>
      /\ c[1] \in free /\ c[2] \in free /\ c[3] \in free
      /\ c[1] # c[2] /\ c[1] # c[3] /\ c[2] # c[3]
  BY ThreeFree DEF Format, TypeOK
<1>2. /\ free' = free \ {c[1], c[2], c[3]}
      /\ next' = [next EXCEPT ![c[1]] = c[2], ![c[2]] = c[3], ![c[3]] = 0]
      /\ idx' = [idx EXCEPT ![t] = c]
      /\ info' = [info EXCEPT ![c[1]] = t]
      /\ pc' = [pc EXCEPT ![t] = "ring"] /\ pc[t] = "alloc"
  BY DEF Format, InfoIndex, Goto
<1>. HIDE DEF c
<1>3. c # <<>> /\ c[1] \in Desc /\ c[2] \in Desc /\ c[3] \in Desc
  BY <1>1 DEF TypeOK
<1>4. /\ \A d : Has(t, d)' <=> d = c[1] \/ d = c[2] \/ d = c[3]
      /\ \A u \in Thread \ {t} : \A d : Has(u, d)' <=> Has(u, d)
      /\ \A d : ~ Has(t, d)
  <2>1. idx'[t] = c /\ \A u \in Thread \ {t} : idx'[u] = idx[u]
    BY <1>2 DEF TypeOK
  <2>2. idx[t] = <<>>
    BY <1>2 DEF Owned
  <2>. QED BY <1>3, <2>1, <2>2 DEF Has
<1>5. /\ \A u \in Thread, d \in free' : ~ Has(u, d)'
      /\ \A u, v \in Thread : \A d \in Desc : Has(u, d)' /\ Has(v, d)' => u = v
      /\ \A d \in Desc : d \in free' \/ \E u \in Thread : Has(u, d)'
  BY <1>1, <1>2, <1>4 DEF Owned
<1>6. \A u \in Thread : idx'[u] # <<>> <=> pc'[u] \in Busy
  BY <1>2, <1>3 DEF Owned, TypeOK, Busy
<1>7. /\ idx'[t][1] # idx'[t][2] /\ idx'[t][1] # idx'[t][3] /\ idx'[t][2] # idx'[t][3]
      /\ next'[idx'[t][1]] = idx'[t][2] /\ next'[idx'[t][2]] = idx'[t][3]
      /\ info'[idx'[t][1]] = t
  BY <1>1, <1>2, <1>3 DEF TypeOK
<1>8. ASSUME NEW u \in Thread \ {t}, idx'[u] # <<>>
      PROVE  /\ idx'[u] = idx[u]
             /\ idx[u][1] # idx[u][2] /\ idx[u][1] # idx[u][3] /\ idx[u][2] # idx[u][3]
             /\ next'[idx[u][1]] = idx[u][2] /\ next'[idx[u][2]] = idx[u][3]
             /\ info'[idx[u][1]] = u
  <2>1. idx'[u] = idx[u]
    BY <1>2 DEF TypeOK
  <2>2. idx[u][1] \in Desc /\ idx[u][2] \in Desc
    BY <1>8, <2>1, RequestDescs
  <2>3. Has(u, idx[u][1]) /\ Has(u, idx[u][2])
    BY <1>8, <2>1 DEF Has
  <2>4. idx[u][1] \notin {c[1], c[2], c[3]} /\ idx[u][2] \notin {c[1], c[2], c[3]}
    BY <1>1, <2>3 DEF Owned
  <2>5. /\ next'[idx[u][1]] = next[idx[u][1]] /\ next'[idx[u][2]] = next[idx[u][2]]
        /\ info'[idx[u][1]] = info[idx[u][1]]
    BY <1>2, <2>2, <2>4 DEF TypeOK
  <2>. QED BY <1>8, <2>1, <2>5 DEF Owned
<1>. QED BY <1>5, <1>6, <1>7, <1>8 DEF Owned, Busy

\* free_chain() gives back a request's own descriptors.
LEMMA OwnedFinish ==
  ASSUME TypeOK, Owned, NEW t \in Thread, Finish(t) PROVE Owned'
<1>. DEFINE c == idx[t]
<1>1. /\ free' = free \cup {c[1], c[2], c[3]}
      /\ info' = [info EXCEPT ![c[1]] = Nobody]
      /\ next' = [d \in Desc |-> IF d \in {c[1], c[2], c[3]} THEN 0 ELSE next[d]]
      /\ idx' = [idx EXCEPT ![t] = <<>>]
      /\ \A u \in Thread : pc'[u] \in Busy <=> u # t /\ pc[u] \in Busy
  BY DEF Finish, WakeFreeGoto, Busy
<1>2. /\ c # <<>> /\ c[1] \in Desc /\ c[2] \in Desc /\ c[3] \in Desc
      /\ \A d : Has(t, d) <=> d = c[1] \/ d = c[2] \/ d = c[3]
  <2>1. c # <<>>
    BY DEF Finish, Owned
  <2>. QED BY <2>1, RequestDescs DEF Has
<1>. HIDE DEF c
<1>3. /\ \A d : ~ Has(t, d)'
      /\ \A u \in Thread \ {t} : \A d : Has(u, d)' <=> Has(u, d)
  BY <1>1 DEF Has, TypeOK
<1>4. \A u \in Thread \ {t}, d \in {c[1], c[2], c[3]} : ~ Has(u, d)
  BY <1>2 DEF Owned
<1>5. /\ \A u \in Thread, d \in free' : ~ Has(u, d)'
      /\ \A u, v \in Thread : \A d \in Desc : Has(u, d)' /\ Has(v, d)' => u = v
      /\ \A d \in Desc : d \in free' \/ \E u \in Thread : Has(u, d)'
  BY <1>1, <1>2, <1>3, <1>4 DEF Owned
<1>6. \A u \in Thread : idx'[u] # <<>> <=> pc'[u] \in Busy
  BY <1>1 DEF Owned, TypeOK, Busy
<1>7. ASSUME NEW u \in Thread, idx'[u] # <<>>
      PROVE  /\ idx'[u] = idx[u]
             /\ idx[u][1] # idx[u][2] /\ idx[u][1] # idx[u][3] /\ idx[u][2] # idx[u][3]
             /\ next'[idx[u][1]] = idx[u][2] /\ next'[idx[u][2]] = idx[u][3]
             /\ info'[idx[u][1]] = u
  <2>1. u # t /\ idx'[u] = idx[u]
    BY <1>1, <1>7 DEF TypeOK
  <2>2. idx[u][1] \in Desc /\ idx[u][2] \in Desc
    BY <1>7, <2>1, RequestDescs
  <2>3. Has(u, idx[u][1]) /\ Has(u, idx[u][2])
    BY <1>7, <2>1 DEF Has
  <2>4. idx[u][1] \notin {c[1], c[2], c[3]} /\ idx[u][2] \notin {c[1], c[2], c[3]}
    BY <1>4, <2>1, <2>3
  <2>5. /\ next'[idx[u][1]] = next[idx[u][1]] /\ next'[idx[u][2]] = next[idx[u][2]]
        /\ info'[idx[u][1]] = info[idx[u][1]]
    BY <1>1, <2>2, <2>4 DEF TypeOK
  <2>. QED BY <1>7, <2>1, <2>5 DEF Owned
<1>. QED BY <1>5, <1>6, <1>7 DEF Owned, Busy

\* Every step shares the descriptors out soundly.
LEMMA OwnedStep ==
  ASSUME TypeOK, Owned, Next PROVE Owned'
<1>1. ASSUME NEW t \in Thread,
             Call(t) \/ AllocFail(t) \/ PutRing(t) \/ Publish(t) \/ Rewait(t) \/ KillWake(t)
      PROVE  Owned'
  <2>1. UNCHANGED driver
    BY <1>1 DEF Call, AllocFail, PutRing, Publish, Rewait, KillWake
  <2>2. \A u \in Thread : pc'[u] \in Busy <=> pc[u] \in Busy
    BY <1>1 DEF Call, AllocFail, PutRing, Publish, Rewait, KillWake, Goto, WakeFreeGoto,
       Busy, TypeOK
  <2>. QED BY <2>1, <2>2, OwnedKept
<1>2. ASSUME DevTake \/ (\E d \in Desc : DevComplete(d)) \/ IntrStart \/ IntrEnd
      PROVE  Owned'
  <2>1. UNCHANGED driver /\ pc' = pc
    BY <1>2 DEF DevTake, DevComplete, IntrStart, IntrEnd
  <2>. QED BY <2>1, OwnedKept
<1>3. ASSUME IntrEntry PROVE Owned'
  <2>1. UNCHANGED driver
    BY <1>3 DEF IntrEntry
  <2>2. \A u \in Thread : pc'[u] \in Busy <=> pc[u] \in Busy
    BY <1>3 DEF IntrEntry, Busy, TypeOK
  <2>. QED BY <2>1, <2>2, OwnedKept
<1>. QED BY <1>1, <1>2, <1>3, OwnedFormat, OwnedFinish DEF Next, RwStep, Interrupt

-----------------------------------------------------------------------------
(* Filling in a request, and sleeping for descriptors.                     *)

\* The chain that is being filled in is not known to the device.
LEMMA NotYetKnown ==
  ASSUME TypeOK, Owned, Rings, NEW t \in Thread, pc[t] \in {"ring", "publish"}
  PROVE  /\ idx[t] # <<>> /\ idx[t][1] \in Desc
         /\ idx[t][1] \notin AvailSet \cup inFlight \cup UsedSet
<1>1. idx[t] # <<>> /\ idx[t][1] \in Desc
  BY RequestDescs DEF Owned
<1>2. ASSUME idx[t][1] \in AvailSet \cup inFlight \cup UsedSet PROVE FALSE
  <2>1. PICK u \in Thread : Waits(u, idx[t][1])
    BY <1>2 DEF Rings
  <2>2. Has(u, idx[t][1]) /\ Has(t, idx[t][1])
    BY <1>1, <2>1 DEF Waits, Has
  <2>3. u = t
    BY <1>1, <2>2 DEF Owned
  <2>. QED BY <2>1, <2>3 DEF Waits
<1>. QED BY <1>1, <1>2

\* Every step leaves the entry alone that another one is filling in.
LEMMA FillingStep ==
  ASSUME TypeOK, Owned, Filling, Rings, Next PROVE Filling'
<1>1. ASSUME NEW t \in Thread, Call(t) \/ KillWake(t) PROVE Filling'
  BY <1>1 DEF Call, KillWake, Goto, Filling, TypeOK, driver
<1>2. ASSUME NEW t \in Thread, AllocFail(t) \/ Rewait(t) \/ Finish(t) PROVE Filling'
  <2>1. lock = Nobody /\ \A u \in Thread : pc'[u] \in {"ring", "publish"} => pc'[u] = pc[u]
    BY <1>2 DEF AllocFail, Rewait, Finish, Goto, WakeFreeGoto, TypeOK
  <2>. QED BY <2>1, VirtioAssumption DEF Filling
<1>3. ASSUME NEW t \in Thread, Format(t) PROVE Filling'
  <2>1. /\ lock = Nobody /\ lock' = t /\ bdisk' = [bdisk EXCEPT ![t] = TRUE]
        /\ pc' = [pc EXCEPT ![t] = "ring"]
    BY <1>3 DEF Format, Goto
  <2>2. \A u \in Thread : pc[u] \notin {"ring", "publish"}
    BY <2>1, VirtioAssumption DEF Filling
  <2>. QED BY <2>1, <2>2 DEF Filling, TypeOK
<1>4. ASSUME NEW t \in Thread, PutRing(t) PROVE Filling'
  <2>1. /\ pc[t] = "ring" /\ pc' = [pc EXCEPT ![t] = "publish"]
        /\ avail' = [avail EXCEPT ![availIdx % NUM] = idx[t][1]]
        /\ UNCHANGED <<availIdx, idx, lock, bdisk>>
    BY <1>4 DEF PutRing, Goto, driver
  <2>2. avail'[availIdx % NUM] = idx[t][1]
    BY <2>1, Ranges DEF TypeOK
  <2>3. \A u \in Thread \ {t} : pc'[u] = pc[u] /\ pc[u] \notin {"ring", "publish"}
    BY <2>1 DEF Filling, TypeOK
  <2>. QED BY <2>1, <2>2, <2>3 DEF Filling
<1>5. ASSUME NEW t \in Thread, Publish(t) PROVE Filling'
  <2>1. \A u \in Thread : pc'[u] \notin {"ring", "publish"}
    BY <1>5 DEF Publish, Goto, Filling, TypeOK
  <2>. QED BY <2>1 DEF Filling
<1>6. ASSUME DevTake PROVE Filling'
  <2>1. /\ devIdx # availIdx /\ avail' = [avail EXCEPT ![devIdx % NUM] = 0]
        /\ UNCHANGED <<availIdx, idx, lock, bdisk, pc>>
    BY <1>6 DEF DevTake, driver
  <2>2. ASSUME NEW u \in Thread, pc[u] = "publish"
        PROVE  avail'[availIdx % NUM] = avail[availIdx % NUM]
    <3>1. idx[u][1] \in Desc /\ idx[u][1] \notin AvailSet
      BY <2>2, NotYetKnown
    <3>2. Stored([avail EXCEPT ![availIdx % NUM] = 0], avail, availIdx % NUM, 0)
      BY DEF Stored
    <3>3. devIdx % NUM # availIdx % NUM
      BY <2>1, <3>1, <3>2, Ranges, QueueStore DEF Rings, AvailSet
    <3>. QED BY <2>1, <3>3, Ranges DEF TypeOK
  <2>. QED BY <2>1, <2>2 DEF Filling
<1>7. ASSUME NEW d \in Desc, DevComplete(d) PROVE Filling'
  BY <1>7 DEF DevComplete, Filling, driver
<1>8. ASSUME Interrupt PROVE Filling'
  <2>1. lock \in {Nobody, Intr}
    BY <1>8 DEF Interrupt, IntrStart, IntrEntry, IntrEnd
  <2>2. \A u \in Thread : pc[u] \notin {"ring", "publish"}
    BY <2>1, VirtioAssumption DEF Filling
  <2>3. \A u \in Thread : pc'[u] \notin {"ring", "publish"}
    BY <1>8, <2>2 DEF Interrupt, IntrStart, IntrEntry, IntrEnd, TypeOK
  <2>. QED BY <2>3 DEF Filling
<1>. QED BY <1>1, <1>2, <1>3, <1>4, <1>5, <1>6, <1>7, <1>8 DEF Next, RwStep

\* Every step wakes who could have descriptors.
LEMMA SleepersStep ==
  ASSUME TypeOK, FreeSleeperJustified, Next PROVE FreeSleeperJustified'
<1>1. ASSUME NEW t \in Thread, AllocFail(t) PROVE FreeSleeperJustified'
  <2>1. free' = free /\ Cardinality(free) < 3
    BY <1>1 DEF AllocFail, driver
  <2>. QED BY <2>1 DEF FreeSleeperJustified
<1>2. ASSUME NEW t \in Thread, Format(t) PROVE FreeSleeperJustified'
  <2>1. /\ Cardinality(free) >= 3 /\ pc' = [pc EXCEPT ![t] = "ring"]
    BY <1>2 DEF Format, Goto
  <2>2. IsFiniteSet(free)
    <3>1. IsFiniteSet(Desc)
      BY VirtioAssumption, FS_Interval DEF Desc, WrapsEvenly
    <3>. QED BY <3>1, FS_Subset DEF TypeOK
  <2>3. Cardinality(free) \in Nat
    BY <2>2, FS_CardinalityType
  <2>4. \A u \in Thread : pc[u] # "asleep_free"
    BY <2>1, <2>3 DEF FreeSleeperJustified
  <2>. QED BY <2>1, <2>4 DEF FreeSleeperJustified, TypeOK
<1>3. ASSUME NEW t \in Thread, Finish(t) PROVE FreeSleeperJustified'
  <2>1. \A u \in Thread : pc'[u] # "asleep_free"
    BY <1>3 DEF Finish, WakeFreeGoto
  <2>. QED BY <2>1 DEF FreeSleeperJustified
<1>4. ASSUME free' = free, \A u \in Thread : pc'[u] = "asleep_free" => pc[u] = "asleep_free"
      PROVE  FreeSleeperJustified'
  BY <1>4 DEF FreeSleeperJustified
<1>5. ASSUME NEW t \in Thread,
             Call(t) \/ PutRing(t) \/ Publish(t) \/ Rewait(t) \/ KillWake(t)
      PROVE  FreeSleeperJustified'
  BY <1>4, <1>5 DEF Call, PutRing, Publish, Rewait, KillWake, Goto, TypeOK, driver
<1>6. ASSUME DevTake \/ (\E d \in Desc : DevComplete(d)) \/ Interrupt
      PROVE  FreeSleeperJustified'
  BY <1>4, <1>6 DEF DevTake, DevComplete, Interrupt, IntrStart, IntrEntry, IntrEnd, TypeOK,
     driver
<1>. QED BY <1>1, <1>2, <1>3, <1>5, <1>6 DEF Next, RwStep

-----------------------------------------------------------------------------
(* What the device knows of.                                               *)

Known == AvailSet \cup inFlight \cup UsedSet
ringVars == <<avail, availIdx, devIdx, inFlight, used, usedIdx, used_idx>>

\* Steps that leave the rings and the requests that wait alone.
LEMMA RingsKept ==
  ASSUME Rings, UNCHANGED ringVars, \A d \in UsedSet : status'[d] = status[d],
         \A u \in Thread, d \in Known : Waits(u, d) => Waits(u, d)'
  PROVE  Rings'
<1>1. AvailSet' = AvailSet /\ UsedSet' = UsedSet /\ inFlight' = inFlight
  BY DEF AvailSet, UsedSet, ringVars
<1>2. Queue(avail, devIdx, availIdx)' /\ Queue(used, used_idx, usedIdx)'
  BY DEF Rings, ringVars
<1>3. \A d \in Known : d \in Desc /\ \E u \in Thread : Waits(u, d)'
  BY DEF Rings, Known
<1>. QED BY <1>1, <1>2, <1>3 DEF Rings, Known

\* A request that waits has other descriptors than a free one.
LEMMA WaitsOther ==
  ASSUME TypeOK, Owned, NEW u \in Thread, NEW d, Waits(u, d)
  PROVE  /\ d \in Desc /\ d \notin free
         /\ \A t \in Thread : idx[t] # <<>> /\ t # u => d # idx[t][1]
<1>1. d \in Desc /\ Has(u, d)
  BY RequestDescs DEF Waits, Has
<1>. QED BY <1>1 DEF Owned, Has

\* Calls, sleeping and waking.
LEMMA RingsQuiet ==
  ASSUME TypeOK, Owned, Filling, Rings, NEW t \in Thread,
         Call(t) \/ AllocFail(t) \/ Rewait(t) \/ KillWake(t)
  PROVE  Rings'
<1>1. UNCHANGED <<idx, info, bdisk, status, ringVars>>
  BY DEF Call, AllocFail, Rewait, KillWake, driver, device, ringVars
<1>2. \A u \in Thread : pc[u] \in {"asleep_buf", "woken"} =>
                           pc'[u] \in {"asleep_buf", "woken"}
  BY DEF Call, AllocFail, Rewait, KillWake, Goto, WakeFreeGoto, TypeOK
<1>3. \A u \in Thread, d \in Known : Waits(u, d) => Waits(u, d)'
  BY <1>1, <1>2 DEF Waits
<1>. QED BY <1>1, <1>3, RingsKept

\* A new request takes free descriptors.
LEMMA RingsFormat ==
  ASSUME TypeOK, Owned, Filling, Rings, NEW t \in Thread, Format(t)
  PROVE  Rings'
<1>. DEFINE c == Three
<1>1. c[1] \in free
  BY ThreeFree DEF Format, TypeOK
<1>2. /\ idx' = [idx EXCEPT ![t] = c] /\ info' = [info EXCEPT ![c[1]] = t]
      /\ status' = [status EXCEPT ![c[1]] = 255] /\ bdisk' = [bdisk EXCEPT ![t] = TRUE]
      /\ pc[t] = "alloc" /\ pc' = [pc EXCEPT ![t] = "ring"] /\ UNCHANGED ringVars
  BY DEF Format, InfoIndex, Goto, ringVars
<1>. HIDE DEF c
<1>3. ASSUME NEW u \in Thread, NEW d \in Known, Waits(u, d) PROVE Waits(u, d)'
  <2>1. u # t /\ d \in Desc /\ d # c[1]
    BY <1>1, <1>2, <1>3, WaitsOther DEF Waits
  <2>. QED BY <1>2, <1>3, <2>1 DEF Waits, TypeOK
<1>4. ASSUME NEW d \in UsedSet PROVE status'[d] = status[d]
  <2>1. PICK u \in Thread : Waits(u, d)
    BY DEF Rings
  <2>2. d \in Desc /\ d # c[1]
    BY <1>1, <2>1, WaitsOther
  <2>. QED BY <1>2, <2>2 DEF TypeOK
<1>. QED BY <1>2, <1>3, <1>4, RingsKept

\* A request that ends does not wait any more.
LEMMA RingsFinish ==
  ASSUME TypeOK, Owned, Filling, Rings, NEW t \in Thread, Finish(t)
  PROVE  Rings'
<1>1. /\ info' = [info EXCEPT ![idx[t][1]] = Nobody] /\ idx' = [idx EXCEPT ![t] = <<>>]
      /\ ~ bdisk[t] /\ pc[t] = "woken" /\ UNCHANGED <<status, bdisk, ringVars>>
      /\ \A u \in Thread \ {t} : pc[u] # "asleep_free" => pc'[u] = pc[u]
  BY DEF Finish, StillBusy, WakeFreeGoto, ringVars
<1>2. ASSUME NEW u \in Thread, NEW d \in Known, Waits(u, d) PROVE Waits(u, d)'
  <2>1. u # t
    BY <1>1, <1>2 DEF Waits
  <2>2. idx[t] # <<>>
    BY <1>1 DEF Owned
  <2>3. d \in Desc /\ d # idx[t][1]
    BY <1>2, <2>1, <2>2, WaitsOther
  <2>. QED BY <1>1, <1>2, <2>1, <2>3 DEF Waits, TypeOK
<1>. QED BY <1>1, <1>2, RingsKept

\* The entry that is written is not in the ring yet.
LEMMA RingsPutRing ==
  ASSUME TypeOK, Owned, Filling, Rings, NEW t \in Thread, PutRing(t)
  PROVE  Rings'
<1>1. /\ pc[t] = "ring" /\ pc' = [pc EXCEPT ![t] = "publish"]
      /\ Stored(avail', avail, availIdx % NUM, idx[t][1])
      /\ UNCHANGED <<idx, info, bdisk, status, availIdx, devIdx, inFlight, used, usedIdx,
                     used_idx>>
  BY DEF PutRing, Goto, driver, device, Stored
<1>2. idx[t][1] \in Desc /\ idx[t][1] \notin AvailSet
  BY <1>1, NotYetKnown
<1>3. Queue(avail', devIdx, availIdx) /\ Entries(avail', devIdx, availIdx) = AvailSet
  BY <1>1, <1>2, QueueStore DEF Rings, AvailSet
<1>4. Queue(avail, devIdx, availIdx)' /\ AvailSet' = AvailSet
  BY <1>1, <1>3 DEF AvailSet
<1>5. Queue(used, used_idx, usedIdx)' /\ UsedSet' = UsedSet /\ inFlight' = inFlight
  BY <1>1 DEF Rings, UsedSet
<1>6. ASSUME NEW u \in Thread, NEW d, Waits(u, d) PROVE Waits(u, d)'
  BY <1>1, <1>6 DEF Waits, TypeOK
<1>. QED BY <1>1, <1>4, <1>5, <1>6 DEF Rings

\* Then it is.
LEMMA RingsPublish ==
  ASSUME TypeOK, Owned, Filling, Rings, NEW t \in Thread, Publish(t)
  PROVE  Rings'
<1>0. PICK h : h = idx[t][1]
  OBVIOUS
<1>1. /\ pc[t] = "publish" /\ pc' = [pc EXCEPT ![t] = "asleep_buf"]
      /\ availIdx' = Inc(availIdx)
      /\ UNCHANGED <<idx, info, bdisk, status, avail, devIdx, inFlight, used, usedIdx,
                     used_idx>>
  BY DEF Publish, Goto, driver, device
<1>2. idx[t] # <<>> /\ h \in Desc /\ h \notin Known /\ h \notin AvailSet
  BY <1>0, <1>1, NotYetKnown DEF Known
<1>3. Stored(avail, avail, availIdx % NUM, h)
  <2>1. avail[availIdx % NUM] = h
    BY <1>0, <1>1 DEF Filling
  <2>. QED BY <2>1, Ranges DEF Stored, TypeOK
<1>4. /\ Queue(avail, devIdx, Inc(availIdx))
      /\ Entries(avail, devIdx, Inc(availIdx)) = AvailSet \cup {h}
  BY <1>2, <1>3, QueuePut DEF Rings, AvailSet
<1>5. Queue(avail, devIdx, availIdx)' /\ AvailSet' = AvailSet \cup {h}
  BY <1>1, <1>4 DEF AvailSet
<1>6. Queue(used, used_idx, usedIdx)' /\ UsedSet' = UsedSet /\ inFlight' = inFlight
  BY <1>1 DEF Rings, UsedSet
<1>7. Waits(t, h)'
  BY <1>0, <1>1, <1>2 DEF Waits, TypeOK, Filling, Owned
<1>8. ASSUME NEW u \in Thread, NEW d, Waits(u, d) PROVE Waits(u, d)'
  BY <1>1, <1>8 DEF Waits, TypeOK
<1>. QED BY <1>1, <1>2, <1>5, <1>6, <1>7, <1>8 DEF Rings, Known

\* The device takes the oldest entry.
LEMMA RingsTake ==
  ASSUME TypeOK, Owned, Filling, Rings, DevTake
  PROVE  Rings'
<1>. DEFINE x == avail[devIdx % NUM]
<1>1. /\ devIdx # availIdx /\ inFlight' = inFlight \cup {x}
      /\ Stored(avail', avail, devIdx % NUM, 0) /\ devIdx' = Inc(devIdx)
      /\ UNCHANGED <<idx, info, bdisk, pc, status, availIdx, used, usedIdx, used_idx>>
  BY DEF DevTake, driver, Stored
<1>2. /\ Queue(avail', Inc(devIdx), availIdx) /\ x \in AvailSet
      /\ Entries(avail', Inc(devIdx), availIdx) = AvailSet \ {x}
  BY <1>1, QueueTake DEF Rings, AvailSet
<1>. HIDE DEF x
<1>3. Queue(avail, devIdx, availIdx)' /\ AvailSet' = AvailSet \ {x}
  BY <1>1, <1>2 DEF AvailSet
<1>4. Queue(used, used_idx, usedIdx)' /\ UsedSet' = UsedSet
  BY <1>1 DEF Rings, UsedSet
<1>5. \A u \in Thread, d \in Known : Waits(u, d) => Waits(u, d)'
  BY <1>1 DEF Waits
<1>. QED BY <1>1, <1>2, <1>3, <1>4, <1>5 DEF Rings, Known

\* The device reports a request.
LEMMA RingsComplete ==
  ASSUME TypeOK, Owned, Filling, Rings, NEW x \in Desc, DevComplete(x)
  PROVE  Rings'
<1>1. /\ x \in inFlight /\ inFlight' = inFlight \ {x}
      /\ status' = [status EXCEPT ![x] = 0]
      /\ Stored(used', used, usedIdx % NUM, x) /\ usedIdx' = Inc(usedIdx)
      /\ UNCHANGED <<idx, info, bdisk, pc, avail, availIdx, devIdx, used_idx>>
  BY DEF DevComplete, driver, Stored
<1>2. x \notin UsedSet /\ x \notin AvailSet
  BY <1>1 DEF Rings
<1>3. /\ Queue(used', used_idx, Inc(usedIdx))
      /\ Entries(used', used_idx, Inc(usedIdx)) = UsedSet \cup {x}
  BY <1>1, <1>2, QueuePut DEF Rings, UsedSet
<1>4. Queue(used, used_idx, usedIdx)' /\ UsedSet' = UsedSet \cup {x}
  BY <1>1, <1>3 DEF UsedSet
<1>5. Queue(avail, devIdx, availIdx)' /\ AvailSet' = AvailSet
  BY <1>1 DEF Rings, AvailSet
<1>6. \A u \in Thread, d \in Known : Waits(u, d) => Waits(u, d)'
  BY <1>1 DEF Waits
<1>7. \A d \in UsedSet' : status'[d] = 0
  BY <1>1, <1>4 DEF Rings, TypeOK
<1>. QED BY <1>1, <1>2, <1>4, <1>5, <1>6, <1>7 DEF Rings, Known

\* virtio_disk_intr() begins or ends.
LEMMA RingsLock ==
  ASSUME TypeOK, Owned, Filling, Rings, IntrStart \/ IntrEnd
  PROVE  Rings'
<1>1. UNCHANGED <<idx, info, bdisk, pc, status, ringVars>>
  BY DEF IntrStart, IntrEnd, driver, device, ringVars
<1>2. \A u \in Thread, d \in Known : Waits(u, d) => Waits(u, d)'
  BY <1>1 DEF Waits
<1>. QED BY <1>1, <1>2, RingsKept

\* virtio_disk_intr() takes the oldest report.
LEMMA RingsIntr ==
  ASSUME TypeOK, Owned, Filling, Rings, IntrEntry
  PROVE  Rings'
<1>. DEFINE x == used[used_idx % NUM]
            t == info[x]
<1>1. /\ used_idx # usedIdx /\ bdisk' = [bdisk EXCEPT ![t] = FALSE]
      /\ pc' = IF pc[t] = "asleep_buf" THEN [pc EXCEPT ![t] = "woken"] ELSE pc
      /\ Stored(used', used, used_idx % NUM, 0) /\ used_idx' = Inc(used_idx)
      /\ UNCHANGED <<idx, info, status, avail, availIdx, devIdx, inFlight, usedIdx>>
  BY DEF IntrEntry, driver, device, Stored
<1>2. /\ Queue(used', Inc(used_idx), usedIdx) /\ x \in UsedSet
      /\ Entries(used', Inc(used_idx), usedIdx) = UsedSet \ {x}
  BY <1>1, QueueTake, Zenon DEF Rings, UsedSet
<1>. HIDE DEF x
<1>3. Queue(used, used_idx, usedIdx)' /\ UsedSet' = UsedSet \ {x}
  BY <1>1, <1>2 DEF UsedSet
<1>4. Queue(avail, devIdx, availIdx)' /\ AvailSet' = AvailSet /\ inFlight' = inFlight
  BY <1>1 DEF Rings, AvailSet
<1>5. t \in Thread /\ Waits(t, x)
  <2>1. PICK u \in Thread : Waits(u, x)
    BY <1>2 DEF Rings
  <2>. QED BY <2>1 DEF Waits
<1>. HIDE DEF t
<1>6. ASSUME NEW u \in Thread, NEW d \in Known \ {x}, Waits(u, d) PROVE Waits(u, d)'
  <2>1. u # t
    BY <1>5, <1>6 DEF Waits
  <2>. QED BY <1>1, <1>6, <2>1 DEF Waits, TypeOK
<1>7. x \notin AvailSet /\ x \notin inFlight
  BY <1>2 DEF Rings
<1>. QED BY <1>1, <1>3, <1>4, <1>6, <1>7 DEF Rings, Known

\* Every step keeps the requests of the device in one place each.
LEMMA RingsStep ==
  ASSUME TypeOK, Owned, Filling, Rings, Next PROVE Rings'
  BY RingsQuiet, RingsFormat, RingsFinish, RingsPutRing, RingsPublish, RingsTake,
     RingsComplete, RingsLock, RingsIntr DEF Next, RwStep, Interrupt

-----------------------------------------------------------------------------
(* The theorems.                                                           *)

\* It holds after virtio_disk_init().
LEMMA InitVInv == Init => VInv
<1>. SUFFICES ASSUME Init PROVE VInv
  OBVIOUS
<1>1. TypeOK
  BY Ranges DEF Init, TypeOK
<1>2. Owned /\ Filling /\ FreeSleeperJustified
  BY DEF Init, Owned, Has, Filling, FreeSleeperJustified
<1>3. RingSizes(NUM, Wrap) /\ Slots(avail, NUM, Desc) /\ Slots(used, NUM, Desc)
  BY <1>1, VirtioAssumption, Zenon DEF RingSizes, WrapsEvenly, Wrap, TypeOK, Slots, Desc
<1>4. /\ Ring(avail, 0, 0, NUM, Wrap, Desc) /\ Contents(avail, 0, 0, NUM, Wrap) = <<>>
      /\ Ring(used, 0, 0, NUM, Wrap, Desc) /\ Contents(used, 0, 0, NUM, Wrap) = <<>>
  BY <1>3, RingEmpty
<1>5. OnceEach(<<>>) /\ Members(<<>>) = {}
  BY DEF OnceEach, Members
<1>6. /\ Queue(avail, 0, 0) /\ Entries(avail, 0, 0) = {}
      /\ Queue(used, 0, 0) /\ Entries(used, 0, 0) = {}
  BY <1>4, <1>5 DEF Queue, Entries
<1>7. Rings
  BY <1>6 DEF Init, Rings, AvailSet, UsedSet
<1>. QED BY <1>1, <1>2, <1>7 DEF VInv

\* Every step keeps it.
LEMMA StepVInv == VInv /\ [Next]_vars => VInv'
<1>1. ASSUME VInv, Next PROVE VInv'
  BY <1>1, TypeStep, OwnedStep, FillingStep, SleepersStep, RingsStep DEF VInv
<1>2. ASSUME VInv, UNCHANGED vars PROVE VInv'
  <2>1. UNCHANGED <<free, next, info, idx, devIdx, inFlight, status, avail, availIdx, used,
                    usedIdx, used_idx, lock, pc, bdisk, irq>>
    BY <1>2 DEF vars, driver, device
  <2>2. TypeOK' /\ FreeSleeperJustified' /\ Filling'
    BY <1>2, <2>1 DEF VInv, TypeOK, FreeSleeperJustified, Filling
  <2>3. Owned'
    BY <1>2, <2>1, OwnedKept DEF VInv, driver
  <2>4. Rings'
    BY <1>2, <2>1, RingsKept DEF VInv, ringVars, Waits
  <2>. QED BY <2>2, <2>3, <2>4 DEF VInv
<1>. QED BY <1>1, <1>2

\* The inductive invariant of the disk driver and the device.
THEOREM VirtioInvariant == Spec => []VInv
  BY InitVInv, StepVInv, PTL DEF Spec

\* It says that the descriptors are shared out soundly.
LEMMA VInvOwned == VInv => ChainsOwned
<1>. SUFFICES ASSUME VInv PROVE ChainsOwned
  OBVIOUS
<1>1. TypeOK /\ Owned /\ Rings /\ FreeSleeperJustified
  BY DEF VInv
<1>2. ASSUME NEW t \in Thread PROVE \A d : d \in Chain(t) <=> Has(t, d)
  <2>1. CASE idx[t] = <<>>
    BY <2>1 DEF Chain, Has
  <2>2. CASE idx[t] # <<>>
    <3>1. idx[t] \in Desc \X Desc \X Desc
      BY <1>1, <2>2 DEF TypeOK
    <3>2. DOMAIN idx[t] = 1 .. 3
      BY <3>1
    <3>3. Chain(t) = {idx[t][1], idx[t][2], idx[t][3]}
      BY <3>2 DEF Chain
    <3>. QED BY <2>2, <3>3 DEF Has
  <2>. QED BY <2>1, <2>2
<1>3. \A t \in Thread : \A d : Has(t, d) => d \in Desc
  BY <1>1, RequestDescs DEF Has
<1>4. DescOwned
  <2>1. /\ \A t \in Thread : \A d \in Chain(t) : d \notin free
        /\ \A t, u \in Thread : t # u => Chain(t) \cap Chain(u) = {}
    BY <1>1, <1>2, <1>3 DEF Owned
  <2>2. free \cup UNION {Chain(t) : t \in Thread} = Desc
    BY <1>1, <1>2, <1>3 DEF Owned, TypeOK
  <2>. QED BY <1>1, <2>1, <2>2 DEF DescOwned, Owned
<1>5. Pending = AvailSet /\ Reported = UsedSet
  BY <1>1, EntriesAre DEF Rings, Pending, Reported, AvailSet, UsedSet
<1>6. DeviceOwnsChain
  BY <1>1, <1>5 DEF Rings, DeviceOwnsChain, Waits
<1>. QED BY <1>1, <1>4, <1>6 DEF ChainsOwned

\* Among the requests of the driver and between driver and device no
\* descriptor is shared or lost, no request is reported twice or for the
\* wrong buffer, and nobody sleeps for descriptors that are there, for any
\* number of processes and any number of descriptors that divides the range
\* of the ring indices.
THEOREM VirtioChainsOwned == Spec => []ChainsOwned
  BY VirtioInvariant, VInvOwned, PTL

=============================================================================
