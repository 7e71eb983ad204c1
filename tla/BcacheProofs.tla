---------------------------- MODULE BcacheProofs ----------------------------
(***************************************************************************)
(* The buffer cache for any number of processes, buffers, blocks and       *)
(* values: references are counted, a block has one buffer, and what        *)
(* bread() returns is what was stored last.                                *)
(***************************************************************************)
EXTENDS Bcache, FiniteSetTheorems, WellFoundedInduction, TLAPS

\* The processes that hold a reference to buffer k, and the pins on it.
Users(k) == {t \in Referencing : b[t] = k}
Pinned(k) == {n \in pins : blockno[k] = n}

\* What a process that is at one of these places holds.
HasLock == {"read", "held", "unpin"}

Types ==
    /\ blockno \in [Buf -> Blockno \cup {NoBlock}]
    /\ valid \in [Buf -> BOOLEAN]
    /\ refcnt \in [Buf -> Int]
    /\ data \in [Buf -> Data] /\ ondisk \in [Blockno -> Data]
    /\ locked \in [Buf -> Process \cup {Nobody}]
    /\ bpc \in [Process -> {"idle", "bget", "lock", "asleep", "read", "held",
                            "unpin", "drop"}]
    /\ b \in [Process -> Buf]
    /\ want \in [Process -> Blockno \cup {NoBlock}]
    /\ pins \subseteq Blockno /\ latest \in [Blockno -> Data]

\* The list holds every buffer once.
Permutes(f, N) ==
    /\ f \in [1 .. N -> 1 .. N]
    /\ \A i, j \in 1 .. N : f[i] = f[j] => i = j
    /\ \A k \in 1 .. N : \E i \in 1 .. N : f[i] = k
ListInv == Permutes(list, NBUF)

\* A block has one buffer.
OneBuffer ==
    \A k, l \in Buf : k # l /\ blockno[k] # NoBlock => blockno[k] # blockno[l]

\* The sleep lock of a buffer is held by who has left acquiresleep() for it
\* and not come to releasesleep().
LockInv ==
    \A k \in Buf, t \in Process : locked[k] = t <=> bpc[t] \in HasLock /\ b[t] = k

\* A process in the cache wants a block, and has its contents once bread()
\* returned.
WantInv ==
    \A t \in Process :
        /\ bpc[t] # "idle" => want[t] \in Blockno
        /\ bpc[t] \in {"held", "unpin"} => valid[b[t]]
        /\ bpc[t] = "unpin" => want[t] \in pins /\ ondisk[want[t]] = latest[want[t]]

\* Valid buffers are up to date; so are the blocks on disk that the log has not
\* pinned, and a pinned block stays in the cache.
DataInv ==
    /\ \A k \in Buf :
           valid[k] => blockno[k] \in Blockno /\ data[k] = latest[blockno[k]]
    /\ \A n \in Blockno : n \notin pins => ondisk[n] = latest[n]
    /\ \A n \in pins : \E k \in Buf : blockno[k] = n /\ valid[k]

\* The log pins no more blocks than it has room for.
PinInv == IsFiniteSet(pins) /\ Cardinality(pins) <= MaxPinned

\* The inductive invariant.
IInv ==
    /\ Types /\ ListInv /\ OneBuffer /\ Counted
    /\ LockInv /\ WantInv /\ DataInv /\ PinInv /\ WaiterHasHolder

-----------------------------------------------------------------------------
(* The list, and the buffer that bget() recycles.                          *)

\* A set of indices of buffers has a largest one.
LEMMA LastIndex ==
  ASSUME NBUF \in Nat, NEW S, S \subseteq Buf, S # {}
  PROVE  \E i \in S : \A j \in S : j <= i
<1>. DEFINE T == {NBUF - i : i \in S}
<1>1. T \subseteq Nat /\ T # {}
  BY DEF Buf
<1>2. PICK x \in T : \A y \in T : <<y, x>> \notin OpToRel(<, Nat)
  BY <1>1, NatLessThanWellFounded, WFMin
<1>3. \A y \in T : ~(y < x)
  BY <1>1, <1>2 DEF OpToRel
<1>4. PICK i \in S : x = NBUF - i
  OBVIOUS
<1>5. \A j \in S : j <= i
  <2>. TAKE j \in S
  <2>1. ~(NBUF - j < NBUF - i)
    BY <1>3, <1>4
  <2>. QED BY <2>1 DEF Buf
<1>. QED BY <1>5

\* bget() recycles a buffer that nobody refers to.
LEMMA LruUnused ==
  ASSUME IInv, Unused # {}
  PROVE  LRU \in Buf /\ refcnt[LRU] = 0
<1>. USE BcacheAssumption DEF IInv, ListInv, Permutes, Buf
<1>. DEFINE S == {i \in Buf : list[i] \in Unused}
<1>1. S # {}
  <2>1. PICK k \in Buf : k \in Unused
    BY DEF Unused
  <2>2. PICK i \in Buf : list[i] = k
    OBVIOUS
  <2>. QED BY <2>1, <2>2
<1>2. PICK i \in S : \A j \in S : j <= i
  BY <1>1, LastIndex, Zenon
<1>3. \A j \in i + 1 .. NBUF : list[j] \notin Unused
  BY <1>2 DEF Buf
<1>4. \E l \in Buf : /\ list[l] \in Unused
                     /\ \A j \in l + 1 .. NBUF : list[j] \notin Unused
  BY <1>3
<1>. QED BY <1>4 DEF LRU, Unused

\* Where the entry at x comes from when the one at p moves to the head: no two
\* come from the same place.
LEMMA FromOnce ==
  ASSUME NEW p \in Nat \ {0}, NEW x \in Nat \ {0}, NEW y \in Nat \ {0},
         (IF x = 1 THEN p ELSE IF x <= p THEN x - 1 ELSE x)
            = (IF y = 1 THEN p ELSE IF y <= p THEN y - 1 ELSE y)
  PROVE  x = y
  OBVIOUS

\* g is f with the entry at p moved to the head.
HeadMoved(f, g, p, N) ==
    g = [i \in 1 .. N |-> IF i = 1 THEN f[p] ELSE IF i <= p THEN f[i - 1] ELSE f[i]]

\* Moving an entry of a permutation to its head gives a permutation.
LEMMA MoveToHead ==
  ASSUME NEW N \in Nat, NEW p \in 1 .. N, NEW f, NEW g,
         Permutes(f, N), HeadMoved(f, g, p, N)
  PROVE  Permutes(g, N)
<1>. DEFINE from(x) == IF x = 1 THEN p ELSE IF x <= p THEN x - 1 ELSE x
<1>1. \A x \in 1 .. N : from(x) \in 1 .. N
  OBVIOUS
<1>2. /\ DOMAIN g = 1 .. N /\ g = [x \in DOMAIN g |-> g[x]]
      /\ \A x \in 1 .. N : g[x] = f[from(x)]
  BY DEF HeadMoved
<1>3. g \in [1 .. N -> 1 .. N]
  <2>. HIDE DEF from
  <2>1. ASSUME NEW x \in 1 .. N PROVE g[x] \in 1 .. N
    <3>1. f \in [1 .. N -> 1 .. N]
      BY SMTT(30) DEF Permutes
    <3>. QED BY <1>1, <1>2, <3>1
  <2>. QED BY <2>1, <1>2
<1>4. ASSUME NEW i \in 1 .. N, NEW j \in 1 .. N, g[i] = g[j] PROVE i = j
  <2>1. from(i) = from(j)
    <3>. HIDE DEF from
    <3>. QED BY <1>1, <1>2, <1>4 DEF Permutes
  <2>. QED BY <2>1, FromOnce
<1>5. ASSUME NEW k \in 1 .. N PROVE \E i \in 1 .. N : g[i] = k
  <2>1. PICK i \in 1 .. N : f[i] = k
    BY DEF Permutes
  <2>2. \E j \in 1 .. N : from(j) = i
    <3>1. CASE i = p
      <4>1. 1 \in 1 .. N /\ from(1) = i
        BY <3>1
      <4>. QED BY <4>1
    <3>2. CASE i < p
      <4>1. i + 1 \in 1 .. N /\ from(i + 1) = i
        BY <3>2
      <4>. QED BY <4>1
    <3>3. CASE i > p
      BY <3>3
    <3>. QED BY <3>1, <3>2, <3>3
  <2>. HIDE DEF from
  <2>. QED BY <2>1, <2>2, <1>2
<1>. QED BY <1>3, <1>4, <1>5 DEF Permutes

\* The list with a buffer moved to its head holds every buffer once.
LEMMA ToHeadList ==
  ASSUME IInv, NEW k \in Buf, list' = ToHead(k)
  PROVE  ListInv'
<1>. USE BcacheAssumption DEF IInv, ListInv
<1>. DEFINE p == CHOOSE i \in Buf : list[i] = k
<1>1. p \in Buf /\ list[p] = k
  BY SMTT(30) DEF Permutes, Buf
<1>2. HeadMoved(list, list', p, NBUF)
  BY <1>1 DEF ToHead, HeadMoved, Buf
<1>3. p \in 1 .. NBUF
  BY <1>1 DEF Buf
<1>. HIDE DEF p
<1>. QED BY <1>2, <1>3, MoveToHead
-----------------------------------------------------------------------------
(* Types, the list, the locks.                                             *)
\* Every step preserves the types.
LEMMA TypesStep == IInv /\ [CacheNext]_cacheVars => Types'
<1>. SUFFICES ASSUME IInv, [CacheNext]_cacheVars PROVE Types'
  OBVIOUS
<1>. USE BcacheAssumption DEF IInv, Types, CacheGoto, bufs
<1>1. CASE UNCHANGED cacheVars
  BY <1>1 DEF cacheVars, bufs
<1>2. ASSUME NEW t \in Process, NEW n \in Blockno, BreadCall(t, n) PROVE Types'
  BY <1>2 DEF BreadCall
<1>3. ASSUME NEW t \in Process, BgetHit(t) PROVE Types'
  BY <1>3 DEF BgetHit, Cached
<1>4. ASSUME NEW t \in Process, BgetMiss(t) PROVE Types'
  BY <1>4, LruUnused DEF BgetMiss
<1>5. ASSUME NEW t \in Process, AcquireSleep(t) PROVE Types'
  BY <1>5 DEF AcquireSleep
<1>6. ASSUME NEW t \in Process, Bread(t) PROVE Types'
  <2>. USE <1>6 DEF Bread
  <2>1. blockno[b[t]] \in Blockno
    BY DEF WantInv, Counted, Referencing
  <2>2. data' \in [Buf -> Data]
    BY <2>1
  <2>3. valid' \in [Buf -> BOOLEAN]
    OBVIOUS
  <2>. QED BY <2>2, <2>3
<1>7. ASSUME NEW t \in Process, Bunpin(t) PROVE Types'
  BY <1>7 DEF Bunpin
<1>8. ASSUME NEW t \in Process, ReleaseSleep(t) PROVE Types'
  BY <1>8 DEF ReleaseSleep
<1>9. ASSUME NEW t \in Process, Brelse(t) PROVE Types'
  <2>. USE <1>9 DEF Brelse
  <2>1. 1 \in Buf
    BY DEF Buf
  <2>. QED BY <2>1
<1>10. ASSUME NEW t \in Process, Bwrite(t) PROVE Types'
  BY <1>10 DEF Bwrite, WantInv
<1>11. ASSUME NEW t \in Process, KillWake(t) PROVE Types'
  BY <1>11 DEF KillWake
<1>12. ASSUME NEW t \in Process, NEW v \in Data, Modify(t, v) PROVE Types'
  BY <1>12 DEF Modify, Pin, WantInv
<1>. QED
  BY <1>1, <1>2, <1>3, <1>4, <1>5, <1>6, <1>7, <1>8, <1>9, <1>10, <1>11, <1>12
  DEF CacheNext, BufStep

\* Only brelse() changes the list.
LEMMA ListStep == IInv /\ [CacheNext]_cacheVars => ListInv'
<1>. SUFFICES ASSUME IInv, [CacheNext]_cacheVars PROVE ListInv'
  OBVIOUS
<1>1. \/ UNCHANGED list
      \/ \E t \in Process : Brelse(t)
  BY DEF CacheNext, BufStep, cacheVars, bufs, BreadCall, BgetHit, BgetMiss, AcquireSleep,
     Bread, Bunpin, ReleaseSleep, Bwrite, KillWake, Modify
<1>2. CASE UNCHANGED list
  BY <1>2 DEF IInv, ListInv
<1>3. ASSUME NEW t \in Process, Brelse(t) PROVE ListInv'
  BY <1>3, ToHeadList DEF Brelse, IInv, ListInv, Types
<1>. QED BY <1>1, <1>2, <1>3

\* bget() recycles a buffer only for a block that has none.
LEMMA OneBufferStep == IInv /\ [CacheNext]_cacheVars => OneBuffer'
<1>. SUFFICES ASSUME IInv, [CacheNext]_cacheVars PROVE OneBuffer'
  OBVIOUS
<1>1. \/ UNCHANGED blockno
      \/ \E t \in Process : BgetMiss(t)
  BY DEF CacheNext, BufStep, cacheVars, bufs, BreadCall, BgetHit, AcquireSleep, Bread,
     Bunpin, ReleaseSleep, Brelse, Bwrite, KillWake, Modify
<1>2. CASE UNCHANGED blockno
  BY <1>2 DEF IInv, OneBuffer
<1>3. ASSUME NEW t \in Process, BgetMiss(t) PROVE OneBuffer'
  BY <1>3, LruUnused DEF BgetMiss, Cached, IInv, Types, WantInv, OneBuffer
<1>. QED BY <1>1, <1>2, <1>3

\* A sleep lock is taken when it is free, and released by its holder.
LEMMA LockStep == IInv /\ [CacheNext]_cacheVars => LockInv'
<1>. SUFFICES ASSUME IInv, [CacheNext]_cacheVars PROVE LockInv'
  OBVIOUS
<1>. USE BcacheAssumption DEF IInv, Types, LockInv, HasLock, CacheGoto, bufs
<1>1. CASE UNCHANGED cacheVars
  BY <1>1 DEF cacheVars, bufs
<1>2. ASSUME NEW t \in Process, NEW n \in Blockno, BreadCall(t, n) PROVE LockInv'
  BY <1>2 DEF BreadCall
<1>3. ASSUME NEW t \in Process, BgetHit(t) PROVE LockInv'
  BY <1>3 DEF BgetHit, Cached
<1>4. ASSUME NEW t \in Process, BgetMiss(t) PROVE LockInv'
  BY <1>4, LruUnused DEF BgetMiss
<1>5. ASSUME NEW t \in Process, AcquireSleep(t) PROVE LockInv'
  BY <1>5 DEF AcquireSleep
<1>6. ASSUME NEW t \in Process, Bread(t) PROVE LockInv'
  BY <1>6 DEF Bread
<1>7. ASSUME NEW t \in Process, Bunpin(t) PROVE LockInv'
  BY <1>7 DEF Bunpin
<1>8. ASSUME NEW t \in Process, ReleaseSleep(t) PROVE LockInv'
  BY <1>8 DEF ReleaseSleep
<1>9. ASSUME NEW t \in Process, Brelse(t) PROVE LockInv'
  BY <1>9 DEF Brelse
<1>10. ASSUME NEW t \in Process, Bwrite(t) PROVE LockInv'
  BY <1>10 DEF Bwrite
<1>11. ASSUME NEW t \in Process, KillWake(t) PROVE LockInv'
  BY <1>11 DEF KillWake
<1>12. ASSUME NEW t \in Process, NEW v \in Data, Modify(t, v) PROVE LockInv'
  BY <1>12 DEF Modify
<1>. QED
  BY <1>1, <1>2, <1>3, <1>4, <1>5, <1>6, <1>7, <1>8, <1>9, <1>10, <1>11, <1>12
  DEF CacheNext, BufStep

\* releasesleep() wakes everyone who sleeps for the buffer.
LEMMA WaiterStep == IInv /\ [CacheNext]_cacheVars => WaiterHasHolder'
<1>. SUFFICES ASSUME IInv, [CacheNext]_cacheVars PROVE WaiterHasHolder'
  OBVIOUS
<1>. USE BcacheAssumption DEF IInv, Types, LockInv, HasLock, WaiterHasHolder,
   CacheGoto, bufs
<1>1. CASE UNCHANGED cacheVars
  BY <1>1 DEF cacheVars, bufs
<1>2. ASSUME NEW t \in Process, NEW n \in Blockno, BreadCall(t, n) PROVE WaiterHasHolder'
  BY <1>2 DEF BreadCall
<1>3. ASSUME NEW t \in Process, BgetHit(t) PROVE WaiterHasHolder'
  BY <1>3 DEF BgetHit, Cached
<1>4. ASSUME NEW t \in Process, BgetMiss(t) PROVE WaiterHasHolder'
  BY <1>4, LruUnused DEF BgetMiss
<1>5. ASSUME NEW t \in Process, AcquireSleep(t) PROVE WaiterHasHolder'
  BY <1>5 DEF AcquireSleep
<1>6. ASSUME NEW t \in Process, Bread(t) PROVE WaiterHasHolder'
  BY <1>6 DEF Bread
<1>7. ASSUME NEW t \in Process, Bunpin(t) PROVE WaiterHasHolder'
  BY <1>7 DEF Bunpin
<1>8. ASSUME NEW t \in Process, ReleaseSleep(t) PROVE WaiterHasHolder'
  BY <1>8 DEF ReleaseSleep
<1>9. ASSUME NEW t \in Process, Brelse(t) PROVE WaiterHasHolder'
  BY <1>9 DEF Brelse
<1>10. ASSUME NEW t \in Process, Bwrite(t) PROVE WaiterHasHolder'
  BY <1>10 DEF Bwrite
<1>11. ASSUME NEW t \in Process, KillWake(t) PROVE WaiterHasHolder'
  BY <1>11 DEF KillWake
<1>12. ASSUME NEW t \in Process, NEW v \in Data, Modify(t, v) PROVE WaiterHasHolder'
  BY <1>12 DEF Modify
<1>. QED
  BY <1>1, <1>2, <1>3, <1>4, <1>5, <1>6, <1>7, <1>8, <1>9, <1>10, <1>11, <1>12
  DEF CacheNext, BufStep


-----------------------------------------------------------------------------
(* The contents.                                                           *)

\* Who holds the lock of a buffer refers to it: the buffer is that of the block
\* it asked for, and nobody else holds it.
LEMMA HolderAlone ==
  ASSUME IInv, NEW t \in Process, bpc[t] \in HasLock
  PROVE  /\ blockno[b[t]] = want[t] /\ want[t] \in Blockno /\ b[t] \in Buf
         /\ \A u \in Process : bpc[u] \in HasLock /\ b[u] = b[t] => u = t
         /\ \A k \in Buf : blockno[k] = want[t] => k = b[t]
<1>. USE DEF IInv, Types, HasLock
<1>1. blockno[b[t]] = want[t] /\ want[t] \in Blockno /\ b[t] \in Buf
  BY DEF Counted, Referencing, WantInv
<1>2. /\ locked[b[t]] = t
      /\ \A u \in Process :
            bpc[u] \in HasLock /\ b[u] = b[t] => locked[b[t]] = u
  BY <1>1 DEF LockInv
<1>. QED BY <1>1, <1>2, BcacheAssumption DEF OneBuffer

\* A buffer that bget() recycles is not the one of a process in the cache or of
\* a pinned block.
LEMMA LruFree ==
  ASSUME IInv, Unused # {}
  PROVE  /\ LRU \in Buf /\ blockno[LRU] \notin pins
         /\ \A t \in Referencing : b[t] # LRU
<1>. USE BcacheAssumption DEF IInv, Types
<1>1. LRU \in Buf /\ refcnt[LRU] = 0
  BY LruUnused
<1>2. IsFiniteSet(Users(LRU)) /\ IsFiniteSet(Pinned(LRU))
  <2>1. Users(LRU) \subseteq Process /\ Pinned(LRU) \subseteq pins
    BY DEF Users, Pinned, Referencing
  <2>. QED BY <2>1, FS_Subset DEF PinInv
<1>3. Cardinality(Users(LRU)) \in Nat /\ Cardinality(Pinned(LRU)) \in Nat
  BY <1>2, FS_CardinalityType
<1>4. Cardinality(Users(LRU)) + Cardinality(Pinned(LRU)) = 0
  BY <1>1 DEF Counted, Users, Pinned
<1>5. Users(LRU) = {} /\ Pinned(LRU) = {}
  <2>1. Cardinality(Users(LRU)) = 0 /\ Cardinality(Pinned(LRU)) = 0
    BY <1>3, <1>4, SMTT(30)
  <2>. QED BY <2>1, <1>2, FS_EmptySet
<1>. QED BY <1>1, <1>5 DEF Users, Pinned

\* The contents that a process has stay valid, and what is about to be
\* unpinned is on disk.
LEMMA WantStep == IInv /\ [CacheNext]_cacheVars => WantInv'
<1>. SUFFICES ASSUME IInv, [CacheNext]_cacheVars PROVE WantInv'
  OBVIOUS
<1>. USE BcacheAssumption DEF IInv, Types, CacheGoto, bufs, WantInv
<1>1. CASE UNCHANGED cacheVars
  BY <1>1 DEF cacheVars, bufs
<1>2. ASSUME NEW t \in Process, NEW n \in Blockno, BreadCall(t, n) PROVE WantInv'
  BY <1>2 DEF BreadCall
<1>3. ASSUME NEW t \in Process, BgetHit(t) PROVE WantInv'
  BY <1>3 DEF BgetHit, Cached
<1>4. ASSUME NEW t \in Process, BgetMiss(t) PROVE WantInv'
  <2>. USE <1>4 DEF BgetMiss
  <2>1. LRU \in Buf /\ \A u \in Process : bpc[u] \in {"held", "unpin"} => b[u] # LRU
    BY LruFree DEF Referencing
  <2>. QED BY <2>1
<1>5. ASSUME NEW t \in Process, AcquireSleep(t) PROVE WantInv'
  BY <1>5 DEF AcquireSleep
<1>6. ASSUME NEW t \in Process, Bread(t) PROVE WantInv'
  BY <1>6 DEF Bread
<1>7. ASSUME NEW t \in Process, Bunpin(t) PROVE WantInv'
  <2>. USE <1>7 DEF Bunpin
  <2>1. ASSUME NEW u \in Process, u # t, bpc[u] = "unpin" PROVE want[u] # want[t]
    <3>. HIDE DEF IInv
    <3>1. /\ blockno[b[u]] = want[u] /\ b[u] \in Buf
          /\ bpc[u] \in HasLock /\ bpc[t] \in HasLock
      BY <2>1, HolderAlone DEF HasLock
    <3>. QED BY <2>1, <3>1, HolderAlone
  <2>. QED BY <2>1
<1>8. ASSUME NEW t \in Process, ReleaseSleep(t) PROVE WantInv'
  BY <1>8 DEF ReleaseSleep
<1>9. ASSUME NEW t \in Process, Brelse(t) PROVE WantInv'
  BY <1>9 DEF Brelse
<1>10. ASSUME NEW t \in Process, Bwrite(t) PROVE WantInv'
  <2>. USE <1>10 DEF Bwrite
  <2>1. data[b[t]] = latest[want[t]] /\ want[t] \in Blockno
    BY HolderAlone DEF HasLock, DataInv
  <2>. QED BY <2>1
<1>11. ASSUME NEW t \in Process, KillWake(t) PROVE WantInv'
  BY <1>11 DEF KillWake
<1>12. ASSUME NEW t \in Process, NEW v \in Data, Modify(t, v) PROVE WantInv'
  <2>. USE <1>12 DEF Modify
  <2>1. ASSUME NEW u \in Process, bpc[u] = "unpin" PROVE want[u] # want[t]
    BY <2>1, HolderAlone, SMTT(30) DEF HasLock
  <2>. QED BY <2>1
<1>. QED
  BY <1>1, <1>2, <1>3, <1>4, <1>5, <1>6, <1>7, <1>8, <1>9, <1>10, <1>11, <1>12
  DEF CacheNext, BufStep

\* Buffers and unpinned blocks stay up to date.
LEMMA DataStep == IInv /\ [CacheNext]_cacheVars => DataInv'
<1>. SUFFICES ASSUME IInv, [CacheNext]_cacheVars PROVE DataInv'
  OBVIOUS
<1>. USE BcacheAssumption DEF IInv, Types, CacheGoto, bufs, WantInv, DataInv
<1>1. CASE UNCHANGED cacheVars
  BY <1>1 DEF cacheVars, bufs
<1>2. ASSUME NEW t \in Process, NEW n \in Blockno, BreadCall(t, n) PROVE DataInv'
  BY <1>2 DEF BreadCall
<1>3. ASSUME NEW t \in Process, BgetHit(t) PROVE DataInv'
  BY <1>3 DEF BgetHit
<1>4. ASSUME NEW t \in Process, BgetMiss(t) PROVE DataInv'
  <2>. USE <1>4 DEF BgetMiss
  <2>1. LRU \in Buf /\ blockno[LRU] \notin pins
    BY LruFree
  <2>. QED BY <2>1
<1>5. ASSUME NEW t \in Process, AcquireSleep(t) PROVE DataInv'
  BY <1>5 DEF AcquireSleep
<1>6. ASSUME NEW t \in Process, Bread(t) PROVE DataInv'
  <2>. USE <1>6 DEF Bread
  <2>1. /\ blockno[b[t]] = want[t] /\ want[t] \in Blockno /\ b[t] \in Buf
        /\ \A k \in Buf : blockno[k] = want[t] => k = b[t]
    BY HolderAlone DEF HasLock
  <2>2. CASE valid[b[t]]
    BY <2>2
  <2>3. CASE ~valid[b[t]]
    <3>1. ondisk[want[t]] = latest[want[t]]
      BY <2>1, <2>3
    <3>. QED BY <2>1, <2>3, <3>1
  <2>. QED BY <2>2, <2>3
<1>7. ASSUME NEW t \in Process, Bunpin(t) PROVE DataInv'
  <2>. USE <1>7 DEF Bunpin
  <2>. QED OBVIOUS
<1>8. ASSUME NEW t \in Process, ReleaseSleep(t) PROVE DataInv'
  BY <1>8 DEF ReleaseSleep
<1>9. ASSUME NEW t \in Process, Brelse(t) PROVE DataInv'
  BY <1>9 DEF Brelse
<1>10. ASSUME NEW t \in Process, Bwrite(t) PROVE DataInv'
  <2>. USE <1>10 DEF Bwrite
  <2>. QED OBVIOUS
<1>11. ASSUME NEW t \in Process, KillWake(t) PROVE DataInv'
  BY <1>11 DEF KillWake
<1>12. ASSUME NEW t \in Process, NEW v \in Data, Modify(t, v) PROVE DataInv'
  <2>. USE <1>12 DEF Modify
  <2>1. /\ blockno[b[t]] = want[t] /\ want[t] \in Blockno /\ b[t] \in Buf
        /\ \A k \in Buf : blockno[k] = want[t] => k = b[t]
    BY HolderAlone DEF HasLock
  <2>2. \A k \in Buf : valid[k] => data'[k] = latest'[blockno[k]]
    BY <2>1
  <2>3. \A n \in pins' : \E k \in Buf : blockno[k] = n /\ valid[k]
    BY <2>1
  <2>. QED BY <2>1, <2>2, <2>3
<1>. QED
  BY <1>1, <1>2, <1>3, <1>4, <1>5, <1>6, <1>7, <1>8, <1>9, <1>10, <1>11, <1>12
  DEF CacheNext, BufStep


-----------------------------------------------------------------------------
(* Reference counts.                                                       *)

\* A block is pinned once, and the users of a buffer are finitely many.
LEMMA PinnedCount ==
  IInv => \A k \in Buf :
      /\ Cardinality(Pinned(k)) = IF blockno[k] \in pins THEN 1 ELSE 0
      /\ IsFiniteSet(Users(k)) /\ Cardinality(Users(k)) \in Nat
      /\ refcnt[k] = Cardinality(Users(k)) + Cardinality(Pinned(k))
<1>. SUFFICES ASSUME IInv, NEW k \in Buf
     PROVE  /\ Cardinality(Pinned(k)) = IF blockno[k] \in pins THEN 1 ELSE 0
            /\ IsFiniteSet(Users(k)) /\ Cardinality(Users(k)) \in Nat
            /\ refcnt[k] = Cardinality(Users(k)) + Cardinality(Pinned(k))
  OBVIOUS
<1>1. Pinned(k) = IF blockno[k] \in pins THEN {blockno[k]} ELSE {}
  BY DEF Pinned
<1>2. Cardinality(Pinned(k)) = IF blockno[k] \in pins THEN 1 ELSE 0
  BY <1>1, FS_EmptySet, FS_Singleton
<1>3. Users(k) \subseteq Process
  BY DEF Users, Referencing
<1>4. IsFiniteSet(Users(k)) /\ Cardinality(Users(k)) \in Nat
  BY <1>3, FS_Subset, FS_CardinalityType, BcacheAssumption DEF IInv
<1>5. refcnt[k] = Cardinality(Users(k)) + Cardinality(Pinned(k))
  BY DEF IInv, Counted, Users, Pinned
<1>. QED BY <1>2, <1>4, <1>5

\* The pins after a step, where the finiteness of the set does not matter.
LEMMA PinnedNext ==
  ASSUME NEW k \in Buf
  PROVE  Cardinality(Pinned(k)') = IF blockno'[k] \in pins' THEN 1 ELSE 0
<1>1. Pinned(k)' = IF blockno'[k] \in pins' THEN {blockno'[k]} ELSE {}
  BY DEF Pinned
<1>. QED BY <1>1, FS_EmptySet, FS_Singleton

\* Every reference is counted.
Counts ==
    \A k \in Buf : refcnt[k] = Cardinality(Users(k)) + Cardinality(Pinned(k))

\* One process more uses buffer k.
LEMMA UserAdded ==
  ASSUME IInv, NEW k \in Buf, NEW t, t \notin Users(k), Users(k)' = Users(k) \cup {t}
  PROVE  Cardinality(Users(k)') = Cardinality(Users(k)) + 1
  BY PinnedCount, FS_AddElement

\* One process less uses buffer k.
LEMMA UserGone ==
  ASSUME IInv, NEW k \in Buf, NEW t, t \in Users(k), Users(k)' = Users(k) \ {t}
  PROVE  Cardinality(Users(k)') = Cardinality(Users(k)) + (-1)
  BY PinnedCount, FS_RemoveElement

\* The count of a buffer that has the same users after a step, and whose pin is
\* set or cleared with the count.
LEMMA CountAt ==
  ASSUME IInv, NEW k \in Buf, Users(k)' = Users(k),
         refcnt'[k] = refcnt[k] + (IF blockno'[k] \in pins' THEN 1 ELSE 0)
                                - (IF blockno[k] \in pins THEN 1 ELSE 0)
  PROVE  refcnt'[k] = Cardinality(Users(k)') + Cardinality(Pinned(k)')
<1>1. /\ Cardinality(Pinned(k)) = IF blockno[k] \in pins THEN 1 ELSE 0
      /\ Cardinality(Users(k)) \in Nat
      /\ refcnt[k] = Cardinality(Users(k)) + Cardinality(Pinned(k))
  BY PinnedCount
<1>2. Cardinality(Pinned(k)') = IF blockno'[k] \in pins' THEN 1 ELSE 0
  BY PinnedNext
<1>. QED BY <1>1, <1>2

\* The count of a buffer that gains or loses one user.
LEMMA CountUser ==
  ASSUME IInv, NEW k \in Buf, NEW d \in Int,
         Cardinality(Users(k)') = Cardinality(Users(k)) + d,
         refcnt'[k] = refcnt[k] + d, blockno'[k] = blockno[k], pins' = pins
  PROVE  refcnt'[k] = Cardinality(Users(k)') + Cardinality(Pinned(k)')
<1>1. /\ Cardinality(Pinned(k)) = IF blockno[k] \in pins THEN 1 ELSE 0
      /\ Cardinality(Users(k)) \in Nat
      /\ refcnt[k] = Cardinality(Users(k)) + Cardinality(Pinned(k))
  BY PinnedCount
<1>2. Cardinality(Pinned(k)') = IF blockno'[k] \in pins' THEN 1 ELSE 0
  BY PinnedNext
<1>. QED BY <1>1, <1>2

\* Every reference is counted after a step.
LEMMA CountStep == IInv /\ [CacheNext]_cacheVars => Counts'
<1>. SUFFICES ASSUME IInv, [CacheNext]_cacheVars PROVE Counts'
  OBVIOUS
<1>1. CASE UNCHANGED cacheVars
  <2>1. \A k \in Buf : Users(k)' = Users(k)
    BY <1>1 DEF cacheVars, Users, Referencing
  <2>2. UNCHANGED <<refcnt, blockno, pins>>
    BY <1>1 DEF cacheVars, bufs
  <2>3. \A k \in Buf : refcnt[k] \in Int
    BY DEF IInv, Types
  <2>. QED BY <2>1, <2>2, <2>3, CountAt DEF Counts
<1>2. ASSUME NEW t \in Process, NEW n \in Blockno, BreadCall(t, n) PROVE Counts'
  <2>1. \A k \in Buf : Users(k)' = Users(k)
    BY <1>2 DEF BreadCall, CacheGoto, Users, Referencing, IInv, Types
  <2>2. UNCHANGED <<refcnt, blockno, pins>>
    BY <1>2 DEF BreadCall, bufs
  <2>3. \A k \in Buf : refcnt[k] \in Int
    BY DEF IInv, Types
  <2>. QED BY <2>1, <2>2, <2>3, CountAt DEF Counts
<1>3. ASSUME NEW t \in Process, BgetHit(t) PROVE Counts'
  <2>1. PICK k \in Buf : /\ refcnt' = [refcnt EXCEPT ![k] = @ + 1]
                         /\ b' = [b EXCEPT ![t] = k]
    BY <1>3 DEF BgetHit, Cached
  <2>2. UNCHANGED <<blockno, pins>>
    BY <1>3 DEF BgetHit
  <2>3. /\ t \notin Users(k) /\ Users(k)' = Users(k) \cup {t}
        /\ \A l \in Buf : l # k => Users(l)' = Users(l)
    BY <1>3, <2>1 DEF BgetHit, CacheGoto, Users, Referencing, IInv, Types
  <2>4. /\ refcnt'[k] = refcnt[k] + 1
        /\ \A l \in Buf : refcnt[l] \in Int /\ (l # k => refcnt'[l] = refcnt[l])
    BY <2>1 DEF IInv, Types
  <2>5. refcnt'[k] = Cardinality(Users(k)') + Cardinality(Pinned(k)')
    <3>1. Cardinality(Users(k)') = Cardinality(Users(k)) + 1
      BY <2>3, UserAdded
    <3>2. blockno'[k] = blockno[k] /\ pins' = pins
      BY <2>2
    <3>. QED BY <2>4, <3>1, <3>2, CountUser
  <2>6. ASSUME NEW l \in Buf, l # k
        PROVE  refcnt'[l] = Cardinality(Users(l)') + Cardinality(Pinned(l)')
    <3>1. /\ Users(l)' = Users(l) /\ refcnt'[l] = refcnt[l] /\ refcnt[l] \in Int
          /\ blockno'[l] = blockno[l] /\ pins' = pins
      BY <2>2, <2>3, <2>4, <2>6
    <3>. QED BY <3>1, CountAt
  <2>. QED BY <2>5, <2>6 DEF Counts
<1>4. ASSUME NEW t \in Process, BgetMiss(t) PROVE Counts'
  <2>1. PICK k \in Buf : k = LRU
    BY <1>4, LruUnused DEF BgetMiss
  <2>2. blockno[k] \notin pins /\ Users(k) = {}
    BY <1>4, <2>1, LruFree DEF BgetMiss, Users
  <2>3. want[t] \notin pins
    BY <1>4 DEF BgetMiss, IInv, DataInv, Cached
  <2>4. /\ blockno'[k] = want[t] /\ refcnt'[k] = 1 /\ pins' = pins
        /\ \A l \in Buf : l # k => /\ refcnt'[l] = refcnt[l] /\ refcnt[l] \in Int
                                  /\ blockno'[l] = blockno[l]
    BY <1>4, <2>1 DEF BgetMiss, IInv, Types
  <2>5. Users(k)' = {t} /\ \A l \in Buf : l # k => Users(l)' = Users(l)
    BY <1>4, <2>1, <2>2 DEF BgetMiss, CacheGoto, Users, Referencing, IInv, Types
  <2>6. refcnt'[k] = Cardinality(Users(k)') + Cardinality(Pinned(k)')
    <3>1. Cardinality(Users(k)') = 1 /\ Cardinality(Pinned(k)') = 0
      BY <2>3, <2>4, <2>5, PinnedNext, FS_Singleton
    <3>. QED BY <3>1, <2>4
  <2>7. \A l \in Buf : l # k =>
            refcnt'[l] = Cardinality(Users(l)') + Cardinality(Pinned(l)')
    BY <2>4, <2>5, CountAt
  <2>. QED BY <2>6, <2>7 DEF Counts
<1>5. ASSUME NEW t \in Process, AcquireSleep(t) PROVE Counts'
  <2>1. \A k \in Buf : Users(k)' = Users(k)
    BY <1>5 DEF AcquireSleep, CacheGoto, Users, Referencing, IInv, Types
  <2>2. UNCHANGED <<refcnt, blockno, pins>>
    BY <1>5 DEF AcquireSleep, bufs
  <2>3. \A k \in Buf : refcnt[k] \in Int
    BY DEF IInv, Types
  <2>. QED BY <2>1, <2>2, <2>3, CountAt DEF Counts
<1>6. ASSUME NEW t \in Process, Bread(t) PROVE Counts'
  <2>1. \A k \in Buf : Users(k)' = Users(k)
    BY <1>6 DEF Bread, CacheGoto, Users, Referencing, IInv, Types
  <2>2. UNCHANGED <<refcnt, blockno, pins>>
    BY <1>6 DEF Bread, bufs
  <2>3. \A k \in Buf : refcnt[k] \in Int
    BY DEF IInv, Types
  <2>. QED BY <2>1, <2>2, <2>3, CountAt DEF Counts
<1>7. ASSUME NEW t \in Process, Bunpin(t) PROVE Counts'
  <2>1. \A k \in Buf : Users(k)' = Users(k)
    BY <1>7 DEF Bunpin, CacheGoto, Users, Referencing, IInv, Types
  <2>2. /\ blockno[b[t]] = want[t] /\ want[t] \in pins /\ b[t] \in Buf
        /\ \A k \in Buf : blockno[k] = want[t] => k = b[t]
    BY <1>7, HolderAlone DEF Bunpin, HasLock, IInv, WantInv
  <2>3. \A k \in Buf :
            refcnt'[k] = refcnt[k] + (IF blockno'[k] \in pins' THEN 1 ELSE 0)
                                   - (IF blockno[k] \in pins THEN 1 ELSE 0)
    BY <1>7, <2>2 DEF Bunpin, IInv, Types
  <2>. QED BY <2>1, <2>3, CountAt DEF Counts
<1>8. ASSUME NEW t \in Process, ReleaseSleep(t) PROVE Counts'
  <2>1. \A k \in Buf : Users(k)' = Users(k)
    BY <1>8 DEF ReleaseSleep, CacheGoto, Users, Referencing, IInv, Types
  <2>2. UNCHANGED <<refcnt, blockno, pins>>
    BY <1>8 DEF ReleaseSleep, bufs
  <2>3. \A k \in Buf : refcnt[k] \in Int
    BY DEF IInv, Types
  <2>. QED BY <2>1, <2>2, <2>3, CountAt DEF Counts
<1>9. ASSUME NEW t \in Process, Brelse(t) PROVE Counts'
  <2>1. PICK k \in Buf : k = b[t]
    BY DEF IInv, Types
  <2>2. UNCHANGED <<blockno, pins>>
    BY <1>9 DEF Brelse
  <2>3. /\ t \in Users(k) /\ Users(k)' = Users(k) \ {t}
        /\ \A l \in Buf : l # k => Users(l)' = Users(l)
    BY <1>9, <2>1 DEF Brelse, CacheGoto, Users, Referencing, IInv, Types
  <2>4. /\ refcnt'[k] = refcnt[k] + (-1)
        /\ \A l \in Buf : refcnt[l] \in Int /\ (l # k => refcnt'[l] = refcnt[l])
    BY <1>9, <2>1 DEF Brelse, IInv, Types
  <2>5. refcnt'[k] = Cardinality(Users(k)') + Cardinality(Pinned(k)')
    <3>1. Cardinality(Users(k)') = Cardinality(Users(k)) + (-1)
      BY <2>3, UserGone
    <3>2. blockno'[k] = blockno[k] /\ pins' = pins
      BY <2>2
    <3>. QED BY <2>4, <3>1, <3>2, CountUser
  <2>6. ASSUME NEW l \in Buf, l # k
        PROVE  refcnt'[l] = Cardinality(Users(l)') + Cardinality(Pinned(l)')
    <3>1. /\ Users(l)' = Users(l) /\ refcnt'[l] = refcnt[l] /\ refcnt[l] \in Int
          /\ blockno'[l] = blockno[l] /\ pins' = pins
      BY <2>2, <2>3, <2>4, <2>6
    <3>. QED BY <3>1, CountAt
  <2>. QED BY <2>5, <2>6 DEF Counts
<1>10. ASSUME NEW t \in Process, Bwrite(t) PROVE Counts'
  <2>1. \A k \in Buf : Users(k)' = Users(k)
    BY <1>10 DEF Bwrite, CacheGoto, Users, Referencing, IInv, Types
  <2>2. UNCHANGED <<refcnt, blockno, pins>>
    BY <1>10 DEF Bwrite, bufs
  <2>3. \A k \in Buf : refcnt[k] \in Int
    BY DEF IInv, Types
  <2>. QED BY <2>1, <2>2, <2>3, CountAt DEF Counts
<1>11. ASSUME NEW t \in Process, KillWake(t) PROVE Counts'
  <2>1. \A k \in Buf : Users(k)' = Users(k)
    BY <1>11 DEF KillWake, CacheGoto, Users, Referencing, IInv, Types
  <2>2. UNCHANGED <<refcnt, blockno, pins>>
    BY <1>11 DEF KillWake, bufs
  <2>3. \A k \in Buf : refcnt[k] \in Int
    BY DEF IInv, Types
  <2>. QED BY <2>1, <2>2, <2>3, CountAt DEF Counts
<1>12. ASSUME NEW t \in Process, NEW v \in Data, Modify(t, v) PROVE Counts'
  <2>1. \A k \in Buf : Users(k)' = Users(k)
    BY <1>12 DEF Modify, Users, Referencing
  <2>2. /\ blockno[b[t]] = want[t] /\ b[t] \in Buf
        /\ \A k \in Buf : blockno[k] = want[t] => k = b[t]
    BY <1>12, HolderAlone DEF Modify, HasLock
  <2>3. \A k \in Buf :
            refcnt'[k] = refcnt[k] + (IF blockno'[k] \in pins' THEN 1 ELSE 0)
                                   - (IF blockno[k] \in pins THEN 1 ELSE 0)
    BY <1>12, <2>2, SMTT(30) DEF Modify, Pin, IInv, Types
  <2>. QED BY <2>1, <2>3, CountAt DEF Counts
<1>. QED
  BY <1>1, <1>2, <1>3, <1>4, <1>5, <1>6, <1>7, <1>8, <1>9, <1>10, <1>11, <1>12
  DEF CacheNext, BufStep

\* A process refers to the buffer of the block it asked for.
BlockInv == \A t \in Referencing : blockno[b[t]] = want[t]

\* A process refers to the buffer of the block it asked for.
LEMMA BlockStep == IInv /\ [CacheNext]_cacheVars => BlockInv'
<1>. SUFFICES ASSUME IInv, [CacheNext]_cacheVars PROVE BlockInv'
  OBVIOUS
<1>. USE BcacheAssumption DEF IInv, Types, CacheGoto, bufs, BlockInv, Counted,
   Referencing
<1>1. CASE UNCHANGED cacheVars
  BY <1>1 DEF cacheVars, bufs
<1>2. ASSUME NEW t \in Process, NEW n \in Blockno, BreadCall(t, n) PROVE BlockInv'
  BY <1>2 DEF BreadCall
<1>3. ASSUME NEW t \in Process, BgetHit(t) PROVE BlockInv'
  BY <1>3 DEF BgetHit, Cached
<1>4. ASSUME NEW t \in Process, BgetMiss(t) PROVE BlockInv'
  <2>. USE <1>4 DEF BgetMiss
  <2>1. LRU \in Buf /\ \A u \in Process : bpc[u] \notin {"idle", "bget"} => b[u] # LRU
    BY LruFree
  <2>. QED BY <2>1
<1>5. ASSUME NEW t \in Process, AcquireSleep(t) PROVE BlockInv'
  BY <1>5 DEF AcquireSleep
<1>6. ASSUME NEW t \in Process, Bread(t) PROVE BlockInv'
  BY <1>6 DEF Bread
<1>7. ASSUME NEW t \in Process, Bunpin(t) PROVE BlockInv'
  BY <1>7 DEF Bunpin
<1>8. ASSUME NEW t \in Process, ReleaseSleep(t) PROVE BlockInv'
  BY <1>8 DEF ReleaseSleep
<1>9. ASSUME NEW t \in Process, Brelse(t) PROVE BlockInv'
  BY <1>9 DEF Brelse
<1>10. ASSUME NEW t \in Process, Bwrite(t) PROVE BlockInv'
  BY <1>10 DEF Bwrite
<1>11. ASSUME NEW t \in Process, KillWake(t) PROVE BlockInv'
  BY <1>11 DEF KillWake
<1>12. ASSUME NEW t \in Process, NEW v \in Data, Modify(t, v) PROVE BlockInv'
  BY <1>12 DEF Modify
<1>. QED
  BY <1>1, <1>2, <1>3, <1>4, <1>5, <1>6, <1>7, <1>8, <1>9, <1>10, <1>11, <1>12
  DEF CacheNext, BufStep

\* log_write() pins no more blocks than the log has room for.
LEMMA PinStep == IInv /\ [CacheNext]_cacheVars => PinInv'
<1>. SUFFICES ASSUME IInv, [CacheNext]_cacheVars PROVE PinInv'
  OBVIOUS
<1>1. \/ UNCHANGED pins
      \/ \E t \in Process : Bunpin(t)
      \/ \E t \in Process, v \in Data : Modify(t, v)
  BY DEF CacheNext, BufStep, cacheVars, bufs, BreadCall, BgetHit, BgetMiss, AcquireSleep,
     Bread, ReleaseSleep, Brelse, Bwrite, KillWake
<1>2. CASE UNCHANGED pins
  BY <1>2 DEF IInv, PinInv
<1>3. ASSUME NEW t \in Process, Bunpin(t) PROVE PinInv'
  <2>1. IsFiniteSet(pins) /\ Cardinality(pins) <= MaxPinned /\ MaxPinned \in Nat
    BY BcacheAssumption, SMTT(30) DEF IInv, PinInv
  <2>2. pins' \subseteq pins
    BY <1>3 DEF Bunpin
  <2>3. /\ IsFiniteSet(pins') /\ Cardinality(pins') <= Cardinality(pins)
        /\ Cardinality(pins) \in Nat /\ Cardinality(pins') \in Nat
    BY <2>1, <2>2, FS_Subset, FS_CardinalityType
  <2>. QED BY <2>1, <2>3 DEF PinInv
<1>4. ASSUME NEW t \in Process, NEW v \in Data, Modify(t, v) PROVE PinInv'
  <2>1. IsFiniteSet(pins')
    BY <1>4, FS_AddElement DEF Modify, IInv, PinInv
  <2>. QED BY <1>4, <2>1 DEF Modify, PinInv
<1>. QED BY <1>1, <1>2, <1>3, <1>4, SMTT(30)

-----------------------------------------------------------------------------
(* The theorems.                                                           *)

\* The initial state.
LEMMA InitIInv == CacheInit => IInv
<1>. SUFFICES ASSUME CacheInit PROVE IInv
  OBVIOUS
<1>. USE BcacheAssumption DEF CacheInit
<1>1. Types
  BY DEF Types, Buf
<1>2. ListInv
  <2>1. list \in [1 .. NBUF -> 1 .. NBUF] /\ \A i \in 1 .. NBUF : list[i] = NBUF + 1 - i
    BY DEF Buf
  <2>2. \A i, j \in 1 .. NBUF : list[i] = list[j] => i = j
    BY <2>1
  <2>3. ASSUME NEW k \in 1 .. NBUF PROVE \E i \in 1 .. NBUF : list[i] = k
    <3>1. NBUF + 1 - k \in 1 .. NBUF /\ NBUF + 1 - (NBUF + 1 - k) = k
      OBVIOUS
    <3>. QED BY <3>1, <2>1
  <2>. QED BY <2>1, <2>2, <2>3 DEF ListInv, Permutes
<1>3. Counted
  <2>1. Referencing = {}
    BY DEF Referencing
  <2>2. \A k \in Buf : /\ {t \in Referencing : b[t] = k} = {}
                       /\ {n \in pins : blockno[k] = n} = {}
    BY <2>1
  <2>. QED BY <2>1, <2>2, FS_EmptySet DEF Counted
<1>4. PinInv
  BY FS_EmptySet DEF PinInv
<1>5. OneBuffer /\ WaiterHasHolder
  BY DEF OneBuffer, WaiterHasHolder
<1>6. LockInv
  BY DEF LockInv, HasLock
<1>7. WantInv /\ DataInv
  BY DEF WantInv, DataInv
<1>. QED BY <1>1, <1>2, <1>3, <1>4, <1>5, <1>6, <1>7 DEF IInv

\* Every step preserves the invariant.
LEMMA StepIInv == IInv /\ [CacheNext]_cacheVars => IInv'
<1>. SUFFICES ASSUME IInv, [CacheNext]_cacheVars PROVE IInv'
  OBVIOUS
<1>1. Counted'
  BY CountStep, BlockStep DEF Counted, Counts, BlockInv, Users, Pinned
<1>. QED BY <1>1, TypesStep, ListStep, OneBufferStep, LockStep, WantStep,
            DataStep, PinStep, WaiterStep DEF IInv

\* The cache's inductive invariant: every reference is counted, sleep locks have
\* the holder they say, valid buffers and unpinned blocks on disk are up to
\* date, and the log's blocks stay cached (bget(), bread(), brelse(), bpin(),
\* acquiresleep(), releasesleep()).
THEOREM CacheInvariant == CacheSpec => []IInv
  BY InitIInv, StepIInv, PTL DEF CacheSpec

\* A process that holds a block sees what was stored in it last, whether the
\* buffer stayed in the cache or the block was read from disk again (bread()).
THEOREM CacheCoherent == CacheSpec => []Coherent
<1>1. IInv => Coherent
  <2>. SUFFICES ASSUME IInv, NEW t \in Process, bpc[t] \in {"held", "unpin"}
       PROVE  data[b[t]] = latest[want[t]]
    BY DEF Coherent
  <2>1. b[t] \in Buf /\ blockno[b[t]] = want[t]
    BY HolderAlone DEF HasLock
  <2>2. valid[b[t]]
    BY DEF IInv, WantInv
  <2>. QED BY <2>1, <2>2 DEF IInv, DataInv
<1>. QED BY <1>1, CacheInvariant, PTL

\* When there is no unused buffer, each is one that a process refers to or that
\* holds a pinned block, so there are at least NBUF of these.
LEMMA AllInUse ==
  ASSUME IInv, Unused = {}
  PROVE  NBUF <= Cardinality(Referencing) + Cardinality(pins)
<1>. USE BcacheAssumption DEF IInv
<1>. DEFINE U == {b[u] : u \in Referencing}
            P == {k \in Buf : blockno[k] \in pins}
<1>1. IsFiniteSet(Referencing)
  BY FS_Subset DEF Referencing
<1>2. IsFiniteSet(U) /\ Cardinality(U) <= Cardinality(Referencing)
  <2>. DEFINE f == [u \in Referencing |-> b[u]]
  <2>1. f \in Surjection(Referencing, U)
    BY DEF Surjection
  <2>. QED BY <1>1, <2>1, FS_Surjection
<1>3. IsFiniteSet(P) /\ Cardinality(P) <= Cardinality(pins)
  <2>. DEFINE f == [k \in P |-> blockno[k]]
  <2>1. \A k, l \in P : blockno[k] = blockno[l] => k = l
    BY DEF OneBuffer, Types
  <2>2. f \in Injection(P, pins)
    BY <2>1 DEF Injection, IsInjective
  <2>. QED BY <2>2, FS_Injection DEF PinInv
<1>4. Buf \subseteq U \cup P
  <2>. SUFFICES ASSUME NEW k \in Buf, k \notin P PROVE k \in U
    OBVIOUS
  <2>1. refcnt[k] = Cardinality(Users(k))
    <3>1. /\ Cardinality(Pinned(k)) = 0 /\ Cardinality(Users(k)) \in Nat
          /\ refcnt[k] = Cardinality(Users(k)) + Cardinality(Pinned(k))
      BY PinnedCount
    <3>. QED BY <3>1
  <2>2. Users(k) # {}
    BY <2>1, FS_EmptySet DEF Unused
  <2>. QED BY <2>2 DEF Users
<1>5. /\ IsFiniteSet(U \cup P)
      /\ Cardinality(U \cup P) <= Cardinality(U) + Cardinality(P)
  <2>. HIDE DEF U, P
  <2>1. /\ IsFiniteSet(U \cup P) /\ IsFiniteSet(U \cap P)
        /\ Cardinality(U \cup P) = Cardinality(U) + Cardinality(P) - Cardinality(U \cap P)
    BY <1>2, <1>3, FS_Union, FS_Intersection
  <2>2. /\ Cardinality(U) \in Nat /\ Cardinality(P) \in Nat
        /\ Cardinality(U \cap P) \in Nat
    BY <1>2, <1>3, <2>1, FS_CardinalityType
  <2>. QED BY <2>1, <2>2
<1>6. Cardinality(Buf) <= Cardinality(U \cup P)
  BY <1>4, <1>5, FS_Subset
<1>7. Cardinality(Buf) = NBUF
  BY FS_Interval DEF Buf
<1>. HIDE DEF U, P
<1>8. /\ Cardinality(U) \in Nat /\ Cardinality(P) \in Nat /\ Cardinality(pins) \in Nat
      /\ Cardinality(Referencing) \in Nat /\ NBUF \in Nat
      /\ Cardinality(U \cup P) \in Nat
  BY <1>1, <1>2, <1>3, <1>5, FS_CardinalityType DEF PinInv
<1>. HIDE BcacheAssumption DEF IInv
<1>. QED BY <1>2, <1>3, <1>5, <1>6, <1>7, <1>8

\* A block has one buffer, references are counted, bget() comes to
\* panic("bget: no buffers") only when every buffer is held, awaited or pinned,
\* and who sleeps in acquiresleep() sleeps behind a holder.
THEOREM CacheBuffersCounted == CacheSpec => []BuffersCounted
<1>1. IInv => BuffersCounted
  <2>. SUFFICES ASSUME IInv PROVE BuffersCounted
    OBVIOUS
  <2>. USE BcacheAssumption DEF IInv
  <2>1. refcnt \in [Buf -> 0 .. Cardinality(Process) + 1]
    <3>. SUFFICES ASSUME NEW k \in Buf PROVE refcnt[k] \in 0 .. Cardinality(Process) + 1
      BY DEF Types
    <3>1. Users(k) \subseteq Process
      BY DEF Users, Referencing
    <3>2. Cardinality(Users(k)) <= Cardinality(Process) /\ Cardinality(Process) \in Nat
      BY <3>1, FS_Subset, FS_CardinalityType
    <3>3. /\ refcnt[k] = Cardinality(Users(k)) + Cardinality(Pinned(k))
          /\ Cardinality(Users(k)) \in Nat /\ Cardinality(Pinned(k)) \in {0, 1}
      BY PinnedCount
    <3>. QED BY <3>2, <3>3
  <2>2. CacheTypeOK
    BY <2>1 DEF Types, CacheTypeOK, ListInv, Permutes, Buf
  <2>3. PanicMeansFull
    BY AllInUse DEF PanicMeansFull
  <2>. QED BY <2>2, <2>3 DEF BuffersCounted, OneCopy, OneBuffer
<1>. QED BY <1>1, CacheInvariant, PTL

=============================================================================
