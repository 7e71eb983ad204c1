----------------------------- MODULE LogProofs ------------------------------
(***************************************************************************)
(* Proofs about Log for any set of processes, blocks and contents and any  *)
(* MAXOPBLOCKS: the log implements AtomicLog, whatever the moment of a     *)
(* crash; begin_op() reserves enough space; nobody sleeps without a waker. *)
(***************************************************************************)
EXTENDS Log, FiniteSetTheorems, TLAPS

CommitLabels == {"write_log", "install", "done"}
Ops == {t \in Thread : pc[t] = "op"}

Injective(s) == \A i, j \in 1 .. Len(s) : s[i] = s[j] => i = j

\* Who is in a call and who commits: calls are counted, one process at a time
\* commits, and then there are no calls; none of this outlives a crash.
CallInv ==
    /\ outstanding = Cardinality(Ops)
    /\ committing <=> \E t \in Thread : pc[t] \in CommitLabels
    /\ \A t, u \in Thread :
           pc[t] \in CommitLabels /\ pc[u] \in CommitLabels => t = u
    /\ committing => Ops = {}
    /\ kernel # "up" => \A t \in Thread : pc[t] = "idle"

\* The header in memory and on disk names each block once, among them all
\* that calls in progress have written, and none when there is no call.
HeaderInv ==
    /\ Injective(lh) /\ Injective(hdr)
    /\ \A t \in Thread : wrote[t] \subseteq Logged
    /\ \A t \in Thread : pc[t] # "op" => wrote[t] = {}
    /\ kernel = "up" /\ outstanding = 0 /\ ~ committing => lh = <<>>

\* How far commit() has come, and what is where meanwhile.
PhaseInv ==
    /\ kernel = "up" /\ (\A t \in Thread : pc[t] # "install") =>
           hdr = <<>> /\ pinned = Logged
    /\ \A t \in Thread : pc[t] = "write_log" =>
           /\ tail <= Len(lh) + 1
           /\ \A i \in 1 .. Len(lh) : i < tail => logblk[i] = cache[lh[i]]
    /\ \A t \in Thread : pc[t] = "install" =>
           /\ hdr = lh /\ tail <= Len(lh) + 1
           /\ \A i \in 1 .. Len(lh) :
                 /\ logblk[i] = cache[lh[i]]
                 /\ i < tail => home[lh[i]] = logblk[i]
           /\ pinned = {lh[i] : i \in tail .. Len(lh)}
    /\ \A t \in Thread : pc[t] = "done" => lh = <<>>

\* How far recovery has come.
RecoverInv ==
    /\ kernel # "up" => pinned = {} /\ outstanding = 0 /\ ~ committing
    /\ kernel = "read_head" => tail = 1 /\ lh = <<>>
    /\ kernel = "recover" =>
           /\ lh = hdr /\ tail <= Len(lh) + 1
           /\ \A i \in 1 .. Len(lh) : i < tail => home[lh[i]] = logblk[i]

\* The inductive invariant.
IInv ==
    /\ SpaceReserved /\ SleeperHasWaker
    /\ CallInv /\ HeaderInv /\ PhaseInv /\ RecoverInv

-----------------------------------------------------------------------------
(* Facts about the parts of the state.                                     *)

\* The headers are sequences of blocks and tail is a place in the log.
LEMMA Typed ==
    IInv => /\ lh \in Seq(Block) /\ Len(lh) \in Nat
            /\ hdr \in Seq(Block) /\ Len(hdr) \in Nat
            /\ tail \in Nat /\ tail >= 1
  BY DEF IInv, SpaceReserved, TypeOK

\* LOGSIZE is a positive number.
LEMMA Sizes == LOGSIZE \in Nat /\ LOGSIZE >= 1 /\ MAXOPBLOCKS \in Nat
  BY LogAssumption DEF LOGSIZE

\* Sets of processes and of blocks are finite.
LEMMA Finite ==
    /\ \A S \in SUBSET Thread : IsFiniteSet(S) /\ Cardinality(S) \in Nat
                                /\ Cardinality(S) <= Cardinality(Thread)
    /\ \A S \in SUBSET Block : IsFiniteSet(S) /\ Cardinality(S) \in Nat
  BY LogAssumption, FS_Subset, FS_CardinalityType

\* What log_write() does to a header that does not name b yet.
LEMMA AppendNew ==
    ASSUME NEW s \in Seq(Block), NEW b \in Block, Injective(s),
           \A i \in 1 .. Len(s) : s[i] # b
    PROVE  /\ Append(s, b) \in Seq(Block) /\ Injective(Append(s, b))
           /\ Len(Append(s, b)) = Len(s) + 1
           /\ {Append(s, b)[i] : i \in 1 .. Len(Append(s, b))}
                = {s[i] : i \in 1 .. Len(s)} \cup {b}
<1> DEFINE a == Append(s, b)
<1>1. a \in Seq(Block) /\ Len(a) = Len(s) + 1 /\ Len(s) \in Nat
  OBVIOUS
<1>2. \A i \in 1 .. Len(s) : a[i] = s[i]
  OBVIOUS
<1>3. a[Len(s) + 1] = b
  OBVIOUS
<1>4. \A i \in 1 .. Len(a) : i \in 1 .. Len(s) \/ i = Len(s) + 1
  BY <1>1
<1> HIDE DEF a
<1>5. Injective(a)
  BY <1>1, <1>2, <1>3, <1>4 DEF Injective
<1>6. {a[i] : i \in 1 .. Len(a)} = {s[i] : i \in 1 .. Len(s)} \cup {b}
  BY <1>1, <1>2, <1>3, <1>4
<1> QED  BY <1>1, <1>5, <1>6 DEF a

\* outstanding counts the calls: none, one or more.
LEMMA CallCount ==
    ASSUME CallInv
    PROVE  /\ Cardinality(Thread) \in Nat /\ outstanding \in 0 .. Cardinality(Thread)
           /\ outstanding = 0 <=> Ops = {}
           /\ \A t \in Ops : outstanding = 1 <=> Ops = {t}
           /\ \A t \in Thread \ Ops :
                 /\ Cardinality(Ops \cup {t}) = outstanding + 1
                 /\ outstanding + 1 <= Cardinality(Thread)
           /\ \A t \in Ops : Cardinality(Ops \ {t}) = outstanding - 1
<1> USE DEF CallInv
<1>1. Ops \subseteq Thread /\ IsFiniteSet(Ops)
  BY Finite DEF Ops
<1>2. Cardinality(Thread) \in Nat /\ outstanding \in 0 .. Cardinality(Thread)
  BY <1>1, Finite
<1>3. outstanding = 0 <=> Ops = {}
  BY <1>1, FS_EmptySet
<1>4. \A t \in Ops : outstanding = 1 <=> Ops = {t}
  BY <1>1, FS_Singleton
<1>5. ASSUME NEW t \in Thread \ Ops
      PROVE  /\ Cardinality(Ops \cup {t}) = outstanding + 1
             /\ outstanding + 1 <= Cardinality(Thread)
  <2>1. Cardinality(Ops \cup {t}) = outstanding + 1
    BY <1>1, FS_AddElement
  <2>2. Ops \cup {t} \in SUBSET Thread
    BY <1>1
  <2> QED  BY <2>1, <2>2, Finite
<1>6. \A t \in Ops : Cardinality(Ops \ {t}) = outstanding - 1
  BY <1>1, FS_RemoveElement
<1> QED  BY <1>2, <1>3, <1>4, <1>5, <1>6

\* A step that leaves commit() alone keeps CallInv if outstanding counts.
LEMMA CallKept ==
    ASSUME CallInv, kernel' = "up", committing' = committing,
           outstanding' = Cardinality(Ops'), committing => Ops' = {},
           \A u \in Thread : pc'[u] \in CommitLabels <=> pc[u] \in CommitLabels
    PROVE  CallInv'
  BY DEF CallInv

\* CallInv is kept.
LEMMA CallStep ==
    ASSUME IInv, Next
    PROVE  CallInv'
<1> USE CallCount DEF IInv
<1>1. ASSUME NEW t \in Thread, Call(t)
      PROVE  CallInv'
  BY <1>1 DEF Call, TypeOK, Goto, At, disk, logVars, SpaceReserved, Ops,
     CallInv, CommitLabels
<1>2. ASSUME NEW t \in Thread, BeginOp(t)
      PROVE  CallInv'
  <2>1. CASE committing \/ NoSpace
    <3> USE <1>2, <2>1 DEF BeginOp, At, Goto, TypeOK, SpaceReserved
    <3>1. Ops' = Ops  BY DEF Ops
    <3>2. \A u \in Thread : pc'[u] \in CommitLabels <=> pc[u] \in CommitLabels
      BY DEF CommitLabels
    <3>3. outstanding' = Cardinality(Ops') /\ (committing => Ops' = {})
      BY <3>1 DEF CallInv
    <3>4. kernel' = "up" /\ committing' = committing  OBVIOUS
    <3> HIDE <1>2, <2>1 DEF BeginOp, At, Goto, TypeOK, SpaceReserved
    <3> QED  BY <3>2, <3>3, <3>4, CallKept
  <2>2. CASE ~ (committing \/ NoSpace)
    <3> USE <1>2, <2>2 DEF BeginOp, At, Goto, TypeOK, SpaceReserved
    <3>1. Ops' = Ops \cup {t} /\ t \in Thread \ Ops  BY DEF Ops
    <3>2. outstanding' = Cardinality(Ops')  BY <3>1
    <3> QED  BY <3>2 DEF CallInv, CommitLabels
  <2> QED  BY <2>1, <2>2
<1>3. ASSUME NEW t \in Thread, NEW b \in Block, NEW v \in Val, LogWrite(t, b, v)
      PROVE  CallInv'
  BY <1>3 DEF LogWrite, TypeOK, disk, SpaceReserved, Ops, CallInv, CommitLabels
<1>4. ASSUME NEW t \in Thread, EndOp(t)
      PROVE  CallInv'
  <2> USE <1>4 DEF EndOp, At, TypeOK, SpaceReserved
  <2>1. CASE outstanding = 1
    <3>1. Ops' = Ops \ {t} /\ t \in Ops  BY <2>1 DEF Ops, Goto
    <3>2. outstanding' = Cardinality(Ops') /\ Ops' = {}  BY <2>1, <3>1
    <3>3. ~ committing  BY DEF CallInv, Ops
    <3> QED  BY <2>1, <3>2, <3>3 DEF CallInv, CommitLabels, Goto
  <2>2. CASE outstanding # 1
    <3>1. Ops' = Ops \ {t} /\ t \in Ops  BY <2>2 DEF Ops, WakeAndGoto
    <3>2. outstanding' = Cardinality(Ops')  BY <2>2, <3>1
    <3>3. ~ committing  BY DEF CallInv, Ops
    <3>4. \A u \in Thread : pc'[u] \in CommitLabels <=> pc[u] \in CommitLabels
      BY <2>2 DEF CommitLabels, WakeAndGoto
    <3>5. kernel' = "up" /\ committing' = committing  BY <2>2
    <3> HIDE <1>4 DEF EndOp, At, TypeOK, SpaceReserved
    <3> QED  BY <3>2, <3>3, <3>4, <3>5, CallKept
  <2> QED  BY <2>1, <2>2
<1>5. ASSUME NEW t \in Thread, WriteLog(t)
      PROVE  CallInv'
  BY <1>5 DEF WriteLog, TypeOK, At, logVars, SpaceReserved, Ops, CallInv,
     CommitLabels
<1>6. ASSUME NEW t \in Thread, CommitEmpty(t)
      PROVE  CallInv'
  BY <1>6 DEF CommitEmpty, TypeOK, Goto, At, disk, logVars, SpaceReserved,
     Ops, CallInv, CommitLabels
<1>7. ASSUME NEW t \in Thread, WriteHead(t)
      PROVE  CallInv'
  BY <1>7 DEF WriteHead, TypeOK, Goto, At, logVars, SpaceReserved, Ops,
     CallInv, CommitLabels
<1>8. ASSUME NEW t \in Thread, Install(t)
      PROVE  CallInv'
  BY <1>8 DEF Install, TypeOK, At, logVars, SpaceReserved, Ops, CallInv,
     CommitLabels
<1>9. ASSUME NEW t \in Thread, EraseHead(t)
      PROVE  CallInv'
  BY <1>9 DEF EraseHead, TypeOK, Goto, At, SpaceReserved, Ops, CallInv,
     CommitLabels
<1>10. ASSUME NEW t \in Thread, EndCommit(t)
      PROVE  CallInv'
  BY <1>10 DEF EndCommit, TypeOK, WakeAndGoto, At, disk, SpaceReserved, Ops,
     CallInv, CommitLabels
<1>11. ASSUME ReadHead
      PROVE  CallInv'
  BY <1>11 DEF ReadHead, TypeOK, disk, SpaceReserved, Ops, CallInv,
     CommitLabels
<1>12. ASSUME RecoverInstall
      PROVE  CallInv'
  BY <1>12 DEF RecoverInstall, TypeOK, logVars, SpaceReserved, Ops, CallInv,
     CommitLabels
<1>13. ASSUME RecoverErase
      PROVE  CallInv'
  BY <1>13 DEF RecoverErase, TypeOK, SpaceReserved, Ops, CallInv, CommitLabels
<1>14. ASSUME Crash
      PROVE  CallInv'
  <2>1. Ops' = {}  BY <1>14 DEF Crash, Ops
  <2> QED  BY <1>14, <2>1, FS_EmptySet DEF Crash, CallInv, CommitLabels
<1> QED  BY <1>1, <1>2, <1>3, <1>4, <1>5, <1>6, <1>7, <1>8, <1>9, <1>10,
            <1>11, <1>12, <1>13, <1>14 DEF Next, OpStep, CommitStep, RecoverStep

\* The types are kept.
LEMMA TypeStep ==
    ASSUME IInv, Next
    PROVE  TypeOK'
<1> USE Sizes DEF IInv
<1>1. ASSUME NEW t \in Thread, Call(t)
      PROVE  TypeOK'
  BY <1>1 DEF Call, TypeOK, Goto, At, disk, logVars, SpaceReserved
<1>2. ASSUME NEW t \in Thread, BeginOp(t)
      PROVE  TypeOK'
  <2> USE <1>2 DEF BeginOp, At, Goto, TypeOK, SpaceReserved
  <2>1. t \in Thread \ Ops  BY DEF Ops
  <2>2. outstanding' = outstanding \/ outstanding' = outstanding + 1  OBVIOUS
  <2>3. /\ outstanding \in 0 .. Cardinality(Thread) /\ Cardinality(Thread) \in Nat
        /\ outstanding + 1 <= Cardinality(Thread)
    <3> HIDE <1>2
    <3> QED  BY <2>1, CallCount
  <2>4. outstanding' \in 0 .. Cardinality(Thread)  BY <2>2, <2>3
  <2> QED  BY <2>4 DEF disk
<1>3. ASSUME NEW t \in Thread, NEW b \in Block, NEW v \in Val, LogWrite(t, b, v)
      PROVE  TypeOK'
  <2> USE <1>3 DEF LogWrite, MayWrite, At, TypeOK, SpaceReserved
  <2>1. lh' = lh \/ lh' = Append(lh, b)  OBVIOUS
  <2>2. lh' \in Seq(Block) /\ Len(lh') <= LOGSIZE
    <3>1. Len(lh) \in Nat /\ Len(lh) < LOGSIZE  BY LogAssumption DEF LogFull
    <3>2. Append(lh, b) \in Seq(Block) /\ Len(Append(lh, b)) = Len(lh) + 1  OBVIOUS
    <3>3. CASE lh' = lh  BY <3>1, <3>3
    <3>4. CASE lh' = Append(lh, b)  BY <3>1, <3>2, <3>4
    <3> QED  BY <2>1, <3>3, <3>4
  <2>3. pinned' \subseteq Block  BY DEF PinNew
  <2>4. cache' \in [Block -> Val] /\ wrote' \in [Thread -> SUBSET Block]
    OBVIOUS
  <2> QED  BY <2>2, <2>3, <2>4 DEF disk
<1>4. ASSUME NEW t \in Thread, EndOp(t)
      PROVE  TypeOK'
  <2> USE <1>4 DEF EndOp, At, TypeOK, SpaceReserved
  <2>1. t \in Ops  BY DEF Ops
  <2>2. outstanding' \in 0 .. Cardinality(Thread)  BY <2>1, CallCount
  <2>3. pc' \in [Thread -> {"idle", "begin", "asleep", "op", "write_log",
                            "install", "done"}]
    BY DEF Goto, WakeAndGoto
  <2>4. wrote' \in [Thread -> SUBSET Block]  OBVIOUS
  <2>5. tail' \in 1 .. LOGSIZE + 1  OBVIOUS
  <2>6. committing' \in BOOLEAN  BY Zenon
  <2> QED  BY <2>2, <2>3, <2>4, <2>5, <2>6 DEF disk
<1>5. ASSUME NEW t \in Thread, WriteLog(t)
      PROVE  TypeOK'
  BY <1>5 DEF WriteLog, TypeOK, At, logVars, SpaceReserved, View
<1>6. ASSUME NEW t \in Thread, CommitEmpty(t)
      PROVE  TypeOK'
  BY <1>6 DEF CommitEmpty, TypeOK, Goto, At, disk, logVars, SpaceReserved
<1>7. ASSUME NEW t \in Thread, WriteHead(t)
      PROVE  TypeOK'
  BY <1>7 DEF WriteHead, TypeOK, Goto, At, logVars, SpaceReserved
<1>8. ASSUME NEW t \in Thread, Install(t)
      PROVE  TypeOK'
  BY <1>8 DEF Install, TypeOK, At, logVars, SpaceReserved
<1>9. ASSUME NEW t \in Thread, EraseHead(t)
      PROVE  TypeOK'
  BY <1>9 DEF EraseHead, TypeOK, Goto, At, SpaceReserved
<1>10. ASSUME NEW t \in Thread, EndCommit(t)
      PROVE  TypeOK'
  BY <1>10 DEF EndCommit, TypeOK, WakeAndGoto, At, disk, SpaceReserved
<1>11. ASSUME ReadHead
      PROVE  TypeOK'
  BY <1>11 DEF ReadHead, TypeOK, disk, SpaceReserved
<1>12. ASSUME RecoverInstall
      PROVE  TypeOK'
  BY <1>12 DEF RecoverInstall, TypeOK, logVars, SpaceReserved
<1>13. ASSUME RecoverErase
      PROVE  TypeOK'
  BY <1>13 DEF RecoverErase, TypeOK, SpaceReserved
<1>14. ASSUME Crash
      PROVE  TypeOK'
  <2>1. 0 \in 0 .. Cardinality(Thread)  BY CallCount
  <2>2. lh' \in Seq(Block) /\ Len(lh') <= LOGSIZE  BY <1>14 DEF Crash
  <2>3. committing' \in BOOLEAN  BY <1>14, Zenon DEF Crash
  <2> QED  BY <1>14, <2>1, <2>2, <2>3 DEF Crash, TypeOK, SpaceReserved, disk
<1> QED  BY <1>1, <1>2, <1>3, <1>4, <1>5, <1>6, <1>7, <1>8, <1>9, <1>10,
            <1>11, <1>12, <1>13, <1>14 DEF Next, OpStep, CommitStep, RecoverStep

\* An empty header names nothing, and nothing twice.
LEMMA EmptyHeader == Injective(<<>>) /\ {<<>>[i] : i \in 1 .. Len(<<>>)} = {}
  BY DEF Injective

\* HeaderInv is kept.
LEMMA HeaderStep ==
    ASSUME IInv, Next
    PROVE  HeaderInv'
<1> USE DEF IInv
<1>1. ASSUME NEW t \in Thread, Call(t)
      PROVE  HeaderInv'
  BY <1>1 DEF Call, TypeOK, Goto, At, disk, logVars, SpaceReserved, Logged,
     HeaderInv, CallInv, CommitLabels
<1>2. ASSUME NEW t \in Thread, BeginOp(t)
      PROVE  HeaderInv'
  <2> USE <1>2 DEF BeginOp, At, Goto, SpaceReserved, TypeOK
  <2>1. outstanding' = 0 => outstanding = 0 /\ pc'[t] = "asleep"
    BY CallCount
  <2>2. \A u \in Thread : pc'[u] # "op" => pc[u] # "op"  OBVIOUS
  <2> QED  BY <2>1, <2>2 DEF HeaderInv, Logged, disk
<1>3. ASSUME NEW t \in Thread, NEW b \in Block, NEW v \in Val, LogWrite(t, b, v)
      PROVE  HeaderInv'
  <2> USE <1>3 DEF LogWrite, MayWrite, At
  <2>1. t \in Ops /\ outstanding # 0
    <3>1. t \in Ops  BY DEF Ops
    <3> QED  BY <3>1, CallCount
  <2>2. Injective(lh') /\ Logged' = Logged \cup {b}
    <3>1. CASE b \in Logged  BY <3>1 DEF HeaderInv, Logged
    <3>2. CASE b \notin Logged
      <4>1. lh' = Append(lh, b)  BY <3>2
      <4>2. \A i \in 1 .. Len(lh) : lh[i] # b  BY <3>2 DEF Logged
      <4>3. lh \in Seq(Block) /\ Injective(lh)
        BY DEF HeaderInv, SpaceReserved, TypeOK
      <4> QED  BY <4>1, <4>2, <4>3, AppendNew DEF Logged
    <3> QED  BY <3>1, <3>2
  <2>3. \A u \in Thread : wrote'[u] \subseteq wrote[u] \cup {b}
    BY DEF SpaceReserved, TypeOK
  <2>4. \A u \in Thread : pc[u] # "op" => wrote'[u] = wrote[u]
    BY DEF SpaceReserved, TypeOK
  <2> QED  BY <2>1, <2>2, <2>3, <2>4 DEF HeaderInv, disk
<1>4. ASSUME NEW t \in Thread, EndOp(t)
      PROVE  HeaderInv'
  <2>1. lh' = lh /\ hdr' = hdr
    BY <1>4 DEF EndOp, disk
  <2>2. \A u \in Thread : /\ wrote'[u] \in SUBSET wrote[u]
                          /\ pc'[u] # "op" => wrote'[u] = {}
    BY <1>4 DEF EndOp, At, Goto, WakeAndGoto, SpaceReserved, TypeOK, HeaderInv
  <2>3. outstanding' # 0 \/ committing'
    <3>1. outstanding \in Nat /\ outstanding # 0
      BY <1>4, CallCount DEF EndOp, At, Ops, SpaceReserved, TypeOK
    <3> QED  BY <1>4, <3>1 DEF EndOp
  <2>4. Injective(lh)' /\ Injective(hdr)' /\ Logged' = Logged
    BY <2>1 DEF HeaderInv, Injective, Logged
  <2> QED  BY <2>2, <2>3, <2>4 DEF HeaderInv
<1>5. ASSUME NEW t \in Thread, WriteLog(t)
      PROVE  HeaderInv'
  BY <1>5 DEF WriteLog, TypeOK, At, logVars, SpaceReserved, Logged,
     HeaderInv, CallInv, CommitLabels
<1>6. ASSUME NEW t \in Thread, CommitEmpty(t)
      PROVE  HeaderInv'
  BY <1>6 DEF CommitEmpty, TypeOK, Goto, At, disk, logVars, SpaceReserved,
     Logged, HeaderInv, CallInv, CommitLabels
<1>7. ASSUME NEW t \in Thread, WriteHead(t)
      PROVE  HeaderInv'
  BY <1>7 DEF WriteHead, TypeOK, Goto, At, logVars, SpaceReserved, Logged,
     HeaderInv, CallInv, CommitLabels
<1>8. ASSUME NEW t \in Thread, Install(t)
      PROVE  HeaderInv'
  BY <1>8 DEF Install, TypeOK, At, logVars, SpaceReserved, Logged, HeaderInv,
     CallInv, CommitLabels
<1>9. ASSUME NEW t \in Thread, EraseHead(t)
      PROVE  HeaderInv'
  <2> USE <1>9 DEF EraseHead, At
  <2>1. \A u \in Thread : wrote'[u] = {}
    BY DEF CallInv, CommitLabels, Ops, HeaderInv
  <2>2. \A u \in Thread : pc'[u] # "op"
    BY DEF CallInv, CommitLabels, Ops, Goto, SpaceReserved, TypeOK
  <2> QED  BY <2>1, <2>2, EmptyHeader DEF HeaderInv
<1>10. ASSUME NEW t \in Thread, EndCommit(t)
      PROVE  HeaderInv'
  <2> USE <1>10 DEF EndCommit, At
  <2>1. lh' = <<>>  BY DEF PhaseInv
  <2>2. \A u \in Thread : pc'[u] = "op" <=> pc[u] = "op"
    BY DEF WakeAndGoto
  <2> QED  BY <2>1, <2>2 DEF HeaderInv, Logged, disk
<1>11. ASSUME ReadHead
      PROVE  HeaderInv'
  BY <1>11 DEF ReadHead, TypeOK, disk, SpaceReserved, Logged, HeaderInv,
     CallInv, CommitLabels
<1>12. ASSUME RecoverInstall
      PROVE  HeaderInv'
  BY <1>12 DEF RecoverInstall, TypeOK, logVars, SpaceReserved, Logged,
     HeaderInv, CallInv, CommitLabels
<1>13. ASSUME RecoverErase
      PROVE  HeaderInv'
  <2> USE <1>13 DEF RecoverErase
  <2>1. \A u \in Thread : wrote'[u] = {}
    BY DEF CallInv, HeaderInv
  <2> QED  BY <2>1, EmptyHeader DEF HeaderInv
<1>14. ASSUME Crash
      PROVE  HeaderInv'
  <2> USE <1>14 DEF Crash
  <2>1. \A u \in Thread : wrote'[u] = {}  OBVIOUS
  <2> QED  BY <2>1, EmptyHeader DEF HeaderInv, disk
<1> QED  BY <1>1, <1>2, <1>3, <1>4, <1>5, <1>6, <1>7, <1>8, <1>9, <1>10,
            <1>11, <1>12, <1>13, <1>14 DEF Next, OpStep, CommitStep, RecoverStep

\* PhaseInv is kept.
LEMMA PhaseStep ==
    ASSUME IInv, Next
    PROVE  PhaseInv'
<1> USE Sizes DEF IInv
<1>1. ASSUME NEW t \in Thread, Call(t)
      PROVE  PhaseInv'
  BY <1>1 DEF Call, TypeOK, Goto, At, disk, logVars, SpaceReserved, Logged,
     HeaderInv, CallInv, CommitLabels, PhaseInv, Injective
<1>2. ASSUME NEW t \in Thread, BeginOp(t)
      PROVE  PhaseInv'
  BY <1>2 DEF BeginOp, TypeOK, Goto, At, disk, SpaceReserved, Logged,
     HeaderInv, CallInv, CommitLabels, PhaseInv, Injective
<1>3. ASSUME NEW t \in Thread, NEW b \in Block, NEW v \in Val, LogWrite(t, b, v)
      PROVE  PhaseInv'
  <2> USE <1>3 DEF LogWrite, MayWrite, At
  <2>1. \A u \in Thread : pc[u] \notin CommitLabels
    BY DEF CallInv, Ops
  <2>2. hdr' = <<>> /\ pinned = Logged
    BY <2>1 DEF PhaseInv, CommitLabels, disk
  <2>3. pinned' = Logged'
    <3>1. CASE b \in Logged  BY <2>2, <3>1 DEF Logged
    <3>2. CASE b \notin Logged
      <4>1. lh' = Append(lh, b) /\ pinned' = pinned \cup {b}
        BY <3>2 DEF PinNew
      <4>2. \A i \in 1 .. Len(lh) : lh[i] # b  BY <3>2 DEF Logged
      <4>3. lh \in Seq(Block) /\ Injective(lh)
        BY DEF HeaderInv, SpaceReserved, TypeOK
      <4> QED  BY <2>2, <4>1, <4>2, <4>3, AppendNew DEF Logged
    <3> QED  BY <3>1, <3>2
  <2> QED  BY <2>1, <2>2, <2>3 DEF PhaseInv, CommitLabels
<1>4. ASSUME NEW t \in Thread, EndOp(t)
      PROVE  PhaseInv'
  <2> USE <1>4 DEF EndOp, At
  <2>1. \A u \in Thread : pc[u] \notin CommitLabels
    BY DEF CallInv, Ops
  <2>2. hdr' = <<>> /\ pinned' = Logged'
    BY <2>1 DEF PhaseInv, CommitLabels, disk, Logged
  <2>3. \A u \in Thread : pc'[u] \in CommitLabels => pc'[u] = "write_log" /\ tail' = 1
    BY <2>1 DEF CommitLabels, Goto, WakeAndGoto, SpaceReserved, TypeOK
  <2>4. lh' = lh /\ lh \in Seq(Block)  BY DEF SpaceReserved, TypeOK
  <2> QED  BY <2>2, <2>3, <2>4 DEF PhaseInv, CommitLabels
<1>5. ASSUME NEW t \in Thread, WriteLog(t)
      PROVE  PhaseInv'
  BY <1>5 DEF WriteLog, TypeOK, At, logVars, SpaceReserved, Logged,
     HeaderInv, CallInv, CommitLabels, PhaseInv, Injective, View
<1>6. ASSUME NEW t \in Thread, CommitEmpty(t)
      PROVE  PhaseInv'
  BY <1>6 DEF CommitEmpty, TypeOK, Goto, At, disk, logVars, SpaceReserved,
     Logged, HeaderInv, CallInv, CommitLabels, PhaseInv, Injective
<1>7. ASSUME NEW t \in Thread, WriteHead(t)
      PROVE  PhaseInv'
  BY <1>7 DEF WriteHead, TypeOK, Goto, At, logVars, SpaceReserved, Logged,
     HeaderInv, CallInv, CommitLabels, PhaseInv, Injective
<1>8. ASSUME NEW t \in Thread, Install(t)
      PROVE  PhaseInv'
  BY <1>8 DEF Install, TypeOK, At, logVars, SpaceReserved, Logged, HeaderInv,
     CallInv, CommitLabels, PhaseInv, Injective
<1>9. ASSUME NEW t \in Thread, EraseHead(t)
      PROVE  PhaseInv'
  BY <1>9 DEF EraseHead, TypeOK, Goto, At, SpaceReserved, Logged, HeaderInv,
     CallInv, CommitLabels, PhaseInv, Injective
<1>10. ASSUME NEW t \in Thread, EndCommit(t)
      PROVE  PhaseInv'
  BY <1>10 DEF EndCommit, TypeOK, WakeAndGoto, At, disk, SpaceReserved,
     Logged, HeaderInv, CallInv, CommitLabels, PhaseInv, Injective
<1>11. ASSUME ReadHead
      PROVE  PhaseInv'
  BY <1>11 DEF ReadHead, TypeOK, disk, SpaceReserved, Logged, HeaderInv,
     CallInv, CommitLabels, PhaseInv, Injective
<1>12. ASSUME RecoverInstall
      PROVE  PhaseInv'
  BY <1>12 DEF RecoverInstall, TypeOK, logVars, SpaceReserved, Logged,
     HeaderInv, CallInv, CommitLabels, PhaseInv, Injective
<1>13. ASSUME RecoverErase
      PROVE  PhaseInv'
  <2> USE <1>13 DEF RecoverErase
  <2>1. hdr' = <<>> /\ pinned' = Logged'
    BY EmptyHeader DEF RecoverInv, Logged
  <2>2. \A u \in Thread : pc'[u] = "idle"  BY DEF CallInv
  <2> QED  BY <2>1, <2>2 DEF PhaseInv
<1>14. ASSUME Crash
      PROVE  PhaseInv'
  BY <1>14 DEF Crash, TypeOK, disk, SpaceReserved, Logged, HeaderInv,
     CallInv, CommitLabels, PhaseInv, Injective
<1> QED  BY <1>1, <1>2, <1>3, <1>4, <1>5, <1>6, <1>7, <1>8, <1>9, <1>10,
            <1>11, <1>12, <1>13, <1>14 DEF Next, OpStep, CommitStep, RecoverStep

\* RecoverInv is kept.
LEMMA RecoverStepInv ==
    ASSUME IInv, Next
    PROVE  RecoverInv'
<1> USE Sizes DEF IInv
<1>1. ASSUME NEW t \in Thread, Call(t)
      PROVE  RecoverInv'
  BY <1>1 DEF Call, TypeOK, Goto, At, disk, logVars, SpaceReserved, Logged,
     HeaderInv, CallInv, CommitLabels, RecoverInv, Injective
<1>2. ASSUME NEW t \in Thread, BeginOp(t)
      PROVE  RecoverInv'
  BY <1>2 DEF BeginOp, TypeOK, Goto, At, disk, SpaceReserved, Logged,
     HeaderInv, CallInv, CommitLabels, RecoverInv, Injective
<1>3. ASSUME NEW t \in Thread, NEW b \in Block, NEW v \in Val, LogWrite(t, b, v)
      PROVE  RecoverInv'
  BY <1>3 DEF LogWrite, MayWrite, At, RecoverInv
<1>4. ASSUME NEW t \in Thread, EndOp(t)
      PROVE  RecoverInv'
  BY <1>4 DEF EndOp, TypeOK, Goto, WakeAndGoto, At, disk, SpaceReserved,
     Logged, HeaderInv, CallInv, CommitLabels, RecoverInv, Injective
<1>5. ASSUME NEW t \in Thread, WriteLog(t)
      PROVE  RecoverInv'
  BY <1>5 DEF WriteLog, TypeOK, At, logVars, SpaceReserved, Logged,
     HeaderInv, CallInv, CommitLabels, RecoverInv, Injective
<1>6. ASSUME NEW t \in Thread, CommitEmpty(t)
      PROVE  RecoverInv'
  BY <1>6 DEF CommitEmpty, TypeOK, Goto, At, disk, logVars, SpaceReserved,
     Logged, HeaderInv, CallInv, CommitLabels, RecoverInv, Injective
<1>7. ASSUME NEW t \in Thread, WriteHead(t)
      PROVE  RecoverInv'
  BY <1>7 DEF WriteHead, TypeOK, Goto, At, logVars, SpaceReserved, Logged,
     HeaderInv, CallInv, CommitLabels, RecoverInv, Injective
<1>8. ASSUME NEW t \in Thread, Install(t)
      PROVE  RecoverInv'
  BY <1>8 DEF Install, TypeOK, At, logVars, SpaceReserved, Logged, HeaderInv,
     CallInv, CommitLabels, RecoverInv, Injective
<1>9. ASSUME NEW t \in Thread, EraseHead(t)
      PROVE  RecoverInv'
  BY <1>9 DEF EraseHead, TypeOK, Goto, At, SpaceReserved, Logged, HeaderInv,
     CallInv, CommitLabels, RecoverInv, Injective
<1>10. ASSUME NEW t \in Thread, EndCommit(t)
      PROVE  RecoverInv'
  BY <1>10 DEF EndCommit, TypeOK, WakeAndGoto, At, disk, SpaceReserved,
     Logged, HeaderInv, CallInv, CommitLabels, RecoverInv, Injective
<1>11. ASSUME ReadHead
      PROVE  RecoverInv'
  BY <1>11 DEF ReadHead, TypeOK, disk, SpaceReserved, Logged, HeaderInv,
     CallInv, CommitLabels, RecoverInv, Injective
<1>12. ASSUME RecoverInstall
      PROVE  RecoverInv'
  BY <1>12 DEF RecoverInstall, TypeOK, logVars, SpaceReserved, Logged,
     HeaderInv, CallInv, CommitLabels, RecoverInv, Injective
<1>13. ASSUME RecoverErase
      PROVE  RecoverInv'
  BY <1>13 DEF RecoverErase, TypeOK, SpaceReserved, Logged, HeaderInv,
     CallInv, CommitLabels, RecoverInv, Injective
<1>14. ASSUME Crash
      PROVE  RecoverInv'
  BY <1>14 DEF Crash, TypeOK, disk, SpaceReserved, Logged, HeaderInv,
     CallInv, CommitLabels, RecoverInv, Injective
<1> QED  BY <1>1, <1>2, <1>3, <1>4, <1>5, <1>6, <1>7, <1>8, <1>9, <1>10,
            <1>11, <1>12, <1>13, <1>14 DEF Next, OpStep, CommitStep, RecoverStep

\* SleeperHasWaker is kept.
LEMMA SleeperStep ==
    ASSUME IInv, Next
    PROVE  SleeperHasWaker'
<1> USE Sizes, CallCount DEF IInv
<1>1. ASSUME NEW t \in Thread, Call(t)
      PROVE  SleeperHasWaker'
  BY <1>1 DEF Call, TypeOK, Goto, At, disk, logVars, SpaceReserved,
     HeaderInv, CallInv, SleeperHasWaker, CommitLabels
<1>2. ASSUME NEW t \in Thread, BeginOp(t)
      PROVE  SleeperHasWaker'
  <2> USE <1>2 DEF BeginOp, At, Goto, SpaceReserved, TypeOK
  <2>1. CASE committing \/ NoSpace
    <3>1. outstanding > 0 \/ committing
      <4>1. SUFFICES ASSUME outstanding = 0, ~ committing  PROVE FALSE
        BY CallCount
      <4>2. lh = <<>>  BY <4>1 DEF HeaderInv
      <4> QED  BY <2>1, <4>1, <4>2, LogAssumption DEF NoSpace, LOGSIZE
    <3> QED  BY <2>1, <3>1 DEF SleeperHasWaker
  <2>2. CASE ~ (committing \/ NoSpace)
    BY <2>2, CallCount DEF SleeperHasWaker
  <2> QED  BY <2>1, <2>2
<1>3. ASSUME NEW t \in Thread, NEW b \in Block, NEW v \in Val, LogWrite(t, b, v)
      PROVE  SleeperHasWaker'
  BY <1>3 DEF LogWrite, TypeOK, disk, SpaceReserved, HeaderInv, CallInv,
     SleeperHasWaker, CommitLabels
<1>4. ASSUME NEW t \in Thread, EndOp(t)
      PROVE  SleeperHasWaker'
  BY <1>4, SMTT(30) DEF EndOp, TypeOK, Goto, WakeAndGoto, At, disk,
     SpaceReserved,
     HeaderInv, CallInv, SleeperHasWaker, CommitLabels
<1>5. ASSUME NEW t \in Thread, WriteLog(t)
      PROVE  SleeperHasWaker'
  BY <1>5 DEF WriteLog, TypeOK, At, logVars, SpaceReserved, HeaderInv,
     CallInv, SleeperHasWaker, CommitLabels
<1>6. ASSUME NEW t \in Thread, CommitEmpty(t)
      PROVE  SleeperHasWaker'
  BY <1>6 DEF CommitEmpty, TypeOK, Goto, At, disk, logVars, SpaceReserved,
     HeaderInv, CallInv, SleeperHasWaker, CommitLabels
<1>7. ASSUME NEW t \in Thread, WriteHead(t)
      PROVE  SleeperHasWaker'
  BY <1>7 DEF WriteHead, TypeOK, Goto, At, logVars, SpaceReserved, HeaderInv,
     CallInv, SleeperHasWaker, CommitLabels
<1>8. ASSUME NEW t \in Thread, Install(t)
      PROVE  SleeperHasWaker'
  BY <1>8 DEF Install, TypeOK, At, logVars, SpaceReserved, HeaderInv,
     CallInv, SleeperHasWaker, CommitLabels
<1>9. ASSUME NEW t \in Thread, EraseHead(t)
      PROVE  SleeperHasWaker'
  BY <1>9 DEF EraseHead, TypeOK, Goto, At, SpaceReserved, HeaderInv, CallInv,
     SleeperHasWaker, CommitLabels
<1>10. ASSUME NEW t \in Thread, EndCommit(t)
      PROVE  SleeperHasWaker'
  BY <1>10 DEF EndCommit, TypeOK, WakeAndGoto, At, disk, SpaceReserved,
     HeaderInv, CallInv, SleeperHasWaker, CommitLabels
<1>11. ASSUME ReadHead
      PROVE  SleeperHasWaker'
  BY <1>11 DEF ReadHead, TypeOK, disk, SpaceReserved, HeaderInv, CallInv,
     SleeperHasWaker, CommitLabels
<1>12. ASSUME RecoverInstall
      PROVE  SleeperHasWaker'
  BY <1>12 DEF RecoverInstall, TypeOK, logVars, SpaceReserved, HeaderInv,
     CallInv, SleeperHasWaker, CommitLabels
<1>13. ASSUME RecoverErase
      PROVE  SleeperHasWaker'
  BY <1>13 DEF RecoverErase, TypeOK, SpaceReserved, HeaderInv, CallInv,
     SleeperHasWaker, CommitLabels
<1>14. ASSUME Crash
      PROVE  SleeperHasWaker'
  BY <1>14 DEF Crash, TypeOK, disk, SpaceReserved, HeaderInv, CallInv,
     SleeperHasWaker, CommitLabels
<1> QED  BY <1>1, <1>2, <1>3, <1>4, <1>5, <1>6, <1>7, <1>8, <1>9, <1>10,
            <1>11, <1>12, <1>13, <1>14 DEF Next, OpStep, CommitStep, RecoverStep

-----------------------------------------------------------------------------
(* The space that begin_op() reserves.                                     *)

\* What the calls in progress may write: MAXOPBLOCKS for each at most.
LEMMA ReservedBound ==
    ASSUME CallInv
    PROVE  /\ IsFiniteSet(Reserved) /\ Cardinality(Reserved) \in Nat
           /\ Cardinality(Reserved) <= outstanding * MAXOPBLOCKS
           /\ Ops = {} => Reserved = {} /\ Cardinality(Reserved) = 0
<1> DEFINE P == Ops \X (1 .. MAXOPBLOCKS)
<1>1. IsFiniteSet(Ops) /\ Cardinality(Ops) = outstanding
  BY Finite DEF Ops, CallInv
<1>2. IsFiniteSet(1 .. MAXOPBLOCKS) /\ Cardinality(1 .. MAXOPBLOCKS) = MAXOPBLOCKS
  BY FS_Interval, LogAssumption
<1>3. IsFiniteSet(P) /\ Cardinality(P) = outstanding * MAXOPBLOCKS
  BY <1>1, <1>2, FS_Product
<1>4. Reserved \in SUBSET P
  BY DEF Reserved, Ops
<1>5. /\ IsFiniteSet(Reserved) /\ Cardinality(Reserved) <= Cardinality(P)
      /\ Cardinality(Reserved) \in Nat
  BY <1>3, <1>4, FS_Subset, FS_CardinalityType
<1>6. Ops = {} => Reserved = {}
  BY DEF Reserved, Ops
<1> QED  BY <1>3, <1>5, <1>6, FS_EmptySet

\* A step that neither logs a block nor reserves space keeps within LOGSIZE.
LEMMA NoMoreSpace ==
    ASSUME CallInv, TypeOK, TypeOK', Len(lh) + Cardinality(Reserved) <= LOGSIZE,
           Len(lh') <= Len(lh),
           \A t \in Thread : pc'[t] = "op" => pc[t] = "op" /\ wrote'[t] = wrote[t]
    PROVE  Len(lh') + Cardinality(Reserved') <= LOGSIZE
<1>1. Reserved' \in SUBSET Reserved
  BY DEF Reserved
<1>2. IsFiniteSet(Reserved') /\ Cardinality(Reserved') <= Cardinality(Reserved)
  BY <1>1, ReservedBound, FS_Subset
<1>3. Cardinality(Reserved') \in Nat /\ Cardinality(Reserved) \in Nat
  BY <1>2, ReservedBound, FS_CardinalityType
<1>4. Len(lh) \in Nat /\ Len(lh') \in Nat
  BY DEF TypeOK
<1> QED  BY <1>2, <1>3, <1>4, Sizes

\* begin_op() reserves enough, log_write() uses up what was reserved, and
\* end_op() gives it back.
LEMMA SpaceStep ==
    ASSUME IInv, Next
    PROVE  Len(lh') + Cardinality(Reserved') <= LOGSIZE
<1> USE TypeStep DEF IInv, SpaceReserved
<1>1. ASSUME NEW t \in Thread, Call(t)
      PROVE  Len(lh') + Cardinality(Reserved') <= LOGSIZE
  <2>1. /\ Len(lh') <= Len(lh)
        /\ \A u \in Thread : pc'[u] = "op" => pc[u] = "op" /\ wrote'[u] = wrote[u]
    BY <1>1 DEF Call, At, Goto, logVars, TypeOK
  <2> QED  BY <2>1, NoMoreSpace
<1>2. ASSUME NEW t \in Thread, BeginOp(t)
      PROVE  Len(lh') + Cardinality(Reserved') <= LOGSIZE
  <2>1. CASE committing \/ NoSpace
    <3>1. /\ Len(lh') <= Len(lh)
          /\ \A u \in Thread : pc'[u] = "op" => pc[u] = "op" /\ wrote'[u] = wrote[u]
      BY <1>2, <2>1 DEF BeginOp, At, Goto, TypeOK
    <3> QED  BY <3>1, NoMoreSpace
  <2>2. CASE ~ (committing \/ NoSpace)
    <3>1. t \in Thread \ Ops /\ Ops' = Ops \cup {t}
      BY <1>2, <2>2 DEF BeginOp, At, Goto, Ops, TypeOK
    <3>2. IsFiniteSet(Ops') /\ Cardinality(Ops') = outstanding + 1
      BY <3>1, CallCount, Finite DEF Ops
    <3>3. /\ IsFiniteSet(1 .. MAXOPBLOCKS)
          /\ Cardinality(1 .. MAXOPBLOCKS) = MAXOPBLOCKS
      BY FS_Interval, LogAssumption
    <3>4. /\ IsFiniteSet(Ops' \X (1 .. MAXOPBLOCKS))
          /\ Cardinality(Ops' \X (1 .. MAXOPBLOCKS)) = (outstanding + 1) * MAXOPBLOCKS
      BY <3>2, <3>3, FS_Product
    <3>5. Reserved' \in SUBSET (Ops' \X (1 .. MAXOPBLOCKS))
      BY DEF Reserved, Ops
    <3>6. /\ Cardinality(Reserved') \in Nat
          /\ Cardinality(Reserved') <= (outstanding + 1) * MAXOPBLOCKS
      BY <3>4, <3>5, FS_Subset, FS_CardinalityType
    <3>7. Len(lh) + (outstanding + 1) * MAXOPBLOCKS <= LOGSIZE /\ lh' = lh
      <4>1. outstanding + 1 \in Nat /\ (outstanding + 1) * MAXOPBLOCKS \in Nat
        BY Sizes, CallCount
      <4>2. Len(lh) \in Nat  BY DEF TypeOK
      <4> QED  BY <1>2, <2>2, <4>1, <4>2, Sizes DEF BeginOp, NoSpace
    <3>8. (outstanding + 1) * MAXOPBLOCKS \in Int /\ Len(lh) \in Nat
      BY CallCount, Sizes DEF TypeOK
    <3> QED  BY <3>6, <3>7, <3>8, Sizes
  <2> QED  BY <2>1, <2>2
<1>3. ASSUME NEW t \in Thread, NEW b \in Block, NEW v \in Val, LogWrite(t, b, v)
      PROVE  Len(lh') + Cardinality(Reserved') <= LOGSIZE
  <2> DEFINE k == MAXOPBLOCKS - Cardinality(wrote[t])
  <2> USE <1>3 DEF LogWrite, MayWrite, At
  <2>1. /\ wrote[t] \in SUBSET Block /\ Cardinality(wrote[t]) \in Nat
        /\ wrote'[t] = wrote[t] \cup {b}
        /\ \A u \in Thread : u # t => wrote'[u] = wrote[u]
        /\ pc' = pc
    BY Finite DEF TypeOK
  <2>2. /\ Cardinality(wrote'[t]) \in Nat /\ Cardinality(wrote[t]) <= Cardinality(wrote'[t])
        /\ b \notin wrote[t] => Cardinality(wrote'[t]) = Cardinality(wrote[t]) + 1
    <3>1. IsFiniteSet(wrote[t])  BY <2>1, Finite
    <3>2. Cardinality(wrote[t] \cup {b}) =
            IF b \in wrote[t] THEN Cardinality(wrote[t]) ELSE Cardinality(wrote[t]) + 1
      BY <3>1, FS_AddElement
    <3>3. wrote'[t] = wrote[t] \cup {b} /\ Cardinality(wrote[t]) \in Nat
      BY <2>1
    <3> HIDE <1>3
    <3> QED  BY <3>2, <3>3
  <2>3. Reserved' \in SUBSET Reserved
    <3>1. ASSUME NEW u \in Thread \X (1 .. MAXOPBLOCKS), pc[u[1]] = "op",
                 u[2] <= MAXOPBLOCKS - Cardinality(wrote'[u[1]])
          PROVE  u[2] <= MAXOPBLOCKS - Cardinality(wrote[u[1]])
      <4>1. u[1] \in Thread /\ u[2] \in 1 .. MAXOPBLOCKS  OBVIOUS
      <4>2. CASE u[1] = t
        <5>1. u[2] <= MAXOPBLOCKS - Cardinality(wrote'[t])  BY <3>1, <4>2
        <5>2. u[2] <= MAXOPBLOCKS - Cardinality(wrote[t])
          <6> HIDE <1>3
          <6> QED  BY <2>1, <2>2, <4>1, <5>1, Sizes
        <5> QED  BY <4>2, <5>2
      <4>3. CASE u[1] # t  BY <2>1, <3>1, <4>1, <4>3
      <4> QED  BY <4>2, <4>3
    <3> QED  BY <2>1, <3>1 DEF Reserved
  <2>4. /\ IsFiniteSet(Reserved') /\ Cardinality(Reserved') \in Nat
        /\ IsFiniteSet(Reserved) /\ Cardinality(Reserved) \in Nat
        /\ Cardinality(Reserved') <= Cardinality(Reserved)
    BY <2>3, ReservedBound, FS_Subset, FS_CardinalityType
  <2>5. Len(lh) \in Nat  BY DEF TypeOK
  <2>6. CASE b \in Logged
    BY <2>4, <2>5, <2>6, Sizes
  <2>7. CASE b \notin Logged
    <3>1. b \notin wrote[t]  BY <2>7 DEF HeaderInv
    <3>2. k \in 1 .. MAXOPBLOCKS /\ Cardinality(wrote'[t]) = MAXOPBLOCKS - k + 1
      <4>1. Cardinality(wrote'[t]) <= MAXOPBLOCKS  BY <2>1
      <4>2. /\ Cardinality(wrote[t]) \in Nat
            /\ Cardinality(wrote'[t]) = Cardinality(wrote[t]) + 1
        BY <2>1, <2>2, <3>1
      <4> HIDE <1>3
      <4> QED  BY <4>1, <4>2, Sizes
    <3>3. <<t, k>> \in Reserved
      BY <3>2 DEF Reserved
    <3>4. <<t, k>> \notin Reserved'
      <4>1. ~ (k <= MAXOPBLOCKS - Cardinality(wrote'[t]))  BY <3>2, Sizes
      <4> QED  BY <4>1 DEF Reserved
    <3>5. Reserved' \in SUBSET (Reserved \ {<<t, k>>})
      BY <2>3, <3>4
    <3>6. /\ IsFiniteSet(Reserved \ {<<t, k>>})
          /\ Cardinality(Reserved \ {<<t, k>>}) = Cardinality(Reserved) - 1
      BY <2>4, <3>3, FS_RemoveElement, SMTT(30)
    <3>7. Cardinality(Reserved') <= Cardinality(Reserved) - 1
      <4>1. Cardinality(Reserved') <= Cardinality(Reserved \ {<<t, k>>})
        BY <3>5, <3>6, FS_Subset
      <4> QED  BY <4>1, <3>6
    <3>8. Len(lh') = Len(lh) + 1
      BY <2>7 DEF TypeOK
    <3> QED  BY <2>4, <2>5, <3>7, <3>8, Sizes
  <2> QED  BY <2>6, <2>7
<1>4. ASSUME NEW t \in Thread, EndOp(t)
      PROVE  Len(lh') + Cardinality(Reserved') <= LOGSIZE
  <2>1. /\ Len(lh') <= Len(lh)
        /\ \A u \in Thread : pc'[u] = "op" => pc[u] = "op" /\ wrote'[u] = wrote[u]
    <3>1. lh' = lh /\ \A u \in Thread : u # t => wrote'[u] = wrote[u]
      BY <1>4 DEF EndOp, TypeOK
    <3>2. \A u \in Thread : pc'[u] = "op" => pc[u] = "op" /\ u # t
      BY <1>4 DEF EndOp, At, Goto, WakeAndGoto, TypeOK
    <3> QED  BY <3>1, <3>2, Typed
  <2> QED  BY <2>1, NoMoreSpace
<1>5. ASSUME NEW t \in Thread, WriteLog(t)
      PROVE  Len(lh') + Cardinality(Reserved') <= LOGSIZE
  <2>1. /\ Len(lh') <= Len(lh)
        /\ \A u \in Thread : pc'[u] = "op" => pc[u] = "op" /\ wrote'[u] = wrote[u]
    <3>1. lh' = lh /\ wrote' = wrote
      BY <1>5 DEF WriteLog, logVars
    <3>2. \A u \in Thread : pc'[u] = "op" => pc[u] = "op"
      BY <1>5 DEF WriteLog, At, Goto, TypeOK
    <3> QED  BY <3>1, <3>2, Typed
  <2> QED  BY <2>1, NoMoreSpace
<1>6. ASSUME NEW t \in Thread, CommitEmpty(t)
      PROVE  Len(lh') + Cardinality(Reserved') <= LOGSIZE
  <2>1. /\ Len(lh') <= Len(lh)
        /\ \A u \in Thread : pc'[u] = "op" => pc[u] = "op" /\ wrote'[u] = wrote[u]
    <3>1. lh' = lh /\ wrote' = wrote
      BY <1>6 DEF CommitEmpty, logVars
    <3>2. \A u \in Thread : pc'[u] = "op" => pc[u] = "op"
      BY <1>6 DEF CommitEmpty, At, Goto, TypeOK
    <3> QED  BY <3>1, <3>2, Typed
  <2> QED  BY <2>1, NoMoreSpace
<1>7. ASSUME NEW t \in Thread, WriteHead(t)
      PROVE  Len(lh') + Cardinality(Reserved') <= LOGSIZE
  <2>1. /\ Len(lh') <= Len(lh)
        /\ \A u \in Thread : pc'[u] = "op" => pc[u] = "op" /\ wrote'[u] = wrote[u]
    <3>1. lh' = lh /\ wrote' = wrote
      BY <1>7 DEF WriteHead, logVars
    <3>2. \A u \in Thread : pc'[u] = "op" => pc[u] = "op"
      BY <1>7 DEF WriteHead, At, Goto, TypeOK
    <3> QED  BY <3>1, <3>2, Typed
  <2> QED  BY <2>1, NoMoreSpace
<1>8. ASSUME NEW t \in Thread, Install(t)
      PROVE  Len(lh') + Cardinality(Reserved') <= LOGSIZE
  <2>1. /\ Len(lh') <= Len(lh)
        /\ \A u \in Thread : pc'[u] = "op" => pc[u] = "op" /\ wrote'[u] = wrote[u]
    <3>1. lh' = lh /\ wrote' = wrote
      BY <1>8 DEF Install, logVars
    <3>2. \A u \in Thread : pc'[u] = "op" => pc[u] = "op"
      BY <1>8 DEF Install, At, Goto, TypeOK
    <3> QED  BY <3>1, <3>2, Typed
  <2> QED  BY <2>1, NoMoreSpace
<1>9. ASSUME NEW t \in Thread, EraseHead(t)
      PROVE  Len(lh') + Cardinality(Reserved') <= LOGSIZE
  <2>1. /\ Len(lh') <= Len(lh)
        /\ \A u \in Thread : pc'[u] = "op" => pc[u] = "op" /\ wrote'[u] = wrote[u]
    BY <1>9 DEF EraseHead, At, Goto, logVars, TypeOK
  <2> QED  BY <2>1, NoMoreSpace
<1>10. ASSUME NEW t \in Thread, EndCommit(t)
      PROVE  Len(lh') + Cardinality(Reserved') <= LOGSIZE
  <2>1. /\ Len(lh') <= Len(lh)
        /\ \A u \in Thread : pc'[u] = "op" => pc[u] = "op" /\ wrote'[u] = wrote[u]
    BY <1>10 DEF EndCommit, At, WakeAndGoto, logVars, TypeOK
  <2> QED  BY <2>1, NoMoreSpace
<1>11. ASSUME ReadHead
      PROVE  Len(lh') + Cardinality(Reserved') <= LOGSIZE
  <2>1. Ops' = {}  BY <1>11 DEF ReadHead, CallInv, Ops
  <2>2. Reserved' = {}  BY <2>1 DEF Reserved, Ops
  <2> QED  BY <2>2, FS_EmptySet DEF TypeOK
<1>12. ASSUME RecoverInstall
      PROVE  Len(lh') + Cardinality(Reserved') <= LOGSIZE
  <2>1. /\ Len(lh') <= Len(lh)
        /\ \A u \in Thread : pc'[u] = "op" => pc[u] = "op" /\ wrote'[u] = wrote[u]
    BY <1>12 DEF RecoverInstall, At, Goto, logVars, TypeOK
  <2> QED  BY <2>1, NoMoreSpace
<1>13. ASSUME RecoverErase
      PROVE  Len(lh') + Cardinality(Reserved') <= LOGSIZE
  <2>1. /\ Len(lh') <= Len(lh)
        /\ \A u \in Thread : pc'[u] = "op" => pc[u] = "op" /\ wrote'[u] = wrote[u]
    BY <1>13 DEF RecoverErase, At, Goto, logVars, TypeOK
  <2> QED  BY <2>1, NoMoreSpace
<1>14. ASSUME Crash
      PROVE  Len(lh') + Cardinality(Reserved') <= LOGSIZE
  <2>1. /\ Len(lh') <= Len(lh)
        /\ \A u \in Thread : pc'[u] = "op" => pc[u] = "op" /\ wrote'[u] = wrote[u]
    BY <1>14 DEF Crash, At, Goto, logVars, TypeOK
  <2> QED  BY <2>1, NoMoreSpace
<1> QED  BY <1>1, <1>2, <1>3, <1>4, <1>5, <1>6, <1>7, <1>8, <1>9, <1>10,
            <1>11, <1>12, <1>13, <1>14 DEF Next, OpStep, CommitStep, RecoverStep

-----------------------------------------------------------------------------
(* The invariant.                                                          *)

\* A fresh file system satisfies it.
LEMMA InitIInv == Init => IInv
<1> SUFFICES ASSUME Init  PROVE IInv
  OBVIOUS
<1> USE DEF Init
<1>1. Ops = {} /\ Reserved = {}
  BY DEF Ops, Reserved
<1>2. Cardinality(Ops) = 0 /\ Cardinality(Reserved) = 0
  BY <1>1, FS_EmptySet
<1>3. TypeOK
  <2>1. logblk \in [1 .. LOGSIZE -> Val]
    BY LogAssumption
  <2>2. 0 \in 0 .. Cardinality(Thread)
    BY Finite
  <2>3. committing \in BOOLEAN
    BY Zenon
  <2> QED  BY <2>1, <2>2, <2>3, Sizes DEF TypeOK
<1>4. SpaceReserved /\ SleeperHasWaker
  BY <1>2, <1>3, Sizes DEF SpaceReserved, SleeperHasWaker
<1>5. CallInv
  BY <1>1, <1>2 DEF CallInv, CommitLabels
<1>6. HeaderInv /\ PhaseInv /\ RecoverInv
  BY EmptyHeader DEF HeaderInv, PhaseInv, RecoverInv, Logged
<1> QED  BY <1>4, <1>5, <1>6 DEF IInv

\* A step that changes nothing keeps it.
LEMMA StutterIInv == IInv /\ UNCHANGED vars => IInv'
<1> SUFFICES ASSUME IInv, UNCHANGED vars  PROVE IInv'
  OBVIOUS
<1> USE DEF IInv, vars, disk, logVars
<1>1. SpaceReserved'
  BY DEF SpaceReserved, TypeOK, Reserved
<1>2. SleeperHasWaker' /\ CallInv'
  BY DEF SleeperHasWaker, CallInv, Ops
<1>3. HeaderInv'
  BY DEF HeaderInv, Injective, Logged
<1>4. PhaseInv' /\ RecoverInv'
  BY DEF PhaseInv, RecoverInv, Logged
<1> QED  BY <1>1, <1>2, <1>3, <1>4

\* IInv holds whatever calls are made and whenever the machine crashes.
THEOREM LogInvariant == Spec => []IInv
<1>1. IInv /\ [Next]_vars => IInv'
  <2> SUFFICES ASSUME IInv, Next  PROVE IInv'
    BY StutterIInv
  <2> QED  BY TypeStep, SpaceStep, SleeperStep, CallStep, HeaderStep, PhaseStep,
              RecoverStepInv DEF IInv, SpaceReserved
<1> QED  BY <1>1, InitIInv, PTL DEF Spec

-----------------------------------------------------------------------------
(* The theorems.                                                           *)

\* Once the last end_op() has returned, everything is on disk: a crash loses
\* nothing.
THEOREM LogDurable == Spec => []DurableWhenIdle
<1>1. IInv => DurableWhenIdle
  <2> SUFFICES ASSUME IInv, kernel = "up", outstanding = 0, ~ committing
               PROVE  Recovered = View
    BY DEF DurableWhenIdle
  <2>1. lh = <<>> /\ hdr = <<>> /\ pinned = {}
    <3>1. lh = <<>>  BY DEF IInv, HeaderInv
    <3>2. \A t \in Thread : pc[t] # "install"  BY DEF IInv, CallInv, CommitLabels
    <3>3. Logged = {}  BY <3>1 DEF Logged
    <3> QED  BY <3>1, <3>2, <3>3 DEF IInv, PhaseInv
  <2>2. \A b \in Block : {i \in 1 .. Len(hdr) : hdr[i] = b} = {}
    BY <2>1
  <2> QED  BY <2>1, <2>2 DEF Recovered, View
<1> QED  BY <1>1, LogInvariant, PTL

\* begin_op() admits no more calls than the log has room for, and who sleeps
\* in it will be woken.
THEOREM LogBeginOpSound == Spec => []BeginOpSound
<1>1. IInv => BeginOpSound
  BY DEF IInv, BeginOpSound
<1> QED  BY <1>1, LogInvariant, PTL

-----------------------------------------------------------------------------
(* The refinement.                                                         *)

\* What recovery finds, given a header that names each block once.
LEMMA RecoveredAt ==
    ASSUME IInv, NEW b \in Block
    PROVE  /\ (\A i \in 1 .. Len(hdr) : hdr[i] # b) => Recovered[b] = home[b]
           /\ \A i \in 1 .. Len(hdr) : hdr[i] = b => Recovered[b] = logblk[i]
<1> DEFINE at == {i \in 1 .. Len(hdr) : hdr[i] = b}
<1>1. Recovered[b] = IF at = {} THEN home[b]
                     ELSE logblk[CHOOSE i \in at : \A j \in at : j <= i]
  BY DEF Recovered
<1>2. (\A i \in 1 .. Len(hdr) : hdr[i] # b) => at = {}
  OBVIOUS
<1>3. ASSUME NEW i \in 1 .. Len(hdr), hdr[i] = b
      PROVE  Recovered[b] = logblk[i]
  <2>1. at = {i}
    BY <1>3 DEF IInv, HeaderInv, Injective
  <2>2. \A j \in at : j <= i
    BY <2>1
  <2>3. (CHOOSE l \in at : \A j \in at : j <= l) = i
    BY <2>1, <2>2
  <2> QED  BY <1>1, <2>1, <2>3
<1> QED  BY <1>1, <1>2, <1>3

\* The blocks as the running system sees them.
Mem == IF kernel = "up" THEN View ELSE Recovered

\* Recovery depends on the disk alone.
LEMMA SameDisk == UNCHANGED disk => Recovered' = Recovered
  BY DEF disk, Recovered

\* A step that changes neither disk nor buffers changes nothing that matters
\* to the calls.
LEMMA SameMem ==
    ASSUME UNCHANGED <<disk, cache, pinned, kernel>>
    PROVE  Mem' = Mem /\ Recovered' = Recovered
  BY DEF disk, Recovered, Mem, View

\* Outside install_trans() the disk holds the home blocks and no header.
LEMMA NotInstalling ==
    ASSUME IInv, hdr = <<>>
    PROVE  Recovered = [b \in Block |-> home[b]]
  BY RecoveredAt DEF Recovered

\* While blocks are installed, recovery would give what the system sees.
LEMMA Installing ==
    IInv /\ kernel = "up" /\ (\E t \in Thread : pc[t] = "install") => Recovered = View
<1> SUFFICES ASSUME IInv, kernel = "up", NEW t \in Thread, pc[t] = "install",
                    NEW b \in Block
             PROVE  Recovered[b] = View[b]
  BY DEF Recovered, View
<1> USE DEF IInv, SpaceReserved, TypeOK
<1>1. CASE \A i \in 1 .. Len(lh) : lh[i] # b
  <2>1. b \notin pinned /\ \A i \in 1 .. Len(hdr) : hdr[i] # b
    BY <1>1 DEF PhaseInv
  <2> QED  BY <2>1, RecoveredAt DEF View
<1>2. ASSUME NEW i \in 1 .. Len(lh), lh[i] = b  PROVE Recovered[b] = View[b]
  <2>1. Recovered[b] = logblk[i] /\ logblk[i] = cache[b]
    <3>1. hdr = lh /\ logblk[i] = cache[lh[i]]  BY DEF PhaseInv
    <3> QED  BY <1>2, <3>1, RecoveredAt
  <2>2. CASE i < tail
    <3>1. home[b] = logblk[i]  BY <1>2, <2>2 DEF PhaseInv
    <3> QED  BY <2>1, <3>1 DEF View
  <2>3. CASE ~ (i < tail)
    <3>1. b \in pinned  BY <1>2, <2>3 DEF PhaseInv
    <3> QED  BY <2>1, <3>1 DEF View
  <2> QED  BY <2>2, <2>3
<1> QED  BY <1>1, <1>2

\* The same after a step.
LEMMA InstallingNext ==
    (IInv /\ kernel = "up" /\ (\E t \in Thread : pc[t] = "install") => Recovered = View)'
  BY Installing, PTL

\* install_trans() copies to a home block what recovery would put there.
LEMMA InstallOne ==
    ASSUME IInv, IInv', tail \in 1 .. Len(lh), lh = hdr,
           home' = [home EXCEPT ![lh[tail]] = logblk[tail]],
           UNCHANGED <<logblk, hdr>>
    PROVE  Recovered' = Recovered
<1> SUFFICES ASSUME NEW b \in Block  PROVE Recovered'[b] = Recovered[b]
  BY DEF Recovered
<1>1. CASE \A i \in 1 .. Len(hdr) : hdr[i] # b
  <2>1. Recovered[b] = home[b]  BY <1>1, RecoveredAt
  <2>2. Recovered'[b] = home'[b]  BY <1>1 DEF Recovered
  <2> QED  BY <1>1, <2>1, <2>2 DEF IInv, SpaceReserved, TypeOK
<1>2. ASSUME NEW i \in 1 .. Len(hdr), hdr[i] = b  PROVE Recovered'[b] = Recovered[b]
  BY <1>2 DEF Recovered
<1> QED  BY <1>1, <1>2

\* The log implements AtomicLog: begin_op(), a write and end_op() are its
\* steps, commit() takes effect at write_head(), everything else that commit()
\* and recovery do is invisible, and a crash at any moment goes back to the
\* last commit.
THEOREM LogRefinement == Spec => Refinement
<1>1. Init => Abs!AInit
  <2> SUFFICES ASSUME Init  PROVE Abs!AInit
    OBVIOUS
  <2>1. Recovered = home /\ View = home
    BY InitIInv, NotInstalling DEF Init, View
  <2> QED  BY <2>1 DEF Init, Abs!AInit
<1>2. IInv /\ IInv' /\ [Next]_vars => [Abs!ANext]_(Abs!absVars)
  <2> SUFFICES ASSUME IInv, IInv', [Next]_vars
               PROVE  Abs!ANext \/ UNCHANGED <<Mem, Recovered, Ops>>
    BY DEF Abs!absVars, Mem, Ops
  <2> USE DEF At, Goto
  <2>1. ASSUME NEW t \in Thread, Call(t)
        PROVE  UNCHANGED <<Mem, Recovered, Ops>>
    BY <2>1, SameMem DEF Call, Ops, IInv, SpaceReserved, TypeOK
  <2>2. ASSUME NEW t \in Thread, BeginOp(t)
        PROVE  Abs!ABegin(t) \/ UNCHANGED <<Mem, Recovered, Ops>>
    <3>1. UNCHANGED <<Mem, Recovered>>
      BY <2>2, SameMem DEF BeginOp
    <3>2. t \notin Ops /\ (Ops' = Ops \cup {t} \/ Ops' = Ops)
      BY <2>2 DEF BeginOp, Ops, IInv, SpaceReserved, TypeOK
    <3> QED  BY <3>1, <3>2 DEF Abs!ABegin, Mem, Ops
  <2>3. ASSUME NEW t \in Thread, NEW b \in Block, NEW v \in Val, LogWrite(t, b, v)
        PROVE  Abs!AWrite(t, b, v)
    <3> USE <2>3 DEF LogWrite, MayWrite
    <3>1. t \in Ops /\ Ops' = Ops
      BY DEF Ops
    <3>2. Recovered' = Recovered
      BY SameDisk
    <3>3. \A u \in Thread : pc[u] # "install"
      BY <3>1 DEF IInv, CallInv, CommitLabels
    <3>4. b \in pinned' /\ pinned' = pinned \cup {b}
      <4>1. pinned = Logged  BY <3>3 DEF IInv, PhaseInv, At
      <4> QED  BY <4>1 DEF PinNew
    <3>5. View' = [View EXCEPT ![b] = v]
      <4>1. cache' = [cache EXCEPT ![b] = v] /\ cache \in [Block -> Val] /\ home' = home
        BY DEF IInv, SpaceReserved, TypeOK, disk
      <4> QED  BY <4>1, <3>4 DEF View
    <3> QED  BY <3>1, <3>2, <3>5 DEF Abs!AWrite, Mem, Ops
  <2>4. ASSUME NEW t \in Thread, EndOp(t)
        PROVE  Abs!AEnd(t)
    <3>1. UNCHANGED <<Mem, Recovered>>
      BY <2>4, SameMem DEF EndOp
    <3>2. t \in Ops /\ Ops' = Ops \ {t}
      BY <2>4 DEF EndOp, WakeAndGoto, Ops, IInv, SpaceReserved, TypeOK
    <3> QED  BY <3>1, <3>2 DEF Abs!AEnd, Mem, Ops
  <2>5. ASSUME NEW t \in Thread, WriteLog(t)
        PROVE  UNCHANGED <<Mem, Recovered, Ops>>
    <3> USE <2>5 DEF WriteLog
    <3>1. hdr = <<>> /\ hdr' = <<>>
      BY DEF IInv, PhaseInv, CallInv, CommitLabels
    <3>2. Recovered = [b \in Block |-> home[b]]
      BY <3>1 DEF Recovered
    <3>3. Recovered' = [b \in Block |-> home[b]]
      BY <3>1 DEF Recovered
    <3> QED  BY <3>2, <3>3 DEF Mem, View, Ops
  <2>6. ASSUME NEW t \in Thread, CommitEmpty(t)
        PROVE  UNCHANGED <<Mem, Recovered, Ops>>
    BY <2>6, SameMem DEF CommitEmpty, Ops, IInv, SpaceReserved, TypeOK
  <2>7. ASSUME NEW t \in Thread, WriteHead(t)
        PROVE  Abs!ACommit
    <3> USE <2>7 DEF WriteHead
    <3>1. Ops = {} /\ Ops' = {}
      BY DEF IInv, CallInv, CommitLabels, Ops
    <3>2. View' = View
      BY DEF View
    <3>3. Recovered' = View'
      <4>1. kernel' = "up" /\ pc'[t] = "install"
        BY DEF IInv, SpaceReserved, TypeOK
      <4> QED  BY <4>1, InstallingNext
    <3> QED  BY <3>1, <3>2, <3>3 DEF Abs!ACommit, Mem, Ops
  <2>8. ASSUME NEW t \in Thread, Install(t)
        PROVE  UNCHANGED <<Mem, Recovered, Ops>>
    <3> USE <2>8 DEF Install
    <3>1. lh = hdr
      BY DEF IInv, PhaseInv, At
    <3>9. tail \in 1 .. Len(lh)
      BY Typed
    <3>2. Recovered' = Recovered
      BY <3>1, <3>9, InstallOne
    <3>3. View = Recovered /\ View' = Recovered'
      BY Installing, InstallingNext
    <3> QED  BY <3>2, <3>3 DEF Mem, Ops
  <2>9. ASSUME NEW t \in Thread, EraseHead(t)
        PROVE  UNCHANGED <<Mem, Recovered, Ops>>
    <3> USE <2>9 DEF EraseHead
    <3>1. pinned = {}
      <4>1. pinned = {lh[i] : i \in tail .. Len(lh)}
        BY DEF IInv, PhaseInv, At
      <4>2. tail .. Len(lh) = {}
        BY Typed
      <4> QED  BY <4>1, <4>2
    <3>2. View = Recovered
      BY Installing
    <3>3. View = [b \in Block |-> home[b]] /\ View' = View
      BY <3>1 DEF View
    <3>4. Recovered' = [b \in Block |-> home[b]]
      BY DEF Recovered
    <3>5. Ops' = Ops
      BY DEF Ops, IInv, SpaceReserved, TypeOK
    <3> QED  BY <3>2, <3>3, <3>4, <3>5 DEF Mem
  <2>10. ASSUME NEW t \in Thread, EndCommit(t)
         PROVE  UNCHANGED <<Mem, Recovered, Ops>>
    BY <2>10, SameMem DEF EndCommit, WakeAndGoto, Ops
  <2>11. ASSUME ReadHead
         PROVE  UNCHANGED <<Mem, Recovered, Ops>>
    BY <2>11, SameDisk DEF ReadHead, Mem, Ops
  <2>12. ASSUME RecoverInstall
         PROVE  UNCHANGED <<Mem, Recovered, Ops>>
    <3>1. tail \in 1 .. Len(lh) /\ lh = hdr
      BY <2>12, Typed DEF RecoverInstall, IInv, RecoverInv
    <3> QED  BY <2>12, <3>1, InstallOne DEF RecoverInstall, Mem, Ops
  <2>13. ASSUME RecoverErase
         PROVE  UNCHANGED <<Mem, Recovered, Ops>>
    <3> USE <2>13 DEF RecoverErase
    <3>1. Recovered' = [b \in Block |-> home[b]]
      BY DEF Recovered
    <3>9. View' = [b \in Block |-> home[b]]
      BY DEF View, IInv, RecoverInv
    <3>2. ASSUME NEW b \in Block  PROVE Recovered[b] = home[b]
      <4>1. \A i \in 1 .. Len(hdr) : home[hdr[i]] = logblk[i]
        <5>1. lh = hdr /\ Len(hdr) \in Nat /\ tail \in Nat /\ tail > Len(hdr)
          BY Typed DEF IInv, RecoverInv
        <5> QED  BY <5>1 DEF IInv, RecoverInv
      <4> QED  BY <4>1, RecoveredAt
    <3>3. Recovered = [b \in Block |-> home[b]]
      BY <3>2 DEF Recovered
    <3> QED  BY <3>1, <3>9, <3>3 DEF Mem, Ops
  <2>14. ASSUME Crash
         PROVE  Abs!ACrash
    <3>1. Ops' = {} /\ Recovered' = Recovered /\ Mem' = Recovered
      BY <2>14, SameDisk DEF Crash, Ops, Mem
    <3> QED  BY <3>1 DEF Abs!ACrash, Mem, Ops
  <2>15. CASE UNCHANGED vars
    BY <2>15, SameMem DEF vars, Ops
  <2> QED  BY <2>1, <2>2, <2>3, <2>4, <2>5, <2>6, <2>7, <2>8, <2>9, <2>10, <2>11,
              <2>12, <2>13, <2>14, <2>15
           DEF Next, OpStep, CommitStep, RecoverStep, Abs!ANext
<1> QED  BY <1>1, <1>2, LogInvariant, PTL DEF Spec, Refinement, Abs!ASpec

=============================================================================
