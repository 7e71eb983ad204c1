----------------------------- MODULE ConsoleProofs --------------------------
(***************************************************************************)
(* The console, for any size of the buffers and any processes and CPUs.    *)
(* Input: the indices keep their order around the ring, nobody sleeps on a *)
(* complete line, and complete lines are not edited.  Output: characters   *)
(* leave in order, and output does not stop.                               *)
(***************************************************************************)
EXTENDS Console, Uart, RingProofs, FiniteSetTheorems, WellFoundedInduction

-----------------------------------------------------------------------------
(* Console input.                                                          *)

\* What the assumption says of the constants.
LEMMA ConsoleSizes ==
  /\ RingSizes(INPUT_BUF_SIZE, 2 ^ UintBits)
  /\ 2 ^ UintBits \in Nat \ {0} /\ INPUT_BUF_SIZE \in Nat \ {0}
  /\ INPUT_BUF_SIZE < 2 ^ UintBits
  /\ Nobody \notin Reader /\ MaxCount \in Nat
<1>1. RingSizes(INPUT_BUF_SIZE, 2 ^ UintBits)
  BY ConsoleAssumption DEF WrapsEvenly, RingSizes
<1>2. /\ 2 ^ UintBits \in Nat \ {0} /\ INPUT_BUF_SIZE \in Nat \ {0}
      /\ INPUT_BUF_SIZE < 2 ^ UintBits
  BY <1>1, Sizes
<1>. QED BY <1>1, <1>2, ConsoleAssumption

-----------------------------------------------------------------------------
(* The three indices, as numbers modulo M.                                 *)

\* x is read up to, y is complete up to, z is typed up to.
InOrder(x, y, z, size, M) ==
    /\ x \in 0 .. M - 1 /\ y \in 0 .. M - 1 /\ z \in 0 .. M - 1
    /\ Fill(x, z, M) <= size
    /\ Fill(x, y, M) + Fill(y, z, M) = Fill(x, z, M)
    /\ Fill(x, z, M) = size => y = z

\* One more character, in the line or at its end.
LEMMA OrderChar ==
  ASSUME NEW size, NEW M, RingSizes(size, M), NEW x, NEW y, NEW z,
         InOrder(x, y, z, size, M), Fill(x, z, M) < size
  PROVE  /\ InOrder(x, (z + 1) % M, (z + 1) % M, size, M)
         /\ Fill(x, (z + 1) % M, M) # size => InOrder(x, y, (z + 1) % M, size, M)
<1>1. /\ M \in Nat \ {0} /\ size \in Nat \ {0} /\ size < M
      /\ x \in 0 .. M - 1 /\ y \in 0 .. M - 1 /\ z \in 0 .. M - 1
      /\ Fill(x, y, M) + Fill(y, z, M) = Fill(x, z, M)
  BY Sizes DEF InOrder
<1>2. PICK p \in 0 .. M - 1 : p = (z + 1) % M
  BY <1>1, FillUp
<1>3. Fill(x, z, M) \in Nat /\ Fill(y, z, M) \in Nat /\ Fill(x, y, M) \in Nat
  BY <1>1, FillRange
<1>4. Fill(x, z, M) < M - 1 /\ Fill(y, z, M) < M - 1
  BY <1>1, <1>3
<1>5. Fill(x, p, M) = Fill(x, z, M) + 1 /\ Fill(y, p, M) = Fill(y, z, M) + 1
  <2>1. Fill(x, p, M) = Fill(x, z, M) + 1
    BY <1>1, <1>2, <1>4, FillUp
  <2>2. Fill(y, p, M) = Fill(y, z, M) + 1
    BY <1>1, <1>2, <1>4, FillUp
  <2>. QED BY <2>1, <2>2
<1>6. Fill(p, p, M) = 0
  BY <1>1, RingAhead
<1>7. InOrder(x, p, p, size, M)
  BY <1>1, <1>3, <1>5, <1>6 DEF InOrder
<1>8. Fill(x, p, M) # size => InOrder(x, y, p, size, M)
  BY <1>1, <1>3, <1>5 DEF InOrder
<1>. QED BY <1>2, <1>7, <1>8

\* Back to d characters of the line that is not complete.
LEMMA OrderBack ==
  ASSUME NEW size, NEW M, RingSizes(size, M), NEW x, NEW y, NEW z,
         InOrder(x, y, z, size, M), y # z, NEW d \in 0 .. Fill(y, z, M)
  PROVE  InOrder(x, y, (y + d) % M, size, M)
<1>1. /\ M \in Nat \ {0} /\ size \in Nat \ {0} /\ size < M
      /\ x \in 0 .. M - 1 /\ y \in 0 .. M - 1 /\ z \in 0 .. M - 1
      /\ Fill(x, y, M) + Fill(y, z, M) = Fill(x, z, M)
      /\ Fill(x, z, M) < size
  <2>1. M \in Nat \ {0} /\ size \in Nat \ {0} /\ size < M
    BY Sizes
  <2>2. /\ x \in 0 .. M - 1 /\ y \in 0 .. M - 1 /\ z \in 0 .. M - 1
        /\ Fill(x, y, M) + Fill(y, z, M) = Fill(x, z, M)
        /\ Fill(x, z, M) <= size /\ Fill(x, z, M) # size
    BY DEF InOrder
  <2>3. Fill(x, z, M) \in Nat
    BY <2>2, RingAhead
  <2>. QED BY <2>1, <2>2, <2>3
<1>2. Fill(x, z, M) \in Nat /\ Fill(y, z, M) \in 0 .. M - 1 /\ Fill(x, y, M) \in Nat
  BY <1>1, FillRange
<1>3. d \in 0 .. M
  BY <1>1, <1>2
<1>4. PICK p \in 0 .. M - 1 : /\ p = (y + d) % M
                              /\ p = IF y + d < M THEN y + d ELSE y + d - M
  <2>1. (y + d) % M = IF y + d < M THEN y + d ELSE y + d - M
    BY <1>1, <1>3, ModSum
  <2>. QED BY <1>1, <1>3, <2>1
<1>5. /\ Fill(x, y, M) = IF y < x THEN y - x + M ELSE y - x
      /\ Fill(x, p, M) = IF p < x THEN p - x + M ELSE p - x
      /\ Fill(y, p, M) = IF p < y THEN p - y + M ELSE p - y
  <2>1. Fill(x, y, M) = IF y < x THEN y - x + M ELSE y - x
    BY <1>1, FillIs
  <2>2. Fill(x, p, M) = IF p < x THEN p - x + M ELSE p - x
    BY <1>1, FillIs
  <2>3. Fill(y, p, M) = IF p < y THEN p - y + M ELSE p - y
    BY <1>1, FillIs
  <2>. QED BY <2>1, <2>2, <2>3
<1>6. Fill(x, y, M) + d < size
  BY <1>1, <1>2
<1>7. d < M
  BY <1>1, <1>2, <1>6
<1>8. Fill(y, p, M) = d
  BY <1>1, <1>4, <1>5, <1>7
<1>9. Fill(x, p, M) = Fill(x, y, M) + d
  BY <1>1, <1>4, <1>5, <1>6
<1>10. InOrder(x, y, p, size, M)
  BY <1>1, <1>2, <1>6, <1>8, <1>9 DEF InOrder
<1>. QED BY <1>4, <1>10

\* Backspace takes one character away.
LEMMA OrderBackspace ==
  ASSUME NEW size, NEW M, RingSizes(size, M), NEW x, NEW y, NEW z,
         InOrder(x, y, z, size, M), y # z
  PROVE  InOrder(x, y, (z - 1) % M, size, M)
<1>1. /\ M \in Nat \ {0} /\ 1 \in 0 .. M
      /\ x \in 0 .. M - 1 /\ y \in 0 .. M - 1 /\ z \in 0 .. M - 1
  BY Sizes DEF InOrder
<1>2. PICK m \in 1 .. M - 1 : m = Fill(y, z, M)
  <2>1. Fill(y, z, M) \in 0 .. M - 1 /\ Fill(y, z, M) # 0
    BY <1>1, FillRange
  <2>. QED BY <1>1, <2>1
<1>3. m = IF z < y THEN z - y + M ELSE z - y
  BY <1>1, <1>2, FillIs
<1>4. (z - 1) % M = IF z < 1 THEN z - 1 + M ELSE z - 1
  BY <1>1, ModDiff
<1>5. m - 1 \in 0 .. M /\ m - 1 \in 0 .. m
  BY <1>1
<1>6. (y + (m - 1)) % M = IF y + (m - 1) < M THEN y + (m - 1) ELSE y + (m - 1) - M
  BY <1>1, <1>5, ModSum
<1>7. (z - 1) % M = (y + (m - 1)) % M
  <2>. DEFINE a == (z - 1) % M
              b == (y + (m - 1)) % M
  <2>1. a = IF z < 1 THEN z - 1 + M ELSE z - 1
    BY <1>4
  <2>2. b = IF y + (m - 1) < M THEN y + (m - 1) ELSE y + (m - 1) - M
    BY <1>6
  <2>. HIDE DEF a, b
  <2>3. a = b
    BY <1>1, <1>3, <2>1, <2>2
  <2>. QED BY <2>3 DEF a, b
<1>8. InOrder(x, y, (y + (m - 1)) % M, size, M)
  BY <1>2, <1>5, OrderBack
<1>. QED BY <1>7, <1>8

\* A character is read.
LEMMA OrderRead ==
  ASSUME NEW size, NEW M, RingSizes(size, M), NEW x, NEW y, NEW z,
         InOrder(x, y, z, size, M), x # y
  PROVE  InOrder((x + 1) % M, y, z, size, M)
<1>1. /\ M \in Nat \ {0} /\ size \in Nat \ {0}
      /\ x \in 0 .. M - 1 /\ y \in 0 .. M - 1 /\ z \in 0 .. M - 1
      /\ Fill(x, y, M) + Fill(y, z, M) = Fill(x, z, M)
      /\ Fill(x, z, M) <= size
  BY Sizes DEF InOrder
<1>2. /\ Fill(x, z, M) \in Nat /\ Fill(y, z, M) \in Nat
      /\ Fill(x, y, M) \in Nat /\ Fill(x, y, M) # 0
      /\ Fill(x, z, M) = 0 <=> x = z
  BY <1>1, FillRange
<1>3. x # z
  BY <1>1, <1>2
<1>4. PICK p \in 0 .. M - 1 : p = (x + 1) % M
  BY <1>1, FillDown
<1>5. Fill(p, y, M) = Fill(x, y, M) - 1 /\ Fill(p, z, M) = Fill(x, z, M) - 1
  <2>1. Fill(p, y, M) = Fill(x, y, M) - 1
    BY <1>1, <1>4, FillDown
  <2>2. Fill(p, z, M) = Fill(x, z, M) - 1
    BY <1>1, <1>3, <1>4, FillDown
  <2>. QED BY <2>1, <2>2
<1>6. InOrder(p, y, z, size, M)
  BY <1>1, <1>2, <1>5 DEF InOrder
<1>. QED BY <1>4, <1>6

\* The slot that is written is none of the complete ones.
LEMMA OrderSlot ==
  ASSUME NEW size, NEW M, RingSizes(size, M), NEW x, NEW y, NEW z,
         InOrder(x, y, z, size, M), Fill(x, z, M) < size,
         NEW d \in 0 .. Fill(x, y, M) - 1
  PROVE  /\ z % size # ((x + d) % M) % size
         /\ ((x + d) % M) % size \in 0 .. size - 1
<1>1. /\ M \in Nat \ {0} /\ size \in Nat \ {0} /\ size < M
      /\ x \in 0 .. M - 1 /\ y \in 0 .. M - 1 /\ z \in 0 .. M - 1
      /\ Fill(x, y, M) + Fill(y, z, M) = Fill(x, z, M)
  BY Sizes DEF InOrder
<1>2. PICK m \in 0 .. M : m = Fill(x, z, M) /\ d < m /\ m < size /\ z = (x + m) % M
  <2>1. /\ Fill(x, z, M) \in 0 .. M - 1 /\ Fill(y, z, M) \in 0 .. M - 1
        /\ Fill(x, y, M) \in 0 .. M - 1
    BY <1>1, FillRange
  <2>2. z = (x + Fill(x, z, M)) % M
    BY <1>1, FillEnd
  <2>. QED BY <1>1, <2>1, <2>2
<1>3. d \in 0 .. M
  BY <1>1, <1>2
<1>4. z % size = (x + m) % size
  BY <1>1, <1>2, Slot
<1>5. ((x + d) % M) % size = (x + d) % size
  BY <1>1, <1>3, Slot
<1>6. (x + d) % size # (x + m) % size
  <2>1. x + d \in Int /\ x + m \in Int /\ x + d < x + m /\ (x + m) - (x + d) < size
    BY <1>1, <1>2
  <2>. QED BY <1>1, <2>1, ModDistinct
<1>7. (x + d) % size \in 0 .. size - 1
  BY <1>1
<1>. QED BY <1>4, <1>5, <1>6, <1>7

-----------------------------------------------------------------------------
(* The inductive invariant.                                                *)

\* cons.lock is with the reader that is inside, and who sleeps, or is about
\* to, has nothing to read.
ReaderWaits ==
    \A t \in Reader :
        /\ cons_pc[t] \in {"loop", "sleep"} => cons_lock = t
        /\ cons_pc[t] \in {"sleep", "asleep"} => Nothing

ConsoleInv ==
    ConsTypeOK /\ InOrder(cons_r, cons_w, cons_e, INPUT_BUF_SIZE, 2 ^ UintBits) /\ ReaderWaits

\* The end of a line that control-U stops at is in the line.
LEMMA LastKept ==
  ASSUME NEW m \in Nat, NEW Kept, Kept \subseteq 0 .. m, 0 \in Kept
  PROVE  (CHOOSE d \in Kept : \A f \in Kept : f <= d) \in 0 .. m
<1>. DEFINE T == {x \in Nat : \E d \in Kept : x = m - d}
<1>1. T \subseteq Nat /\ T # {}
  <2>1. m \in T
    OBVIOUS
  <2>. QED BY <2>1
<1>2. PICK x \in T : \A y \in T : <<y, x>> \notin OpToRel(<, Nat)
  BY <1>1, NatLessThanWellFounded, WFMin
<1>3. \A y \in T : ~ (y < x)
  BY <1>1, <1>2 DEF OpToRel
<1>4. PICK d \in Kept : x = m - d
  OBVIOUS
<1>5. \A f \in Kept : f <= d
  <2>. TAKE f \in Kept
  <2>1. m - f \in T
    OBVIOUS
  <2>2. ~ (m - f < m - d)
    BY <1>3, <1>4, <2>1
  <2>. QED BY <2>2
<1>. HIDE DEF T
<1>. QED BY <1>5

\* No step of a reader or of the interrupt breaks the invariant.
LEMMA ConsoleStepInv ==
  ASSUME ConsoleInv, [ConsNext]_consVars
  PROVE  ConsoleInv'
<1>. USE ConsoleSizes DEF consIndices
<1>0. /\ ConsTypeOK /\ ReaderWaits
      /\ InOrder(cons_r, cons_w, cons_e, INPUT_BUF_SIZE, 2 ^ UintBits)
      /\ cons_r \in 0 .. 2 ^ UintBits - 1 /\ cons_w \in 0 .. 2 ^ UintBits - 1
      /\ cons_e \in 0 .. 2 ^ UintBits - 1
  BY DEF ConsoleInv, InOrder
<1>x. ASSUME InOrder(cons_r', cons_w', cons_e', INPUT_BUF_SIZE, 2 ^ UintBits)
      PROVE  cons_r' \in Uint /\ cons_w' \in Uint /\ cons_e' \in Uint
  BY <1>x DEF InOrder, Uint
<1>y. ASSUME NEW t \in Reader, ConsReturn(t),
             InOrder(cons_r', cons_w', cons_e', INPUT_BUF_SIZE, 2 ^ UintBits)
      PROVE  ConsTypeOK'
  <2>1. 0 \in 0 .. MaxCount
    OBVIOUS
  <2>2. cons_n' \in [Reader -> 0 .. MaxCount] /\ cons_target' \in [Reader -> 0 .. MaxCount]
    BY <1>0, <1>y, <2>1 DEF ConsReturn, ConsTypeOK
  <2>3. cons_pc' \in [Reader -> {"user", "acquire", "loop", "sleep", "asleep"}]
    BY <1>0, <1>y DEF ConsReturn, ConsGoto, ConsTypeOK
  <2>4. cons_killed' = cons_killed /\ cons_buf' = cons_buf /\ cons_lock' = Nobody
    BY <1>y DEF ConsReturn
  <2>. QED BY <1>0, <1>x, <1>y, <2>2, <2>3, <2>4 DEF ConsTypeOK
<1>1. CASE UNCHANGED consVars
  BY <1>0, <1>1 DEF ConsoleInv, ConsTypeOK, ReaderWaits, Nothing, consVars
<1>2. ASSUME NEW x \in InChar, IntrChar(x) PROVE ConsoleInv'
  <2>1. Fill(cons_r, cons_e, 2 ^ UintBits) < INPUT_BUF_SIZE
    BY <1>2 DEF IntrChar, Minus, Fill
  <2>2. cons_e' = (cons_e + 1) % 2 ^ UintBits /\ cons_r' = cons_r
    BY <1>2 DEF IntrChar, Plus
  <2>3. InOrder(cons_r', cons_w', cons_e', INPUT_BUF_SIZE, 2 ^ UintBits)
    <3>1. CASE EndsLine(x)
      <4>1. cons_w' = cons_e'
        BY <1>2, <3>1 DEF IntrChar
      <4>. QED BY <1>0, <2>1, <2>2, <4>1, OrderChar
    <3>2. CASE ~ EndsLine(x)
      <4>1. cons_w' = cons_w
        BY <1>2, <3>2 DEF IntrChar
      <4>2. Fill(cons_r, (cons_e + 1) % 2 ^ UintBits, 2 ^ UintBits) # INPUT_BUF_SIZE
        BY <3>2 DEF EndsLine, Minus, Plus, Fill
      <4>. QED BY <1>0, <2>1, <2>2, <4>1, <4>2, OrderChar
    <3>. QED BY <3>1, <3>2
  <2>4. ConsTypeOK'
    BY <1>0, <1>2, <1>x, <2>3 DEF IntrChar, Quiet, Wakeup, ConsTypeOK
  <2>5. ReaderWaits'
    BY <1>0, <1>2 DEF IntrChar, Quiet, Wakeup, ConsTypeOK, ReaderWaits, Nothing
  <2>. QED BY <2>3, <2>4, <2>5 DEF ConsoleInv
<1>3. ASSUME IntrBackspace PROVE ConsoleInv'
  <2>1. /\ cons_e' = (cons_e - 1) % 2 ^ UintBits /\ cons_w # cons_e
        /\ cons_r' = cons_r /\ cons_w' = cons_w
    BY <1>3 DEF IntrBackspace, Minus
  <2>2. InOrder(cons_r', cons_w', cons_e', INPUT_BUF_SIZE, 2 ^ UintBits)
    BY <1>0, <2>1, OrderBackspace
  <2>3. ConsTypeOK'
    BY <1>0, <1>3, <1>x, <2>2 DEF IntrBackspace, Quiet, ConsTypeOK
  <2>4. ReaderWaits'
    BY <1>0, <1>3 DEF IntrBackspace, Quiet, ReaderWaits, Nothing
  <2>. QED BY <2>2, <2>3, <2>4 DEF ConsoleInv
<1>4. ASSUME IntrKillLine PROVE ConsoleInv'
  <2>. DEFINE Kept == {d \in 0 .. Minus(cons_e, cons_w) :
                          d = 0 \/ cons_buf[At(Plus(cons_w, d - 1))] = Newline}
              last == CHOOSE d \in Kept : \A f \in Kept : f <= d
  <2>1. /\ cons_e' = (cons_w + last) % 2 ^ UintBits /\ cons_w # cons_e
        /\ cons_r' = cons_r /\ cons_w' = cons_w
    BY <1>4 DEF IntrKillLine, Plus
  <2>2. /\ Minus(cons_e, cons_w) = Fill(cons_w, cons_e, 2 ^ UintBits)
        /\ Minus(cons_e, cons_w) \in Nat
    BY <1>0, FillRange DEF Minus, Fill
  <2>3. last \in 0 .. Minus(cons_e, cons_w)
    <3>1. Kept \subseteq 0 .. Minus(cons_e, cons_w) /\ 0 \in Kept
      BY <2>2
    <3>. HIDE DEF Kept
    <3>. QED BY <2>2, <3>1, LastKept
  <2>. HIDE DEF last
  <2>4. InOrder(cons_r', cons_w', cons_e', INPUT_BUF_SIZE, 2 ^ UintBits)
    BY <1>0, <2>1, <2>2, <2>3, OrderBack
  <2>5. ConsTypeOK'
    BY <1>0, <1>4, <1>x, <2>4 DEF IntrKillLine, Quiet, ConsTypeOK
  <2>6. ReaderWaits'
    BY <1>0, <1>4 DEF IntrKillLine, Quiet, ReaderWaits, Nothing
  <2>. QED BY <2>4, <2>5, <2>6 DEF ConsoleInv
<1>5. ASSUME NEW t \in Reader, ConsCall(t) PROVE ConsoleInv'
  <2>1. InOrder(cons_r', cons_w', cons_e', INPUT_BUF_SIZE, 2 ^ UintBits)
    BY <1>0, <1>5 DEF ConsCall
  <2>2. ConsTypeOK'
    BY <1>0, <1>5 DEF ConsCall, ConsGoto, ConsTypeOK
  <2>3. ReaderWaits'
    BY <1>0, <1>5 DEF ConsCall, ConsGoto, ConsTypeOK, ReaderWaits, Nothing
  <2>. QED BY <2>1, <2>2, <2>3 DEF ConsoleInv
<1>6. ASSUME NEW t \in Reader, ConsAcquire(t) PROVE ConsoleInv'
  <2>1. InOrder(cons_r', cons_w', cons_e', INPUT_BUF_SIZE, 2 ^ UintBits)
    BY <1>0, <1>6 DEF ConsAcquire
  <2>2. ConsTypeOK'
    BY <1>0, <1>6 DEF ConsAcquire, ConsGoto, ConsTypeOK
  <2>3. ReaderWaits'
    BY <1>0, <1>6 DEF ConsAcquire, ConsGoto, ConsTypeOK, ReaderWaits, Nothing
  <2>. QED BY <2>1, <2>2, <2>3 DEF ConsoleInv
<1>7. ASSUME NEW t \in Reader, ConsReadDone(t) \/ ConsReadKilled(t) PROVE ConsoleInv'
  <2>1. InOrder(cons_r', cons_w', cons_e', INPUT_BUF_SIZE, 2 ^ UintBits)
    BY <1>0, <1>7 DEF ConsReadDone, ConsReadKilled, ConsReturn
  <2>2. ConsTypeOK'
    BY <1>7, <1>y, <2>1 DEF ConsReadDone, ConsReadKilled
  <2>3. ReaderWaits'
    BY <1>0, <1>7 DEF ConsReadDone, ConsReadKilled, ConsReturn, ConsHolds, ConsGoto, ConsTypeOK,
       ReaderWaits, Nothing
  <2>. QED BY <2>1, <2>2, <2>3 DEF ConsoleInv
<1>8. ASSUME NEW t \in Reader, ConsReadCheck(t) PROVE ConsoleInv'
  <2>1. InOrder(cons_r', cons_w', cons_e', INPUT_BUF_SIZE, 2 ^ UintBits)
    BY <1>0, <1>8 DEF ConsReadCheck
  <2>2. ConsTypeOK'
    BY <1>0, <1>8 DEF ConsReadCheck, ConsGoto, ConsTypeOK
  <2>3. ReaderWaits'
    BY <1>0, <1>8 DEF ConsReadCheck, ConsHolds, ConsGoto, ConsTypeOK, ReaderWaits, Nothing
  <2>. QED BY <2>1, <2>2, <2>3 DEF ConsoleInv
<1>9. ASSUME NEW t \in Reader, ConsReadSleep(t) PROVE ConsoleInv'
  <2>1. InOrder(cons_r', cons_w', cons_e', INPUT_BUF_SIZE, 2 ^ UintBits)
    BY <1>0, <1>9 DEF ConsReadSleep
  <2>2. ConsTypeOK'
    BY <1>0, <1>9 DEF ConsReadSleep, ConsGoto, ConsTypeOK
  <2>3. ReaderWaits'
    BY <1>0, <1>9 DEF ConsReadSleep, ConsHolds, ConsGoto, ConsTypeOK, ReaderWaits, Nothing
  <2>. QED BY <2>1, <2>2, <2>3 DEF ConsoleInv
<1>10. ASSUME NEW t \in Reader, ConsReadEof(t) \/ ConsReadLast(t) PROVE ConsoleInv'
  <2>1. /\ cons_r' = cons_r \/ cons_r' = (cons_r + 1) % 2 ^ UintBits
        /\ cons_w' = cons_w /\ cons_e' = cons_e /\ cons_r # cons_w
    BY <1>10 DEF ConsReadEof, ConsReadLast, ConsReturn, ConsReady, Nothing, Plus
  <2>2. InOrder(cons_r', cons_w', cons_e', INPUT_BUF_SIZE, 2 ^ UintBits)
    BY <1>0, <2>1, OrderRead
  <2>3. ConsTypeOK'
    BY <1>10, <1>y, <2>2 DEF ConsReadEof, ConsReadLast
  <2>4. ReaderWaits'
    BY <1>0, <1>10, <2>1
       DEF ConsReadEof, ConsReadLast, ConsReturn, ConsReady, ConsHolds, ConsGoto,
           ConsTypeOK, ReaderWaits, Nothing
  <2>. QED BY <2>2, <2>3, <2>4 DEF ConsoleInv
<1>11. ASSUME NEW t \in Reader, ConsReadChar(t) PROVE ConsoleInv'
  <2>1. /\ cons_r' = (cons_r + 1) % 2 ^ UintBits
        /\ cons_w' = cons_w /\ cons_e' = cons_e /\ cons_r # cons_w
    BY <1>11 DEF ConsReadChar, ConsReady, Nothing, Plus
  <2>2. InOrder(cons_r', cons_w', cons_e', INPUT_BUF_SIZE, 2 ^ UintBits)
    BY <1>0, <2>1, OrderRead
  <2>3. cons_n' \in [Reader -> 0 .. MaxCount]
    <3>1. cons_n[t] - 1 \in 0 .. MaxCount
      BY <1>0, <1>11 DEF ConsReadChar, ConsReady, ConsTypeOK
    <3>2. cons_n' = [cons_n EXCEPT ![t] = cons_n[t] - 1]
      BY <1>11 DEF ConsReadChar
    <3>. QED BY <1>0, <3>1, <3>2 DEF ConsTypeOK
  <2>4. ConsTypeOK'
    BY <1>0, <1>11, <1>x, <2>2, <2>3, SMTT(30) DEF ConsReadChar, ConsTypeOK
  <2>5. ReaderWaits'
    BY <1>0, <1>11, <2>1 DEF ConsReadChar, ConsReady, ConsHolds, ConsTypeOK, ReaderWaits,
       Nothing
  <2>. QED BY <2>2, <2>4, <2>5 DEF ConsoleInv
<1>12. ASSUME NEW t \in Reader, ConsKill(t) PROVE ConsoleInv'
  <2>1. InOrder(cons_r', cons_w', cons_e', INPUT_BUF_SIZE, 2 ^ UintBits)
    BY <1>0, <1>12 DEF ConsKill
  <2>2. ConsTypeOK'
    BY <1>0, <1>12 DEF ConsKill, ConsGoto, ConsTypeOK
  <2>3. ReaderWaits'
    BY <1>0, <1>12 DEF ConsKill, ConsGoto, ConsTypeOK, ReaderWaits, Nothing
  <2>. QED BY <2>1, <2>2, <2>3 DEF ConsoleInv
<1>13. ASSUME NEW t \in Reader, ConsExit(t) PROVE ConsoleInv'
  <2>1. InOrder(cons_r', cons_w', cons_e', INPUT_BUF_SIZE, 2 ^ UintBits)
    BY <1>0, <1>13 DEF ConsExit
  <2>2. ConsTypeOK'
    BY <1>0, <1>13 DEF ConsExit, ConsTypeOK
  <2>3. ReaderWaits'
    BY <1>0, <1>13 DEF ConsExit, ConsTypeOK, ReaderWaits, Nothing
  <2>. QED BY <2>1, <2>2, <2>3 DEF ConsoleInv
<1>. QED BY <1>1, <1>2, <1>3, <1>4, <1>5, <1>6, <1>7, <1>8, <1>9, <1>10, <1>11,
   <1>12, <1>13
     DEF ConsNext, ConsReadStep

\* It holds for the empty buffer.
LEMMA ConsoleInitInv ==
  ASSUME ConsInit PROVE ConsoleInv
<1>. USE ConsoleSizes DEF ConsInit
<1>1. 0 \in 0 .. 2 ^ UintBits - 1 /\ 0 \in 0 .. MaxCount
  OBVIOUS
<1>2. Fill(0, 0, 2 ^ UintBits) = 0
  BY <1>1, FillRange
<1>3. InOrder(cons_r, cons_w, cons_e, INPUT_BUF_SIZE, 2 ^ UintBits)
  BY <1>1, <1>2 DEF InOrder
<1>4. cons_n \in [Reader -> 0 .. MaxCount] /\ cons_target \in [Reader -> 0 .. MaxCount]
  BY <1>1
<1>5. cons_killed \in [Reader -> BOOLEAN]
  OBVIOUS
<1>6. ConsTypeOK
  BY <1>1, <1>4, <1>5 DEF ConsTypeOK, Uint, InChar
<1>7. ReaderWaits
  BY DEF ReaderWaits
<1>. QED BY <1>3, <1>6, <1>7 DEF ConsoleInv

\* The inductive invariant of console input.
THEOREM ConsoleInvariant == ConsSpec => []ConsoleInv
<1>1. ConsInit => ConsoleInv
  BY ConsoleInitInv
<1>2. ConsoleInv /\ [ConsNext]_consVars => ConsoleInv'
  BY ConsoleStepInv
<1>. QED BY <1>1, <1>2, PTL DEF ConsSpec

\* cons.r, cons.w and cons.e keep their order around the ring, a full buffer
\* has something to read, and no reader sleeps on a complete line.
THEOREM ConsoleInputRing == ConsSpec => []InputRing
<1>1. ConsoleInv => InputRing
  BY ConsoleSizes
     DEF ConsoleInv, InputRing, RingInOrder, InOrder, Minus, Fill,
         ReaderWaits, ReaderJustified
<1>. QED BY <1>1, ConsoleInvariant, PTL

\* No step changes a character that is complete and has not been read.
LEMMA StepKeeps ==
  ASSUME ConsoleInv, [ConsNext]_consVars
  PROVE  \A d \in 0 .. Minus(cons_w, cons_r') - 1 :
            cons_buf'[At(Plus(cons_r', d))] = cons_buf[At(Plus(cons_r', d))]
<1>. USE ConsoleSizes
<1>1. CASE cons_buf' = cons_buf
  BY <1>1
<1>2. ASSUME NEW x \in InChar, IntrChar(x)
      PROVE  \A d \in 0 .. Minus(cons_w, cons_r') - 1 :
            cons_buf'[At(Plus(cons_r', d))] = cons_buf[At(Plus(cons_r', d))]
  <2>1. /\ InOrder(cons_r, cons_w, cons_e, INPUT_BUF_SIZE, 2 ^ UintBits)
        /\ Fill(cons_r, cons_e, 2 ^ UintBits) < INPUT_BUF_SIZE
        /\ cons_r' = cons_r /\ cons_buf' = [cons_buf EXCEPT ![cons_e % INPUT_BUF_SIZE] = x]
        /\ cons_buf \in [0 .. INPUT_BUF_SIZE - 1 -> InChar]
    BY <1>2 DEF ConsoleInv, ConsTypeOK, IntrChar, Minus, Fill, At
  <2>. SUFFICES ASSUME NEW d \in 0 .. Fill(cons_r, cons_w, 2 ^ UintBits) - 1
                PROVE  cons_buf'[((cons_r + d) % 2 ^ UintBits) % INPUT_BUF_SIZE]
                          = cons_buf[((cons_r + d) % 2 ^ UintBits) % INPUT_BUF_SIZE]
    BY <2>1 DEF Minus, Fill, At, Plus
  <2>2. /\ cons_e % INPUT_BUF_SIZE # ((cons_r + d) % 2 ^ UintBits) % INPUT_BUF_SIZE
        /\ ((cons_r + d) % 2 ^ UintBits) % INPUT_BUF_SIZE \in 0 .. INPUT_BUF_SIZE - 1
    BY <2>1, OrderSlot
  <2>. QED BY <2>1, <2>2
<1>3. CASE UNCHANGED consVars \/ IntrBackspace \/ IntrKillLine
  BY <1>1, <1>3 DEF consVars, IntrBackspace, IntrKillLine
<1>4. ASSUME NEW t \in Reader, ConsCall(t) \/ ConsReadStep(t) \/ ConsKill(t) \/ ConsExit(t)
      PROVE  cons_buf' = cons_buf
  BY <1>4 DEF ConsCall, ConsReadStep, ConsKill, ConsExit, ConsAcquire, ConsReadDone, ConsReadKilled,
     ConsReadCheck,
     ConsReadSleep, ConsReadEof, ConsReadChar, ConsReadLast, ConsReturn
<1>. QED BY <1>1, <1>2, <1>3, <1>4 DEF ConsNext

\* Backspace and control-U do not reach into complete lines, and new characters
\* do not overwrite them.
THEOREM ConsoleCompleteKept == ConsSpec => CompleteKept
<1>1. ConsoleInv /\ [ConsNext]_consVars
        => [\A d \in 0 .. Minus(cons_w, cons_r') - 1 :
               cons_buf'[At(Plus(cons_r', d))] = cons_buf[At(Plus(cons_r', d))]]_consVars
  BY StepKeeps
<1>. QED BY <1>1, ConsoleInvariant, PTL DEF ConsSpec, CompleteKept

-----------------------------------------------------------------------------
(* Console output.                                                         *)

\* What the assumption says of the constants.
LEMMA UartSizes ==
  /\ RingSizes(UART_TX_BUF_SIZE, 2 ^ UintBits)
  /\ 2 ^ UintBits \in Nat \ {0} /\ UART_TX_BUF_SIZE \in Nat \ {0}
  /\ Nobody \notin Writer /\ Intr # Nobody /\ Intr \notin Writer
  /\ OutChar # {} /\ IsFiniteSet(SyncCPU)
<1>1. RingSizes(UART_TX_BUF_SIZE, 2 ^ UintBits)
  BY UartAssumption DEF WrapsEvenly, RingSizes
<1>2. 2 ^ UintBits \in Nat \ {0} /\ UART_TX_BUF_SIZE \in Nat \ {0}
  BY <1>1, Sizes
<1>. QED BY <1>1, <1>2, UartAssumption

\* Types, with how many characters are in the ring.
UartTypes ==
    /\ UartTypeOK
    /\ Ring(uart_tx_buf, uart_tx_r, uart_tx_w, UART_TX_BUF_SIZE, 2 ^ UintBits, OutChar)

\* Room is left in the device for the character that uartstart() has taken and
\* for one of each CPU that has seen LSR_TX_IDLE.
DeviceRoom ==
    thr + Cardinality(sync) + (IF start = "write" THEN 1 ELSE 0)
             <= 1 + Cardinality(SyncCPU)

\* uartputc() sleeps only on a full buffer, whoever has uart_tx_lock.
PutWaits == \A t \in Writer : uart_pc[t] = "asleep" => UartFull

\* The inductive invariant of console output.
UartInv == UartTypes /\ DeviceRoom /\ PutWaits /\ InterruptDue

\* The set of CPUs in uartputc_sync() is finite.
LEMMA SyncCount ==
  ASSUME NEW S, S \subseteq SyncCPU
  PROVE  /\ IsFiniteSet(S) /\ Cardinality(S) \in Nat /\ Cardinality(SyncCPU) \in Nat
         /\ Cardinality(S) <= Cardinality(SyncCPU)
         /\ \A d \in SyncCPU \ S : Cardinality(S \cup {d}) = Cardinality(S) + 1
         /\ \A d \in S : Cardinality(S \ {d}) = Cardinality(S) - 1
<1>1. IsFiniteSet(S) /\ Cardinality(S) <= Cardinality(SyncCPU)
  BY UartSizes, FS_Subset
<1>2. Cardinality(S) \in Nat /\ Cardinality(SyncCPU) \in Nat
  BY <1>1, UartSizes, FS_CardinalityType
<1>3. \A d \in SyncCPU \ S : Cardinality(S \cup {d}) = Cardinality(S) + 1
  BY <1>1, FS_AddElement
<1>4. \A d \in S : Cardinality(S \ {d}) = Cardinality(S) - 1
  BY <1>1, FS_RemoveElement
<1>. QED BY <1>1, <1>2, <1>3, <1>4

\* No step of a process, of a printing CPU or of the device breaks it.
LEMMA UartStepInv ==
  ASSUME UartInv, [UartNext]_uartVars
  PROVE  UartInv'
<1>. USE UartSizes DEF uartRing
<1>0. UartTypes /\ DeviceRoom /\ PutWaits /\ InterruptDue
  BY DEF UartInv
<1>x. /\ sync \subseteq SyncCPU /\ thr \in Nat
      /\ Cardinality(sync) \in Nat /\ Cardinality(SyncCPU) \in Nat
      /\ Cardinality(sync) <= Cardinality(SyncCPU)
  <2>1. sync \subseteq SyncCPU
    BY <1>0 DEF UartTypes, UartTypeOK
  <2>2. Cardinality(SyncCPU) \in Nat
    BY <2>1, SyncCount
  <2>3. thr \in Nat
    BY <1>0, <2>2 DEF UartTypes, UartTypeOK
  <2>. QED BY <2>1, <2>2, <2>3, SyncCount
<1>1. CASE UNCHANGED uartVars
  BY <1>0, <1>1 DEF UartInv, UartTypes, DeviceRoom, PutWaits, InterruptDue,
     UartTypeOK, uartVars, UartEmpty, UartFull, TxIdle
<1>2. ASSUME NEW t \in Writer, UartCall(t) PROVE UartInv'
  <2>1. UartTypes'
    BY <1>0, <1>2 DEF UartCall, UartGoto, UartTypes, UartTypeOK, Uint
  <2>2. DeviceRoom'
    BY <1>0, <1>2 DEF UartCall, DeviceRoom
  <2>3. PutWaits'
    BY <1>0, <1>2 DEF UartCall, UartGoto, UartTypes, UartTypeOK, PutWaits, UartFull
  <2>4. InterruptDue'
    BY <1>0, <1>2 DEF UartCall, InterruptDue, UartEmpty, TxIdle
  <2>. QED BY <2>1, <2>2, <2>3, <2>4 DEF UartInv
<1>3. ASSUME NEW t \in Writer, PutSleep(t) PROVE UartInv'
  <2>1. UartTypes'
    BY <1>0, <1>3 DEF PutSleep, UartGoto, UartTypes, UartTypeOK, Uint
  <2>2. DeviceRoom'
    BY <1>0, <1>3 DEF PutSleep, DeviceRoom
  <2>3. PutWaits'
    BY <1>0, <1>3 DEF PutSleep, UartGoto, UartTypes, UartTypeOK, PutWaits, UartFull
  <2>4. InterruptDue'
    BY <1>0, <1>3 DEF PutSleep, InterruptDue, UartEmpty, TxIdle
  <2>. QED BY <2>1, <2>2, <2>3, <2>4 DEF UartInv
<1>4. ASSUME NEW t \in Writer, Put(t) PROVE UartInv'
  <2>1. UartTypes'
    <3>1. /\ Ring(uart_tx_buf, uart_tx_r, uart_tx_w, UART_TX_BUF_SIZE, 2 ^ UintBits, OutChar)
          /\ uart_tx_w # (uart_tx_r + UART_TX_BUF_SIZE) % 2 ^ UintBits
          /\ uart_c[t] \in OutChar
      BY <1>0, <1>4 DEF UartTypes, UartTypeOK, Put, UartFull
    <3>2. /\ uart_tx_w' = (uart_tx_w + 1) % 2 ^ UintBits /\ uart_tx_r' = uart_tx_r
          /\ uart_tx_buf' = [uart_tx_buf EXCEPT ![uart_tx_w % UART_TX_BUF_SIZE] = uart_c[t]]
      BY <1>4 DEF Put, Inc
    <3>3. Ring(uart_tx_buf', uart_tx_r', uart_tx_w', UART_TX_BUF_SIZE, 2 ^ UintBits, OutChar)
      BY <3>1, <3>2, RingPut
    <3>4. /\ uart_tx_r' \in 0 .. 2 ^ UintBits - 1 /\ uart_tx_w' \in 0 .. 2 ^ UintBits - 1
          /\ uart_tx_buf' \in [0 .. UART_TX_BUF_SIZE - 1 -> OutChar]
      BY <3>3 DEF Ring, Slots
    <3>5. UartTypeOK'
      BY <1>0, <1>4, <3>4 DEF Put, UartGoto, UartTypes, UartTypeOK, Uint
    <3>. QED BY <3>3, <3>5 DEF UartTypes
  <2>2. DeviceRoom'
    BY <1>0, <1>4, <1>x DEF Put, DeviceRoom, UartTypes, UartTypeOK
  <2>3. PutWaits'
    BY <1>0, <1>4 DEF Put, UartGoto, UartTypes, UartTypeOK, PutWaits
  <2>4. InterruptDue'
    BY <1>4 DEF Put, InterruptDue
  <2>. QED BY <2>1, <2>2, <2>3, <2>4 DEF UartInv
<1>5. ASSUME NEW t \in Writer, KillWake(t) PROVE UartInv'
  <2>1. UartTypes'
    BY <1>0, <1>5 DEF KillWake, UartGoto, UartTypes, UartTypeOK, Uint
  <2>2. DeviceRoom'
    BY <1>0, <1>5 DEF KillWake, DeviceRoom
  <2>3. PutWaits'
    BY <1>0, <1>5 DEF KillWake, UartGoto, UartTypes, UartTypeOK, PutWaits, UartFull
  <2>4. InterruptDue'
    BY <1>0, <1>5 DEF KillWake, InterruptDue, UartEmpty, TxIdle
  <2>. QED BY <2>1, <2>2, <2>3, <2>4 DEF UartInv
<1>6. ASSUME StartEmpty \/ StartBusy PROVE UartInv'
  <2>1. UartTypes'
    BY <1>0, <1>6 DEF StartEmpty, StartBusy, UartRelease, UartTypes, UartTypeOK, Uint
  <2>2. DeviceRoom'
    BY <1>0, <1>6, <1>x DEF StartEmpty, StartBusy, UartRelease, DeviceRoom
  <2>3. PutWaits'
    BY <1>0, <1>6 DEF StartEmpty, StartBusy, UartRelease, PutWaits, UartFull
  <2>4. InterruptDue'
    BY <1>6 DEF StartEmpty, StartBusy, InterruptDue, UartEmpty, TxIdle
  <2>. QED BY <2>1, <2>2, <2>3, <2>4 DEF UartInv
<1>7. ASSUME StartTake PROVE UartInv'
  <2>1. UartTypes'
    <3>1. /\ Ring(uart_tx_buf, uart_tx_r, uart_tx_w, UART_TX_BUF_SIZE, 2 ^ UintBits, OutChar)
          /\ uart_tx_r # uart_tx_w
      BY <1>0, <1>7 DEF UartTypes, StartTake, UartEmpty
    <3>2. /\ uart_tx_r' = (uart_tx_r + 1) % 2 ^ UintBits /\ uart_tx_w' = uart_tx_w
          /\ uart_tx_buf' = uart_tx_buf /\ uart_out' = uart_tx_buf[uart_tx_r % UART_TX_BUF_SIZE]
      BY <1>7 DEF StartTake, Inc
    <3>3. /\ Ring(uart_tx_buf', uart_tx_r', uart_tx_w', UART_TX_BUF_SIZE, 2 ^ UintBits, OutChar)
          /\ uart_out' \in OutChar
      BY <3>1, <3>2, RingGet
    <3>4. uart_tx_r' \in 0 .. 2 ^ UintBits - 1 /\ uart_tx_w' \in 0 .. 2 ^ UintBits - 1
      BY <3>3 DEF Ring
    <3>5. UartTypeOK'
      BY <1>0, <1>7, <3>2, <3>3, <3>4
         DEF StartTake, Woken, UartTypes, UartTypeOK, Uint
    <3>. QED BY <3>3, <3>5 DEF UartTypes
  <2>2. DeviceRoom'
    BY <1>0, <1>7, <1>x DEF StartTake, TxIdle, DeviceRoom
  <2>3. PutWaits'
    BY <1>7 DEF StartTake, Woken, PutWaits
  <2>4. InterruptDue'
    BY <1>0, <1>7 DEF StartTake, InterruptDue, UartTypes, UartTypeOK
  <2>. QED BY <2>1, <2>2, <2>3, <2>4 DEF UartInv
<1>8. ASSUME StartWrite PROVE UartInv'
  <2>1. DeviceRoom'
    BY <1>0, <1>8, <1>x DEF StartWrite, DeviceRoom
  <2>2. thr' \in 0 .. 1 + Cardinality(SyncCPU)
    BY <1>0, <1>8, <1>x DEF StartWrite, DeviceRoom
  <2>3. UartTypes'
    <3>1. /\ UNCHANGED <<uart_tx_buf, uart_tx_w, uart_tx_r, uart_tx_lock, uart_pc, uart_c,
                        sync, uart_out>>
          /\ irq' = FALSE /\ start = "write" /\ start' = "loop"
      BY <1>8 DEF StartWrite
    <3>. QED BY <1>0, <2>2, <3>1 DEF UartTypes, UartTypeOK
  <2>4. PutWaits'
    BY <1>0, <1>8 DEF StartWrite, PutWaits, UartFull
  <2>5. InterruptDue'
    BY <1>0, <1>8 DEF StartWrite, InterruptDue, UartTypes, UartTypeOK
  <2>. QED BY <2>1, <2>3, <2>4, <2>5 DEF UartInv
<1>9. ASSUME IntrStart PROVE UartInv'
  <2>1. UartTypes'
    BY <1>0, <1>9 DEF IntrStart, UartTypes, UartTypeOK, Uint
  <2>2. DeviceRoom'
    BY <1>0, <1>9, <1>x DEF IntrStart, DeviceRoom, UartTypes, UartTypeOK
  <2>3. PutWaits'
    BY <1>0, <1>9 DEF IntrStart, PutWaits, UartFull
  <2>4. InterruptDue'
    BY <1>9 DEF IntrStart, InterruptDue
  <2>. QED BY <2>1, <2>2, <2>3, <2>4 DEF UartInv
<1>10. ASSUME NEW d \in SyncCPU, SyncTest(d) PROVE UartInv'
  <2>1. sync' \subseteq SyncCPU
    BY <1>10, <1>x DEF SyncTest
  <2>2. Cardinality(sync') \in Nat /\ Cardinality(sync') <= Cardinality(SyncCPU)
    BY <2>1, SyncCount
  <2>3. UartTypes'
    BY <1>0, <1>10, <2>1 DEF SyncTest, UartTypes, UartTypeOK, Uint
  <2>4. DeviceRoom'
    BY <1>10, <1>x, <2>2 DEF SyncTest, TxIdle, DeviceRoom
  <2>5. PutWaits'
    BY <1>0, <1>10 DEF SyncTest, PutWaits, UartFull
  <2>6. InterruptDue'
    BY <1>0, <1>10 DEF SyncTest, InterruptDue, UartEmpty, TxIdle
  <2>. QED BY <2>3, <2>4, <2>5, <2>6 DEF UartInv
<1>11. ASSUME NEW d \in SyncCPU, SyncWrite(d) PROVE UartInv'
  <2>1. sync' \subseteq SyncCPU
    BY <1>11, <1>x DEF SyncWrite
  <2>2. Cardinality(sync') = Cardinality(sync) - 1
    BY <1>11, <1>x, SyncCount DEF SyncWrite
  <2>3. DeviceRoom' /\ thr' \in 0 .. 1 + Cardinality(SyncCPU)
    <3>1. /\ thr' = thr + 1 /\ start' = start
          /\ Cardinality(sync') \in Nat
      BY <1>11, <2>1, SyncCount DEF SyncWrite
    <3>. QED BY <1>0, <1>x, <2>2, <3>1 DEF DeviceRoom
  <2>4. UartTypes'
    <3>1. /\ UNCHANGED <<uart_tx_buf, uart_tx_w, uart_tx_r, uart_tx_lock, uart_pc, uart_c,
                        start, uart_out>>
          /\ irq' = FALSE
      BY <1>11 DEF SyncWrite
    <3>. QED BY <1>0, <2>1, <2>3, <3>1 DEF UartTypes, UartTypeOK
  <2>5. PutWaits'
    BY <1>0, <1>11 DEF SyncWrite, PutWaits, UartFull
  <2>6. InterruptDue'
    BY <1>11, <1>x DEF SyncWrite, InterruptDue, TxIdle
  <2>. QED BY <2>3, <2>4, <2>5, <2>6 DEF UartInv
<1>12. ASSUME Sent PROVE UartInv'
  <2>1. /\ UNCHANGED <<uart_tx_buf, uart_tx_w, uart_tx_r, uart_tx_lock, uart_pc, uart_c,
                      start, sync, uart_out>>
        /\ thr > 0 /\ thr' = thr - 1
        /\ irq' = (irq \/ thr = 1)
    BY <1>12 DEF Sent
  <2>2. irq' \in BOOLEAN /\ (thr = 1 => irq')
    BY <2>1, Zenon
  <2>3. thr' \in 0 .. 1 + Cardinality(SyncCPU)
    BY <1>0, <1>x, <2>1 DEF DeviceRoom
  <2>4. UartTypes'
    <3>1. UartTypeOK
      BY <1>0 DEF UartTypes
    <3>2. UartTypeOK'
      BY <2>1, <2>2, <2>3, <3>1, Zenon DEF UartTypeOK
    <3>. QED BY <1>0, <2>1, <3>2 DEF UartTypes
  <2>5. DeviceRoom'
    BY <1>0, <1>x, <2>1 DEF DeviceRoom
  <2>6. PutWaits'
    BY <1>0, <2>1 DEF PutWaits, UartFull
  <2>7. InterruptDue'
    <3>1. thr = 1 \/ thr' # 0
      BY <1>x, <2>1
    <3>. QED BY <2>2, <3>1, Zenon DEF InterruptDue, TxIdle
  <2>. QED BY <2>4, <2>5, <2>6, <2>7 DEF UartInv
<1>. QED BY <1>1, <1>2, <1>3, <1>4, <1>5, <1>6, <1>7, <1>8, <1>9, <1>10, <1>11,
   <1>12
     DEF UartNext, UartStart

\* It holds after uartinit().
LEMMA UartInitInv ==
  ASSUME UartInit PROVE UartInv
<1>. USE UartSizes DEF UartInit
<1>1. 0 \in 0 .. 2 ^ UintBits - 1
  OBVIOUS
<1>2. (CHOOSE x \in OutChar : TRUE) \in OutChar
  OBVIOUS
<1>3. /\ uart_tx_buf \in [0 .. UART_TX_BUF_SIZE - 1 -> OutChar]
      /\ uart_out \in OutChar /\ uart_c \in [Writer -> OutChar]
  BY <1>2
<1>4. Cardinality(sync) = 0 /\ Cardinality(SyncCPU) \in Nat
  BY SyncCount, FS_EmptySet
<1>5. Ring(uart_tx_buf, uart_tx_r, uart_tx_w, UART_TX_BUF_SIZE, 2 ^ UintBits, OutChar)
  BY <1>3, RingEmpty DEF Slots
<1>6. UartTypeOK
  <2>0. thr = 0 /\ irq \in BOOLEAN
    OBVIOUS
  <2>1. thr \in 0 .. 1 + Cardinality(SyncCPU)
    BY <1>4, <2>0
  <2>2. uart_pc \in [Writer -> {"idle", "acquire", "asleep", "start"}]
    OBVIOUS
  <2>. QED BY <1>1, <1>3, <2>0, <2>1, <2>2 DEF UartTypeOK, Uint
<1>7. DeviceRoom
  BY <1>4 DEF DeviceRoom
<1>8. PutWaits /\ InterruptDue
  BY DEF PutWaits, InterruptDue, UartEmpty
<1>. QED BY <1>5, <1>6, <1>7, <1>8 DEF UartInv, UartTypes

\* The inductive invariant of console output.
THEOREM UartInvariant == UartSpec => []UartInv
<1>1. UartInit => UartInv
  BY UartInitInv
<1>2. UartInv /\ [UartNext]_uartVars => UartInv'
  BY UartStepInv
<1>. QED BY <1>1, <1>2, PTL DEF UartSpec

\* While there are characters to send the device is busy or asks for an
\* interrupt, no writer sleeps on a buffer with room, and the device holds at
\* most one character of uartstart() and one of each CPU in uartputc_sync().
THEOREM UartSends == UartSpec => []SomeoneSends
<1>1. UartInv => SomeoneSends
  BY DEF UartInv, UartTypes, PutWaits, SomeoneSends, WriterJustified
<1>. QED BY <1>1, UartInvariant, PTL

\* Queue is what the ring contains.
LEMMA UartQueueSteps ==
    /\ UartQueue = Contents(uart_tx_buf, uart_tx_r, uart_tx_w, UART_TX_BUF_SIZE, 2 ^ UintBits)
    /\ UartQueue' = Contents(uart_tx_buf', uart_tx_r', uart_tx_w', UART_TX_BUF_SIZE, 2 ^ UintBits)
  BY DEF UartQueue, Contents, Fill

\* Every step is a step of the queue, or leaves it alone.
LEMMA UartStepFifo ==
  ASSUME UartInv, [UartNext]_uartVars
  PROVE  [UartAbs!FNext]_<<UartQueue, uart_out, FALSE>>
<1>. DEFINE Q == Contents(uart_tx_buf, uart_tx_r, uart_tx_w, UART_TX_BUF_SIZE, 2 ^ UintBits)
            Q1 == Contents(uart_tx_buf', uart_tx_r', uart_tx_w', UART_TX_BUF_SIZE, 2 ^ UintBits)
<1>. USE UartSizes
<1>0. /\ UartQueue = Q /\ UartQueue' = Q1
      /\ Ring(uart_tx_buf, uart_tx_r, uart_tx_w, UART_TX_BUF_SIZE, 2 ^ UintBits, OutChar)
      /\ uart_c \in [Writer -> OutChar]
  BY UartQueueSteps DEF UartInv, UartTypes, UartTypeOK
<1>1. ASSUME NEW t \in Writer, Put(t) PROVE \E b \in OutChar : UartAbs!Put(b)
  <2>1. /\ uart_tx_w' = (uart_tx_w + 1) % 2 ^ UintBits /\ uart_tx_r' = uart_tx_r
        /\ uart_tx_buf' = [uart_tx_buf EXCEPT ![uart_tx_w % UART_TX_BUF_SIZE] = uart_c[t]]
        /\ uart_out' = uart_out
        /\ uart_tx_w # (uart_tx_r + UART_TX_BUF_SIZE) % 2 ^ UintBits
        /\ uart_c[t] \in OutChar
    BY <1>0, <1>1 DEF Put, Inc, UartFull
  <2>2. PutIn(Q1, Q, uart_c[t], UART_TX_BUF_SIZE)
    BY <1>0, <2>1, RingPut
  <2>. HIDE DEF Q, Q1
  <2>3. UartAbs!Put(uart_c[t])
    BY <1>0, <2>1, <2>2 DEF PutIn, UartAbs!Put
  <2>. QED BY <2>1, <2>3
<1>2. ASSUME StartTake PROVE UartAbs!Get
  <2>1. /\ uart_tx_r' = (uart_tx_r + 1) % 2 ^ UintBits /\ uart_tx_w' = uart_tx_w
        /\ uart_tx_buf' = uart_tx_buf /\ uart_out' = uart_tx_buf[uart_tx_r % UART_TX_BUF_SIZE]
        /\ uart_tx_r # uart_tx_w
    BY <1>2 DEF StartTake, Inc, UartEmpty
  <2>2. TakenOut(Q1, Q, uart_tx_buf[uart_tx_r % UART_TX_BUF_SIZE])
    BY <1>0, <2>1, RingGet
  <2>. HIDE DEF Q, Q1
  <2>. QED BY <1>0, <2>1, <2>2 DEF TakenOut, UartAbs!Get
<1>3. ASSUME UNCHANGED <<uart_tx_buf, uart_tx_w, uart_tx_r, uart_out>>
      PROVE  UNCHANGED <<UartQueue, uart_out>>
  BY <1>0, <1>3
<1>4. CASE UNCHANGED uartVars
  BY <1>3, <1>4 DEF uartVars, uartRing
<1>5. ASSUME NEW t \in Writer, UartCall(t) \/ PutSleep(t) \/ KillWake(t)
      PROVE  UNCHANGED <<UartQueue, uart_out>>
  BY <1>3, <1>5 DEF UartCall, PutSleep, KillWake, uartRing
<1>6. ASSUME NEW d \in SyncCPU, SyncTest(d) \/ SyncWrite(d)
      PROVE  UNCHANGED <<UartQueue, uart_out>>
  BY <1>3, <1>6 DEF SyncTest, SyncWrite, uartRing
<1>7. ASSUME \/ StartEmpty \/ StartBusy \/ StartWrite
             \/ IntrStart \/ Sent
      PROVE  UNCHANGED <<UartQueue, uart_out>>
  BY <1>3, <1>7 DEF StartEmpty, StartBusy, StartWrite, IntrStart,
     Sent, uartRing
<1>. QED BY <1>1, <1>2, <1>4, <1>5, <1>6, <1>7 DEF UartNext, UartStart, UartAbs!FNext

\* Characters reach the device in the order in which uartputc() took them,
\* none lost and none twice.
THEOREM UartIsFifo == UartSpec => OutputInOrder
<1>1. ASSUME UartInit PROVE UartAbs!FInit
  <2>. USE UartSizes
  <2>1. /\ uart_tx_r = 0 /\ uart_tx_w = 0
        /\ uart_tx_buf \in [0 .. UART_TX_BUF_SIZE - 1 -> OutChar] /\ uart_out \in OutChar
    BY <1>1 DEF UartInit
  <2>2. UartQueue = <<>>
    <3>1. Contents(uart_tx_buf, uart_tx_r, uart_tx_w, UART_TX_BUF_SIZE, 2 ^ UintBits) = <<>>
      BY <2>1, RingEmpty DEF Slots
    <3>. QED BY <3>1, UartQueueSteps
  <2>. QED BY <2>1, <2>2 DEF UartAbs!FInit
<1>2. UartInv /\ [UartNext]_uartVars => [UartAbs!FNext]_<<UartQueue, uart_out, FALSE>>
  BY UartStepFifo
<1>. QED BY <1>1, <1>2, UartInvariant, PTL DEF UartSpec, OutputInOrder, UartAbs!FSpec

=============================================================================
