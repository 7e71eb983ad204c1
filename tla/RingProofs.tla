----------------------------- MODULE RingProofs -----------------------------
(***************************************************************************)
(* Ring buffers as pipe.c, uart.c and console.c use them: an array and     *)
(* unsigned indices that only grow, modulo a power of two, and name a slot *)
(* modulo the size of the array.  Such a ring is a queue.                  *)
(***************************************************************************)
EXTENDS Integers, Sequences, SequenceTheorems, TLAPS

-----------------------------------------------------------------------------
(* Remainders.                                                             *)

\* What is left over from a multiple is the remainder.
LEMMA ModUnique ==
  ASSUME NEW P \in Nat \ {0}, NEW q \in Int, NEW r \in 0 .. P - 1
  PROVE  (q * P + r) % P = r
  OBVIOUS

\* Every number is a multiple and a remainder.
LEMMA DivMod ==
  ASSUME NEW P \in Nat \ {0}, NEW x \in Int
  PROVE  \E q \in Int, r \in 0 .. P - 1 : x = q * P + r /\ x % P = r
<1>1. x \div P \in Int /\ x % P \in 0 .. P - 1
  OBVIOUS
<1>2. x = (x \div P) * P + (x % P)
  OBVIOUS
<1>. QED BY <1>1, <1>2

\* A multiple more has the same remainder.
LEMMA ModShift ==
  ASSUME NEW P \in Nat \ {0}, NEW x \in Int, NEW k \in Int
  PROVE  (x + k * P) % P = x % P
<1>1. PICK q \in Int, r \in 0 .. P - 1 : x = q * P + r /\ x % P = r
  BY DivMod
<1>2. x + k * P = (q + k) * P + r
  BY <1>1
<1>3. ((q + k) * P + r) % P = r
  BY ModUnique
<1>. QED BY <1>1, <1>2, <1>3

\* Numbers less than P apart have different remainders.
LEMMA NoMultiple ==
  ASSUME NEW P \in Nat \ {0}, NEW d \in Int, 0 < d * P, d * P < P
  PROVE  FALSE
<1>1. CASE d >= 1
  <2>1. d * P >= P
    BY <1>1
  <2>. QED BY <2>1
<1>2. CASE d <= 0
  <2>1. d * P <= 0
    BY <1>2
  <2>. QED BY <2>1
<1>. QED BY <1>1, <1>2

\* Numbers less than P apart have different remainders.
LEMMA ModDistinct ==
  ASSUME NEW P \in Nat \ {0}, NEW x \in Int, NEW y \in Int, x < y, y - x < P
  PROVE  x % P # y % P
<1>1. PICK q \in Int, r \in 0 .. P - 1 : x = q * P + r /\ x % P = r
  BY DivMod
<1>2. PICK k \in Int, s \in 0 .. P - 1 : y = k * P + s /\ y % P = s
  BY DivMod
<1>3. SUFFICES ASSUME r = s PROVE FALSE
  BY <1>1, <1>2
<1>4. y - x = (k - q) * P
  BY <1>1, <1>2, <1>3
<1>5. 0 < y - x
  OBVIOUS
<1>. QED BY <1>4, <1>5, NoMultiple

\* Sums and differences that are out of range by less than a turn.
LEMMA ModSum ==
  ASSUME NEW M \in Nat \ {0}, NEW a \in 0 .. M - 1, NEW d \in 0 .. M
  PROVE  (a + d) % M = IF a + d < M THEN a + d ELSE a + d - M
  OBVIOUS

\* The same for going back.
LEMMA ModDiff ==
  ASSUME NEW M \in Nat \ {0}, NEW a \in 0 .. M - 1, NEW d \in 0 .. M
  PROVE  (a - d) % M = IF a < d THEN a - d + M ELSE a - d
  OBVIOUS

-----------------------------------------------------------------------------
(* Rings of size slots with indices modulo M.                              *)

\* The indices count modulo M, which size divides.
RingSizes(size, M) ==
    /\ size \in Nat \ {0} /\ M \in Nat
    /\ \E k \in 2 .. M : M = k * size

\* What the assumption says of the sizes.
LEMMA Sizes ==
  ASSUME NEW size, NEW M, RingSizes(size, M)
  PROVE  /\ M \in Nat \ {0} /\ size \in Nat \ {0} /\ size < M
         /\ \E k \in Int : M = k * size
<1>1. PICK k \in 2 .. M : M = k * size
  BY DEF RingSizes
<1>2. M \in Nat /\ size \in Nat \ {0}
  BY DEF RingSizes
<1>3. k * size >= 2 * size
  BY <1>2
<1>. QED BY <1>1, <1>2, <1>3

\* Counting on modulo M names the same slots.
LEMMA Slot ==
  ASSUME NEW size, NEW M, RingSizes(size, M), NEW a \in 0 .. M - 1, NEW d \in 0 .. M
  PROVE  /\ ((a + d) % M) % size = (a + d) % size
         /\ (a + d) % M \in 0 .. M - 1
<1>1. M \in Nat \ {0} /\ size \in Nat \ {0}
  BY Sizes
<1>2. PICK k \in Int : M = k * size
  BY Sizes
<1>3. (a + d) % M = IF a + d < M THEN a + d ELSE a + d - M
  BY <1>1, ModSum
<1>4. (a + d + (-k) * size) % size = (a + d) % size
  <2>1. -k \in Int /\ a + d \in Int
    BY <1>1
  <2>. QED BY <1>1, <2>1, ModShift
<1>5. a + d - M = a + d + (-k) * size
  BY <1>1, <1>2
<1>6. (a + d) % M \in 0 .. M - 1
  BY <1>1, <1>3
<1>. QED BY <1>3, <1>4, <1>5, <1>6

\* So does counting from the next index.
LEMMA NextSlot ==
  ASSUME NEW size, NEW M, RingSizes(size, M), NEW r \in 0 .. M - 1, NEW k \in Nat
  PROVE  (((r + 1) % M) + k - 1) % size = (r + k) % size
<1>. DEFINE r1 == (r + 1) % M
<1>1. M \in Nat \ {0} /\ size \in Nat \ {0}
  BY Sizes
<1>2. PICK j \in Int : M = j * size
  BY Sizes
<1>3. r1 = r + 1 \/ r1 = r + 1 - M
  <2>1. 1 \in 0 .. M
    BY <1>1
  <2>. QED BY <1>1, <2>1, ModSum
<1>. HIDE DEF r1
<1>4. CASE r1 = r + 1
  <2>1. r1 + k - 1 = r + k
    BY <1>4
  <2>. QED BY <2>1 DEF r1
<1>5. CASE r1 = r + 1 - M
  <2>1. r1 + k - 1 = r + k + (-j) * size
    BY <1>1, <1>2, <1>5
  <2>2. r + k \in Int /\ -j \in Int
    BY <1>1
  <2>3. (r + k + (-j) * size) % size = (r + k) % size
    BY <1>1, <2>2, ModShift
  <2>. QED BY <2>1, <2>3 DEF r1
<1>. QED BY <1>3, <1>4, <1>5

\* How many slots are between two indices.
Fill(r, w, M) == (w - r) % M

\* The slots hold members of V.
Slots(buf, size, V) == buf \in [0 .. size - 1 -> V]

\* The contents of a ring, from the index of the reader to that of the writer.
Contents(buf, r, w, size, M) ==
    [k \in 1 .. Fill(r, w, M) |-> buf[(r + k - 1) % size]]

\* It is a difference that has wrapped around at most once.
LEMMA FillIs ==
  ASSUME NEW M \in Nat \ {0}, NEW r \in 0 .. M - 1, NEW w \in 0 .. M - 1
  PROVE  Fill(r, w, M) = IF w < r THEN w - r + M ELSE w - r
  BY ModDiff DEF Fill

\* It is an index itself, and zero when the indices meet.
LEMMA FillRange ==
  ASSUME NEW M \in Nat \ {0}, NEW r \in 0 .. M - 1, NEW w \in 0 .. M - 1
  PROVE  Fill(r, w, M) \in 0 .. M - 1 /\ (Fill(r, w, M) = 0 <=> r = w)
  BY FillIs

\* The writer moves on by one: one slot more is between them.
LEMMA FillUp ==
  ASSUME NEW M \in Nat \ {0}, NEW r \in 0 .. M - 1, NEW w \in 0 .. M - 1,
         NEW p, p = (w + 1) % M
  PROVE  /\ p \in 0 .. M - 1
         /\ Fill(r, w, M) < M - 1 => Fill(r, p, M) = Fill(r, w, M) + 1
<1>1. 1 \in 0 .. M
  OBVIOUS
<1>2. p = IF w + 1 < M THEN w + 1 ELSE w + 1 - M
  BY <1>1, ModSum
<1>3. p \in 0 .. M - 1
  BY <1>2
<1>4. /\ Fill(r, w, M) = IF w < r THEN w - r + M ELSE w - r
      /\ Fill(r, p, M) = IF p < r THEN p - r + M ELSE p - r
  BY <1>3, FillIs
<1>. QED BY <1>2, <1>3, <1>4

\* The reader moves on by one: one slot less is between them.
LEMMA FillDown ==
  ASSUME NEW M \in Nat \ {0}, NEW r \in 0 .. M - 1, NEW w \in 0 .. M - 1,
         NEW p, p = (r + 1) % M
  PROVE  /\ p \in 0 .. M - 1
         /\ r # w => Fill(p, w, M) = Fill(r, w, M) - 1
<1>1. 1 \in 0 .. M
  OBVIOUS
<1>2. p = IF r + 1 < M THEN r + 1 ELSE r + 1 - M
  BY <1>1, ModSum
<1>3. p \in 0 .. M - 1
  BY <1>2
<1>4. /\ Fill(r, w, M) = IF w < r THEN w - r + M ELSE w - r
      /\ Fill(p, w, M) = IF w < p THEN w - p + M ELSE w - p
  BY <1>3, FillIs
<1>. QED BY <1>2, <1>3, <1>4

\* The writer is Fill ahead of the reader.
LEMMA FillEnd ==
  ASSUME NEW M \in Nat \ {0}, NEW r \in 0 .. M - 1, NEW w \in 0 .. M - 1
  PROVE  w = (r + Fill(r, w, M)) % M
<1>1. PICK d \in 0 .. M : /\ d = Fill(r, w, M)
                          /\ d = IF w < r THEN w - r + M ELSE w - r
  <2>1. Fill(r, w, M) = IF w < r THEN w - r + M ELSE w - r
    BY FillIs
  <2>. QED BY <2>1
<1>2. (r + d) % M = IF r + d < M THEN r + d ELSE r + d - M
  BY ModSum
<1>. QED BY <1>1, <1>2

\* An index and the fill after one more, and a full ring.
LEMMA RingAhead ==
  ASSUME NEW size, NEW M, RingSizes(size, M), NEW r \in 0 .. M - 1, NEW w \in 0 .. M - 1
  PROVE  /\ Fill(r, w, M) \in 0 .. M - 1 /\ (Fill(r, w, M) = 0 <=> r = w)
         /\ (w + 1) % M \in 0 .. M - 1
         /\ Fill(r, w, M) < M - 1 => Fill(r, (w + 1) % M, M) = Fill(r, w, M) + 1
         /\ r # w => Fill((r + 1) % M, w, M) = Fill(r, w, M) - 1
         /\ w = (r + Fill(r, w, M)) % M
         /\ size < M /\ (w = (r + size) % M <=> Fill(r, w, M) = size)
<1>1. M \in Nat \ {0} /\ size \in Nat \ {0} /\ size < M
  BY Sizes
<1>2. /\ Fill(r, w, M) = IF w < r THEN w - r + M ELSE w - r
      /\ Fill(r, w, M) \in 0 .. M - 1 /\ (Fill(r, w, M) = 0 <=> r = w)
  <2>1. Fill(r, w, M) = IF w < r THEN w - r + M ELSE w - r
    BY <1>1, FillIs
  <2>. QED BY <1>1, <2>1
<1>3. /\ (w + 1) % M \in 0 .. M - 1
      /\ Fill(r, w, M) < M - 1 => Fill(r, (w + 1) % M, M) = Fill(r, w, M) + 1
  BY <1>1, FillUp
<1>4. r # w => Fill((r + 1) % M, w, M) = Fill(r, w, M) - 1
  BY <1>1, FillDown
<1>5. (r + size) % M = IF r + size < M THEN r + size ELSE r + size - M
  BY <1>1, ModSum
<1>6. w = (r + size) % M <=> Fill(r, w, M) = size
  BY <1>1, <1>2, <1>5
<1>7. w = (r + Fill(r, w, M)) % M
  BY <1>1, FillEnd
<1>. QED BY <1>1, <1>2, <1>3, <1>4, <1>6, <1>7

\* q lists the m slots of buf from r on.
Lists(q, buf, r, m, size, V) ==
    /\ q \in Seq(V) /\ Len(q) = m
    /\ \A k \in 1 .. m : q[k] = buf[(r + k - 1) % size]

\* q1 is q with v put in, and q with x taken out.
PutIn(q1, q, v, size) == Len(q) < size /\ q1 = Append(q, v)
TakenOut(q1, q, x) == q # <<>> /\ x = Head(q) /\ q1 = Tail(q)

\* The contents are a sequence, empty when the indices are equal.
LEMMA SeqOf ==
  ASSUME NEW size, NEW M, RingSizes(size, M), NEW r \in 0 .. M - 1, NEW w \in 0 .. M - 1,
         NEW V, NEW buf, Slots(buf, size, V)
  PROVE  /\ Lists(Contents(buf, r, w, size, M), buf, r, Fill(r, w, M), size, V)
         /\ r = w <=> Contents(buf, r, w, size, M) = <<>>
<1>. DEFINE q == Contents(buf, r, w, size, M)
            m == Fill(r, w, M)
<1>1. m \in Nat /\ (m = 0 <=> r = w) /\ size \in Nat \ {0} /\ M \in Nat
  BY RingAhead, Sizes
<1>2. \A k \in 1 .. m : (r + k - 1) % size \in 0 .. size - 1
  <2>. HIDE DEF m
  <2>. QED BY <1>1
<1>3. \A k \in 1 .. m : buf[(r + k - 1) % size] \in V
  BY <1>2 DEF Slots
<1>4. q \in [1 .. m -> V] /\ \A k \in 1 .. m : q[k] = buf[(r + k - 1) % size]
  BY <1>3 DEF Contents
<1>. HIDE DEF q, m
<1>5. q \in Seq(V) /\ Len(q) = m
  BY <1>1, <1>4
<1>6. m = 0 <=> q = <<>>
  BY <1>5, <1>1, EmptySeq
<1>7. Lists(q, buf, r, m, size, V)
  BY <1>4, <1>5 DEF Lists
<1>. QED BY <1>1, <1>6, <1>7 DEF q, m

\* Storing at the writer's index and moving it on appends.
LEMMA PutAt ==
  ASSUME NEW size, NEW M, RingSizes(size, M), NEW r \in 0 .. M - 1, NEW w \in 0 .. M - 1,
         NEW V, NEW buf, Slots(buf, size, V), NEW v \in V,
         Fill(r, w, M) <= size, w # (r + size) % M
  PROVE  /\ Slots([buf EXCEPT ![w % size] = v], size, V)
         /\ (w + 1) % M \in 0 .. M - 1
         /\ Fill(r, (w + 1) % M, M) <= size
         /\ PutIn(Contents([buf EXCEPT ![w % size] = v], r, (w + 1) % M, size, M),
                  Contents(buf, r, w, size, M), v, size)
<1>. DEFINE q == Contents(buf, r, w, size, M)
            m == Fill(r, w, M)
            w1 == (w + 1) % M
            b1 == [buf EXCEPT ![w % size] = v]
            q1 == Contents(b1, r, w1, size, M)
<1>1. /\ size \in Nat \ {0} /\ M \in Nat \ {0} /\ size < M
      /\ m \in 0 .. M - 1 /\ m <= size /\ m # size
      /\ w1 \in 0 .. M - 1
      /\ m < M - 1 => Fill(r, w1, M) = m + 1
      /\ w = (r + m) % M
  BY RingAhead, Sizes
<1>2. Fill(r, w1, M) = m + 1
  <2>. HIDE DEF m, w1
  <2>. QED BY <1>1
<1>3. Slots(b1, size, V)
  BY DEF Slots
<1>4. w % size = (r + m) % size
  <2>. HIDE DEF m
  <2>1. m \in 0 .. M
    BY <1>1
  <2>. QED BY <1>1, <2>1, Slot
<1>5. ASSUME NEW k \in 1 .. m PROVE b1[(r + k - 1) % size] = buf[(r + k - 1) % size]
  <2>. HIDE DEF m
  <2>1. /\ r + k - 1 \in Int /\ r + m \in Int
        /\ r + k - 1 < r + m /\ (r + m) - (r + k - 1) < size
    BY <1>1
  <2>2. (r + k - 1) % size # (r + m) % size
    BY <1>1, <2>1, ModDistinct
  <2>3. (r + k - 1) % size \in 0 .. size - 1
    BY <1>1, <2>1
  <2>. QED BY <1>4, <2>2, <2>3 DEF Slots
<1>6. b1[(r + m) % size] = v
  <2>. HIDE DEF m
  <2>1. (r + m) % size \in 0 .. size - 1
    BY <1>1
  <2>. QED BY <1>4, <2>1 DEF Slots
<1>7. /\ q \in Seq(V) /\ Len(q) = m
      /\ \A k \in 1 .. m : q[k] = buf[(r + k - 1) % size]
  <2>1. Lists(q, buf, r, m, size, V)
    BY SeqOf
  <2>. HIDE DEF q, m
  <2>. QED BY <2>1 DEF Lists
<1>. HIDE DEF b1, w1
<1>8. /\ q1 \in Seq(V) /\ Len(q1) = m + 1
      /\ \A k \in 1 .. m + 1 : q1[k] = b1[(r + k - 1) % size]
  <2>1. w1 \in 0 .. M - 1
    BY <1>1
  <2>2. Lists(q1, b1, r, Fill(r, w1, M), size, V)
    BY <1>3, <2>1, SeqOf
  <2>. HIDE DEF q1, m
  <2>. QED BY <1>2, <2>2 DEF Lists
<1>. HIDE DEF q, m, q1
<1>9. q1 = Append(q, v)
  <2>1. /\ Append(q, v) \in Seq(V) /\ Len(Append(q, v)) = m + 1
        /\ Append(q, v)[m + 1] = v
        /\ \A k \in 1 .. m : Append(q, v)[k] = q[k]
    BY <1>1, <1>7
  <2>2. ASSUME NEW k \in 1 .. m + 1 PROVE q1[k] = Append(q, v)[k]
    <3>1. CASE k = m + 1
      <4>1. r + k - 1 = r + m
        BY <1>1, <3>1
      <4>. QED BY <1>6, <1>8, <2>1, <3>1, <4>1
    <3>2. CASE k # m + 1
      <4>1. k \in 1 .. m
        BY <1>1, <3>2
      <4>. QED BY <1>5, <1>7, <1>8, <2>1, <4>1
    <3>. QED BY <3>1, <3>2
  <2>. QED BY <1>8, <2>1, <2>2, SeqEqual
<1>10. Fill(r, w1, M) <= size /\ Len(q) < size
  BY <1>1, <1>2, <1>7
<1>11. PutIn(q1, q, v, size)
  BY <1>9, <1>10 DEF PutIn
<1>. QED BY <1>1, <1>3, <1>10, <1>11 DEF q, b1, w1, q1

\* Taking from the reader's index and moving it on removes the first.
LEMMA GetAt ==
  ASSUME NEW size, NEW M, RingSizes(size, M), NEW r \in 0 .. M - 1, NEW w \in 0 .. M - 1,
         NEW V, NEW buf, Slots(buf, size, V), Fill(r, w, M) <= size, r # w
  PROVE  /\ (r + 1) % M \in 0 .. M - 1
         /\ Fill((r + 1) % M, w, M) <= size
         /\ buf[r % size] \in V
         /\ TakenOut(Contents(buf, (r + 1) % M, w, size, M),
                     Contents(buf, r, w, size, M), buf[r % size])
<1>. DEFINE q == Contents(buf, r, w, size, M)
            m == Fill(r, w, M)
            r1 == (r + 1) % M
            q1 == Contents(buf, r1, w, size, M)
<1>1. /\ size \in Nat \ {0} /\ M \in Nat \ {0} /\ size < M
      /\ m \in 1 .. M - 1 /\ m <= size
      /\ Fill(r1, w, M) = m - 1
  <2>1. size \in Nat \ {0} /\ M \in Nat \ {0} /\ size < M
    BY Sizes, Zenon
  <2>2. m \in 0 .. M - 1 /\ m # 0 /\ m <= size
    BY RingAhead
  <2>3. Fill(r1, w, M) = m - 1
    BY RingAhead
  <2>. HIDE DEF m
  <2>. QED BY <2>1, <2>2, <2>3
<1>2. r1 \in 0 .. M - 1 /\ r1 % size = (r + 1) % size
  <2>1. 1 \in 0 .. M
    BY <1>1
  <2>. QED BY <2>1, Slot, Zenon
<1>3. /\ q \in Seq(V) /\ Len(q) = m /\ q # <<>>
      /\ \A k \in 1 .. m : q[k] = buf[(r + k - 1) % size]
  <2>1. Lists(q, buf, r, m, size, V) /\ q # <<>>
    BY SeqOf
  <2>. HIDE DEF q, m
  <2>. QED BY <2>1 DEF Lists
<1>4. ASSUME NEW k \in 1 .. m - 1 PROVE (r1 + k - 1) % size = (r + k) % size
  <2>1. k \in Nat
    BY <1>1
  <2>. QED BY <2>1, NextSlot
<1>. HIDE DEF r1
<1>5. /\ q1 \in Seq(V) /\ Len(q1) = m - 1
      /\ \A k \in 1 .. m - 1 : q1[k] = buf[(r1 + k - 1) % size]
  <2>1. r1 \in 0 .. M - 1 /\ Fill(r1, w, M) = m - 1
    BY <1>1, <1>2
  <2>2. Lists(q1, buf, r1, Fill(r1, w, M), size, V)
    BY <2>1, SeqOf
  <2>. HIDE DEF q1, m
  <2>. QED BY <2>1, <2>2 DEF Lists
<1>. HIDE DEF q, m, q1
<1>6. buf[r % size] = q[1] /\ q[1] = Head(q) /\ buf[r % size] \in V
  <2>1. 1 \in 1 .. m /\ r + 1 - 1 = r /\ r % size \in 0 .. size - 1
    BY <1>1
  <2>. QED BY <1>3, <2>1 DEF Slots
<1>7. q1 = Tail(q)
  <2>1. /\ Tail(q) \in Seq(V) /\ Len(Tail(q)) = m - 1
        /\ \A k \in 1 .. m - 1 : Tail(q)[k] = q[k + 1]
    BY <1>3, HeadTailProperties
  <2>2. ASSUME NEW k \in 1 .. m - 1 PROVE q1[k] = Tail(q)[k]
    <3>1. k + 1 \in 1 .. m /\ r + (k + 1) - 1 = r + k
      BY <1>1
    <3>2. q[k + 1] = buf[(r + k) % size]
      BY <1>3, <3>1
    <3>. QED BY <1>4, <1>5, <2>1, <3>2
  <2>. QED BY <1>5, <2>1, <2>2, SeqEqual
<1>8. Fill(r1, w, M) <= size
  BY <1>1
<1>9. TakenOut(q1, q, buf[r % size])
  BY <1>3, <1>6, <1>7 DEF TakenOut
<1>. QED BY <1>2, <1>6, <1>8, <1>9 DEF q, r1, q1

\* A ring with indices in range that is not overfull.
Ring(buf, r, w, size, M, V) ==
    /\ RingSizes(size, M)
    /\ r \in 0 .. M - 1 /\ w \in 0 .. M - 1 /\ Fill(r, w, M) <= size
    /\ Slots(buf, size, V)

\* A ring whose two indices are 0 is empty.
LEMMA RingEmpty ==
  ASSUME NEW size, NEW M, RingSizes(size, M), NEW V, NEW buf, Slots(buf, size, V)
  PROVE  Ring(buf, 0, 0, size, M, V) /\ Contents(buf, 0, 0, size, M) = <<>>
<1>1. M \in Nat \ {0} /\ size \in Nat \ {0}
  BY Sizes
<1>2. 0 \in 0 .. M - 1
  BY <1>1
<1>3. Fill(0, 0, M) = 0
  BY <1>2, RingAhead
<1>4. Contents(buf, 0, 0, size, M) = <<>>
  <2>. DEFINE q == Contents(buf, 0, 0, size, M)
  <2>1. Lists(q, buf, 0, Fill(0, 0, M), size, V)
    BY <1>2, SeqOf
  <2>. HIDE DEF q
  <2>2. q \in Seq(V) /\ Len(q) = 0
    BY <1>3, <2>1 DEF Lists
  <2>3. q = <<>>
    BY <2>2, EmptySeq
  <2>. QED BY <2>3 DEF q
<1>. QED BY <1>1, <1>2, <1>3, <1>4 DEF Ring
\* A ring that is not full takes one more.
LEMMA RingPut ==
  ASSUME NEW size, NEW M, NEW V, NEW buf, NEW r, NEW w, Ring(buf, r, w, size, M, V),
         NEW v \in V, w # (r + size) % M
  PROVE  /\ Ring([buf EXCEPT ![w % size] = v], r, (w + 1) % M, size, M, V)
         /\ PutIn(Contents([buf EXCEPT ![w % size] = v], r, (w + 1) % M, size, M),
                  Contents(buf, r, w, size, M), v, size)
<1>1. /\ RingSizes(size, M) /\ r \in 0 .. M - 1 /\ w \in 0 .. M - 1
      /\ Fill(r, w, M) <= size /\ Slots(buf, size, V)
  BY DEF Ring
<1>. QED BY <1>1, PutAt DEF Ring
\* A ring that is not empty gives one up.
LEMMA RingGet ==
  ASSUME NEW size, NEW M, NEW V, NEW buf, NEW r, NEW w, Ring(buf, r, w, size, M, V), r # w
  PROVE  /\ Ring(buf, (r + 1) % M, w, size, M, V) /\ buf[r % size] \in V
         /\ TakenOut(Contents(buf, (r + 1) % M, w, size, M),
                     Contents(buf, r, w, size, M), buf[r % size])
<1>1. /\ RingSizes(size, M) /\ r \in 0 .. M - 1 /\ w \in 0 .. M - 1
      /\ Fill(r, w, M) <= size /\ Slots(buf, size, V)
  BY DEF Ring
<1>. QED BY <1>1, GetAt DEF Ring

-----------------------------------------------------------------------------
(* Writes to single slots.                                                 *)

\* b1 is buf with v in slot s, which is not one of the ring's.
Stored(b1, buf, s, v) == b1 = [buf EXCEPT ![s] = v]
Avoids(s, r, w, size, M) == \A k \in 1 .. Fill(r, w, M) : (r + k - 1) % size # s

\* A write to a slot that is not in the ring.
LEMMA SlotOutside ==
  ASSUME NEW size, NEW M, NEW V, NEW buf, NEW r \in 0 .. M - 1, NEW w \in 0 .. M - 1,
         RingSizes(size, M), Slots(buf, size, V), NEW v \in V, NEW s,
         Avoids(s, r, w, size, M), NEW b1, Stored(b1, buf, s, v)
  PROVE  Slots(b1, size, V) /\ Contents(b1, r, w, size, M) = Contents(buf, r, w, size, M)
<1>. DEFINE m == Fill(r, w, M)
<1>1. m \in Nat /\ size \in Nat \ {0} /\ M \in Nat
  BY RingAhead, Sizes
<1>2. \A k \in 1 .. m : (r + k - 1) % size # s
  BY DEF Avoids
<1>3. Slots(b1, size, V)
  BY DEF Slots, Stored
<1>. HIDE DEF m
<1>4. ASSUME NEW k \in 1 .. m PROVE b1[(r + k - 1) % size] = buf[(r + k - 1) % size]
  <2>1. (r + k - 1) % size \in 0 .. size - 1
    BY <1>1
  <2>. QED BY <1>2, <2>1 DEF Slots, Stored
<1>5. Contents(b1, r, w, size, M) = Contents(buf, r, w, size, M)
  BY <1>4 DEF Contents, m
<1>. QED BY <1>3, <1>5

\* The slot after the last of a ring that is not full is not in it.
LEMMA RingOutside ==
  ASSUME NEW size, NEW M, NEW V, NEW buf, NEW r, NEW w, Ring(buf, r, w, size, M, V),
         NEW v \in V, Fill(r, w, M) < size, NEW b1, Stored(b1, buf, w % size, v)
  PROVE  /\ Ring(b1, r, w, size, M, V)
         /\ Contents(b1, r, w, size, M) = Contents(buf, r, w, size, M)
         /\ r # w => r % size # w % size
<1>. DEFINE m == Fill(r, w, M)
<1>1. /\ RingSizes(size, M) /\ r \in 0 .. M - 1 /\ w \in 0 .. M - 1
      /\ Fill(r, w, M) <= size /\ Slots(buf, size, V)
  BY DEF Ring
<1>2. /\ m \in Nat /\ m \in 0 .. M /\ m < size /\ size \in Nat \ {0} /\ M \in Nat
      /\ w = (r + m) % M /\ (m = 0 <=> r = w)
  <2>1. size \in Nat \ {0} /\ M \in Nat
    BY <1>1, Sizes
  <2>2. m \in 0 .. M - 1 /\ w = (r + m) % M /\ (m = 0 <=> r = w)
    BY <1>1, RingAhead
  <2>. HIDE DEF m
  <2>3. m < size
    BY DEF m
  <2>. QED BY <2>1, <2>2, <2>3
<1>3. w % size = (r + m) % size
  <2>. HIDE DEF m
  <2>. QED BY <1>1, <1>2, Slot
<1>4. ASSUME NEW k \in 1 .. m PROVE (r + k - 1) % size # w % size
  <2>. HIDE DEF m
  <2>1. /\ r + k - 1 \in Int /\ r + m \in Int
        /\ r + k - 1 < r + m /\ (r + m) - (r + k - 1) < size
    BY <1>1, <1>2
  <2>. QED BY <1>2, <1>3, <2>1, ModDistinct
<1>5. r # w => r % size # w % size
  <2>. HIDE DEF m
  <2>1. ASSUME r # w PROVE r \in Int /\ r + m \in Int /\ r < r + m /\ (r + m) - r < size
    BY <1>1, <1>2, <2>1
  <2>2. ASSUME r # w PROVE r % size # (r + m) % size
    BY <1>2, <2>1, <2>2, ModDistinct
  <2>. QED BY <1>3, <2>2
<1>6. Avoids(w % size, r, w, size, M)
  BY <1>4 DEF Avoids
<1>7. Slots(b1, size, V) /\ Contents(b1, r, w, size, M) = Contents(buf, r, w, size, M)
  BY <1>1, <1>6, SlotOutside
<1>. QED BY <1>1, <1>5, <1>7 DEF Ring

\* The slot that was taken out is not in it either.
LEMMA RingForget ==
  ASSUME NEW size, NEW M, NEW V, NEW buf, NEW r, NEW w, Ring(buf, r, w, size, M, V),
         NEW v \in V, r # w, NEW b1, Stored(b1, buf, r % size, v)
  PROVE  /\ Ring(b1, (r + 1) % M, w, size, M, V)
         /\ Contents(b1, (r + 1) % M, w, size, M) = Contents(buf, (r + 1) % M, w, size, M)
<1>. DEFINE m == Fill(r, w, M)
            r1 == (r + 1) % M
<1>1. /\ RingSizes(size, M) /\ r \in 0 .. M - 1 /\ w \in 0 .. M - 1
      /\ Fill(r, w, M) <= size /\ Slots(buf, size, V)
  BY DEF Ring
<1>2. Ring(buf, r1, w, size, M, V)
  BY RingGet
<1>3. r1 \in 0 .. M - 1 /\ Fill(r1, w, M) = m - 1
  BY <1>1, <1>2, RingAhead DEF Ring
<1>4. m \in Nat /\ m <= size /\ size \in Nat \ {0} /\ M \in Nat
  BY <1>1, RingAhead, Sizes
<1>5. ASSUME NEW k \in 1 .. m - 1 PROVE (r1 + k - 1) % size # r % size
  <2>. HIDE DEF m
  <2>1. k \in Nat /\ r \in Int /\ r + k \in Int /\ r < r + k /\ (r + k) - r < size
    BY <1>1, <1>4
  <2>2. (r1 + k - 1) % size = (r + k) % size
    BY <1>1, <2>1, NextSlot
  <2>3. r % size # (r + k) % size
    BY <1>4, <2>1, ModDistinct
  <2>. QED BY <2>2, <2>3
<1>. HIDE DEF m, r1
<1>6. Avoids(r % size, r1, w, size, M)
  BY <1>3, <1>5 DEF Avoids
<1>7. Slots(b1, size, V) /\ Contents(b1, r1, w, size, M) = Contents(buf, r1, w, size, M)
  BY <1>1, <1>3, <1>6, SlotOutside
<1>. QED BY <1>2, <1>7 DEF Ring, r1

=============================================================================
