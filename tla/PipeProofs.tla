----------------------------- MODULE PipeProofs -----------------------------
(***************************************************************************)
(* The pipe, for any size of its buffer, any number of bits of its counter *)
(* and any processes: it is a queue, nobody is inside a freed pipe, and    *)
(* nobody sleeps without a reason.                                         *)
(***************************************************************************)
EXTENDS Pipe, RingProofs

\* What the assumption says of the constants.
LEMMA PipeSizes ==
  /\ RingSizes(PIPESIZE, 2 ^ UintBits)
  /\ 2 ^ UintBits \in Nat \ {0} /\ PIPESIZE \in Nat \ {0}
  /\ Nobody \notin Thread /\ Counts \subseteq Nat
  /\ Writers \cap Readers = {} /\ Byte # {}
<1>1. RingSizes(PIPESIZE, 2 ^ UintBits)
  BY PipeAssumption DEF WrapsEvenly, RingSizes
<1>2. 2 ^ UintBits \in Nat \ {0} /\ PIPESIZE \in Nat \ {0}
  BY <1>1, Sizes
<1>. QED BY <1>1, <1>2, PipeAssumption

\* Types, with how many bytes are in the ring.
PipeTypes ==
    /\ PipeTypeOK
    /\ pipe_i \in [Thread -> Nat]
    /\ Ring(data, nread, nwrite, PIPESIZE, 2 ^ UintBits, Byte)

\* Who has pi->lock, and what the locals say at each place.
PipeLock ==
    \A t \in Thread :
        /\ pipe_pc[t] \in {"loop", "body", "copy"} => pi_lock = t
        /\ pipe_pc[t] = "copy" => t \in Readers
        /\ pipe_pc[t] = "user" => pipe_i[t] = 0
        /\ pipe_pc[t] = "body" /\ t \in Writers => pipe_i[t] < pipe_n[t]

\* An end that a process holds is open, and an open pipe is not freed.
PipeEnds ==
    /\ \A t \in Thread :
        /\ pipe_pc[t] # "user" => t \in holds
        /\ t \in holds \cap Readers => readopen
        /\ t \in holds \cap Writers => writeopen
    /\ freed => ~ readopen /\ ~ writeopen

\* A reader that sleeps, or is about to, has nothing to read, or pi->lock is
\* with a writer that will wake it, or a writer was killed.
ReaderWaits ==
    \A t \in Readers :
        /\ pipe_pc[t] = "body" => PipeEmpty /\ writeopen
        /\ pipe_pc[t] = "asleep" =>
                   /\ writeopen
                   /\ \/ PipeEmpty
                      \/ pi_lock \in Writers
                      \/ \E u \in Writers : pipe_killed[u]

\* A writer that sleeps, or is about to, has a reader, and finds the pipe full
\* or a reader taking bytes out that will wake it.
WriterWaits ==
    \A t \in Writers :
        /\ pipe_pc[t] = "body" => readopen
        /\ pipe_pc[t] = "asleep" =>
                   /\ readopen
                   /\ PipeFull \/ \E u \in Readers : PipeHolds(u, "copy")

\* The inductive invariant of the pipe.
PipeInv == PipeTypes /\ PipeLock /\ PipeEnds /\ ReaderWaits /\ WriterWaits

\* One more byte is counted.
LEMMA CountUp ==
  ASSUME NEW T, NEW max, NEW f \in [T -> Nat], NEW t \in T, NEW g,
         \A u \in T : max[u] \in Nat /\ f[u] \in 0 .. max[u],
         f[t] < max[t], g = [f EXCEPT ![t] = @ + 1]
  PROVE  g \in [T -> Nat] /\ \A u \in T : g[u] \in 0 .. max[u]
  OBVIOUS

\* No step of the pipe breaks it.
LEMMA PipeStepInv ==
  ASSUME PipeInv, [PipeNext]_pipeVars
  PROVE  PipeInv'
<1>. USE PipeSizes DEF Thread, pipeRing, pipeEnds
<1>0. PipeTypes /\ PipeLock /\ PipeEnds /\ ReaderWaits /\ WriterWaits
  BY DEF PipeInv
<1>x. /\ pipe_i \in [Thread -> Nat]
      /\ \A u \in Thread : pipe_n[u] \in Nat /\ pipe_i[u] \in 0 .. pipe_n[u]
  <2>1. /\ pipe_i \in [Thread -> Nat] /\ pipe_n \in [Thread -> Counts \cup {0}]
        /\ \A u \in Thread : pipe_i[u] \in 0 .. pipe_n[u]
    BY <1>0 DEF PipeTypes, PipeTypeOK
  <2>2. Counts \cup {0} \subseteq Nat
    OBVIOUS
  <2>. QED BY <2>1, <2>2
<1>1. CASE UNCHANGED pipeVars
  BY <1>0, <1>1 DEF PipeInv, PipeTypes, PipeLock, PipeEnds, ReaderWaits,
     WriterWaits,
     PipeTypeOK, pipeVars, pipeLocals, PipeEmpty, PipeFull, PipeHolds
<1>2. ASSUME NEW t \in Thread, PipeCall(t) PROVE PipeInv'
  <2>1. PipeTypes'
    BY <1>0, <1>2 DEF PipeCall, PipeGoto, PipeTypes, PipeLock, PipeTypeOK, Uint
  <2>2. PipeLock'
    BY <1>0, <1>2 DEF PipeCall, PipeGoto, PipeTypes, PipeLock, PipeTypeOK
  <2>3. PipeEnds'
    BY <1>0, <1>2 DEF PipeCall, PipeGoto, PipeEnds
  <2>4. ReaderWaits'
    BY <1>0, <1>2 DEF PipeCall, PipeGoto, ReaderWaits, PipeTypes, PipeTypeOK, PipeEmpty
  <2>5. WriterWaits'
    BY <1>0, <1>2 DEF PipeCall, PipeGoto, WriterWaits, PipeTypes, PipeLock, PipeTypeOK,
       PipeFull, PipeHolds
  <2>. QED BY <2>1, <2>2, <2>3, <2>4, <2>5 DEF PipeInv
<1>3. ASSUME NEW t \in Thread, PipeAcquire(t) PROVE PipeInv'
  <2>1. PipeTypes'
    BY <1>0, <1>3 DEF PipeAcquire, PipeGoto, PipeTypes, PipeTypeOK, Uint
  <2>2. PipeLock'
    BY <1>0, <1>3 DEF PipeAcquire, PipeGoto, PipeTypes, PipeLock, PipeTypeOK
  <2>3. PipeEnds'
    BY <1>0, <1>3 DEF PipeAcquire, PipeGoto, PipeEnds
  <2>4. ReaderWaits'
    BY <1>0, <1>3 DEF PipeAcquire, PipeGoto, ReaderWaits, PipeTypes, PipeTypeOK, PipeEmpty
  <2>5. WriterWaits'
    BY <1>0, <1>3 DEF PipeAcquire, PipeGoto, WriterWaits, PipeTypes, PipeLock, PipeTypeOK,
       PipeFull, PipeHolds
  <2>. QED BY <2>1, <2>2, <2>3, <2>4, <2>5 DEF PipeInv
<1>4. ASSUME NEW t \in Thread, WriteDone(t) PROVE PipeInv'
  <2>1. PipeTypes'
    BY <1>0, <1>4 DEF WriteDone, ReturnWaking, WakeGoto, PipeTypes, PipeTypeOK,
       Uint
  <2>2. PipeLock'
    BY <1>0, <1>4 DEF WriteDone, ReturnWaking, WakeGoto, PipeHolds, PipeTypes,
       PipeLock, PipeTypeOK
  <2>3. PipeEnds'
    BY <1>0, <1>4 DEF WriteDone, ReturnWaking, WakeGoto, PipeEnds
  <2>4. ReaderWaits'
    BY <1>0, <1>4 DEF WriteDone, ReturnWaking, WakeGoto, ReaderWaits,
       PipeTypes, PipeTypeOK, PipeEmpty
  <2>5. WriterWaits'
    BY <1>0, <1>4 DEF WriteDone, ReturnWaking, WakeGoto, PipeHolds, WriterWaits,
       PipeTypes, PipeLock, PipeTypeOK, PipeFull
  <2>. QED BY <2>1, <2>2, <2>3, <2>4, <2>5 DEF PipeInv
<1>5. ASSUME NEW t \in Thread, WriteFail(t) PROVE PipeInv'
  <2>1. PipeTypes'
    BY <1>0, <1>5 DEF WriteFail, ReturnWaking, WakeGoto, PipeTypes, PipeTypeOK,
       Uint
  <2>2. PipeLock'
    BY <1>0, <1>5 DEF WriteFail, ReturnWaking, WakeGoto, PipeHolds, PipeTypes,
       PipeLock, PipeTypeOK
  <2>3. PipeEnds'
    BY <1>0, <1>5 DEF WriteFail, ReturnWaking, WakeGoto, PipeEnds
  <2>4. ReaderWaits'
    BY <1>0, <1>5 DEF WriteFail, ReturnWaking, WakeGoto, ReaderWaits,
       PipeTypes, PipeEnds, PipeTypeOK, PipeEmpty
  <2>5. WriterWaits'
    BY <1>0, <1>5 DEF WriteFail, ReturnWaking, WakeGoto, PipeHolds, WriterWaits,
       PipeTypes, PipeLock, PipeTypeOK, PipeFull
  <2>. QED BY <2>1, <2>2, <2>3, <2>4, <2>5 DEF PipeInv
<1>6. ASSUME NEW t \in Thread, WriteCheck(t) PROVE PipeInv'
  <2>1. PipeTypes'
    BY <1>0, <1>6 DEF WriteCheck, PipeGoto, PipeTypes, PipeTypeOK, Uint
  <2>2. PipeLock'
    BY <1>0, <1>6 DEF WriteCheck, PipeGoto, PipeHolds, PipeTypes, PipeLock, PipeTypeOK
  <2>3. PipeEnds'
    BY <1>0, <1>6 DEF WriteCheck, PipeGoto, PipeHolds, PipeEnds, PipeTypes
  <2>4. ReaderWaits'
    BY <1>0, <1>6 DEF WriteCheck, PipeGoto, ReaderWaits, PipeTypes, PipeTypeOK, PipeEmpty
  <2>5. WriterWaits'
    BY <1>0, <1>6 DEF WriteCheck, PipeGoto, PipeHolds, WriterWaits, PipeTypes,
       PipeLock, PipeTypeOK, PipeFull
  <2>. QED BY <2>1, <2>2, <2>3, <2>4, <2>5 DEF PipeInv
<1>7. ASSUME NEW t \in Thread, WriteSleep(t) PROVE PipeInv'
  <2>1. PipeTypes'
    BY <1>0, <1>7 DEF WriteSleep, PipeSleep, WakeGoto, PipeTypes, PipeTypeOK, Uint
  <2>2. PipeLock'
    BY <1>0, <1>7 DEF WriteSleep, PipeSleep, WakeGoto, PipeHolds, PipeTypes, PipeLock,
       PipeTypeOK
  <2>3. PipeEnds'
    BY <1>0, <1>7 DEF WriteSleep, PipeSleep, WakeGoto, PipeHolds, PipeEnds, PipeTypes
  <2>4. ReaderWaits'
    BY <1>0, <1>7 DEF WriteSleep, PipeSleep, WakeGoto, ReaderWaits, PipeTypes,
       PipeTypeOK, PipeEmpty
  <2>5. WriterWaits'
    BY <1>0, <1>7 DEF WriteSleep, PipeSleep, WakeGoto, PipeHolds, WriterWaits,
       PipeTypes, PipeLock, PipeTypeOK, PipeFull
  <2>. QED BY <2>1, <2>2, <2>3, <2>4, <2>5 DEF PipeInv
<1>8. ASSUME NEW t \in Thread, NEW b \in Byte, WriteByte(t, b) PROVE PipeInv'
  <2>1. PipeTypes'
    <3>1. /\ Ring(data, nread, nwrite, PIPESIZE, 2 ^ UintBits, Byte)
          /\ nwrite # (nread + PIPESIZE) % 2 ^ UintBits
      BY <1>0, <1>8 DEF PipeTypes, WriteByte, PipeFull
    <3>2. /\ nwrite' = (nwrite + 1) % 2 ^ UintBits /\ nread' = nread
          /\ data' = [data EXCEPT ![nwrite % PIPESIZE] = b]
      BY <1>8 DEF WriteByte, Inc
    <3>3. Ring(data', nread', nwrite', PIPESIZE, 2 ^ UintBits, Byte)
      BY <3>1, <3>2, RingPut
    <3>4. /\ nread' \in 0 .. 2 ^ UintBits - 1 /\ nwrite' \in 0 .. 2 ^ UintBits - 1
          /\ data' \in [0 .. PIPESIZE - 1 -> Byte]
      BY <3>3 DEF Ring, Slots
    <3>5. /\ pipe_i \in [Thread -> Nat]
          /\ \A u \in Thread : pipe_n[u] \in Nat /\ pipe_i[u] \in 0 .. pipe_n[u]
      BY <1>x
    <3>6. /\ pipe_i[t] < pipe_n[t] /\ pipe_n' = pipe_n
          /\ pipe_i' = [pipe_i EXCEPT ![t] = @ + 1]
      BY <1>0, <1>8 DEF WriteByte, PipeHolds, PipeLock
    <3>7. /\ pipe_i' \in [Thread -> Nat]
          /\ \A u \in Thread : pipe_i'[u] \in 0 .. pipe_n'[u]
      BY <3>5, <3>6, CountUp
    <3>8. PipeTypeOK'
      BY <1>0, <1>8, <3>4, <3>7 DEF WriteByte, PipeGoto, PipeTypes, PipeTypeOK, Uint
    <3>. QED BY <3>3, <3>7, <3>8 DEF PipeTypes
  <2>2. PipeLock'
    BY <1>0, <1>8 DEF WriteByte, PipeGoto, PipeHolds, Inc, PipeTypes, PipeLock, PipeTypeOK
  <2>3. PipeEnds'
    BY <1>0, <1>8 DEF WriteByte, PipeGoto, PipeHolds, Inc, PipeEnds, PipeTypes
  <2>4. ReaderWaits'
    BY <1>0, <1>8 DEF WriteByte, PipeGoto, PipeHolds, Inc, ReaderWaits, PipeTypes,
       PipeLock, PipeTypeOK, PipeEmpty
  <2>5. WriterWaits'
    BY <1>0, <1>8 DEF WriteByte, PipeGoto, PipeHolds, Inc, WriterWaits, PipeTypes,
       PipeLock, PipeTypeOK, PipeFull
  <2>. QED BY <2>1, <2>2, <2>3, <2>4, <2>5 DEF PipeInv
<1>9. ASSUME NEW t \in Thread, WriteFault(t) PROVE PipeInv'
  <2>1. PipeTypes'
    BY <1>0, <1>9 DEF WriteFault, ReturnWaking, WakeGoto, PipeTypes, PipeTypeOK,
       Uint
  <2>2. PipeLock'
    BY <1>0, <1>9 DEF WriteFault, ReturnWaking, WakeGoto, PipeHolds, PipeTypes,
       PipeLock, PipeTypeOK
  <2>3. PipeEnds'
    BY <1>0, <1>9 DEF WriteFault, ReturnWaking, WakeGoto, PipeEnds
  <2>4. ReaderWaits'
    BY <1>0, <1>9 DEF WriteFault, ReturnWaking, WakeGoto, ReaderWaits,
       PipeTypes, PipeTypeOK, PipeEmpty
  <2>5. WriterWaits'
    BY <1>0, <1>9 DEF WriteFault, ReturnWaking, WakeGoto, PipeHolds, WriterWaits,
       PipeTypes, PipeLock, PipeTypeOK, PipeFull
  <2>. QED BY <2>1, <2>2, <2>3, <2>4, <2>5 DEF PipeInv
<1>10. ASSUME NEW t \in Thread, ReadCheck(t) PROVE PipeInv'
  <2>1. PipeTypes'
    BY <1>0, <1>10 DEF ReadCheck, PipeGoto, PipeTypes, PipeTypeOK, Uint
  <2>2. PipeLock'
    BY <1>0, <1>10 DEF ReadCheck, PipeGoto, PipeHolds, PipeTypes, PipeLock, PipeTypeOK
  <2>3. PipeEnds'
    BY <1>0, <1>10 DEF ReadCheck, PipeGoto, PipeHolds, PipeEnds, PipeTypes
  <2>4. ReaderWaits'
    BY <1>0, <1>10 DEF ReadCheck, PipeGoto, ReaderWaits, PipeTypes, PipeTypeOK, PipeEmpty
  <2>5. WriterWaits'
    BY <1>0, <1>10 DEF ReadCheck, PipeGoto, PipeHolds, WriterWaits, PipeTypes,
       PipeLock, PipeTypeOK, PipeFull
  <2>. QED BY <2>1, <2>2, <2>3, <2>4, <2>5 DEF PipeInv
<1>11. ASSUME NEW t \in Thread, ReadKilled(t) PROVE PipeInv'
  <2>1. PipeTypes'
    BY <1>0, <1>11 DEF ReadKilled, ReturnWaking, WakeGoto, PipeTypes, PipeTypeOK,
       Uint
  <2>2. PipeLock'
    BY <1>0, <1>11 DEF ReadKilled, ReturnWaking, WakeGoto, PipeHolds, PipeTypes,
       PipeLock, PipeTypeOK
  <2>3. PipeEnds'
    BY <1>0, <1>11 DEF ReadKilled, ReturnWaking, WakeGoto, PipeEnds
  <2>4. ReaderWaits'
    BY <1>0, <1>11 DEF ReadKilled, ReturnWaking, WakeGoto, ReaderWaits,
       PipeTypes, PipeTypeOK, PipeEmpty
  <2>5. WriterWaits'
    BY <1>0, <1>11 DEF ReadKilled, ReturnWaking, WakeGoto, PipeHolds, WriterWaits,
       PipeTypes, PipeLock, PipeTypeOK, PipeFull
  <2>. QED BY <2>1, <2>2, <2>3, <2>4, <2>5 DEF PipeInv
<1>12. ASSUME NEW t \in Thread, ReadSleep(t) PROVE PipeInv'
  <2>1. PipeTypes'
    BY <1>0, <1>12 DEF ReadSleep, PipeSleep, WakeGoto, PipeTypes, PipeTypeOK, Uint
  <2>2. PipeLock'
    BY <1>0, <1>12 DEF ReadSleep, PipeSleep, WakeGoto, PipeHolds, PipeTypes, PipeLock,
       PipeTypeOK
  <2>3. PipeEnds'
    BY <1>0, <1>12 DEF ReadSleep, PipeSleep, WakeGoto, PipeHolds, PipeEnds, PipeTypes
  <2>4. ReaderWaits'
    BY <1>0, <1>12 DEF ReadSleep, PipeSleep, WakeGoto, PipeHolds, ReaderWaits,
       PipeTypes, PipeLock, PipeTypeOK, PipeEmpty
  <2>5. WriterWaits'
    BY <1>0, <1>12 DEF ReadSleep, PipeSleep, WakeGoto, PipeHolds, WriterWaits,
       PipeTypes, PipeLock, PipeTypeOK, PipeFull
  <2>. QED BY <2>1, <2>2, <2>3, <2>4, <2>5 DEF PipeInv
<1>13. ASSUME NEW t \in Thread, ReadReady(t) PROVE PipeInv'
  <2>1. PipeTypes'
    BY <1>0, <1>13 DEF ReadReady, PipeGoto, PipeTypes, PipeTypeOK, Uint
  <2>2. PipeLock'
    BY <1>0, <1>13 DEF ReadReady, PipeGoto, PipeHolds, PipeTypes, PipeLock, PipeTypeOK
  <2>3. PipeEnds'
    BY <1>0, <1>13 DEF ReadReady, PipeGoto, PipeHolds, PipeEnds, PipeTypes
  <2>4. ReaderWaits'
    BY <1>0, <1>13 DEF ReadReady, PipeGoto, ReaderWaits, PipeTypes, PipeTypeOK, PipeEmpty
  <2>5. WriterWaits'
    BY <1>0, <1>13 DEF ReadReady, PipeGoto, PipeHolds, WriterWaits, PipeTypes,
       PipeLock, PipeTypeOK, PipeFull
  <2>. QED BY <2>1, <2>2, <2>3, <2>4, <2>5 DEF PipeInv
<1>14. ASSUME NEW t \in Thread, ReadByte(t) PROVE PipeInv'
  <2>1. PipeTypes'
    <3>1. /\ Ring(data, nread, nwrite, PIPESIZE, 2 ^ UintBits, Byte)
          /\ nread # nwrite
      BY <1>0, <1>14 DEF PipeTypes, ReadByte, PipeEmpty
    <3>2. /\ nread' = (nread + 1) % 2 ^ UintBits /\ nwrite' = nwrite
          /\ data' = data /\ pipe_out' = data[nread % PIPESIZE]
      BY <1>14 DEF ReadByte, Inc
    <3>3. /\ Ring(data', nread', nwrite', PIPESIZE, 2 ^ UintBits, Byte)
          /\ pipe_out' \in Byte
      BY <3>1, <3>2, RingGet
    <3>4. nread' \in 0 .. 2 ^ UintBits - 1 /\ nwrite' \in 0 .. 2 ^ UintBits - 1
      BY <3>3 DEF Ring, Slots
    <3>5. /\ pipe_i \in [Thread -> Nat]
          /\ \A u \in Thread : pipe_n[u] \in Nat /\ pipe_i[u] \in 0 .. pipe_n[u]
      BY <1>x
    <3>6. /\ pipe_i[t] < pipe_n[t] /\ pipe_n' = pipe_n
          /\ pipe_i' = [pipe_i EXCEPT ![t] = @ + 1]
      BY <1>0, <1>14 DEF ReadByte
    <3>7. /\ pipe_i' \in [Thread -> Nat]
          /\ \A u \in Thread : pipe_i'[u] \in 0 .. pipe_n'[u]
      BY <3>5, <3>6, CountUp
    <3>8. PipeTypeOK'
      BY <1>0, <1>14, <3>2, <3>3, <3>4, <3>7
         DEF ReadByte, PipeTypes, PipeTypeOK, Uint
    <3>. QED BY <3>3, <3>7, <3>8 DEF PipeTypes
  <2>2. PipeLock'
    BY <1>0, <1>14 DEF ReadByte, PipeHolds, Inc, PipeTypes, PipeLock, PipeTypeOK
  <2>3. PipeEnds'
    BY <1>0, <1>14 DEF ReadByte, Inc, PipeEnds
  <2>4. ReaderWaits'
    BY <1>0, <1>14 DEF ReadByte, Inc, ReaderWaits, PipeTypes, PipeTypeOK, PipeEmpty
  <2>5. WriterWaits'
    BY <1>0, <1>14 DEF ReadByte, PipeHolds, Inc, WriterWaits, PipeTypes, PipeLock,
       PipeTypeOK, PipeFull
  <2>. QED BY <2>1, <2>2, <2>3, <2>4, <2>5 DEF PipeInv
<1>15. ASSUME NEW t \in Thread, ReadFault(t) PROVE PipeInv'
  <2>1. PipeTypes'
    <3>1. /\ Ring(data, nread, nwrite, PIPESIZE, 2 ^ UintBits, Byte)
          /\ nread # nwrite
      BY <1>0, <1>15 DEF PipeTypes, ReadFault, PipeEmpty
    <3>2. /\ nread' = (nread + 1) % 2 ^ UintBits /\ nwrite' = nwrite
          /\ data' = data /\ pipe_out' = data[nread % PIPESIZE]
      BY <1>15 DEF ReadFault, Inc
    <3>3. /\ Ring(data', nread', nwrite', PIPESIZE, 2 ^ UintBits, Byte)
          /\ pipe_out' \in Byte
      BY <3>1, <3>2, RingGet
    <3>4. nread' \in 0 .. 2 ^ UintBits - 1 /\ nwrite' \in 0 .. 2 ^ UintBits - 1
      BY <3>3 DEF Ring
    <3>6. /\ pipe_i' \in [Thread -> Nat]
          /\ \A u \in Thread : pipe_i'[u] \in 0 .. pipe_n'[u]
      BY <1>0, <1>15 DEF ReadFault, ReturnWaking, PipeTypes, PipeTypeOK
    <3>7. PipeTypeOK'
      BY <1>0, <1>15, <3>2, <3>3, <3>4, <3>6
         DEF ReadFault, ReturnWaking, WakeGoto, PipeTypes, PipeTypeOK, Uint
    <3>. QED BY <3>3, <3>6, <3>7 DEF PipeTypes
  <2>2. PipeLock'
    BY <1>0, <1>15 DEF ReadFault, ReturnWaking, WakeGoto, PipeHolds, Inc,
       PipeTypes, PipeLock, PipeTypeOK
  <2>3. PipeEnds'
    BY <1>0, <1>15 DEF ReadFault, ReturnWaking, WakeGoto, Inc, PipeEnds
  <2>4. ReaderWaits'
    BY <1>0, <1>15 DEF ReadFault, ReturnWaking, WakeGoto, PipeHolds, Inc,
       ReaderWaits, PipeTypes, PipeLock, PipeTypeOK, PipeEmpty
  <2>5. WriterWaits'
    BY <1>0, <1>15 DEF ReadFault, ReturnWaking, WakeGoto, Inc, WriterWaits,
       PipeTypes, PipeTypeOK, PipeFull
  <2>. QED BY <2>1, <2>2, <2>3, <2>4, <2>5 DEF PipeInv
<1>16. ASSUME NEW t \in Thread, ReadDone(t) PROVE PipeInv'
  <2>1. PipeTypes'
    BY <1>0, <1>16 DEF ReadDone, ReturnWaking, WakeGoto, PipeTypes, PipeTypeOK,
       Uint
  <2>2. PipeLock'
    BY <1>0, <1>16 DEF ReadDone, ReturnWaking, WakeGoto, PipeHolds, PipeTypes,
       PipeLock, PipeTypeOK
  <2>3. PipeEnds'
    BY <1>0, <1>16 DEF ReadDone, ReturnWaking, WakeGoto, PipeEnds
  <2>4. ReaderWaits'
    BY <1>0, <1>16 DEF ReadDone, ReturnWaking, WakeGoto, PipeHolds, ReaderWaits,
       PipeTypes, PipeLock, PipeTypeOK, PipeEmpty
  <2>5. WriterWaits'
    BY <1>0, <1>16 DEF ReadDone, ReturnWaking, WakeGoto, WriterWaits,
       PipeTypes, PipeTypeOK, PipeFull
  <2>. QED BY <2>1, <2>2, <2>3, <2>4, <2>5 DEF PipeInv
<1>17. ASSUME NEW t \in Thread, PipeClose(t) PROVE PipeInv'
  <2>1. PipeTypes'
    BY <1>0, <1>17, SMTT(30) DEF PipeClose, WakeGoto, BothClosed, PipeTypes,
       PipeTypeOK, Uint
  <2>2. PipeLock'
    BY <1>0, <1>17 DEF PipeClose, WakeGoto, BothClosed, PipeTypes, PipeLock, PipeTypeOK
  <2>3. PipeEnds'
    <3>1. \A u \in Thread : pipe_pc'[u] # "user" => pipe_pc[u] # "user" /\ u # t
      BY <1>0, <1>17 DEF PipeClose, WakeGoto, PipeTypes, PipeTypeOK
    <3>2. \A u \in Thread : pipe_pc'[u] # "user" => u \in holds'
      BY <1>0, <1>17, <3>1 DEF PipeClose, PipeEnds
    <3>3. \A u \in Thread : /\ u \in holds' \cap Readers => readopen'
                            /\ u \in holds' \cap Writers => writeopen'
      BY <1>0, <1>17 DEF PipeClose, PipeEnds
    <3>4. freed' => ~ readopen' /\ ~ writeopen'
      BY <1>17 DEF PipeClose, BothClosed
    <3>. QED BY <3>2, <3>3, <3>4 DEF PipeEnds
  <2>4. ReaderWaits'
    BY <1>0, <1>17 DEF PipeClose, WakeGoto, BothClosed, ReaderWaits, PipeTypes,
       PipeLock, PipeEnds, PipeTypeOK, PipeEmpty, PipeHolds
  <2>5. WriterWaits'
    BY <1>0, <1>17 DEF PipeClose, WakeGoto, BothClosed, WriterWaits, PipeTypes,
       PipeLock, PipeTypeOK, PipeFull, PipeHolds
  <2>. QED BY <2>1, <2>2, <2>3, <2>4, <2>5 DEF PipeInv
<1>18. ASSUME NEW t \in Thread, PipeKill(t) PROVE PipeInv'
  <2>1. PipeTypes'
    BY <1>0, <1>18 DEF PipeKill, PipeGoto, PipeTypes, PipeTypeOK, Uint
  <2>2. PipeLock'
    BY <1>0, <1>18 DEF PipeKill, PipeGoto, PipeTypes, PipeLock, PipeTypeOK
  <2>3. PipeEnds'
    BY <1>0, <1>18 DEF PipeKill, PipeGoto, PipeTypes, PipeTypeOK, PipeEnds
  <2>4. ReaderWaits'
    BY <1>0, <1>18 DEF PipeKill, PipeGoto, ReaderWaits, PipeTypes, PipeTypeOK, PipeEmpty
  <2>5. WriterWaits'
    BY <1>0, <1>18 DEF PipeKill, PipeGoto, WriterWaits, PipeTypes, PipeLock, PipeTypeOK,
       PipeFull, PipeHolds
  <2>. QED BY <2>1, <2>2, <2>3, <2>4, <2>5 DEF PipeInv
<1>19. ASSUME PipeAlloc PROVE PipeInv'
  <2>1. PipeTypes'
    <3>1. Slots(data, PIPESIZE, Byte) /\ data' = data
      BY <1>0, <1>19 DEF PipeAlloc, PipeTypes, Ring
    <3>2. Ring(data', nread', nwrite', PIPESIZE, 2 ^ UintBits, Byte)
      BY <1>19, <3>1, RingEmpty DEF PipeAlloc
    <3>3. pipe_killed' \in [Thread -> BOOLEAN] /\ 0 \in 0 .. 2 ^ UintBits - 1
      BY <1>19 DEF PipeAlloc
    <3>4. PipeTypeOK'
      BY <1>0, <1>19, <3>3 DEF PipeAlloc, PipeTypes, PipeTypeOK, Uint
    <3>. QED BY <1>0, <1>19, <3>2, <3>4 DEF PipeAlloc, PipeTypes
  <2>2. PipeLock'
    BY <1>0, <1>19 DEF PipeAlloc, PipeTypes, PipeLock, PipeTypeOK
  <2>3. PipeEnds'
    BY <1>19 DEF PipeAlloc, PipeEnds
  <2>4. ReaderWaits'
    BY <1>0, <1>19 DEF PipeAlloc, ReaderWaits, PipeTypes, PipeTypeOK, PipeEmpty
  <2>5. WriterWaits'
    BY <1>0, <1>19 DEF PipeAlloc, WriterWaits, PipeTypes, PipeEnds, PipeTypeOK,
       PipeFull
  <2>. QED BY <2>1, <2>2, <2>3, <2>4, <2>5 DEF PipeInv
<1>. QED BY <1>1, <1>2, <1>3, <1>4, <1>5, <1>6, <1>7, <1>8, <1>9, <1>10, <1>11,
   <1>12, <1>13, <1>14, <1>15, <1>16, <1>17, <1>18, <1>19 DEF PipeNext, WriteStep,
   ReadStep

\* It holds for a pipe that pipealloc() has just made.
LEMMA PipeInitInv ==
  ASSUME PipeInit PROVE PipeInv
<1>. USE PipeSizes DEF PipeInit, Thread
<1>1. 0 \in 0 .. 2 ^ UintBits - 1
  OBVIOUS
<1>2. PipeTypes
  <2>1. (CHOOSE b \in Byte : TRUE) \in Byte
    OBVIOUS
  <2>2. data \in [0 .. PIPESIZE - 1 -> Byte] /\ pipe_out \in Byte
    BY <2>1
  <2>3. /\ pipe_i \in [Thread -> Nat] /\ pipe_n \in [Thread -> Counts \cup {0}]
        /\ \A t \in Thread : pipe_i[t] \in 0 .. pipe_n[t]
    OBVIOUS
  <2>4. pipe_killed \in [Thread -> BOOLEAN]
    OBVIOUS
  <2>5. PipeTypeOK
    BY <1>1, <2>2, <2>3, <2>4 DEF PipeTypeOK, Uint
  <2>6. Ring(data, nread, nwrite, PIPESIZE, 2 ^ UintBits, Byte)
    BY <2>2, RingEmpty DEF Slots
  <2>. QED BY <2>3, <2>5, <2>6 DEF PipeTypes
<1>3. PipeLock /\ PipeEnds /\ ReaderWaits /\ WriterWaits
  BY DEF PipeLock, PipeEnds, ReaderWaits, WriterWaits
<1>. QED BY <1>2, <1>3 DEF PipeInv

\* The inductive invariant of the pipe.
THEOREM PipeInvariant == PipeSpec => []PipeInv
<1>1. PipeInit => PipeInv
  BY PipeInitInv
<1>2. PipeInv /\ [PipeNext]_pipeVars => PipeInv'
  BY PipeStepInv
<1>. QED BY <1>1, <1>2, PTL DEF PipeSpec

\* Nobody is inside a pipe that was freed, and who sleeps when pi->lock is
\* free has a reason to, or a writer was killed.
THEOREM PipeSleepersSound == PipeSpec => []PipeSleepers
<1>1. PipeInv => PipeSleepers
  <2>. SUFFICES ASSUME PipeInv PROVE PipeSleepers
    OBVIOUS
  <2>. USE PipeSizes DEF PipeInv, Thread
  <2>1. InsideNotFreed
    BY DEF InsideNotFreed, PipeTypes, PipeEnds, PipeTypeOK
  <2>2. SleepJustifiedUnlessKilled
    BY DEF SleepJustifiedUnlessKilled, ReaderWaits, WriterWaits, PipeHolds
  <2>. QED BY <2>1, <2>2 DEF PipeSleepers
<1>. QED BY <1>1, PipeInvariant, PTL

\* The queue of the refinement is the contents of the ring.
LEMMA PipeQueueSteps ==
    /\ PipeQueue = Contents(data, nread, nwrite, PIPESIZE, 2 ^ UintBits)
    /\ PipeQueue' = Contents(data', nread', nwrite', PIPESIZE, 2 ^ UintBits)
  BY DEF PipeQueue, Used, Contents, Fill
\* Every step of the pipe is one of the queue, or leaves the queue alone.
LEMMA PipeStepFifo ==
  ASSUME PipeInv, [PipeNext]_pipeVars
  PROVE  [PipeAbs!FNext]_<<PipeQueue, pipe_out, freed>>
<1>. DEFINE Q == Contents(data, nread, nwrite, PIPESIZE, 2 ^ UintBits)
            Q1 == Contents(data', nread', nwrite', PIPESIZE, 2 ^ UintBits)
<1>. USE PipeSizes
<1>0. /\ PipeQueue = Q /\ PipeQueue' = Q1
      /\ Ring(data, nread, nwrite, PIPESIZE, 2 ^ UintBits, Byte)
      /\ data \in [0 .. PIPESIZE - 1 -> Byte]
  BY PipeQueueSteps DEF PipeInv, PipeTypes, PipeTypeOK
<1>7. ASSUME NEW t \in Thread, t \in holds \/ pipe_pc[t] # "user"
      PROVE  freed = FALSE
  BY <1>7 DEF PipeInv, PipeEnds, PipeTypes, PipeTypeOK, Thread
<1>1. ASSUME NEW t \in Thread, NEW b \in Byte, WriteByte(t, b)
      PROVE  PipeAbs!Put(b)
  <2>1. /\ nwrite' = (nwrite + 1) % 2 ^ UintBits /\ nread' = nread
        /\ data' = [data EXCEPT ![nwrite % PIPESIZE] = b]
        /\ pipe_out' = pipe_out /\ freed = FALSE /\ freed' = freed
        /\ nwrite # (nread + PIPESIZE) % 2 ^ UintBits
    BY <1>1, <1>7 DEF WriteByte, Inc, PipeFull, PipeHolds, pipeEnds
  <2>2. PutIn(Q1, Q, b, PIPESIZE)
    BY <1>0, <2>1, RingPut
  <2>. HIDE DEF Q, Q1
  <2>. QED BY <1>0, <2>1, <2>2 DEF PutIn, PipeAbs!Put
<1>2. ASSUME NEW t \in Thread, ReadByte(t) \/ ReadFault(t)
      PROVE  PipeAbs!Get
  <2>1. /\ nread' = (nread + 1) % 2 ^ UintBits /\ nwrite' = nwrite
        /\ data' = data /\ pipe_out' = data[nread % PIPESIZE]
        /\ nread # nwrite /\ freed = FALSE /\ freed' = freed
    BY <1>2, <1>7 DEF ReadByte, ReadFault, ReturnWaking, Inc, PipeEmpty, PipeHolds, pipeEnds
  <2>2. TakenOut(Q1, Q, data[nread % PIPESIZE])
    BY <1>0, <2>1, RingGet
  <2>. HIDE DEF Q, Q1
  <2>. QED BY <1>0, <2>1, <2>2 DEF TakenOut, PipeAbs!Get
<1>3. ASSUME PipeAlloc PROVE PipeAbs!Renew
  <2>1. /\ nread' = 0 /\ nwrite' = 0 /\ data' = data /\ pipe_out' = pipe_out
        /\ freed /\ freed' = FALSE
    BY <1>3 DEF PipeAlloc
  <2>3. Contents(data, 0, 0, PIPESIZE, 2 ^ UintBits) = <<>>
    BY <1>0, RingEmpty DEF Slots
  <2>. QED BY <1>0, <2>1, <2>3 DEF PipeAbs!Renew
<1>4. ASSUME UNCHANGED <<data, nread, nwrite, pipe_out>>
      PROVE  UNCHANGED <<PipeQueue, pipe_out>>
  BY <1>0, <1>4
<1>5. CASE UNCHANGED pipeVars
  BY <1>4, <1>5 DEF pipeVars, pipeRing, pipeEnds
<1>8. ASSUME NEW t \in Thread, PipeClose(t)
      PROVE  PipeAbs!Free \/ UNCHANGED <<PipeQueue, pipe_out, freed>>
  <2>1. freed = FALSE /\ freed' \in BOOLEAN /\ UNCHANGED <<data, nread, nwrite, pipe_out>>
    BY <1>7, <1>8 DEF PipeClose, BothClosed, pipeRing
  <2>. QED BY <1>4, <2>1 DEF PipeAbs!Free
<1>6. ASSUME NEW t \in Thread,
             \/ PipeCall(t) \/ PipeAcquire(t) \/ PipeKill(t)
             \/ WriteDone(t) \/ WriteFail(t) \/ WriteCheck(t)
             \/ WriteSleep(t) \/ WriteFault(t)
             \/ ReadCheck(t) \/ ReadKilled(t) \/ ReadSleep(t)
             \/ ReadReady(t) \/ ReadDone(t)
      PROVE  UNCHANGED <<PipeQueue, pipe_out, freed>>
  BY <1>4, <1>6 DEF PipeCall, PipeAcquire, PipeKill, WriteDone,
     WriteFail, WriteCheck, WriteSleep, WriteFault, ReadCheck, ReturnWaking,
     ReadKilled, ReadSleep, ReadReady, ReadDone, PipeSleep, pipeRing, pipeEnds
<1>. QED BY <1>1, <1>2, <1>3, <1>5, <1>6, <1>8
     DEF PipeNext, WriteStep, ReadStep, PipeAbs!FNext

\* The pipe is a queue of at most PIPESIZE bytes: what pipewrite() put in comes
\* out of piperead() in the same order, also when the counters wrap around, and
\* is lost only with the page of the pipe.
THEOREM PipeIsFifo == PipeSpec => PipeFifo
<1>1. ASSUME PipeInit PROVE PipeAbs!FInit
  <2>. USE PipeSizes
  <2>1. /\ nread = 0 /\ nwrite = 0 /\ data \in [0 .. PIPESIZE - 1 -> Byte]
        /\ pipe_out \in Byte /\ freed = FALSE
    BY <1>1 DEF PipeInit
  <2>2. PipeQueue = <<>>
    <3>1. Contents(data, nread, nwrite, PIPESIZE, 2 ^ UintBits) = <<>>
      BY <2>1, RingEmpty DEF Slots
    <3>. QED BY <3>1, PipeQueueSteps
  <2>. QED BY <2>1, <2>2 DEF PipeAbs!FInit
<1>2. PipeInv /\ [PipeNext]_pipeVars => [PipeAbs!FNext]_<<PipeQueue, pipe_out, freed>>
  BY PipeStepFifo
<1>. QED BY <1>1, <1>2, PipeInvariant, PTL DEF PipeSpec, PipeFifo, PipeAbs!FSpec

=============================================================================
