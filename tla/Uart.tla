-------------------------------- MODULE Uart --------------------------------
(***************************************************************************)
(* Console output of kernel/uart.c: uartputc() of several processes, the   *)
(* transmit buffer, uartstart() from both halves, uartintr(), and          *)
(* uartputc_sync(), which takes no lock.  The device takes a character at  *)
(* its transmit register while earlier ones are being sent, says when it   *)
(* has sent them all (LSR_TX_IDLE), and then asks for an interrupt until   *)
(* THR is written or ISR is read.                                          *)
(***************************************************************************)
EXTENDS Counters, Sequences, FiniteSets

CONSTANTS
    Writer,            \* processes in consolewrite()
    SyncCPU,           \* CPUs that call uartputc_sync()
    Intr,              \* uart_tx_lock is held by uartintr()
    OutChar,
    UART_TX_BUF_SIZE

ASSUME UartAssumption ==
    /\ WrapsEvenly(UART_TX_BUF_SIZE)
    /\ Nobody \notin Writer /\ Intr \notin Writer \cup {Nobody}
    /\ OutChar # {} /\ IsFiniteSet(SyncCPU)

VARIABLES
    uart_tx_buf, uart_tx_w, uart_tx_r, uart_tx_lock,
    uart_pc, uart_c,  \* per process: where it is, the character it writes
    start,     \* where the holder of the lock is in uartstart()
    sync,      \* CPUs that have seen LSR_TX_IDLE in uartputc_sync()
    thr, irq,  \* the device: how many characters it holds, interrupt request
    uart_out   \* the last character given to the device

uartRing == <<uart_tx_buf, uart_tx_w, uart_tx_r>>
uartVars == <<uartRing, uart_tx_lock, uart_pc, uart_c, start, sync, thr, irq,
              uart_out>>

UartFull == uart_tx_w = (uart_tx_r + UART_TX_BUF_SIZE) % 2 ^ UintBits
UartEmpty == uart_tx_w = uart_tx_r
TxIdle == thr = 0

UartInit ==
    /\ uart_tx_buf \in [0 .. UART_TX_BUF_SIZE - 1 -> {CHOOSE x \in OutChar : TRUE}]
    /\ uart_tx_w = 0 /\ uart_tx_r = 0
    /\ uart_tx_lock = Nobody
    /\ uart_pc = [t \in Writer |-> "idle"]
    /\ uart_c \in [Writer -> {CHOOSE x \in OutChar : TRUE}]
    /\ start = "no"
    /\ sync = {}
    /\ thr = 0 /\ irq = FALSE
    /\ uart_out = CHOOSE x \in OutChar : TRUE

UartGoto(t, l) == uart_pc' = [uart_pc EXCEPT ![t] = l]

-----------------------------------------------------------------------------
(* uartputc().                                                             *)

UartCall(t) ==
    /\ uart_pc[t] = "idle"
    /\ \E x \in OutChar : uart_c' = [uart_c EXCEPT ![t] = x]
    /\ UartGoto(t, "acquire")
    /\ UNCHANGED <<uartRing, uart_tx_lock, start, sync, thr, irq, uart_out>>

\* acquire(&uart_tx_lock); the buffer is full: sleep(&uart_tx_r, ...).
PutSleep(t) ==
    /\ uart_pc[t] = "acquire" /\ uart_tx_lock = Nobody /\ UartFull
    /\ UartGoto(t, "asleep")
    /\ UNCHANGED <<uartRing, uart_tx_lock, uart_c, start, sync, thr, irq, uart_out>>

\* Mutant of Put: uartstart() is left to the next interrupt.
PutNoStart(t) ==
    /\ uart_pc[t] = "acquire" /\ uart_tx_lock = Nobody /\ ~ UartFull
    /\ uart_tx_buf' = [uart_tx_buf EXCEPT ![uart_tx_w % UART_TX_BUF_SIZE] = uart_c[t]]
    /\ uart_tx_w' = Inc(uart_tx_w)
    /\ UartGoto(t, "idle")
    /\ UNCHANGED <<uart_tx_r, uart_tx_lock, uart_c, start, sync, thr, irq, uart_out>>

Put(t) ==
    /\ uart_pc[t] = "acquire" /\ uart_tx_lock = Nobody /\ ~ UartFull
    /\ uart_tx_lock' = t
    /\ uart_tx_buf' = [uart_tx_buf EXCEPT ![uart_tx_w % UART_TX_BUF_SIZE] = uart_c[t]]
    /\ uart_tx_w' = Inc(uart_tx_w)
    /\ start' = "loop"
    /\ UartGoto(t, "start")
    /\ UNCHANGED <<uart_tx_r, uart_c, sync, thr, irq, uart_out>>

\* kill() makes a process that sleeps in uartputc() runnable: it looks again.
KillWake(t) ==
    /\ uart_pc[t] = "asleep"
    /\ UartGoto(t, "acquire")
    /\ UNCHANGED <<uartRing, uart_tx_lock, uart_c, start, sync, thr, irq, uart_out>>

-----------------------------------------------------------------------------
(* uartstart(), by the holder of uart_tx_lock, and its return to           *)
(* uartputc() or uartintr().                                               *)

UartRelease ==
    /\ uart_tx_lock' = Nobody
    /\ start' = "no"
    /\ uart_pc' = [t \in Writer |-> IF t = uart_tx_lock THEN "idle" ELSE uart_pc[t]]

\* The buffer is empty: reading ISR withdraws the interrupt request.
StartEmpty ==
    /\ start = "loop" /\ UartEmpty
    /\ UartRelease
    /\ irq' = FALSE
    /\ UNCHANGED <<uartRing, uart_c, sync, thr, uart_out>>

StartBusy ==
    /\ start = "loop" /\ ~ UartEmpty /\ ~ TxIdle
    /\ UartRelease
    /\ UNCHANGED <<uartRing, uart_c, sync, thr, irq, uart_out>>

Woken == [t \in Writer |-> IF uart_pc[t] = "asleep" THEN "acquire" ELSE uart_pc[t]]

\* Mutant of StartTake: the index moves before the character is read.
StartTakeNext ==
    /\ start = "loop" /\ ~ UartEmpty /\ TxIdle
    /\ uart_out' = uart_tx_buf[Inc(uart_tx_r) % UART_TX_BUF_SIZE]
    /\ uart_tx_r' = Inc(uart_tx_r)
    /\ uart_pc' = Woken
    /\ start' = "write"
    /\ UNCHANGED <<uart_tx_buf, uart_tx_w, uart_tx_lock, uart_c, sync, thr, irq>>

\* The transmitter is idle: take a character, wake uartputc().
StartTake ==
    /\ start = "loop" /\ ~ UartEmpty /\ TxIdle
    /\ uart_out' = uart_tx_buf[uart_tx_r % UART_TX_BUF_SIZE]
    /\ uart_tx_r' = Inc(uart_tx_r)
    /\ uart_pc' = Woken
    /\ start' = "write"
    /\ UNCHANGED <<uart_tx_buf, uart_tx_w, uart_tx_lock, uart_c, sync, thr, irq>>

StartWrite ==
    /\ start = "write"
    /\ thr' = thr + 1
    /\ irq' = FALSE
    /\ start' = "loop"
    /\ UNCHANGED <<uartRing, uart_tx_lock, uart_pc, uart_c, sync, uart_out>>

\* uartintr(), after the input.  Input interrupts too, so it comes at any time.
IntrStart ==
    /\ uart_tx_lock = Nobody
    /\ uart_tx_lock' = Intr
    /\ start' = "loop"
    /\ UNCHANGED <<uartRing, uart_pc, uart_c, sync, thr, irq, uart_out>>

-----------------------------------------------------------------------------
(* uartputc_sync(): the test of LSR and the write of THR.                  *)

SyncTest(d) ==
    /\ d \notin sync /\ TxIdle
    /\ sync' = sync \cup {d}
    /\ UNCHANGED <<uartRing, uart_tx_lock, uart_pc, uart_c, start, thr, irq, uart_out>>

SyncWrite(d) ==
    /\ d \in sync
    /\ sync' = sync \ {d}
    /\ thr' = thr + 1
    /\ irq' = FALSE
    /\ UNCHANGED <<uartRing, uart_tx_lock, uart_pc, uart_c, start, uart_out>>

\* The device has sent what it held.
Sent ==
    /\ thr > 0
    /\ thr' = thr - 1
    /\ irq' = (irq \/ thr = 1)
    /\ UNCHANGED <<uartRing, uart_tx_lock, uart_pc, uart_c, start, sync, uart_out>>

-----------------------------------------------------------------------------
UartStart == StartEmpty \/ StartBusy \/ StartTake \/ StartWrite
UartNext ==
    \/ \E t \in Writer : UartCall(t) \/ PutSleep(t) \/ Put(t) \/ KillWake(t)
    \/ UartStart \/ IntrStart \/ Sent
    \/ \E d \in SyncCPU : SyncTest(d) \/ SyncWrite(d)

UartSpec == UartInit /\ [][UartNext]_uartVars

-----------------------------------------------------------------------------
(* Properties.                                                             *)

UartTypeOK ==
    /\ uart_tx_buf \in [0 .. UART_TX_BUF_SIZE - 1 -> OutChar]
    /\ uart_tx_w \in Uint /\ uart_tx_r \in Uint
    /\ uart_tx_lock \in Writer \cup {Nobody, Intr}
    /\ uart_pc \in [Writer -> {"idle", "acquire", "asleep", "start"}]
    /\ uart_c \in [Writer -> OutChar]
    /\ start \in {"no", "loop", "write"} /\ (start = "no" <=> uart_tx_lock = Nobody)
    /\ sync \subseteq SyncCPU
    /\ thr \in 0 .. 1 + Cardinality(SyncCPU) /\ irq \in BOOLEAN
    /\ uart_out \in OutChar

\* Characters of write() reach the device in the order in which uartputc()
\* took them, none lost and none twice: nothing but uartstart()'s reading
\* takes them out of the ring.  Those of uartputc_sync() may come between them.
UartQueue == [k \in 1 .. (uart_tx_w - uart_tx_r) % 2 ^ UintBits |->
                uart_tx_buf[(uart_tx_r + k - 1) % UART_TX_BUF_SIZE]]
UartAbs == INSTANCE Fifo WITH
    Byte <- OutChar, Capacity <- UART_TX_BUF_SIZE,
    queue <- UartQueue, out <- uart_out, freed <- FALSE
OutputInOrder == UartAbs!FSpec

\* A writer sleeps only while the buffer is full.  Although uartputc_sync()
\* takes no lock, the device never holds more than one character of
\* uartstart() and one of each CPU that echoes or prints.
WriterJustified ==
    /\ UartTypeOK
    /\ uart_tx_lock = Nobody => \A t \in Writer : uart_pc[t] = "asleep" => UartFull

\* While there are characters to send, an interrupt will come: the device is
\* busy or has asked for one.  Otherwise output would stop.
InterruptDue ==
    uart_tx_lock = Nobody /\ ~ UartEmpty => irq \/ ~ TxIdle

SomeoneSends == InterruptDue /\ WriterJustified

=============================================================================
