-------------------------------- MODULE Fifo --------------------------------
(***************************************************************************)
(* What a pipe and the transmit buffer of the UART promise: a bounded      *)
(* queue, from which is taken what was put in, in the same order.  Nothing *)
(* else leaves it, but that a pipe which is freed with bytes in it takes   *)
(* them along; the next pipe is empty.                                     *)
(***************************************************************************)
EXTENDS Naturals, Sequences

CONSTANTS Byte, Capacity

VARIABLES
    queue,  \* the bytes in the queue
    out,    \* the byte taken out last
    freed   \* the queue is gone

FInit == queue = <<>> /\ out \in Byte /\ freed = FALSE

Put(b) ==
    /\ ~ freed /\ Len(queue) < Capacity
    /\ queue' = Append(queue, b)
    /\ UNCHANGED <<out, freed>>

Get ==
    /\ ~ freed /\ queue # <<>>
    /\ out' = Head(queue)
    /\ queue' = Tail(queue)
    /\ UNCHANGED freed

Free ==
    /\ ~ freed
    /\ freed' = TRUE
    /\ UNCHANGED <<queue, out>>

Renew ==
    /\ freed
    /\ queue' = <<>> /\ freed' = FALSE
    /\ UNCHANGED out

FNext == (\E b \in Byte : Put(b)) \/ Get \/ Free \/ Renew

FSpec == FInit /\ [][FNext]_<<queue, out, freed>>

=============================================================================
