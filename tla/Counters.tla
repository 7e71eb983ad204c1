------------------------------ MODULE Counters ------------------------------
(***************************************************************************)
(* What the rings of console.c, uart.c, pipe.c and virtio_disk.c have in   *)
(* common: indices of an unsigned type of UintBits bits, which wrap        *)
(* around, and a lock that may be free.                                    *)
(***************************************************************************)
EXTENDS Integers

CONSTANTS
    UintBits,
    Nobody     \* the holder of a lock that is free

Uint == 0 .. 2 ^ UintBits - 1

Plus(k, d) == (k + d) % 2 ^ UintBits
Minus(j, k) == (j - k) % 2 ^ UintBits
Inc(k) == (k + 1) % 2 ^ UintBits

\* The indices wrap around at a multiple of the size of the buffer, and count
\* further than it.
WrapsEvenly(size) ==
    /\ size \in Nat \ {0} /\ 2 ^ UintBits \in Nat
    /\ \E k \in 2 .. 2 ^ UintBits : 2 ^ UintBits = k * size

=============================================================================
