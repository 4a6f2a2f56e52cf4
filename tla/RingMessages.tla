----------------------------- MODULE RingMessages ------------------------------
(***************************************************************************)
(* The messages of a ring of ipc_shm and its size.                         *)
(***************************************************************************)
EXTENDS Integers

CONSTANTS Msg,       \* messages that are sent
          Size,      \* bytes of payload of each
          Capacity,  \* bytes of the ring: a power of two
          MaxRead,   \* bytes of the reader's buffer
          Blank,     \* a byte nobody wrote
          Garbled    \* no message

Prefix == 4          \* bytes of the length before a payload
Total(m) == Prefix + Size[m]
Ring == 0..(Capacity - 1)
Totals == Prefix..Capacity

ASSUME RingAssumption ==
    /\ Capacity \in Nat /\ Capacity > Prefix
    /\ Size \in [Msg -> Nat \ {0}]
    /\ MaxRead \in Nat
    /\ Garbled \notin Msg
    /\ Blank \notin Msg \X Nat

\* Messages that the reader's buffer holds.
Fits == {m \in Msg : Size[m] <= MaxRead}
===============================================================================
