-------------------------------- MODULE Channel --------------------------------
(***************************************************************************)
(* What a ring of ipc_shm promises its two ends: messages arrive whole,    *)
(* once and in the order they were written.  A message that is larger than *)
(* the buffer of its reader is taken out and lost.                         *)
(***************************************************************************)
EXTENDS Sequences

CONSTANTS Msg,      \* messages
          Fits,     \* those that fit the buffer of the reader
          Skipped   \* what the reader is left with when one does not

VARIABLES queue,    \* written and not read
          last      \* what the last read() returned

vars == <<queue, last>>

Init ==
    /\ queue = <<>>
    /\ last = Skipped

Send(m) ==
    /\ queue' = Append(queue, m)
    /\ UNCHANGED last

Receive ==
    /\ queue # <<>>
    /\ last' = IF Head(queue) \in Fits THEN Head(queue) ELSE Skipped
    /\ queue' = Tail(queue)

Next == Receive \/ \E m \in Msg : Send(m)

Spec == Init /\ [][Next]_vars
===============================================================================
