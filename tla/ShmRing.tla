-------------------------------- MODULE ShmRing --------------------------------
(***************************************************************************)
(* SharedMemoryIPC (native/core/ipc_shm.cpp): a ring of bytes in memory    *)
(* shared by two processes, one that writes messages and one that reads    *)
(* them.  A message is four bytes of length and its payload.  Neither side *)
(* locks: the writer publishes write_pos when everything is copied, the    *)
(* reader read_pos when it has copied everything out.                      *)
(* A byte is modelled by the message it belongs to and its place in it.    *)
(* Bytes are copied one by one and in order, which memcpy need not do: the *)
(* other side does not look at them before they are published.             *)
(***************************************************************************)
EXTENDS Integers, Sequences, RingMessages

VARIABLES buf,        \* the bytes of the ring
          write_pos,
          read_pos,
          out,        \* the message write() is copying, or Garbled
          stored,     \* its bytes that are in the ring
          total,      \* the bytes read() will take, 0 outside
          copied,     \* those it has
          last,       \* the message the last read() returned
          queue,      \* history: the messages between the two positions
          places      \* history: where they begin

writer == <<out, stored>>
reader == <<total, copied, last>>
vars == <<buf, write_pos, read_pos, writer, reader, queue, places>>

Init ==
    /\ buf = [p \in Ring |-> Blank]
    /\ write_pos = 0
    /\ read_pos = 0
    /\ out = Garbled
    /\ stored = 0
    /\ total = 0
    /\ copied = <<>>
    /\ last = Garbled
    /\ queue = <<>>
    /\ places = <<>>

\* p & mask, for p at most one round too far.
Wrap(p) == IF p >= Capacity THEN p - Capacity ELSE p

\* Bytes from read_pos to p.
Ahead(p) == IF p >= read_pos THEN p - read_pos ELSE Capacity - read_pos + p
Used == Ahead(write_pos)

\* Mutant: the ring may be filled to the last byte.
FreeAll == Capacity - Used

\* One byte stays free, or a full ring would look empty.
Free == Capacity - Used - 1

-------------------------------------------------------------------------------
(* The writer. *)

\* write(): refused, and nothing changes, when there is no room.
BeginWrite(m) ==
    /\ out = Garbled
    /\ Total(m) <= Free
    /\ out' = m
    /\ UNCHANGED <<buf, write_pos, read_pos, stored, reader, queue, places>>

Store ==
    /\ out # Garbled
    /\ stored < Total(out)
    /\ buf' = [buf EXCEPT ![Wrap(write_pos + stored)] = <<out, stored>>]
    /\ stored' = stored + 1
    /\ UNCHANGED <<write_pos, read_pos, out, reader, queue, places>>

\* Mutant: write_pos is published before the last bytes are there.
PublishEarly ==
    /\ out # Garbled
    /\ stored = Total(out) - 1
    /\ write_pos' = Wrap(write_pos + Total(out))
    /\ queue' = Append(queue, out)
    /\ places' = Append(places, write_pos)
    /\ out' = Garbled
    /\ stored' = 0
    /\ UNCHANGED <<buf, read_pos, reader>>

Publish ==
    /\ out # Garbled
    /\ stored = Total(out)
    /\ write_pos' = Wrap(write_pos + Total(out))
    /\ queue' = Append(queue, out)
    /\ places' = Append(places, write_pos)
    /\ out' = Garbled
    /\ stored' = 0
    /\ UNCHANGED <<buf, read_pos, reader>>

-------------------------------------------------------------------------------
(* The reader. *)

\* The length in the prefix at p: anything, when it is not that of a message.
TotalsAt(p) ==
    LET M == {m \in Msg : \A j \in 0..(Prefix - 1) : buf[Wrap(p + j)] = <<m, j>>}
    IN  IF M = {} THEN Totals ELSE {Total(m) : m \in M}

\* has_message(): a prefix and as many bytes as it says.
Complete(n) == Used >= Prefix /\ n \in TotalsAt(read_pos) /\ Used >= n

\* The bytes as a message.
Decoded(bytes) ==
    LET M == {m \in Msg : /\ Len(bytes) = Total(m)
                          /\ \A j \in 1..Len(bytes) : bytes[j] = <<m, j - 1>>}
    IN  IF M = {} THEN Garbled ELSE CHOOSE m \in M : TRUE

\* The history of a message that leaves the ring.
Leave ==
    /\ queue' = IF queue = <<>> THEN <<>> ELSE Tail(queue)
    /\ places' = IF places = <<>> THEN <<>> ELSE Tail(places)

\* read() up to the copying.
BeginRead ==
    /\ total = 0
    /\ \E n \in Totals : Complete(n) /\ n - Prefix <= MaxRead /\ total' = n
    /\ UNCHANGED <<buf, write_pos, read_pos, writer, copied, last, queue, places>>

\* read() of a message that is larger than the buffer: it is skipped.
SkipLarge ==
    /\ total = 0
    /\ \E n \in Totals : /\ Complete(n) /\ n - Prefix > MaxRead
                         /\ read_pos' = Wrap(read_pos + n)
    /\ last' = Garbled
    /\ Leave
    /\ UNCHANGED <<buf, write_pos, writer, total, copied>>

Load ==
    /\ Len(copied) < total
    /\ copied' = Append(copied, buf[Wrap(read_pos + Len(copied))])
    /\ UNCHANGED <<buf, write_pos, read_pos, writer, total, last, queue, places>>

Release ==
    /\ total > 0
    /\ Len(copied) = total
    /\ read_pos' = Wrap(read_pos + total)
    /\ last' = Decoded(copied)
    /\ total' = 0
    /\ copied' = <<>>
    /\ Leave
    /\ UNCHANGED <<buf, write_pos, writer>>

-------------------------------------------------------------------------------
Next ==
    \/ \E m \in Msg : BeginWrite(m)
    \/ Store \/ Publish
    \/ BeginRead \/ SkipLarge \/ Load \/ Release

Spec == Init /\ [][Next]_vars

-------------------------------------------------------------------------------
(* Properties *)

\* "Lock-free ring buffer" (ipc_shm.cpp:3): however the two sides interleave, each
\* message arrives whole, once and in order.
Pipe == INSTANCE Channel WITH Skipped <- Garbled
ImplementsChannel == Pipe!Spec
===============================================================================
