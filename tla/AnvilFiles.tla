------------------------------- MODULE AnvilFiles -------------------------------
(***************************************************************************)
(* Region files in the two formats of world/storage.py, as what they have  *)
(* for each chunk.  No file and one without a single chunk are not told    *)
(* apart: both formats' readers and the conversions pass over them alike.  *)
(***************************************************************************)
EXTENDS Naturals

CONSTANTS Region,     \* region coordinates
          Chunk,      \* places of chunks in a region
          MaxEdits,   \* bound: the versions of a chunk
          MaxFaults,  \* bound: reads, writes and renames that fail
          None,       \* no chunk
          Bad,        \* a chunk of an Anvil file that cannot be decoded
          NoRegion

ASSUME AnvilAssumption ==
    /\ NoRegion \notin Region
    /\ MaxEdits \in Nat \ {0} /\ MaxFaults \in Nat
    /\ None \notin Nat /\ Bad \notin Nat /\ None # Bad

Versions == 1..MaxEdits

LinearFile == [Chunk -> Versions \cup {None}]
AnvilFile == [Chunk -> Versions \cup {None, Bad}]
NoChunks == [c \in Chunk |-> None]

\* AnvilReader: the chunks that can be decoded, the others are skipped.
Readable(file) == [c \in Chunk |-> IF file[c] = Bad THEN None ELSE file[c]]

\* chunk_count of what was read is not 0.
Usable(file) == Readable(file) # NoChunks
===============================================================================
