------------------------------ MODULE ChunkStore ------------------------------
(***************************************************************************)
(* What WorldStorage promises its callers: a map from chunks to payloads   *)
(* with a volatile and a durable side.  Only a save that was asked for     *)
(* changes a chunk, and whole regions move to the durable side one at a    *)
(* time.  A crash takes saves back, to the durable image.  Once a file     *)
(* could not be read or written, so may the storage.                       *)
(***************************************************************************)
EXTENDS Naturals

CONSTANTS Region,  \* region files, the unit of persistence
          Chunk,   \* positions inside a region
          Data,    \* chunk payloads
          NoData   \* "this chunk was never saved"

VARIABLES live,     \* live[r][c]: what load_chunk answers
          durable,  \* durable[r][c]: what a restart would find
          asked,    \* the calls of save_chunk that have not returned
          crashes,  \* number of process crashes so far
          faults    \* number of reads and writes that failed so far

storeVars == <<live, durable, asked, crashes, faults>>

RegionImage == [Chunk -> Data \cup {NoData}]
EmptyRegion == [c \in Chunk |-> NoData]

StoreInit ==
    /\ live = [r \in Region |-> EmptyRegion]
    /\ durable = live
    /\ asked = {}
    /\ crashes = 0 /\ faults = 0

\* save_chunk is called, and returns.
Begin(r, c, d) ==
    /\ asked' = asked \cup {<<r, c, d>>}
    /\ UNCHANGED <<live, durable, crashes, faults>>

End(r, c, d) ==
    /\ asked' = asked \ {<<r, c, d>>}
    /\ UNCHANGED <<live, durable, crashes, faults>>

\* In between the payload replaces the chunk; nothing else moves.
Save(r, c, d) ==
    /\ <<r, c, d>> \in asked
    /\ live' = [live EXCEPT ![r][c] = d]
    /\ UNCHANGED <<durable, asked, crashes, faults>>

\* flush, eviction, unload: the region file becomes the region.
Persist(r) ==
    /\ durable' = [durable EXCEPT ![r] = live[r]]
    /\ UNCHANGED <<live, asked, crashes, faults>>

\* The process dies; what was not durable is gone.
LoseVolatile ==
    /\ live' = durable
    /\ asked' = {}
    /\ crashes' = crashes + 1
    /\ UNCHANGED <<durable, faults>>

\* A file cannot be read or written.
Fault ==
    /\ faults' = faults + 1
    /\ UNCHANGED <<live, durable, asked, crashes>>

\* An eviction, an unload or close() gives regions up whose write failed; a save
\* after a read that failed starts from an empty region.
Forget ==
    /\ faults' \in {faults, faults + 1} /\ faults' > 0
    /\ \/ \E lost \in SUBSET Region :
             live' = [r \in Region |-> IF r \in lost THEN durable[r] ELSE live[r]]
       \/ \E r \in Region : live' = [live EXCEPT ![r] = EmptyRegion]
    /\ UNCHANGED <<durable, asked, crashes>>

StoreNext ==
    \/ \E r \in Region, c \in Chunk, d \in Data : Begin(r, c, d) \/ Save(r, c, d) \/ End(r, c, d)
    \/ \E r \in Region : Persist(r)
    \/ LoseVolatile \/ Fault \/ Forget

StoreSpec == StoreInit /\ [][StoreNext]_storeVars
===============================================================================
