----------------------------- MODULE RegionMemory -----------------------------
(***************************************************************************)
(* world/storage.py, class LRUCache: the memory accounting of the region   *)
(* cache, as one thread drives it.  The cache adds the size a region has   *)
(* when it is inserted and subtracts the size it has when it leaves; in    *)
(* between, LinearRegion.set_chunk changes the size without telling the    *)
(* cache.  Contents, files and dirty marks are left to WorldStorage.       *)
(***************************************************************************)
EXTENDS Integers, Sequences, SequencesExt, Sums

CONSTANTS Region,      \* region coordinates
          MaxRegions,  \* LRUCache._max_regions
          MaxMemory,   \* LRUCache._max_memory
          MaxSize      \* bound: the largest estimated_size of a region

\* What the constants must be; the suite that instantiates this module assumes it.
MemoryAssumption ==
    /\ IsFiniteSet(Region)
    /\ MaxSize \in Nat

VARIABLES order,   \* keys of access_order, least recently used first
          size,    \* size[r]: estimated_size of r, in the cache or as on disk
          memory,  \* LRUCache.current_memory
          base,    \* history: size when the cache was last empty for certain
          evicting \* put has inserted its region and is inside _evict

vars == <<order, size, memory, base, evicting>>

InCache == ToSet(order)

\* What the cached regions really take.
ActualMemory == SumOf(size, InCache)

TypeOK ==
    /\ order \in Seq(Region) /\ IsInjective(order)
    /\ size \in [Region -> 1..MaxSize]
    /\ memory \in Int
    /\ base \in [Region -> 1..MaxSize]
    /\ evicting \in BOOLEAN

\* A fresh server over a world whose regions have any size already.
Init ==
    /\ order = <<>>
    /\ size \in [Region -> 1..MaxSize]
    /\ memory = 0
    /\ base = size
    /\ evicting = FALSE

-------------------------------------------------------------------------------
Position(r) == CHOOSE i \in 1..Len(order) : order[i] = r
Without(r) == RemoveAt(order, Position(r))
Touch(r) == Append(Without(r), r)

\* get of a cached key
Hit(r) ==
    /\ ~evicting
    /\ r \in InCache
    /\ order' = Touch(r)
    /\ UNCHANGED <<size, memory, base, evicting>>

\* put of a new key (loaded from its file, or created)
Put(r) ==
    /\ ~evicting
    /\ r \notin InCache
    /\ order' = Append(order, r)
    /\ memory' = memory + size[r]
    /\ evicting' = TRUE
    /\ UNCHANGED <<size, base>>

OverLimit == Len(order) > MaxRegions \/ memory > MaxMemory

\* One turn of _evict, and the end of its loop.
Evict ==
    /\ evicting
    /\ order # <<>>
    /\ OverLimit
    /\ memory' = memory - size[Head(order)]
    /\ order' = Tail(order)
    /\ UNCHANGED <<size, base, evicting>>

EvictDone ==
    /\ evicting
    /\ order = <<>> \/ ~OverLimit
    /\ evicting' = FALSE
    /\ UNCHANGED <<order, size, memory, base>>

\* set_chunk on a cached region: chunks come in, or are replaced by payloads
\* of another length.
SetChunk(r, n) ==
    /\ ~evicting
    /\ r \in InCache
    /\ size' = [size EXCEPT ![r] = n]
    /\ UNCHANGED <<order, memory, base, evicting>>

\* Mutant: remove forgets the counter.
DiscardForFree(r) ==
    /\ ~evicting
    /\ r \in InCache
    /\ order' = Without(r)
    /\ UNCHANGED <<memory, size, base, evicting>>

\* remove (unload_region) and clear (close)
Discard(r) ==
    /\ ~evicting
    /\ r \in InCache
    /\ memory' = memory - size[r]
    /\ order' = Without(r)
    /\ UNCHANGED <<size, base, evicting>>

Clear ==
    /\ ~evicting
    /\ order' = <<>>
    /\ memory' = 0
    /\ base' = size
    /\ UNCHANGED <<size, evicting>>

Next ==
    \/ Evict \/ EvictDone \/ Clear
    \/ \E r \in Region :
          \/ Hit(r) \/ Put(r) \/ Discard(r)
          \/ \E n \in 1..MaxSize : SetChunk(r, n)

Spec == Init /\ [][Next]_vars

-------------------------------------------------------------------------------
(* Properties.                                                             *)

\* By how much the regions have grown since the cache was last empty.
Growth == SumOf(size, Region) - SumOf(base, Region)

\* current_memory is off by exactly what the regions have grown while they
\* were in the cache, over the whole life of the cache: an eviction does not
\* give the error back.
DriftIsGrowth == memory = ActualMemory - Growth
===============================================================================
