-------------------------------- MODULE MCFiles --------------------------------
(***************************************************************************)
(* Region files for TLC: the write of one file, the accounting of the      *)
(* memory that regions read from files take in the cache, and the          *)
(* conversion of a world of Anvil files.  A behaviour follows one of them, *)
(* chosen at the start, and leaves the others in an initial state.         *)
(***************************************************************************)
EXTENDS RegionFile, AnvilFiles, TLC

CONSTANTS CacheRegion, MaxRegions, MaxMemory, MaxSize  \* constants of RegionMemory

VARIABLES part,                                     \* what is followed
          mOrder, mSize, mMemory, mBase, mEvicting, \* variables of RegionMemory
          aPhase, aMca, aBak, aLinear, aTodo, aRenaming, aFaults,
          aLatest, aSpoilt                          \* variables of AnvilConversion

Memory == INSTANCE RegionMemory WITH
    Region <- CacheRegion, order <- mOrder, size <- mSize, memory <- mMemory, base <- mBase,
    evicting <- mEvicting

ASSUME CacheAssumption == Memory!MemoryAssumption

memoryVars == <<mOrder, mSize, mMemory, mBase, mEvicting>>

Anvil == INSTANCE AnvilConversion WITH
    phase <- aPhase, mca <- aMca, bak <- aBak, linear <- aLinear, todo <- aTodo,
    renaming <- aRenaming, faults <- aFaults, latest <- aLatest, spoilt <- aSpoilt

anvilVars ==
    <<aPhase, aMca, aBak, aLinear, aTodo, aRenaming, aFaults, aLatest, aSpoilt>>

NoWorld == [r \in Region |-> NoChunks]

FilesInit ==
    /\ Init /\ Memory!Init /\ Anvil!Init
    /\ \/ part = "file" /\ mSize = [r \in CacheRegion |-> 1] /\ aLatest = NoWorld /\ aMca = NoWorld
       \/ part = "memory" /\ aLatest = NoWorld /\ aMca = NoWorld
       \/ part = "anvil" /\ mSize = [r \in CacheRegion |-> 1]

FilesNext ==
    /\ UNCHANGED part
    /\ \/ part = "file" /\ Next /\ UNCHANGED <<memoryVars, anvilVars>>
       \/ part = "memory" /\ Memory!Next /\ UNCHANGED <<vars, anvilVars>>
       \/ part = "anvil" /\ Anvil!Next /\ UNCHANGED <<vars, memoryVars>>

FilesSpec == FilesInit /\ [][FilesNext]_<<vars, memoryVars, anvilVars, part>>

\* Threads, regions and chunks are interchangeable.
Symmetry == Permutations(Thread) \cup Permutations(Region) \cup Permutations(Chunk)

-------------------------------------------------------------------------------
\* RegionMemory.DriftIsGrowth: the counter is off by what the regions have grown.
MemoryDriftIsGrowth == Memory!DriftIsGrowth

\* AnvilConversion.ServesNewest: no conversion goes over a change.
ServesNewest == Anvil!ServesNewest
===============================================================================
