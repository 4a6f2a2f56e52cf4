----------------------------- MODULE WorldStorage -----------------------------
(***************************************************************************)
(* world/storage.py: the LRU cache of region files (LRUCache) and the      *)
(* storage manager above it (WorldStorage).                                *)
(*                                                                         *)
(* The storage object is shared by the event loop and by the executor      *)
(* threads that run MinecraftServer.generate_chunk_results, so every       *)
(* operation is cut where another thread can get in: at each use of        *)
(* LRUCache._lock, and around the file reads and writes, which release the *)
(* interpreter lock.  With one thread the steps run back to back.          *)
(*                                                                         *)
(* A region file is written by LinearRegion.write; that it replaces the    *)
(* file in one step is the subject of module RegionFile.                   *)
(***************************************************************************)
EXTENDS Integers, Sequences, FiniteSets, SequencesExt

CONSTANTS Thread,      \* the event loop and the executor threads
          Region,      \* region coordinates (rx, rz)
          Chunk,       \* chunk index inside a region
          Data,        \* chunk payloads
          Object,      \* identities of LinearRegion objects
          NoData,      \* chunks[index] is None
          NoFile,      \* the region file does not exist
          None,        \* Python's None for objects and for the lock owner
          MaxRegions,  \* LRUCache._max_regions
          MaxCrashes,  \* bound: crashes of the process
          MaxFaults    \* bound: region reads and writes that raise

ASSUME Sentinels ==
    /\ NoData \notin Data
    /\ None \notin Object \cup Thread
    /\ NoFile \notin [Chunk -> Data \cup {NoData}]

ASSUME NonEmpty == Region # {} /\ Chunk # {}

ASSUME Limits ==
    /\ MaxRegions \in Nat \ {0}
    /\ MaxCrashes \in Nat
    /\ MaxFaults \in Nat

VARIABLES order,    \* keys of access_order, least recently used first
          cached,   \* cached[r]: the object under key r, or None
          dirty,    \* LRUCache._dirty
          lock,     \* owner of LRUCache._lock when held across steps
          heap,     \* heap[o]: the chunks of region object o
          disk,     \* disk[r]: contents of the region file, or NoFile
          pc,       \* pc[t]: where thread t is
          call,     \* call[t]: the operation it runs, and its arguments
          key,      \* key[t]: the region it is working on
          ref,      \* ref[t]: the region object in its hands, or None
          todo,     \* todo[t]: keys its flush() has still to visit
          buf,      \* buf[t]: bytes serialised but not yet in the file
          crashes,
          faults

cacheVars == <<order, cached>>
locals == <<ref, todo, buf>>
budgetVars == <<crashes, faults>>
vars == <<cacheVars, dirty, lock, heap, disk, pc, call, key, locals, budgetVars>>

-------------------------------------------------------------------------------
Image == [Chunk -> Data \cup {NoData}]

EmptyImage == [c \in Chunk |-> NoData]

Steps == {"idle", "lookup", "read", "create", "insert", "evict", "evictWrite",
          "access", "mark", "next", "write", "clean"}

Calls == [op : {"none", "load", "save", "flush", "close", "unload"},
          chunk : Chunk, data : Data \cup {NoData}]

AnyKey == CHOOSE r \in Region : TRUE
AnyChunk == CHOOSE c \in Chunk : TRUE

NoCall == [op |-> "none", chunk |-> AnyChunk, data |-> NoData]

\* A call of an operation that takes no chunk.
Plain(op) == [NoCall EXCEPT !.op = op]

TypeOK ==
    /\ order \in Seq(Region)
    /\ cached \in [Region -> Object \cup {None}]
    /\ dirty \in SUBSET Region
    /\ lock \in Thread \cup {None}
    /\ heap \in [Object -> Image]
    /\ disk \in [Region -> Image \cup {NoFile}]
    /\ pc \in [Thread -> Steps]
    /\ call \in [Thread -> Calls]
    /\ key \in [Thread -> Region]
    /\ ref \in [Thread -> Object \cup {None}]
    /\ todo \in [Thread -> SUBSET Region]
    /\ buf \in [Thread -> Image]
    /\ crashes \in 0..MaxCrashes
    /\ faults \in 0..MaxFaults

Init ==
    /\ order = <<>>
    /\ cached = [r \in Region |-> None]
    /\ dirty = {}
    /\ lock = None
    /\ heap = [o \in Object |-> EmptyImage]
    /\ disk = [r \in Region |-> NoFile]
    /\ pc = [t \in Thread |-> "idle"]
    /\ call = [t \in Thread |-> NoCall]
    /\ key = [t \in Thread |-> AnyKey]
    /\ ref = [t \in Thread |-> None]
    /\ todo = [t \in Thread |-> {}]
    /\ buf = [t \in Thread |-> EmptyImage]
    /\ crashes = 0
    /\ faults = 0

-------------------------------------------------------------------------------
(* LRUCache, and what the steps below say of a thread.                     *)

At(t, step) == pc[t] = step

Goto(t, step) == pc' = [pc EXCEPT ![t] = step]

Unlocked == lock = None

Position(r) == CHOOSE i \in 1..Len(order) : order[i] = r

MoveToEnd(r) == Append(RemoveAt(order, Position(r)), r)

OverCount == Len(order) > MaxRegions

\* current_memory > _max_memory.  Module RegionMemory follows the counter; here
\* it may say anything, except that a region that is alone in the cache is over
\* the limit (the limit is 256 MB, a region has at most 1024 chunks).
MayBeOverMemory == Len(order) > 1

\* A region object nobody can reach, where a new one may be allocated.
Unreachable(o) ==
    /\ \A r \in Region : cached[r] # o
    /\ \A t \in Thread : ref[t] # o

\* A thread's call returns: its locals are gone.
Return(t) ==
    /\ Goto(t, "idle")
    /\ call' = [call EXCEPT ![t] = NoCall]
    /\ key' = [key EXCEPT ![t] = AnyKey]
    /\ ref' = [ref EXCEPT ![t] = None]
    /\ todo' = [todo EXCEPT ![t] = {}]
    /\ buf' = [buf EXCEPT ![t] = EmptyImage]

Fault == faults < MaxFaults /\ faults' = faults + 1

-------------------------------------------------------------------------------
(* Calls.                                                                  *)

\* load_chunk(cx, cz)
Load(t, r, c) ==
    /\ At(t, "idle")
    /\ Goto(t, "lookup")
    /\ call' = [call EXCEPT ![t] = [op |-> "load", chunk |-> c, data |-> NoData]]
    /\ key' = [key EXCEPT ![t] = r]
    /\ UNCHANGED <<cacheVars, dirty, lock, heap, disk, locals, budgetVars>>

\* save_chunk(cx, cz, nbt_data)
Save(t, r, c, d) ==
    /\ At(t, "idle")
    /\ Goto(t, "lookup")
    /\ call' = [call EXCEPT ![t] = [op |-> "save", chunk |-> c, data |-> d]]
    /\ key' = [key EXCEPT ![t] = r]
    /\ UNCHANGED <<cacheVars, dirty, lock, heap, disk, locals, budgetVars>>

\* flush(): list(self._cache.dirty) is taken once, at the start.
Flush(t) ==
    /\ At(t, "idle")
    /\ dirty # {}
    /\ Goto(t, "next")
    /\ call' = [call EXCEPT ![t] = Plain("flush")]
    /\ todo' = [todo EXCEPT ![t] = dirty]
    /\ UNCHANGED <<cacheVars, dirty, lock, heap, disk, key, ref, buf, budgetVars>>

\* close(): flush(), then clear the cache.
Close(t) ==
    /\ At(t, "idle")
    /\ order # <<>>
    /\ Goto(t, "next")
    /\ call' = [call EXCEPT ![t] = Plain("close")]
    /\ todo' = [todo EXCEPT ![t] = dirty]
    /\ UNCHANGED <<cacheVars, dirty, lock, heap, disk, key, ref, buf, budgetVars>>

\* unload_region(rx, rz): flush_region if dirty, then remove.
Unload(t, r) ==
    /\ At(t, "idle")
    /\ cached[r] # None \/ r \in dirty
    /\ Goto(t, "next")
    /\ call' = [call EXCEPT ![t] = Plain("unload")]
    /\ key' = [key EXCEPT ![t] = r]
    /\ todo' = [todo EXCEPT ![t] = dirty \cap {r}]
    /\ UNCHANGED <<cacheVars, dirty, lock, heap, disk, ref, buf, budgetVars>>

-------------------------------------------------------------------------------
(* _load_region and _get_or_create_region.                                 *)

\* LRUCache.get of a cached key
LookupHit(t) ==
    /\ At(t, "lookup")
    /\ Unlocked
    /\ cached[key[t]] # None
    /\ order' = MoveToEnd(key[t])
    /\ ref' = [ref EXCEPT ![t] = cached[key[t]]]
    /\ Goto(t, "access")
    /\ UNCHANGED <<cached, dirty, lock, heap, disk, call, key, todo, buf, budgetVars>>

\* LRUCache.get of any other key
LookupMiss(t) ==
    /\ At(t, "lookup")
    /\ Unlocked
    /\ cached[key[t]] = None
    /\ Goto(t, "read")
    /\ UNCHANGED <<cacheVars, dirty, lock, heap, disk, call, key, locals, budgetVars>>

\* LinearRegion.read of an existing file into a new object.
ReadFile(t) ==
    /\ At(t, "read")
    /\ disk[key[t]] # NoFile
    /\ \E o \in Object :
          /\ Unreachable(o)
          /\ heap' = [heap EXCEPT ![o] = disk[key[t]]]
          /\ ref' = [ref EXCEPT ![t] = o]
    /\ Goto(t, "insert")
    /\ UNCHANGED <<cacheVars, dirty, lock, disk, call, key, todo, buf, budgetVars>>

\* _load_region answers None: a load is over, a save makes an empty region.
NoRegionFound(t) ==
    \/ call[t].op = "load" /\ Return(t)
    \/ call[t].op # "load" /\ Goto(t, "create") /\ UNCHANGED <<call, key, locals>>

ReadMissing(t) ==
    /\ At(t, "read")
    /\ disk[key[t]] = NoFile
    /\ NoRegionFound(t)
    /\ UNCHANGED <<cacheVars, dirty, lock, heap, disk, budgetVars>>

\* read() raises (bad signature, I/O error): logged, and treated as missing.
ReadFails(t) ==
    /\ At(t, "read")
    /\ disk[key[t]] # NoFile
    /\ Fault
    /\ NoRegionFound(t)
    /\ UNCHANGED <<cacheVars, dirty, lock, heap, disk, crashes>>

Create(t) ==
    /\ At(t, "create")
    /\ \E o \in Object :
          /\ Unreachable(o)
          /\ heap' = [heap EXCEPT ![o] = EmptyImage]
          /\ ref' = [ref EXCEPT ![t] = o]
    /\ Goto(t, "insert")
    /\ UNCHANGED <<cacheVars, dirty, lock, disk, call, key, todo, buf, budgetVars>>

\* Mutant: put appends the key without asking whether it is there.
PutAppends(t) ==
    /\ At(t, "insert")
    /\ Unlocked
    /\ cached[key[t]] # None
    /\ order' = Append(order, key[t])
    /\ cached' = [cached EXCEPT ![key[t]] = ref[t]]
    /\ Goto(t, "access")
    /\ UNCHANGED <<dirty, lock, heap, disk, call, key, locals, budgetVars>>

\* LRUCache.put when another thread has inserted the key meanwhile: its
\* object is replaced, and put returns without evicting.
PutReplaces(t) ==
    /\ At(t, "insert")
    /\ Unlocked
    /\ cached[key[t]] # None
    /\ order' = MoveToEnd(key[t])
    /\ cached' = [cached EXCEPT ![key[t]] = ref[t]]
    /\ Goto(t, "access")
    /\ UNCHANGED <<dirty, lock, heap, disk, call, key, locals, budgetVars>>

\* LRUCache.put of a new key: the lock is kept while _evict runs.
PutInserts(t) ==
    /\ At(t, "insert")
    /\ Unlocked
    /\ cached[key[t]] = None
    /\ order' = Append(order, key[t])
    /\ cached' = [cached EXCEPT ![key[t]] = ref[t]]
    /\ lock' = t
    /\ Goto(t, "evict")
    /\ UNCHANGED <<dirty, heap, disk, call, key, locals, budgetVars>>

-------------------------------------------------------------------------------
(* LRUCache._evict, run under the lock.                                    *)

Victim == Head(order)

\* The end of one turn of the loop: the victim leaves the cache.
DropVictim(t) ==
    /\ cached' = [cached EXCEPT ![Victim] = None]
    /\ order' = Tail(order)
    /\ buf' = [buf EXCEPT ![t] = EmptyImage]
    /\ Goto(t, "evict")

EvictClean(t) ==
    /\ At(t, "evict")
    /\ OverCount \/ MayBeOverMemory
    /\ Victim \notin dirty
    /\ DropVictim(t)
    /\ UNCHANGED <<dirty, lock, heap, disk, call, key, ref, todo, budgetVars>>

EvictSerialise(t) ==
    /\ At(t, "evict")
    /\ OverCount \/ MayBeOverMemory
    /\ Victim \in dirty
    /\ buf' = [buf EXCEPT ![t] = heap[cached[Victim]]]
    /\ Goto(t, "evictWrite")
    /\ UNCHANGED <<cacheVars, dirty, lock, heap, disk, call, key, ref, todo, budgetVars>>

\* Mutant: no flush callback is set.
EvictNoCallback(t) ==
    /\ At(t, "evictWrite")
    /\ dirty' = dirty \ {Victim}
    /\ DropVictim(t)
    /\ UNCHANGED <<disk, lock, heap, call, key, ref, todo, budgetVars>>

EvictWrite(t) ==
    /\ At(t, "evictWrite")
    /\ disk' = [disk EXCEPT ![Victim] = buf[t]]
    /\ dirty' = dirty \ {Victim}
    /\ DropVictim(t)
    /\ UNCHANGED <<lock, heap, call, key, ref, todo, budgetVars>>

\* The flush callback raises: logged, and the victim is dropped all the same.
EvictWriteFails(t) ==
    /\ At(t, "evictWrite")
    /\ Fault
    /\ dirty' = dirty \ {Victim}
    /\ DropVictim(t)
    /\ UNCHANGED <<lock, heap, disk, call, key, ref, todo, crashes>>

\* Mutant: if, where the code has while.
EvictOnce(t) ==
    /\ At(t, "evict")
    /\ lock' = None
    /\ Goto(t, "access")
    /\ UNCHANGED <<cacheVars, dirty, heap, disk, call, key, locals, budgetVars>>

EvictDone(t) ==
    /\ At(t, "evict")
    /\ ~OverCount
    /\ lock' = None
    /\ Goto(t, "access")
    /\ UNCHANGED <<cacheVars, dirty, heap, disk, call, key, locals, budgetVars>>

-------------------------------------------------------------------------------
(* The region is in hand.                                                  *)

\* load_chunk: return region.get_chunk(index)
GetChunk(t) ==
    /\ At(t, "access")
    /\ call[t].op = "load"
    /\ Return(t)
    /\ UNCHANGED <<cacheVars, dirty, lock, heap, disk, budgetVars>>

\* save_chunk: region.set_chunk(index, nbt_data), no lock taken
SetChunk(t) ==
    /\ At(t, "access")
    /\ call[t].op = "save"
    /\ heap' = [heap EXCEPT ![ref[t]][call[t].chunk] = call[t].data]
    /\ Goto(t, "mark")
    /\ UNCHANGED <<cacheVars, dirty, lock, disk, call, key, locals, budgetVars>>

\* Mutant: set_chunk is trusted to mark the region.
MarkNothing(t) ==
    /\ At(t, "mark")
    /\ Unlocked
    /\ Return(t)
    /\ UNCHANGED <<dirty, cacheVars, lock, heap, disk, budgetVars>>

\* save_chunk: self._cache.mark_dirty(key)
MarkDirty(t) ==
    /\ At(t, "mark")
    /\ Unlocked
    /\ dirty' = dirty \cup {key[t]}
    /\ Return(t)
    /\ UNCHANGED <<cacheVars, lock, heap, disk, budgetVars>>

-------------------------------------------------------------------------------
(* flush, flush_region, unload_region and close.                           *)

\* region = self._cache.get(key); the region is then serialised by write().
FlushSerialise(t, r) ==
    /\ At(t, "next")
    /\ r \in todo[t]
    /\ Unlocked
    /\ cached[r] # None
    /\ order' = MoveToEnd(r)
    /\ key' = [key EXCEPT ![t] = r]
    /\ ref' = [ref EXCEPT ![t] = cached[r]]
    /\ buf' = [buf EXCEPT ![t] = heap[cached[r]]]
    /\ Goto(t, "write")
    /\ UNCHANGED <<cached, dirty, lock, heap, disk, call, todo, budgetVars>>

\* if region is None: continue
FlushSkip(t, r) ==
    /\ At(t, "next")
    /\ r \in todo[t]
    /\ Unlocked
    /\ cached[r] = None
    /\ todo' = [todo EXCEPT ![t] = @ \ {r}]
    /\ UNCHANGED <<cacheVars, dirty, lock, heap, disk, pc, call, key, ref, buf, budgetVars>>

\* The new file takes the place of the old one.
FlushWrite(t) ==
    /\ At(t, "write")
    /\ disk' = [disk EXCEPT ![key[t]] = buf[t]]
    /\ Goto(t, "clean")
    /\ UNCHANGED <<cacheVars, dirty, lock, heap, call, key, locals, budgetVars>>

\* The loop of flush() is done with a key.
NextKey(t) ==
    /\ todo' = [todo EXCEPT ![t] = @ \ {key[t]}]
    /\ ref' = [ref EXCEPT ![t] = None]
    /\ buf' = [buf EXCEPT ![t] = EmptyImage]
    /\ Goto(t, "next")

\* write() raises: logged, the key stays dirty.
FlushWriteFails(t) ==
    /\ At(t, "write")
    /\ Fault
    /\ NextKey(t)
    /\ UNCHANGED <<cacheVars, dirty, lock, heap, disk, call, key, crashes>>

\* Mutant: the mark is left after a successful write.
FlushKeepsMark(t) ==
    /\ At(t, "clean")
    /\ NextKey(t)
    /\ UNCHANGED <<dirty, cacheVars, lock, heap, disk, call, key, budgetVars>>

\* self._cache.dirty.discard(key), no lock taken
FlushClean(t) ==
    /\ At(t, "clean")
    /\ dirty' = dirty \ {key[t]}
    /\ NextKey(t)
    /\ UNCHANGED <<cacheVars, lock, heap, disk, call, key, budgetVars>>

FlushDone(t) ==
    /\ At(t, "next")
    /\ call[t].op = "flush"
    /\ todo[t] = {}
    /\ Return(t)
    /\ UNCHANGED <<cacheVars, dirty, lock, heap, disk, budgetVars>>

\* LRUCache.clear
Clear(t) ==
    /\ At(t, "next")
    /\ call[t].op = "close"
    /\ todo[t] = {}
    /\ Unlocked
    /\ order' = <<>>
    /\ cached' = [r \in Region |-> None]
    /\ dirty' = {}
    /\ Return(t)
    /\ UNCHANGED <<lock, heap, disk, budgetVars>>

\* LRUCache.remove of a cached key
RemoveRegion(t) ==
    /\ At(t, "next")
    /\ call[t].op = "unload"
    /\ todo[t] = {}
    /\ Unlocked
    /\ cached[key[t]] # None
    /\ order' = RemoveAt(order, Position(key[t]))
    /\ cached' = [cached EXCEPT ![key[t]] = None]
    /\ dirty' = dirty \ {key[t]}
    /\ Return(t)
    /\ UNCHANGED <<lock, heap, disk, budgetVars>>

\* LRUCache.remove of a key another thread has evicted or removed
RemoveNothing(t) ==
    /\ At(t, "next")
    /\ call[t].op = "unload"
    /\ todo[t] = {}
    /\ Unlocked
    /\ cached[key[t]] = None
    /\ dirty' = dirty \ {key[t]}
    /\ Return(t)
    /\ UNCHANGED <<cacheVars, lock, heap, disk, budgetVars>>

-------------------------------------------------------------------------------
\* The process dies and is started again: the files are what is left.
Crash ==
    /\ crashes < MaxCrashes
    /\ crashes' = crashes + 1
    /\ order' = <<>>
    /\ cached' = [r \in Region |-> None]
    /\ dirty' = {}
    /\ lock' = None
    /\ heap' = [o \in Object |-> EmptyImage]
    /\ pc' = [t \in Thread |-> "idle"]
    /\ call' = [t \in Thread |-> NoCall]
    /\ key' = [t \in Thread |-> AnyKey]
    /\ ref' = [t \in Thread |-> None]
    /\ todo' = [t \in Thread |-> {}]
    /\ buf' = [t \in Thread |-> EmptyImage]
    /\ UNCHANGED <<disk, faults>>

Call(t) ==
    \/ \E r \in Region, c \in Chunk : Load(t, r, c)
    \/ \E r \in Region, c \in Chunk, d \in Data : Save(t, r, c, d)
    \/ Flush(t)
    \/ Close(t)
    \/ \E r \in Region : Unload(t, r)

Continue(t) ==
    \/ LookupHit(t) \/ LookupMiss(t)
    \/ ReadFile(t) \/ ReadMissing(t) \/ ReadFails(t) \/ Create(t)
    \/ PutReplaces(t) \/ PutInserts(t)
    \/ EvictClean(t) \/ EvictSerialise(t) \/ EvictWrite(t) \/ EvictWriteFails(t)
    \/ EvictDone(t)
    \/ GetChunk(t) \/ SetChunk(t) \/ MarkDirty(t)
    \/ \E r \in Region : FlushSerialise(t, r) \/ FlushSkip(t, r)
    \/ FlushWrite(t) \/ FlushWriteFails(t) \/ FlushClean(t) \/ FlushDone(t)
    \/ Clear(t) \/ RemoveRegion(t) \/ RemoveNothing(t)

Next == Crash \/ \E t \in Thread : Call(t) \/ Continue(t)

Spec == Init /\ [][Next]_vars

\* A call once begun is finished, and the game loop comes back to flush()
\* (every 200 ticks while has_dirty_regions(), MinecraftServer._game_loop).
FairSpec ==
    /\ Spec
    /\ \A t \in Thread : WF_vars(Continue(t)) /\ SF_vars(Flush(t))

-------------------------------------------------------------------------------
(* What a reader and what a restart would see of a region.                 *)

DiskImage(r) == IF disk[r] = NoFile THEN EmptyImage ELSE disk[r]

LiveImage(r) == IF cached[r] # None THEN heap[cached[r]] ELSE DiskImage(r)

-------------------------------------------------------------------------------
(* Safety of the lock-protected structure, with any number of threads.     *)

\* The lock is held exactly by the thread that is inside LRUCache._evict, so
\* no second eviction can start while a victim is being written out.
LockDiscipline ==
    \A t \in Thread : (pc[t] \in {"evict", "evictWrite"}) <=> (lock = t)

\* access_order stays one table: its keys are distinct and are exactly the
\* keys that have a region, whatever threads replace, evict or unload.
CacheCoherent ==
    /\ \A i, j \in 1..Len(order) : order[i] = order[j] => i = j
    /\ \A r \in Region : cached[r] # None <=> \E i \in 1..Len(order) : order[i] = r

\* "Count limit (max_regions)": whenever the lock is free the table is back
\* under its limit, and even inside put it is over by one entry at most.
CacheBounded ==
    /\ Unlocked => Len(order) <= MaxRegions
    /\ Len(order) <= MaxRegions + 1

-------------------------------------------------------------------------------
(* Safety of the data.  These need the calls to come one at a time.        *)

\* has_dirty_regions() answers whether some modification is not on disk yet:
\* a cached region that differs from its file is marked dirty, unless the call
\* that is changing it is still on its way to mark_dirty.
UnsavedIsDirty ==
    \A r \in Region :
        cached[r] # None /\ heap[cached[r]] # DiskImage(r)
            => r \in dirty \/ \E t \in Thread : call[t].op = "save" /\ key[t] = r

\* Every dirty region is written out in the end.
DirtyIsFlushed == \A r \in Region : r \in dirty ~> r \notin dirty

\* WorldStorage implements the store of module ChunkStore.
Store == INSTANCE ChunkStore
             WITH live <- [r \in Region |-> LiveImage(r)],
                  durable <- [r \in Region |-> DiskImage(r)],
                  asked <- {<<key[t], call[t].chunk, call[t].data>> :
                               t \in {u \in Thread : call[u].op = "save"}}

\* Through caching, eviction, unloading, flushing and crashes the storage is
\* a plain map: nothing but the save that was asked for changes what a chunk
\* reads as.  A crash takes the region back to its file, and only after a read
\* or a write has failed may an eviction or a save lose what was there.
ImplementsStore == Store!StoreSpec
===============================================================================
