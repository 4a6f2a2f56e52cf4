-------------------------- MODULE WorldStorage_proofs --------------------------
(***************************************************************************)
(* Proofs about module WorldStorage.  The first part holds for any number  *)
(* of threads: the structure LRUCache._lock protects.  The second is for   *)
(* callers that come one at a time: unsaved regions are marked, and the    *)
(* storage implements ChunkStore.                                          *)
(***************************************************************************)
EXTENDS WorldStorage, DataTheorems, SequenceTheorems, TLAPS

-------------------------------------------------------------------------------
(* The invariant of the locked structure.                                  *)

\* A thread that is past _load_region has a region object in hand, and the
\* eviction that waits for a write still has its victim.
Hands ==
    \A t \in Thread :
        /\ pc[t] \in {"insert", "evict", "evictWrite", "access", "mark",
                         "write", "clean"} => ref[t] # None
        /\ pc[t] = "evictWrite" => order # <<>>

CacheInv == TypeOK /\ LockDiscipline /\ CacheCoherent /\ CacheBounded /\ Hands

\* The keys of access_order, whatever their order.
LEMMA CoherentKeys ==
  CacheCoherent <=> Distinct(order) /\ \A r \in Region : cached[r] # None <=> Listed(order, r)
  BY DEF CacheCoherent, Distinct, Listed

LEMMA PositionOf ==
  ASSUME TypeOK, CacheCoherent, NEW r \in Region, cached[r] # None
  PROVE  Position(r) \in 1..Len(order) /\ order[Position(r)] = r
  BY DEF CacheCoherent, Position

LEMMA TouchKey ==
  ASSUME TypeOK, CacheCoherent, NEW r \in Region, cached[r] # None
  PROVE  /\ MoveToEnd(r) \in Seq(Region)
         /\ Len(MoveToEnd(r)) = Len(order)
         /\ MoveToEnd(r) # <<>>
         /\ Distinct(MoveToEnd(r))
         /\ \A k : Listed(MoveToEnd(r), k) <=> Listed(order, k)
<1>1. order \in Seq(Region) /\ Len(order) \in Nat BY LenProperties DEF TypeOK
<1>2. Distinct(order) /\ Listed(order, r) BY CoherentKeys
<1>3. Position(r) \in 1..Len(order) /\ order[Position(r)] = r BY PositionOf
<1> DEFINE q == RemoveAt(order, Position(r))
<1>4. /\ q \in Seq(Region) /\ Len(q) = Len(order) - 1 /\ Distinct(q)
      /\ \A k : Listed(q, k) <=> Listed(order, k) /\ k # r
  BY <1>1, <1>2, <1>3, RemoveKey
<1>5. MoveToEnd(r) = Append(q, r) BY DEF MoveToEnd
<1> HIDE DEF q
<1>6. /\ Append(q, r) \in Seq(Region) /\ Len(Append(q, r)) = Len(q) + 1
      /\ Distinct(Append(q, r))
      /\ \A k : Listed(Append(q, r), k) <=> Listed(q, k) \/ k = r
  BY <1>4, AppendKey
<1>7. Append(q, r) # <<>> BY <1>4, AppendProperties
<1>. QED BY <1>1, <1>2, <1>4, <1>5, <1>6, <1>7
LEMMA IdleTypes == NoCall \in Calls /\ AnyKey \in Region /\ EmptyImage \in Image
  BY NonEmpty DEF NoCall, Calls, AnyKey, AnyChunk, EmptyImage, Image

LEMMA InitCache == Init => CacheInv
<1> SUFFICES ASSUME Init PROVE CacheInv
  OBVIOUS
<1>1. TypeOK
  BY IdleTypes, Limits, EmptySeq DEF Init, TypeOK, Steps, budgetVars
<1>2. LockDiscipline /\ CacheCoherent /\ CacheBounded /\ Hands
  BY Limits, Sentinels DEF Init, LockDiscipline, CacheCoherent, CacheBounded, Hands, Unlocked
<1>. QED BY <1>1, <1>2 DEF CacheInv

\* The order after one of its keys has been used, removed or added.
LEMMA OrderTypes ==
  ASSUME TypeOK, CacheCoherent
  PROVE  /\ order # <<>> => Tail(order) \in Seq(Region) /\ Victim \in Region /\ cached[Victim] # None
         /\ \A r \in Region : Append(order, r) \in Seq(Region)
         /\ \A r \in Region : cached[r] # None =>
               MoveToEnd(r) \in Seq(Region) /\ RemoveAt(order, Position(r)) \in Seq(Region)
<1>1. order \in Seq(Region) /\ Distinct(order) BY CoherentKeys DEF TypeOK
<1>2. order # <<>> => Tail(order) \in Seq(Region) /\ Victim \in Region /\ cached[Victim] # None
  BY <1>1, DropHead, CoherentKeys DEF Victim
<1>3. \A r \in Region : Append(order, r) \in Seq(Region)
  BY <1>1, AppendProperties
<1>4. ASSUME NEW r \in Region, cached[r] # None
      PROVE  MoveToEnd(r) \in Seq(Region) /\ RemoveAt(order, Position(r)) \in Seq(Region)
  <2>1. Position(r) \in 1..Len(order) BY <1>4, PositionOf
  <2>. QED BY <1>1, <1>4, <2>1, TouchKey, RemoveKey
<1>. QED BY <1>2, <1>3, <1>4

LEMMA TypeStep ==
  ASSUME CacheInv, [Next]_vars
  PROVE  TypeOK'
<1> USE IdleTypes, Limits
    DEF CacheInv, TypeOK, Steps, cacheVars, locals, budgetVars
<1>0. order # <<>> \/ Len(order) = 0 BY EmptySeq
<1>1. ASSUME NEW t \in Thread, NEW r \in Region, NEW c \in Chunk, Load(t, r, c) PROVE TypeOK'
  BY <1>1 DEF Load, Calls, Goto
<1>2. ASSUME NEW t \in Thread, NEW r \in Region, NEW c \in Chunk, NEW d \in Data, Save(t, r, c, d) PROVE TypeOK'
  BY <1>2 DEF Save, Calls, Goto
<1>3. ASSUME NEW t \in Thread, Flush(t) PROVE TypeOK'
  BY <1>3 DEF Flush, Plain, Calls, Goto
<1>4. ASSUME NEW t \in Thread, Close(t) PROVE TypeOK'
  BY <1>4 DEF Close, Plain, Calls, Goto
<1>5. ASSUME NEW t \in Thread, NEW r \in Region, Unload(t, r) PROVE TypeOK'
  BY <1>5 DEF Unload, Plain, Calls, Goto
<1>6. ASSUME NEW t \in Thread, LookupHit(t) PROVE TypeOK'
  BY <1>6, OrderTypes DEF LookupHit, Goto
<1>7. ASSUME NEW t \in Thread, LookupMiss(t) PROVE TypeOK'
  BY <1>7 DEF LookupMiss, Goto
<1>8. ASSUME NEW t \in Thread, ReadFile(t) PROVE TypeOK'
  BY <1>8 DEF ReadFile, Goto
<1>9. ASSUME NEW t \in Thread, ReadMissing(t) PROVE TypeOK'
  <2>1. CASE Return(t) BY <1>9, <2>1 DEF ReadMissing, Return, Goto
  <2>2. CASE Goto(t, "create") /\ UNCHANGED <<call, key, locals>>
    BY <1>9, <2>2 DEF ReadMissing, Goto
  <2>. QED BY <1>9, <2>1, <2>2 DEF ReadMissing, NoRegionFound
<1>10. ASSUME NEW t \in Thread, ReadFails(t) PROVE TypeOK'
  <2>1. CASE Return(t) BY <1>10, <2>1 DEF ReadFails, Return, Fault, Goto
  <2>2. CASE Goto(t, "create") /\ UNCHANGED <<call, key, locals>>
    BY <1>10, <2>2 DEF ReadFails, Fault, Goto
  <2>. QED BY <1>10, <2>1, <2>2 DEF ReadFails, NoRegionFound
<1>11. ASSUME NEW t \in Thread, Create(t) PROVE TypeOK'
  BY <1>11 DEF Create, Goto
<1>12. ASSUME NEW t \in Thread, PutReplaces(t) PROVE TypeOK'
  BY <1>12, OrderTypes DEF PutReplaces, Goto
<1>13. ASSUME NEW t \in Thread, PutInserts(t) PROVE TypeOK'
  BY <1>13, OrderTypes DEF PutInserts, Goto
<1>14. ASSUME NEW t \in Thread, EvictClean(t) PROVE TypeOK'
  BY <1>14, <1>0, OrderTypes DEF EvictClean, DropVictim, Hands, At, OverCount, MayBeOverMemory, Goto
<1>15. ASSUME NEW t \in Thread, EvictSerialise(t) PROVE TypeOK'
  BY <1>15, <1>0, OrderTypes DEF EvictSerialise, OverCount, MayBeOverMemory, Goto
<1>16. ASSUME NEW t \in Thread, EvictWrite(t) PROVE TypeOK'
  BY <1>16, OrderTypes DEF EvictWrite, DropVictim, Hands, At, Goto
<1>17. ASSUME NEW t \in Thread, EvictWriteFails(t) PROVE TypeOK'
  BY <1>17, OrderTypes DEF EvictWriteFails, Fault, DropVictim, Hands, At, Goto
<1>18. ASSUME NEW t \in Thread, EvictDone(t) PROVE TypeOK'
  BY <1>18 DEF EvictDone, Goto
<1>19. ASSUME NEW t \in Thread, GetChunk(t) PROVE TypeOK'
  BY <1>19 DEF GetChunk, Return, Goto
<1>20. ASSUME NEW t \in Thread, SetChunk(t) PROVE TypeOK'
  BY <1>20 DEF SetChunk, Image, Calls, Goto
<1>21. ASSUME NEW t \in Thread, MarkDirty(t) PROVE TypeOK'
  BY <1>21 DEF MarkDirty, Return, Goto
<1>22. ASSUME NEW t \in Thread, NEW r \in Region, FlushSerialise(t, r) PROVE TypeOK'
  BY <1>22, OrderTypes DEF FlushSerialise, Goto
<1>23. ASSUME NEW t \in Thread, NEW r \in Region, FlushSkip(t, r) PROVE TypeOK'
  BY <1>23 DEF FlushSkip, Goto
<1>24. ASSUME NEW t \in Thread, FlushWrite(t) PROVE TypeOK'
  BY <1>24 DEF FlushWrite, Goto
<1>25. ASSUME NEW t \in Thread, FlushWriteFails(t) PROVE TypeOK'
  BY <1>25 DEF FlushWriteFails, Fault, NextKey, Goto
<1>26. ASSUME NEW t \in Thread, FlushClean(t) PROVE TypeOK'
  BY <1>26 DEF FlushClean, NextKey, Goto
<1>27. ASSUME NEW t \in Thread, FlushDone(t) PROVE TypeOK'
  BY <1>27 DEF FlushDone, Return, Goto
<1>28. ASSUME NEW t \in Thread, Clear(t) PROVE TypeOK'
  BY <1>28, EmptySeq DEF Clear, Return, Goto
<1>29. ASSUME NEW t \in Thread, RemoveRegion(t) PROVE TypeOK'
  BY <1>29, OrderTypes DEF RemoveRegion, Return, Goto
<1>30. ASSUME NEW t \in Thread, RemoveNothing(t) PROVE TypeOK'
  BY <1>30 DEF RemoveNothing, Return, Goto
<1>31. CASE Crash
  BY <1>31, EmptySeq DEF Crash
<1>32. CASE UNCHANGED vars
  BY <1>32 DEF vars
<1>. QED BY <1>1, <1>2, <1>3, <1>4, <1>5, <1>6, <1>7, <1>8, <1>9, <1>10, <1>11, <1>12, <1>13, <1>14, <1>15, <1>16, <1>17, <1>18, <1>19, <1>20, <1>21, <1>22, <1>23, <1>24, <1>25, <1>26, <1>27, <1>28, <1>29, <1>30, <1>31, <1>32 DEF Next, Call, Continue

\* The end of a turn of the eviction loop keeps the table coherent.
LEMMA DropVictimKeys ==
  ASSUME TypeOK, CacheCoherent, NEW t \in Thread, DropVictim(t), order # <<>>
  PROVE  CacheCoherent' /\ Len(order') = Len(order) - 1
<1>1. /\ order' = Tail(order) /\ cached' = [cached EXCEPT ![Victim] = None]
      /\ Victim = Head(order)
  BY DEF DropVictim, Victim
<1>2. order \in Seq(Region) /\ Distinct(order)
      /\ \A r \in Region : cached[r] # None <=> Listed(order, r)
  BY CoherentKeys DEF TypeOK
<1>3. /\ Distinct(order') /\ Len(order') = Len(order) - 1 /\ Victim \in Region
      /\ \A k : Listed(order', k) <=> Listed(order, k) /\ k # Victim
  BY <1>1, <1>2, DropHead
<1>4. \A r \in Region : cached'[r] # None <=> Listed(order', r)
  BY <1>1, <1>2, <1>3 DEF TypeOK
<1>. QED BY <1>3, <1>4 DEF CacheCoherent, Distinct, Listed

\* So does a use of a key, whatever object is now under it.
LEMMA TouchKeys ==
  ASSUME TypeOK, CacheCoherent, NEW r \in Region, cached[r] # None, order' = MoveToEnd(r),
         \A k \in Region : cached'[k] # None <=> cached[k] # None
  PROVE  CacheCoherent' /\ Len(order') = Len(order) /\ order' # <<>>
<1>1. /\ Distinct(order') /\ Len(order') = Len(order) /\ order' # <<>>
      /\ \A k : Listed(order', k) <=> Listed(order, k)
  BY TouchKey
<1>. QED BY <1>1, CoherentKeys DEF CacheCoherent, Distinct, Listed

LEMMA InsertKeys ==
  ASSUME TypeOK, CacheCoherent, NEW t \in Thread, PutInserts(t), ref[t] # None
  PROVE  CacheCoherent' /\ Len(order') = Len(order) + 1
<1>1. order \in Seq(Region) /\ Distinct(order) /\ key[t] \in Region /\ ~Listed(order, key[t])
      /\ \A r \in Region : cached[r] # None <=> Listed(order, r)
  BY CoherentKeys DEF TypeOK, PutInserts
<1>2. order' = Append(order, key[t]) /\ cached' = [cached EXCEPT ![key[t]] = ref[t]]
  BY DEF PutInserts
<1>3. /\ Distinct(order') /\ Len(order') = Len(order) + 1
      /\ \A k : Listed(order', k) <=> Listed(order, k) \/ k = key[t]
  BY <1>1, <1>2, AppendKey
<1>4. \A r \in Region : cached'[r] # None <=> Listed(order', r)
  BY <1>1, <1>2, <1>3 DEF TypeOK
<1>. QED BY <1>3, <1>4 DEF CacheCoherent, Distinct, Listed

LEMMA RemoveKeys ==
  ASSUME TypeOK, CacheCoherent, NEW t \in Thread, RemoveRegion(t)
  PROVE  CacheCoherent' /\ Len(order') = Len(order) - 1
<1>1. order \in Seq(Region) /\ Distinct(order) /\ key[t] \in Region /\ cached[key[t]] # None
      /\ \A r \in Region : cached[r] # None <=> Listed(order, r)
  BY CoherentKeys DEF TypeOK, RemoveRegion
<1>2. order' = RemoveAt(order, Position(key[t])) /\ cached' = [cached EXCEPT ![key[t]] = None]
  BY DEF RemoveRegion
<1>3. Position(key[t]) \in 1..Len(order) /\ order[Position(key[t])] = key[t]
  BY <1>1, PositionOf
<1>4. /\ Distinct(order') /\ Len(order') = Len(order) - 1
      /\ \A k : Listed(order', k) <=> Listed(order, k) /\ k # key[t]
  BY <1>1, <1>2, <1>3, RemoveKey
<1>5. \A r \in Region : cached'[r] # None <=> Listed(order', r)
  BY <1>1, <1>2, <1>4 DEF TypeOK
<1>. QED BY <1>4, <1>5 DEF CacheCoherent, Distinct, Listed

LEMMA CoherentStep ==
  ASSUME CacheInv, [Next]_vars
  PROVE  CacheCoherent' /\ CacheBounded'
<1> USE Limits DEF CacheInv
<1>0. Len(order) \in Nat /\ (order # <<>> \/ Len(order) = 0) /\ MaxRegions \in Nat /\ MaxRegions > 0
  BY EmptySeq, LenProperties, Limits DEF TypeOK
<1>q. ASSUME UNCHANGED <<order, cached, lock>> PROVE CacheCoherent' /\ CacheBounded'
  BY <1>q DEF CacheCoherent, CacheBounded, Unlocked
<1>1. ASSUME NEW t \in Thread, NEW r \in Region, NEW c \in Chunk, Load(t, r, c) PROVE CacheCoherent' /\ CacheBounded'
  BY <1>1, <1>q DEF Load, cacheVars
<1>2. ASSUME NEW t \in Thread, NEW r \in Region, NEW c \in Chunk, NEW d \in Data, Save(t, r, c, d) PROVE CacheCoherent' /\ CacheBounded'
  BY <1>2, <1>q DEF Save, cacheVars
<1>3. ASSUME NEW t \in Thread, Flush(t) PROVE CacheCoherent' /\ CacheBounded'
  BY <1>3, <1>q DEF Flush, cacheVars
<1>4. ASSUME NEW t \in Thread, Close(t) PROVE CacheCoherent' /\ CacheBounded'
  BY <1>4, <1>q DEF Close, cacheVars
<1>5. ASSUME NEW t \in Thread, NEW r \in Region, Unload(t, r) PROVE CacheCoherent' /\ CacheBounded'
  BY <1>5, <1>q DEF Unload, cacheVars
<1>6. ASSUME NEW t \in Thread, LookupHit(t) PROVE CacheCoherent' /\ CacheBounded'
  <2>1. key[t] \in Region /\ cached[key[t]] # None /\ order' = MoveToEnd(key[t]) /\ lock' = lock
    BY <1>6 DEF LookupHit, TypeOK
  <2>2. \A k \in Region : cached'[k] # None <=> cached[k] # None
    BY <1>6 DEF LookupHit, TypeOK, Hands, At
  <2>. QED BY <2>1, <2>2, TouchKeys DEF CacheBounded, Unlocked
<1>7. ASSUME NEW t \in Thread, LookupMiss(t) PROVE CacheCoherent' /\ CacheBounded'
  BY <1>7, <1>q DEF LookupMiss, cacheVars
<1>8. ASSUME NEW t \in Thread, ReadFile(t) PROVE CacheCoherent' /\ CacheBounded'
  BY <1>8, <1>q DEF ReadFile, cacheVars
<1>9. ASSUME NEW t \in Thread, ReadMissing(t) PROVE CacheCoherent' /\ CacheBounded'
  BY <1>9, <1>q DEF ReadMissing, cacheVars
<1>10. ASSUME NEW t \in Thread, ReadFails(t) PROVE CacheCoherent' /\ CacheBounded'
  BY <1>10, <1>q DEF ReadFails, cacheVars
<1>11. ASSUME NEW t \in Thread, Create(t) PROVE CacheCoherent' /\ CacheBounded'
  BY <1>11, <1>q DEF Create, cacheVars
<1>12. ASSUME NEW t \in Thread, PutReplaces(t) PROVE CacheCoherent' /\ CacheBounded'
  <2>1. key[t] \in Region /\ cached[key[t]] # None /\ order' = MoveToEnd(key[t]) /\ lock' = lock
    BY <1>12 DEF PutReplaces, TypeOK
  <2>2. \A k \in Region : cached'[k] # None <=> cached[k] # None
    BY <1>12 DEF PutReplaces, TypeOK, Hands, At
  <2>. QED BY <2>1, <2>2, TouchKeys DEF CacheBounded, Unlocked
<1>13. ASSUME NEW t \in Thread, PutInserts(t) PROVE CacheCoherent' /\ CacheBounded'
  <2>1. ref[t] # None /\ Unlocked /\ lock' = t BY <1>13 DEF PutInserts, Hands, At
  <2>2. t # None BY Sentinels
  <2>. QED BY <1>13, <1>0, <2>1, <2>2, InsertKeys DEF CacheBounded, Unlocked
<1>14. ASSUME NEW t \in Thread, EvictClean(t) PROVE CacheCoherent' /\ CacheBounded'
  <2>1. order # <<>> /\ DropVictim(t) /\ lock' = lock
    BY <1>14, <1>0, EmptySeq DEF EvictClean, Hands, At, OverCount, MayBeOverMemory
  <2>2. lock = t BY <1>14 DEF EvictClean, LockDiscipline, At
  <2>3. t # None BY Sentinels
  <2>. QED BY <2>1, <2>2, <2>3, <1>0, DropVictimKeys DEF CacheBounded, Unlocked
<1>15. ASSUME NEW t \in Thread, EvictSerialise(t) PROVE CacheCoherent' /\ CacheBounded'
  BY <1>15, <1>q DEF EvictSerialise, cacheVars
<1>16. ASSUME NEW t \in Thread, EvictWrite(t) PROVE CacheCoherent' /\ CacheBounded'
  <2>1. order # <<>> /\ DropVictim(t) /\ lock' = lock
    BY <1>16, <1>0, EmptySeq DEF EvictWrite, Hands, At
  <2>2. lock = t BY <1>16 DEF EvictWrite, LockDiscipline, At
  <2>3. t # None BY Sentinels
  <2>. QED BY <2>1, <2>2, <2>3, <1>0, DropVictimKeys DEF CacheBounded, Unlocked
<1>17. ASSUME NEW t \in Thread, EvictWriteFails(t) PROVE CacheCoherent' /\ CacheBounded'
  <2>1. order # <<>> /\ DropVictim(t) /\ lock' = lock
    BY <1>17, <1>0, EmptySeq DEF EvictWriteFails, Hands, At
  <2>2. lock = t BY <1>17 DEF EvictWriteFails, LockDiscipline, At
  <2>3. t # None BY Sentinels
  <2>. QED BY <2>1, <2>2, <2>3, <1>0, DropVictimKeys DEF CacheBounded, Unlocked
<1>18. ASSUME NEW t \in Thread, EvictDone(t) PROVE CacheCoherent' /\ CacheBounded'
  BY <1>18, <1>0 DEF EvictDone, CacheCoherent, CacheBounded, OverCount, Unlocked, cacheVars
<1>19. ASSUME NEW t \in Thread, GetChunk(t) PROVE CacheCoherent' /\ CacheBounded'
  BY <1>19, <1>q DEF GetChunk, cacheVars
<1>20. ASSUME NEW t \in Thread, SetChunk(t) PROVE CacheCoherent' /\ CacheBounded'
  BY <1>20, <1>q DEF SetChunk, cacheVars
<1>21. ASSUME NEW t \in Thread, MarkDirty(t) PROVE CacheCoherent' /\ CacheBounded'
  BY <1>21, <1>q DEF MarkDirty, cacheVars
<1>22. ASSUME NEW t \in Thread, NEW r \in Region, FlushSerialise(t, r) PROVE CacheCoherent' /\ CacheBounded'
  <2>1. r \in Region /\ cached[r] # None /\ order' = MoveToEnd(r) /\ lock' = lock
    BY <1>22 DEF FlushSerialise, TypeOK
  <2>2. \A k \in Region : cached'[k] # None <=> cached[k] # None
    BY <1>22 DEF FlushSerialise, TypeOK, Hands, At
  <2>. QED BY <2>1, <2>2, TouchKeys DEF CacheBounded, Unlocked
<1>23. ASSUME NEW t \in Thread, NEW r \in Region, FlushSkip(t, r) PROVE CacheCoherent' /\ CacheBounded'
  BY <1>23, <1>q DEF FlushSkip, cacheVars
<1>24. ASSUME NEW t \in Thread, FlushWrite(t) PROVE CacheCoherent' /\ CacheBounded'
  BY <1>24, <1>q DEF FlushWrite, cacheVars
<1>25. ASSUME NEW t \in Thread, FlushWriteFails(t) PROVE CacheCoherent' /\ CacheBounded'
  BY <1>25, <1>q DEF FlushWriteFails, cacheVars
<1>26. ASSUME NEW t \in Thread, FlushClean(t) PROVE CacheCoherent' /\ CacheBounded'
  BY <1>26, <1>q DEF FlushClean, cacheVars
<1>27. ASSUME NEW t \in Thread, FlushDone(t) PROVE CacheCoherent' /\ CacheBounded'
  BY <1>27, <1>q DEF FlushDone, cacheVars
<1>28. ASSUME NEW t \in Thread, Clear(t) PROVE CacheCoherent' /\ CacheBounded'
  BY <1>28, <1>0, EmptySeq DEF Clear, CacheCoherent, CacheBounded
<1>29. ASSUME NEW t \in Thread, RemoveRegion(t) PROVE CacheCoherent' /\ CacheBounded'
  <2>1. lock' = lock BY <1>29 DEF RemoveRegion
  <2>. QED BY <1>29, <1>0, <2>1, RemoveKeys DEF CacheBounded, Unlocked
<1>30. ASSUME NEW t \in Thread, RemoveNothing(t) PROVE CacheCoherent' /\ CacheBounded'
  BY <1>30, <1>q DEF RemoveNothing, cacheVars
<1>31. CASE Crash
  BY <1>31, <1>0, EmptySeq DEF Crash, CacheCoherent, CacheBounded
<1>32. CASE UNCHANGED vars
  BY <1>32, <1>q DEF vars, cacheVars
<1>. QED BY <1>1, <1>2, <1>3, <1>4, <1>5, <1>6, <1>7, <1>8, <1>9, <1>10, <1>11, <1>12, <1>13, <1>14, <1>15, <1>16, <1>17, <1>18, <1>19, <1>20, <1>21, <1>22, <1>23, <1>24, <1>25, <1>26, <1>27, <1>28, <1>29, <1>30, <1>31, <1>32 DEF Next, Call, Continue

LEMMA LockStep ==
  ASSUME CacheInv, [Next]_vars
  PROVE  LockDiscipline' /\ Hands'
<1> USE Sentinels DEF CacheInv, TypeOK, LockDiscipline, Hands, At, Goto
<1>0. Len(order) \in Nat /\ (order # <<>> \/ Len(order) = 0)
  BY EmptySeq, LenProperties
<1>1. ASSUME NEW t \in Thread, NEW r \in Region, NEW c \in Chunk, Load(t, r, c) PROVE LockDiscipline' /\ Hands'
  BY <1>1 DEF Load, cacheVars, locals, Unlocked
<1>2. ASSUME NEW t \in Thread, NEW r \in Region, NEW c \in Chunk, NEW d \in Data, Save(t, r, c, d) PROVE LockDiscipline' /\ Hands'
  BY <1>2 DEF Save, cacheVars, locals, Unlocked
<1>3. ASSUME NEW t \in Thread, Flush(t) PROVE LockDiscipline' /\ Hands'
  BY <1>3 DEF Flush, cacheVars, locals, Unlocked
<1>4. ASSUME NEW t \in Thread, Close(t) PROVE LockDiscipline' /\ Hands'
  BY <1>4 DEF Close, cacheVars, locals, Unlocked
<1>5. ASSUME NEW t \in Thread, NEW r \in Region, Unload(t, r) PROVE LockDiscipline' /\ Hands'
  BY <1>5 DEF Unload, cacheVars, locals, Unlocked
<1>6. ASSUME NEW t \in Thread, LookupHit(t) PROVE LockDiscipline' /\ Hands'
  BY <1>6 DEF LookupHit, cacheVars, locals, Unlocked
<1>7. ASSUME NEW t \in Thread, LookupMiss(t) PROVE LockDiscipline' /\ Hands'
  BY <1>7 DEF LookupMiss, cacheVars, locals, Unlocked
<1>8. ASSUME NEW t \in Thread, ReadFile(t) PROVE LockDiscipline' /\ Hands'
  BY <1>8 DEF ReadFile, cacheVars, locals, Unlocked
<1>9. ASSUME NEW t \in Thread, ReadMissing(t) PROVE LockDiscipline' /\ Hands'
  BY <1>9 DEF ReadMissing, cacheVars, locals, NoRegionFound, Return
<1>10. ASSUME NEW t \in Thread, ReadFails(t) PROVE LockDiscipline' /\ Hands'
  BY <1>10 DEF ReadFails, cacheVars, locals, NoRegionFound, Return
<1>11. ASSUME NEW t \in Thread, Create(t) PROVE LockDiscipline' /\ Hands'
  BY <1>11 DEF Create, cacheVars, locals, Unlocked
<1>12. ASSUME NEW t \in Thread, PutReplaces(t) PROVE LockDiscipline' /\ Hands'
  BY <1>12 DEF PutReplaces, cacheVars, locals, Unlocked
<1>13. ASSUME NEW t \in Thread, PutInserts(t) PROVE LockDiscipline' /\ Hands'
  BY <1>13 DEF PutInserts, cacheVars, locals, Unlocked
<1>14. ASSUME NEW t \in Thread, EvictClean(t) PROVE LockDiscipline' /\ Hands'
  BY <1>14 DEF EvictClean, cacheVars, locals, DropVictim, Unlocked
<1>15. ASSUME NEW t \in Thread, EvictSerialise(t) PROVE LockDiscipline' /\ Hands'
  BY <1>15, <1>0, Limits, EmptySeq DEF EvictSerialise, cacheVars, locals, OverCount, MayBeOverMemory, Unlocked
<1>16. ASSUME NEW t \in Thread, EvictWrite(t) PROVE LockDiscipline' /\ Hands'
  BY <1>16 DEF EvictWrite, cacheVars, locals, DropVictim, Unlocked
<1>17. ASSUME NEW t \in Thread, EvictWriteFails(t) PROVE LockDiscipline' /\ Hands'
  BY <1>17 DEF EvictWriteFails, cacheVars, locals, DropVictim, Unlocked
<1>18. ASSUME NEW t \in Thread, EvictDone(t) PROVE LockDiscipline' /\ Hands'
  BY <1>18 DEF EvictDone, cacheVars, locals, Unlocked
<1>19. ASSUME NEW t \in Thread, GetChunk(t) PROVE LockDiscipline' /\ Hands'
  BY <1>19 DEF GetChunk, cacheVars, locals, Return, Unlocked
<1>20. ASSUME NEW t \in Thread, SetChunk(t) PROVE LockDiscipline' /\ Hands'
  BY <1>20 DEF SetChunk, cacheVars, locals, Unlocked
<1>21. ASSUME NEW t \in Thread, MarkDirty(t) PROVE LockDiscipline' /\ Hands'
  BY <1>21 DEF MarkDirty, cacheVars, locals, Return, Unlocked
<1>22. ASSUME NEW t \in Thread, NEW r \in Region, FlushSerialise(t, r) PROVE LockDiscipline' /\ Hands'
  BY <1>22 DEF FlushSerialise, cacheVars, locals, Unlocked
<1>23. ASSUME NEW t \in Thread, NEW r \in Region, FlushSkip(t, r) PROVE LockDiscipline' /\ Hands'
  BY <1>23 DEF FlushSkip, cacheVars, locals, Unlocked
<1>24. ASSUME NEW t \in Thread, FlushWrite(t) PROVE LockDiscipline' /\ Hands'
  BY <1>24 DEF FlushWrite, cacheVars, locals, Unlocked
<1>25. ASSUME NEW t \in Thread, FlushWriteFails(t) PROVE LockDiscipline' /\ Hands'
  BY <1>25 DEF FlushWriteFails, cacheVars, locals, NextKey, Unlocked
<1>26. ASSUME NEW t \in Thread, FlushClean(t) PROVE LockDiscipline' /\ Hands'
  BY <1>26 DEF FlushClean, cacheVars, locals, NextKey, Unlocked
<1>27. ASSUME NEW t \in Thread, FlushDone(t) PROVE LockDiscipline' /\ Hands'
  BY <1>27 DEF FlushDone, cacheVars, locals, Return, Unlocked
<1>28. ASSUME NEW t \in Thread, Clear(t) PROVE LockDiscipline' /\ Hands'
  BY <1>28 DEF Clear, cacheVars, locals, Return, Unlocked
<1>29. ASSUME NEW t \in Thread, RemoveRegion(t) PROVE LockDiscipline' /\ Hands'
  BY <1>29 DEF RemoveRegion, cacheVars, locals, Return, Unlocked
<1>30. ASSUME NEW t \in Thread, RemoveNothing(t) PROVE LockDiscipline' /\ Hands'
  BY <1>30 DEF RemoveNothing, cacheVars, locals, Return, Unlocked
<1>31. CASE Crash
  BY <1>31 DEF Crash
<1>32. CASE UNCHANGED vars
  BY <1>32 DEF vars, cacheVars, locals
<1>. QED BY <1>1, <1>2, <1>3, <1>4, <1>5, <1>6, <1>7, <1>8, <1>9, <1>10, <1>11, <1>12, <1>13, <1>14, <1>15, <1>16, <1>17, <1>18, <1>19, <1>20, <1>21, <1>22, <1>23, <1>24, <1>25, <1>26, <1>27, <1>28, <1>29, <1>30, <1>31, <1>32 DEF Next, Call, Continue

LEMMA CacheStep == CacheInv /\ [Next]_vars => CacheInv'
  BY TypeStep, CoherentStep, LockStep DEF CacheInv

\* Every variable of the storage keeps its type.
THEOREM TypeCorrect == Spec => []TypeOK
<1>1. CacheInv => TypeOK BY DEF CacheInv
<1>. QED BY <1>1, InitCache, CacheStep, PTL DEF Spec

\* However many threads share the cache, evictions never overlap: the lock is
\* held exactly by the thread inside _evict.
THEOREM EvictionExclusive == Spec => []LockDiscipline
<1>1. CacheInv => LockDiscipline BY DEF CacheInv
<1>. QED BY <1>1, InitCache, CacheStep, PTL DEF Spec

\* access_order has no key twice and lists exactly the cached regions.
THEOREM TableCoherent == Spec => []CacheCoherent
<1>1. CacheInv => CacheCoherent BY DEF CacheInv
<1>. QED BY <1>1, InitCache, CacheStep, PTL DEF Spec

\* The count limit of the cache holds whenever its lock is free.
THEOREM TableBounded == Spec => []CacheBounded
<1>1. CacheInv => CacheBounded BY DEF CacheInv
<1>. QED BY <1>1, InitCache, CacheStep, PTL DEF Spec

-------------------------------------------------------------------------------
(* One caller at a time: what is not on disk is marked.                    *)

OneCaller == \A t, u \in Thread : t = u

\* No object stands under two keys.
Separate == \A r, s \in Region : cached[r] # None /\ cached[r] = cached[s] => r = s

\* What a call at each step may be.
Stage(t) ==
    /\ pc[t] \in {"idle", "next", "write", "clean"} => call[t].op # "save"
    /\ pc[t] \in {"lookup", "read", "create", "insert", "evict", "evictWrite", "access"} =>
          call[t].op \in {"load", "save"}
    /\ pc[t] \in {"create", "mark"} => call[t].op = "save"
    /\ call[t].op = "save" => call[t].data \in Data

\* A region on its way into the cache: the file's contents, or an empty region
\* where there is no file or none that could be read.
Arriving(t) ==
    /\ pc[t] \in {"read", "create", "insert"} => cached[key[t]] = None
    /\ pc[t] = "create" => disk[key[t]] = NoFile \/ faults > 0
    /\ pc[t] = "insert" =>
          /\ \A r \in Region : cached[r] # ref[t]
          /\ \/ heap[ref[t]] = DiskImage(key[t])
             \/ call[t].op = "save" /\ faults > 0 /\ heap[ref[t]] = EmptyImage

\* The region a caller works on stays in the cache: it is the last key while
\* others are evicted, and it is written as it is.
Staying(t) ==
    /\ pc[t] \in {"evict", "evictWrite"} => order # <<>> /\ order[Len(order)] = key[t]
    /\ pc[t] \in {"evict", "evictWrite", "access", "mark"} => cached[key[t]] = ref[t]
    /\ pc[t] = "evictWrite" => Len(order) > 1 /\ buf[t] = heap[cached[Victim]]
    /\ pc[t] \in {"write", "clean"} => cached[key[t]] # None
    /\ pc[t] = "write" => buf[t] = heap[cached[key[t]]]
    /\ pc[t] = "clean" => heap[cached[key[t]]] = DiskImage(key[t])

\* Before close() and unload_region() drop a region, they write it, unless a
\* write fails.
Leaving(t) ==
    pc[t] \in {"next", "write", "clean"} =>
        /\ call[t].op = "close" /\ faults = 0 => dirty \subseteq todo[t]
        /\ call[t].op = "unload" =>
              todo[t] \subseteq {key[t]} /\ (faults = 0 => dirty \cap {key[t]} \subseteq todo[t])

DirtyIsCached == \A r \in dirty : cached[r] # None

CallInv(t) == Stage(t) /\ Arriving(t) /\ Staying(t) /\ Leaving(t)

DataInv ==
    /\ UnsavedIsDirty /\ DirtyIsCached /\ Separate
    /\ \A t \in Thread : CallInv(t)

LEMMA InitData == Init => DataInv
<1> SUFFICES ASSUME Init PROVE DataInv
  OBVIOUS
<1>1. /\ \A r \in Region : cached[r] = None
      /\ dirty = {}
      /\ \A t \in Thread : pc[t] = "idle" /\ call[t].op = "none"
  BY DEF Init, NoCall
<1>2. UnsavedIsDirty /\ DirtyIsCached /\ Separate
  BY <1>1 DEF UnsavedIsDirty, DirtyIsCached, Separate
<1>3. ASSUME NEW t \in Thread PROVE CallInv(t)
  BY <1>1 DEF CallInv, Stage, Arriving, Staying, Leaving
<1>. QED BY <1>2, <1>3 DEF DataInv

\* The last key is not the victim, and stays the last.
LEMMA LastStays ==
  ASSUME TypeOK, CacheCoherent, Len(order) > 1
  PROVE  /\ Victim \in Region /\ Victim # order[Len(order)]
         /\ Tail(order) # <<>> /\ Tail(order)[Len(Tail(order))] = order[Len(order)]
<1>1. order \in Seq(Region) /\ Len(order) \in Nat
  BY LenProperties DEF TypeOK
<1>2. order # <<>>
  BY EmptySeq
<1>3. /\ Head(order) = order[1] /\ Head(order) \in Region
      /\ Tail(order) \in Seq(Region) /\ Len(Tail(order)) = Len(order) - 1
      /\ \A i \in 1..Len(Tail(order)) : Tail(order)[i] = order[i+1]
  BY <1>1, <1>2, HeadTailProperties
<1>4. Len(Tail(order)) \in 1..Len(Tail(order)) /\ Len(Tail(order)) # 0
  BY <1>1, <1>3
<1>5. Tail(order) # <<>>
  BY <1>3, <1>4, EmptySeq
<1>6. 1 \in 1..Len(order) /\ Len(order) \in 1..Len(order) /\ 1 # Len(order)
  <2>1. \A n \in Nat : n > 1 => 1 \in 1..n /\ n \in 1..n /\ 1 # n
    OBVIOUS
  <2>. QED BY <1>1, <2>1
<1>7. order[1] # order[Len(order)]
  BY <1>6 DEF CacheCoherent
<1>8. Tail(order)[Len(Tail(order))] = order[Len(order)]
  BY <1>1, <1>3, <1>4
<1>. QED BY <1>3, <1>5, <1>7, <1>8 DEF Victim

\* A region that comes into the cache as it is on disk, or for a save, needs no mark.
LEMMA InsertKeepsMarks ==
  ASSUME NEW t \in Thread, UnsavedIsDirty, key[t] \in Region,
         UNCHANGED <<dirty, heap, disk, call, key>>,
         \A r \in Region : cached'[r] = IF r = key[t] THEN ref[t] ELSE cached[r],
         heap[ref[t]] = DiskImage(key[t]) \/ call[t].op = "save"
  PROVE  UnsavedIsDirty'
<1>1. \A r \in Region : DiskImage(r)' = DiskImage(r)
  BY DEF DiskImage
<1>. QED BY <1>1 DEF UnsavedIsDirty

LEMMA DataStep ==
  ASSUME OneCaller, CacheInv, DataInv, [Next]_vars
  PROVE  DataInv'
<1> USE Sentinels DEF OneCaller, CacheInv, TypeOK, Hands, DataInv, UnsavedIsDirty, DirtyIsCached,
        Separate, CallInv, Stage, Arriving, Staying, Leaving, DiskImage, At, Goto,
        cacheVars, locals, budgetVars
<1>0. /\ order \in Seq(Region) /\ Len(order) \in Nat /\ MaxRegions \in Nat /\ MaxRegions > 0
      /\ \A image \in Image : image # NoFile
  BY Limits, LenProperties DEF Image
<1>1. ASSUME NEW t \in Thread, NEW r \in Region, NEW c \in Chunk, Load(t, r, c) PROVE DataInv'
  BY <1>1 DEF Load
<1>2. ASSUME NEW t \in Thread, NEW r \in Region, NEW c \in Chunk, NEW d \in Data, Save(t, r, c, d) PROVE DataInv'
  BY <1>2 DEF Save
<1>3. ASSUME NEW t \in Thread, Flush(t) PROVE DataInv'
  BY <1>3 DEF Flush, Plain, NoCall
<1>4. ASSUME NEW t \in Thread, Close(t) PROVE DataInv'
  BY <1>4, SMTT(40) DEF Close, Plain, NoCall
<1>5. ASSUME NEW t \in Thread, NEW r \in Region, Unload(t, r) PROVE DataInv'
  BY <1>5 DEF Unload, Plain, NoCall
<1>6. ASSUME NEW t \in Thread, LookupHit(t) PROVE DataInv'
  BY <1>6 DEF LookupHit
<1>7. ASSUME NEW t \in Thread, LookupMiss(t) PROVE DataInv'
  BY <1>7 DEF LookupMiss
<1>8. ASSUME NEW t \in Thread, ReadFile(t) PROVE DataInv'
  BY <1>8 DEF ReadFile, Unreachable
<1>9. ASSUME NEW t \in Thread, ReadMissing(t) PROVE DataInv'
  BY <1>9 DEF ReadMissing, NoRegionFound, Return, NoCall
<1>10. ASSUME NEW t \in Thread, ReadFails(t) PROVE DataInv'
  BY <1>10 DEF ReadFails, NoRegionFound, Return, NoCall, Fault
<1>11. ASSUME NEW t \in Thread, Create(t) PROVE DataInv'
  BY <1>11 DEF Create, Unreachable
<1>12. ASSUME NEW t \in Thread, PutReplaces(t) PROVE DataInv'
  BY <1>12 DEF PutReplaces
<1>13. ASSUME NEW t \in Thread, PutInserts(t) PROVE DataInv'
  <2>1. order' = Append(order, key[t]) /\ key[t] \in Region
    BY <1>13 DEF PutInserts
  <2>2. order' # <<>> /\ order'[Len(order')] = key[t]
    BY <1>0, <2>1, AppendProperties
  <2>3. /\ \A r \in Region : cached'[r] = IF r = key[t] THEN ref[t] ELSE cached[r]
        /\ UNCHANGED <<dirty, heap, disk, call, key, ref, todo, buf, faults>>
        /\ \A r \in Region : cached[r] # ref[t]
        /\ heap[ref[t]] = DiskImage(key[t]) \/ call[t].op = "save"
    BY <1>13 DEF PutInserts
  <2>4. UnsavedIsDirty'
    BY ONLY <2>1, <2>3, DataInv, InsertKeepsMarks DEF DataInv
  <2>5. DirtyIsCached' /\ Separate'
    BY <1>13, <2>1, <2>3 DEF PutInserts
  <2>. QED BY <1>13, <2>2, <2>4, <2>5 DEF PutInserts
<1>14. ASSUME NEW t \in Thread, EvictClean(t) PROVE DataInv'
  <2>1. Len(order) > 1
    BY <1>14, <1>0 DEF EvictClean, OverCount, MayBeOverMemory
  <2>2. /\ Victim \in Region /\ Victim # key[t]
        /\ Tail(order) # <<>> /\ Tail(order)[Len(Tail(order))] = key[t]
    BY <1>14, <2>1, LastStays DEF EvictClean
  <2>3. /\ \A r \in Region : cached'[r] = IF r = Victim THEN None ELSE cached[r]
        /\ UNCHANGED <<dirty, heap, disk, call, key, ref, todo, faults>>
        /\ Victim \notin dirty
    BY <1>14, <2>2 DEF EvictClean, DropVictim
  <2>4. UnsavedIsDirty' /\ DirtyIsCached' /\ Separate'
    BY <2>3
  <2>. QED BY <1>14, <2>2, <2>4 DEF EvictClean, DropVictim
<1>15. ASSUME NEW t \in Thread, EvictSerialise(t) PROVE DataInv'
  <2>1. Len(order) > 1
    BY <1>15, <1>0 DEF EvictSerialise, OverCount, MayBeOverMemory
  <2>. QED BY <1>15, <2>1 DEF EvictSerialise, Victim
<1>16. ASSUME NEW t \in Thread, EvictWrite(t) PROVE DataInv'
  <2>1. Len(order) > 1
    BY <1>16 DEF EvictWrite
  <2>2. /\ Victim \in Region /\ Victim # key[t]
        /\ Tail(order) # <<>> /\ Tail(order)[Len(Tail(order))] = key[t]
    BY <1>16, <2>1, LastStays DEF EvictWrite
  <2>3. /\ \A r \in Region : cached'[r] = IF r = Victim THEN None ELSE cached[r]
        /\ dirty' = dirty \ {Victim} /\ \A r \in Region : r # Victim => disk'[r] = disk[r]
        /\ UNCHANGED <<heap, call, key, ref, todo>>
    BY <1>16, <2>2 DEF EvictWrite, DropVictim
  <2>4. UnsavedIsDirty' /\ DirtyIsCached' /\ Separate'
    BY <2>3
  <2>. QED BY <1>16, <2>2, <2>4 DEF EvictWrite, DropVictim
<1>17. ASSUME NEW t \in Thread, EvictWriteFails(t) PROVE DataInv'
  <2>1. Len(order) > 1
    BY <1>17 DEF EvictWriteFails
  <2>2. /\ Victim \in Region /\ Victim # key[t]
        /\ Tail(order) # <<>> /\ Tail(order)[Len(Tail(order))] = key[t]
    BY <1>17, <2>1, LastStays DEF EvictWriteFails
  <2>3. /\ \A r \in Region : cached'[r] = IF r = Victim THEN None ELSE cached[r]
        /\ dirty' = dirty \ {Victim} /\ \A r \in Region : r # Victim => disk'[r] = disk[r]
        /\ UNCHANGED <<heap, call, key, ref, todo>>
    BY <1>17, <2>2 DEF EvictWriteFails, DropVictim, Fault
  <2>4. UnsavedIsDirty' /\ DirtyIsCached' /\ Separate'
    BY <2>3
  <2>. QED BY <1>17, <2>2, <2>4 DEF EvictWriteFails, DropVictim, Fault
<1>18. ASSUME NEW t \in Thread, EvictDone(t) PROVE DataInv'
  BY <1>18 DEF EvictDone
<1>19. ASSUME NEW t \in Thread, GetChunk(t) PROVE DataInv'
  BY <1>19 DEF GetChunk, Return, NoCall
<1>20. ASSUME NEW t \in Thread, SetChunk(t) PROVE DataInv'
  BY <1>20 DEF SetChunk
<1>21. ASSUME NEW t \in Thread, MarkDirty(t) PROVE DataInv'
  BY <1>21 DEF MarkDirty, Return, NoCall
<1>22. ASSUME NEW t \in Thread, NEW r \in Region, FlushSerialise(t, r) PROVE DataInv'
  BY <1>22 DEF FlushSerialise
<1>23. ASSUME NEW t \in Thread, NEW r \in Region, FlushSkip(t, r) PROVE DataInv'
  BY <1>23 DEF FlushSkip
<1>24. ASSUME NEW t \in Thread, FlushWrite(t) PROVE DataInv'
  BY <1>24, <1>0 DEF FlushWrite
<1>25. ASSUME NEW t \in Thread, FlushWriteFails(t) PROVE DataInv'
  BY <1>25 DEF FlushWriteFails, NextKey, Fault
<1>26. ASSUME NEW t \in Thread, FlushClean(t) PROVE DataInv'
  BY <1>26 DEF FlushClean, NextKey
<1>27. ASSUME NEW t \in Thread, FlushDone(t) PROVE DataInv'
  BY <1>27 DEF FlushDone, Return, NoCall
<1>28. ASSUME NEW t \in Thread, Clear(t) PROVE DataInv'
  BY <1>28 DEF Clear, Return, NoCall
<1>29. ASSUME NEW t \in Thread, RemoveRegion(t) PROVE DataInv'
  BY <1>29 DEF RemoveRegion, Return, NoCall
<1>30. ASSUME NEW t \in Thread, RemoveNothing(t) PROVE DataInv'
  BY <1>30 DEF RemoveNothing, Return, NoCall
<1>31. CASE Crash
  BY <1>31 DEF Crash, NoCall
<1>32. CASE UNCHANGED vars
  BY <1>32 DEF vars, Victim
<1>. QED
  BY ONLY <1>1, <1>2, <1>3, <1>4, <1>5, <1>6, <1>7, <1>8, <1>9, <1>10, <1>11, <1>12, <1>13,
          <1>14, <1>15, <1>16, <1>17, <1>18, <1>19, <1>20, <1>21, <1>22, <1>23, <1>24, <1>25,
          <1>26, <1>27, <1>28, <1>29, <1>30, <1>31, <1>32, [Next]_vars DEF Next, Call, Continue

\* Nothing is on disk behind the back of its mark when calls come one at a time.
THEOREM UnsavedMarked == ASSUME OneCaller PROVE Spec => []UnsavedIsDirty
<1>1. CacheInv /\ DataInv /\ [Next]_vars => (CacheInv /\ DataInv)'
  BY CacheStep, DataStep
<1>2. DataInv => UnsavedIsDirty
  BY DEF DataInv
<1>. QED BY <1>1, <1>2, InitCache, InitData, PTL DEF Spec

-------------------------------------------------------------------------------
(* One caller at a time: the storage is the map of module ChunkStore.      *)

LiveNow == [r \in Region |-> LiveImage(r)]
DiskNow == [r \in Region |-> DiskImage(r)]
AskedNow == {<<key[t], call[t].chunk, call[t].data>> : t \in {u \in Thread : call[u].op = "save"}}

Same == UNCHANGED <<LiveNow, DiskNow, AskedNow, crashes, faults>>

\* The steps a caller cannot tell from none.
LEMMA HiddenSteps ==
  ASSUME OneCaller, CacheInv, DataInv, NEW t \in Thread
  PROVE  /\ (\A r \in Region, c \in Chunk : Load(t, r, c) => Same)
         /\ (Flush(t) => Same)
         /\ (Close(t) => Same)
         /\ (\A r \in Region : Unload(t, r) => Same)
         /\ (LookupHit(t) => Same)
         /\ (LookupMiss(t) => Same)
         /\ (ReadFile(t) => Same)
         /\ (ReadMissing(t) => Same)
         /\ (Create(t) => Same)
         /\ (PutReplaces(t) => Same)
         /\ (EvictSerialise(t) => Same)
         /\ (EvictDone(t) => Same)
         /\ (GetChunk(t) => Same)
         /\ (\A r \in Region : FlushSerialise(t, r) => Same)
         /\ (\A r \in Region : FlushSkip(t, r) => Same)
         /\ (FlushClean(t) => Same)
         /\ (FlushDone(t) => Same)
         /\ (RemoveNothing(t) => Same)
         /\ (EvictClean(t) => Same)
<1> USE Sentinels DEF OneCaller, CacheInv, TypeOK, Hands, DataInv, UnsavedIsDirty, Separate,
        CallInv, Stage, Arriving, Staying, DiskImage, LiveImage, At, Goto,
        cacheVars, locals, budgetVars, Same, LiveNow, DiskNow, AskedNow
<1>1. ASSUME NEW r \in Region, NEW c \in Chunk, Load(t, r, c) PROVE Same
  BY <1>1 DEF Load
<1>2. ASSUME Flush(t) PROVE Same
  BY <1>2 DEF Flush, Plain, NoCall
<1>3. ASSUME Close(t) PROVE Same
  BY <1>3 DEF Close, Plain, NoCall
<1>4. ASSUME NEW r \in Region, Unload(t, r) PROVE Same
  BY <1>4 DEF Unload, Plain, NoCall
<1>5. ASSUME LookupHit(t) PROVE Same
  BY <1>5 DEF LookupHit
<1>6. ASSUME LookupMiss(t) PROVE Same
  BY <1>6 DEF LookupMiss
<1>7. ASSUME ReadFile(t) PROVE Same
  BY <1>7 DEF ReadFile, Unreachable
<1>8. ASSUME ReadMissing(t) PROVE Same
  BY <1>8 DEF ReadMissing, NoRegionFound, Return, NoCall
<1>9. ASSUME Create(t) PROVE Same
  BY <1>9 DEF Create, Unreachable
<1>10. ASSUME PutReplaces(t) PROVE Same
  BY <1>10 DEF PutReplaces
<1>11. ASSUME EvictSerialise(t) PROVE Same
  BY <1>11 DEF EvictSerialise
<1>12. ASSUME EvictDone(t) PROVE Same
  BY <1>12 DEF EvictDone
<1>13. ASSUME GetChunk(t) PROVE Same
  BY <1>13 DEF GetChunk, Return, NoCall
<1>14. ASSUME NEW r \in Region, FlushSerialise(t, r) PROVE Same
  BY <1>14 DEF FlushSerialise
<1>15. ASSUME NEW r \in Region, FlushSkip(t, r) PROVE Same
  BY <1>15 DEF FlushSkip
<1>16. ASSUME FlushClean(t) PROVE Same
  BY <1>16 DEF FlushClean, NextKey
<1>17. ASSUME FlushDone(t) PROVE Same
  BY <1>17 DEF FlushDone, Return, NoCall
<1>18. ASSUME RemoveNothing(t) PROVE Same
  BY <1>18 DEF RemoveNothing, Return, NoCall
<1>19. ASSUME EvictClean(t) PROVE Same
  <2>1. Victim # key[t] /\ Victim \in Region
    <3>1. Len(order) \in Nat /\ MaxRegions \in Nat /\ MaxRegions > 0
      BY Limits, LenProperties
    <3>2. Len(order) > 1
      BY <1>19, <3>1 DEF EvictClean, OverCount, MayBeOverMemory
    <3>. QED BY <1>19, <3>2, LastStays DEF EvictClean
  <2>. QED BY <1>19, <2>1 DEF EvictClean, DropVictim
<1>. QED BY <1>1, <1>2, <1>3, <1>4, <1>5, <1>6, <1>7, <1>8, <1>9, <1>10, <1>11, <1>12, <1>13, <1>14, <1>15, <1>16, <1>17, <1>18, <1>19

\* What the two maps hold, and what has been asked for.
LEMMA AskedByOne ==
  ASSUME OneCaller, NEW t \in Thread
  PROVE  AskedNow = IF call[t].op = "save" THEN {<<key[t], call[t].chunk, call[t].data>>} ELSE {}
  BY DEF OneCaller, AskedNow

LEMMA Images ==
  ASSUME TypeOK
  PROVE  /\ \A image \in Image : image # NoFile
         /\ LiveNow \in [Region -> Image] /\ DiskNow \in [Region -> Image]
<1>1. \A image \in Image : image # NoFile
  BY Sentinels DEF Image
<1>2. \A r \in Region : DiskImage(r) \in Image
  BY IdleTypes DEF TypeOK, DiskImage
<1>3. \A r \in Region : LiveImage(r) \in Image
  BY <1>2 DEF TypeOK, LiveImage
<1>. QED BY <1>1, <1>2, <1>3 DEF LiveNow, DiskNow

LEMMA SaveSteps ==
  ASSUME OneCaller, CacheInv, DataInv, NEW t \in Thread
  PROVE  /\ \A r \in Region, c \in Chunk, d \in Data : Save(t, r, c, d) => Store!Begin(r, c, d)
         /\ SetChunk(t) => \E d \in Data : Store!Save(key[t], call[t].chunk, d)
         /\ MarkDirty(t) => \E d \in Data : Store!End(key[t], call[t].chunk, d)
<1> USE Sentinels DEF OneCaller, CacheInv, DataInv, CallInv, Stage, At, Goto, cacheVars,
        locals, budgetVars
<1>1. ASSUME NEW r \in Region, NEW c \in Chunk, NEW d \in Data, Save(t, r, c, d)
      PROVE  Store!Begin(r, c, d)
  BY <1>1 DEF Save, Store!Begin, LiveImage, DiskImage, TypeOK
<1>2. ASSUME SetChunk(t) PROVE \E d \in Data : Store!Save(key[t], call[t].chunk, d)
  <2>1. /\ call[t].op = "save" /\ call[t].data \in Data /\ call[t].chunk \in Chunk
        /\ key[t] \in Region /\ cached[key[t]] = ref[t] /\ ref[t] \in Object
        /\ heap' = [heap EXCEPT ![ref[t]] = [@ EXCEPT ![call[t].chunk] = call[t].data]]
        /\ UNCHANGED <<cached, disk, call, key, crashes, faults>>
    BY <1>2 DEF SetChunk, TypeOK, Calls, Hands, Staying
  <2>2. <<key[t], call[t].chunk, call[t].data>> \in AskedNow
    BY <2>1, AskedByOne
  <2>3. AskedNow' = AskedNow
    BY <2>1 DEF AskedNow
  <2>4. DiskNow' = DiskNow
    BY <2>1 DEF DiskNow, DiskImage
  <2>5. ASSUME NEW r \in Region, r # key[t] PROVE LiveNow'[r] = LiveNow[r]
    <3>1. cached[r] # ref[t]
      BY <2>1, <2>5, Sentinels DEF Separate
    <3>. QED BY <2>1, <3>1 DEF LiveNow, LiveImage, DiskImage, TypeOK
  <2>6. LiveNow'[key[t]] = [LiveNow[key[t]] EXCEPT ![call[t].chunk] = call[t].data]
    BY ONLY <2>1, TypeOK, Sentinels DEF LiveNow, LiveImage, TypeOK
  <2>7. LiveNow' = [LiveNow EXCEPT ![key[t]] = [@ EXCEPT ![call[t].chunk] = call[t].data]]
    BY ONLY <2>1, <2>5, <2>6 DEF LiveNow
  <2>. QED BY <2>1, <2>2, <2>3, <2>4, <2>7 DEF Store!Save, LiveNow, DiskNow, AskedNow
<1>3. ASSUME MarkDirty(t) PROVE \E d \in Data : Store!End(key[t], call[t].chunk, d)
  <2>1. call[t].op = "save" /\ call[t].data \in Data /\ call' = [call EXCEPT ![t] = NoCall]
    BY <1>3 DEF MarkDirty, Return
  <2>2. AskedNow = {<<key[t], call[t].chunk, call[t].data>>}
    BY <2>1, AskedByOne
  <2>3. AskedNow' = {}
    BY <2>1 DEF AskedNow, NoCall, TypeOK
  <2>4. AskedNow' = AskedNow \ {<<key[t], call[t].chunk, call[t].data>>}
    BY <2>2, <2>3
  <2>5. LiveNow' = LiveNow /\ DiskNow' = DiskNow /\ UNCHANGED <<crashes, faults>>
    BY <1>3 DEF MarkDirty, LiveNow, DiskNow, LiveImage, DiskImage
  <2>. QED BY <2>1, <2>4, <2>5 DEF Store!End, LiveNow, DiskNow, AskedNow
<1>. QED BY <1>1, <1>2, <1>3

LEMMA WriteSteps ==
  ASSUME OneCaller, CacheInv, DataInv, NEW t \in Thread
  PROVE  /\ FlushWrite(t) => Store!Persist(key[t])
         /\ EvictWrite(t) => Store!Persist(Victim)
<1> USE DEF CacheInv, DataInv, CallInv, At
<1>1. ASSUME FlushWrite(t) PROVE Store!Persist(key[t])
  <2>1. /\ key[t] \in Region /\ cached[key[t]] \in Object /\ cached[key[t]] # None
        /\ buf[t] = heap[cached[key[t]]] /\ buf[t] \in Image
        /\ disk' = [disk EXCEPT ![key[t]] = buf[t]]
        /\ UNCHANGED <<cached, heap, call, key, crashes, faults>>
    BY <1>1 DEF FlushWrite, TypeOK, Staying, cacheVars, budgetVars
  <2>2. AskedNow' = AskedNow
    BY <2>1 DEF AskedNow
  <2>3. LiveNow' = LiveNow
    BY ONLY <2>1, TypeOK DEF LiveNow, LiveImage, DiskImage, TypeOK
  <2>4. DiskNow'[key[t]] = buf[t] /\ LiveNow[key[t]] = buf[t]
    BY ONLY <2>1, TypeOK, Images DEF LiveNow, DiskNow, LiveImage, DiskImage, TypeOK
  <2>5. ASSUME NEW r \in Region, r # key[t] PROVE DiskNow'[r] = DiskNow[r]
    BY ONLY <2>1, <2>5, TypeOK DEF DiskNow, DiskImage, TypeOK
  <2>6. DiskNow' = [DiskNow EXCEPT ![key[t]] = LiveNow[key[t]]]
    BY ONLY <2>1, <2>4, <2>5 DEF DiskNow
  <2>. QED BY <2>1, <2>2, <2>3, <2>6 DEF Store!Persist, LiveNow, DiskNow, AskedNow
<1>2. ASSUME EvictWrite(t) PROVE Store!Persist(Victim)
  <2>1. /\ Victim \in Region /\ cached[Victim] \in Object /\ cached[Victim] # None
        /\ buf[t] = heap[cached[Victim]] /\ buf[t] \in Image
        /\ disk' = [disk EXCEPT ![Victim] = buf[t]]
        /\ cached' = [cached EXCEPT ![Victim] = None]
        /\ UNCHANGED <<heap, call, key, crashes, faults>>
    BY <1>2, OrderTypes DEF EvictWrite, DropVictim, TypeOK, Hands, Staying, budgetVars
  <2>2. AskedNow' = AskedNow
    BY <2>1 DEF AskedNow
  <2>3. DiskNow'[Victim] = buf[t] /\ LiveNow[Victim] = buf[t] /\ LiveNow'[Victim] = buf[t]
    BY ONLY <2>1, TypeOK, Images DEF LiveNow, DiskNow, LiveImage, DiskImage, TypeOK
  <2>4. ASSUME NEW r \in Region, r # Victim
        PROVE  DiskNow'[r] = DiskNow[r] /\ LiveNow'[r] = LiveNow[r]
    BY ONLY <2>1, <2>4, TypeOK DEF LiveNow, DiskNow, LiveImage, DiskImage, TypeOK
  <2>5. DiskNow' = [DiskNow EXCEPT ![Victim] = LiveNow[Victim]]
    BY ONLY <2>1, <2>3, <2>4 DEF DiskNow
  <2>6. LiveNow' = LiveNow
    BY ONLY <2>3, <2>4 DEF LiveNow
  <2>. QED BY <2>1, <2>2, <2>5, <2>6 DEF Store!Persist, LiveNow, DiskNow, AskedNow
<1>. QED BY <1>1, <1>2

\* Regions that fall back to their files.
LEMMA ForgetSome ==
  ASSUME NEW lost \in SUBSET Region, faults \in Nat, faults' \in {faults, faults + 1}, faults' > 0,
         LiveNow' = [r \in Region |-> IF r \in lost THEN DiskNow[r] ELSE LiveNow[r]],
         DiskNow' = DiskNow, AskedNow' = AskedNow, crashes' = crashes
  PROVE  Store!Forget
  BY DEF Store!Forget, LiveNow, DiskNow, AskedNow

LEMMA FaultSteps ==
  ASSUME OneCaller, CacheInv, DataInv, NEW t \in Thread
  PROVE  /\ ReadFails(t) \/ FlushWriteFails(t) => Store!Fault
         /\ EvictWriteFails(t) => Store!Forget
         /\ PutInserts(t) => Store!Forget \/ Same
<1> USE DEF CacheInv, DataInv, CallInv, At
<1>1. ASSUME ReadFails(t) PROVE Store!Fault
  <2>1. /\ UNCHANGED <<cached, heap, disk, crashes>> /\ faults' = faults + 1
        /\ \/ UNCHANGED <<call, key>>
           \/ call[t].op # "save" /\ call' = [call EXCEPT ![t] = NoCall]
    BY <1>1 DEF ReadFails, NoRegionFound, Return, Fault, cacheVars
  <2>2. LiveNow' = LiveNow /\ DiskNow' = DiskNow
    BY <2>1 DEF LiveNow, DiskNow, LiveImage, DiskImage
  <2>3. CASE call[t].op # "save" /\ call' = [call EXCEPT ![t] = NoCall]
    <3>1. AskedNow = {}
      BY <2>3, AskedByOne
    <3>2. AskedNow' = {}
      BY <2>3 DEF AskedNow, NoCall, TypeOK, OneCaller
    <3>. QED BY <2>1, <2>2, <3>1, <3>2 DEF Store!Fault, LiveNow, DiskNow, AskedNow
  <2>4. CASE UNCHANGED <<call, key>>
    BY <2>1, <2>2, <2>4 DEF Store!Fault, LiveNow, DiskNow, AskedNow
  <2>. QED BY <2>1, <2>3, <2>4
<1>2. ASSUME FlushWriteFails(t) PROVE Store!Fault
  BY <1>2 DEF FlushWriteFails, NextKey, Fault, Store!Fault, LiveImage, DiskImage, cacheVars
<1>3. ASSUME EvictWriteFails(t) PROVE Store!Forget
  <2>1. /\ Victim \in Region /\ faults \in Nat /\ faults' = faults + 1
        /\ cached' = [cached EXCEPT ![Victim] = None]
        /\ UNCHANGED <<disk, heap, call, key, crashes>>
    BY <1>3, OrderTypes DEF EvictWriteFails, DropVictim, Fault, TypeOK, Hands
  <2>2. AskedNow' = AskedNow /\ DiskNow' = DiskNow
    BY <2>1 DEF AskedNow, DiskNow, DiskImage
  <2>3. LiveNow' = [r \in Region |-> IF r \in {Victim} THEN DiskNow[r] ELSE LiveNow[r]]
    BY ONLY <2>1, TypeOK DEF LiveNow, DiskNow, LiveImage, DiskImage, TypeOK
  <2>4. {Victim} \in SUBSET Region /\ faults' \in {faults, faults + 1} /\ faults' > 0
    BY <2>1
  <2>. QED BY <2>1, <2>2, <2>3, <2>4, ForgetSome
<1>4. ASSUME PutInserts(t) PROVE Store!Forget \/ Same
  <2>1. /\ key[t] \in Region /\ ref[t] \in Object /\ ref[t] # None /\ faults \in Nat
        /\ cached[key[t]] = None /\ cached' = [cached EXCEPT ![key[t]] = ref[t]]
        /\ UNCHANGED <<disk, heap, call, key, crashes, faults>>
    BY <1>4, Sentinels DEF PutInserts, TypeOK, Hands, Arriving, budgetVars
  <2>2. AskedNow' = AskedNow /\ DiskNow' = DiskNow
    BY <2>1 DEF AskedNow, DiskNow, DiskImage
  <2>3. LiveNow' = [LiveNow EXCEPT ![key[t]] = heap[ref[t]]]
    BY ONLY <2>1, TypeOK DEF LiveNow, LiveImage, DiskImage, TypeOK
  <2>4. CASE heap[ref[t]] = DiskImage(key[t])
    <3>1. LiveNow[key[t]] = heap[ref[t]]
      BY <2>1, <2>4 DEF LiveNow, LiveImage
    <3>2. LiveNow' = LiveNow
      BY <2>3, <3>1 DEF LiveNow
    <3>. QED BY <2>1, <2>2, <3>2 DEF Same
  <2>5. CASE heap[ref[t]] = EmptyImage /\ faults > 0
    <3>1. heap[ref[t]] = Store!EmptyRegion
      BY <2>5 DEF EmptyImage, Store!EmptyRegion
    <3>2. \E r \in Region : LiveNow' = [LiveNow EXCEPT ![r] = Store!EmptyRegion]
      BY <2>1, <2>3, <3>1
    <3>. QED BY <2>1, <2>2, <2>5, <3>2 DEF Store!Forget, LiveNow, DiskNow, AskedNow
  <2>. QED BY <1>4, <2>4, <2>5 DEF PutInserts, Arriving
<1>. QED BY <1>1, <1>2, <1>3, <1>4

LEMMA DropSteps ==
  ASSUME OneCaller, CacheInv, DataInv, NEW t \in Thread
  PROVE  Clear(t) \/ RemoveRegion(t) => Store!Forget \/ Same
<1> USE DEF CacheInv, DataInv, CallInv, At
<1>0. faults \in Nat
  BY DEF TypeOK
<1>1. ASSUME NEW lost \in SUBSET Region,
             \A r \in Region : cached'[r] = IF r \in lost THEN None ELSE cached[r],
             call[t].op # "save", call' = [call EXCEPT ![t] = NoCall],
             faults = 0 => lost \cap dirty = {},
             UNCHANGED <<heap, disk, crashes, faults>>
      PROVE  Store!Forget \/ Same
  <2>1. AskedNow = {}
    BY <1>1, AskedByOne
  <2>2. AskedNow' = {}
    BY <1>1 DEF AskedNow, NoCall, TypeOK, OneCaller
  <2>3. DiskNow' = DiskNow
    BY <1>1 DEF DiskNow, DiskImage
  <2>4. LiveNow' = [r \in Region |-> IF r \in lost THEN DiskNow[r] ELSE LiveNow[r]]
    BY <1>1 DEF LiveNow, DiskNow, LiveImage, DiskImage
  <2>5. CASE faults > 0
    BY <1>0, <1>1, <2>1, <2>2, <2>3, <2>4, <2>5, ForgetSome
  <2>6. CASE faults = 0
    <3>1. ASSUME NEW r \in lost PROVE LiveNow[r] = DiskNow[r]
      <4>1. \A u \in Thread : call[u].op # "save"
        BY <1>1 DEF OneCaller
      <4>. QED BY <1>1, <2>6, <3>1, <4>1 DEF UnsavedIsDirty, LiveNow, DiskNow, LiveImage
    <3>2. LiveNow' = LiveNow
      BY <2>4, <3>1 DEF LiveNow
    <3>. QED BY <1>1, <2>1, <2>2, <2>3, <3>2 DEF Same
  <2>. QED BY <1>0, <2>5, <2>6
<1>2. ASSUME Clear(t) PROVE Store!Forget \/ Same
  <2>1. /\ \A r \in Region : cached'[r] = IF r \in Region THEN None ELSE cached[r]
        /\ call[t].op # "save" /\ call' = [call EXCEPT ![t] = NoCall]
        /\ faults = 0 => Region \cap dirty = {}
        /\ UNCHANGED <<heap, disk, crashes, faults>>
    BY <1>2 DEF Clear, Return, Leaving, budgetVars
  <2>. QED BY <1>1, <2>1
<1>3. ASSUME RemoveRegion(t) PROVE Store!Forget \/ Same
  <2>1. /\ {key[t]} \in SUBSET Region
        /\ \A r \in Region : cached'[r] = IF r \in {key[t]} THEN None ELSE cached[r]
        /\ call[t].op # "save" /\ call' = [call EXCEPT ![t] = NoCall]
        /\ faults = 0 => {key[t]} \cap dirty = {}
        /\ UNCHANGED <<heap, disk, crashes, faults>>
    BY <1>3 DEF RemoveRegion, Return, Leaving, TypeOK, budgetVars
  <2>. QED BY <1>1, <2>1
<1>. QED BY <1>2, <1>3

LEMMA StoreStep ==
  ASSUME OneCaller, CacheInv, DataInv, [Next]_vars
  PROVE  [Store!StoreNext]_(Store!storeVars)
<1>1. Same => UNCHANGED Store!storeVars
  BY DEF Same, LiveNow, DiskNow, AskedNow, Store!storeVars
<1>2. ASSUME NEW t \in Thread, Call(t) \/ Continue(t)
      PROVE  Store!StoreNext \/ Same
  <2>1. key[t] \in Region /\ call[t].chunk \in Chunk
    BY DEF CacheInv, TypeOK, Calls
  <2>2. EvictWrite(t) => Victim \in Region
    BY OrderTypes DEF EvictWrite, At, CacheInv, Hands
  <2>3. CASE Call(t)
    BY <2>1, <2>3, HiddenSteps, SaveSteps DEF Call, Store!StoreNext
  <2>4. CASE Continue(t)
    BY <2>1, <2>2, <2>4, HiddenSteps, SaveSteps, WriteSteps, FaultSteps, DropSteps
    DEF Continue, Store!StoreNext
  <2>. QED BY <1>2, <2>3, <2>4
<1>3. CASE UNCHANGED vars
  <2>1. UNCHANGED <<cached, heap, disk, call, key, crashes, faults>>
    BY <1>3 DEF vars, cacheVars, budgetVars
  <2>2. LiveNow' = LiveNow /\ DiskNow' = DiskNow
    BY <2>1 DEF LiveNow, DiskNow, LiveImage, DiskImage
  <2>3. AskedNow' = AskedNow
    BY <2>1 DEF AskedNow
  <2>. QED BY <1>1, <2>1, <2>2, <2>3 DEF Same
<1>4. CASE Crash
  BY <1>4 DEF Crash, NoCall, Store!StoreNext, Store!LoseVolatile, LiveImage, DiskImage
<1>. QED BY <1>1, <1>2, <1>3, <1>4 DEF Next

LEMMA StoreInitially == Init => Store!StoreInit
  BY Sentinels DEF Init, Store!StoreInit, Store!EmptyRegion, LiveImage, DiskImage, EmptyImage, NoCall

\* Through caching, eviction, unloading, flushing, failures and crashes the
\* storage is the map of chunks ChunkStore describes.
THEOREM StoreRefinement == ASSUME OneCaller PROVE Spec => ImplementsStore
<1>1. CacheInv /\ DataInv /\ [Next]_vars => (CacheInv /\ DataInv)' /\ [Store!StoreNext]_(Store!storeVars)
  BY CacheStep, DataStep, StoreStep
<1>. QED BY <1>1, InitCache, InitData, StoreInitially, PTL DEF Spec, ImplementsStore, Store!StoreSpec
===============================================================================
