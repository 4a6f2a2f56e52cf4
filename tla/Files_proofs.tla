------------------------------ MODULE Files_proofs -----------------------------
(***************************************************************************)
(* Proofs about the region files and what surrounds them, for every number *)
(* of threads, regions, images, faults and power losses:                   *)
(*   - RegionFile.  What write() promises it keeps as long as its callers  *)
(*     do not overlap: then the newest image is the one being written      *)
(*     (OneWriter), its temporary file is nobody else's (NamesApart), and  *)
(*     it holds what has been written so far (TmpHolds).                   *)
(*   - AnvilConversion, as the instance Anvil of MCFiles.                  *)
(*   - RegionMemory, as the instance Memory of MCFiles.                    *)
(***************************************************************************)
EXTENDS MCFiles, DataTheorems, TLAPS

-------------------------------------------------------------------------------
(* RegionFile.                                                             *)

Writing(t) == pc[t] \in {"head", "tail", "fsync", "rename"}

\* Callers do not overlap, and the one there is has the newest image.
OneWriter ==
    /\ \A t, u \in Thread : pc[t] # "idle" /\ pc[u] # "idle" => t = u
    /\ \A t \in Thread : pc[t] # "idle" => image[t] = version /\ version # 0
    /\ stored <= version
    /\ kept <= version

\* The temporary file is never the region file, now or after a power loss.
NamesApart ==
    /\ tmp # NoInode => tmp # path /\ tmp # devPath
    /\ devTmp # NoInode => devTmp # devPath

\* The writer's descriptor is the file under the temporary name, and holds
\* what has been written so far.
TmpHolds ==
    \A t \in Thread :
        /\ Writing(t) => tmp # NoInode /\ fd[t] = tmp
        /\ pc[t] = "tail" => bytes[tmp].head = image[t]
        /\ pc[t] \in {"fsync", "rename"} => bytes[tmp] = Whole(image[t])
        /\ pc[t] = "rename" => synced[tmp] = Whole(image[t])

FilesHold == Holds(path, stored) /\ Holds(devPath, kept)

\* The inductive invariant.
Orderly == OneWriter /\ NamesApart /\ TmpHolds /\ FilesHold
FileInv == TypeOK /\ (apart => Orderly)

LEMMA InitInv == Init => FileInv
  BY FileAssumption
  DEF Init, FileInv, Orderly, TypeOK, OneWriter, NamesApart, TmpHolds, FilesHold, Holds,
      Writing, Steps, Block, Blocks, Empty, Whole

\* Types are kept whether or not callers overlap.
LEMMA TypeStep == TypeOK /\ [Next]_vars => TypeOK'
<1> SUFFICES ASSUME TypeOK, [Next]_vars PROVE TypeOK' OBVIOUS
<1> USE FileAssumption DEF TypeOK, Steps, Block, Blocks, dev, calls
<1>1. ASSUME NEW t \in Thread, Call(t) PROVE TypeOK' BY <1>1 DEF Call, Empty
<1>2. ASSUME NEW t \in Thread, OpenNew(t) PROVE TypeOK' BY <1>2 DEF OpenNew, Empty
<1>3. ASSUME NEW t \in Thread, OpenExisting(t) PROVE TypeOK' BY <1>3 DEF OpenExisting, Empty
<1>4. ASSUME NEW t \in Thread, WriteHead(t) PROVE TypeOK' BY <1>4 DEF WriteHead, Empty
<1>5. ASSUME NEW t \in Thread, WriteTail(t) PROVE TypeOK' BY <1>5 DEF WriteTail, Empty
<1>6. ASSUME NEW t \in Thread, Fsync(t) PROVE TypeOK' BY <1>6 DEF Fsync, Empty
<1>7. ASSUME NEW t \in Thread, Rename(t) PROVE TypeOK' BY <1>7 DEF Rename, Empty
<1>8. ASSUME NEW t \in Thread, RenameFails(t) PROVE TypeOK' BY <1>8 DEF RenameFails, Empty
<1>9. ASSUME NEW t \in Thread, DeviceFails(t) PROVE TypeOK' BY <1>9 DEF DeviceFails, Empty
<1>10. ASSUME NEW t \in Thread, CleanUp(t) PROVE TypeOK' BY <1>10 DEF CleanUp, Empty
<1>11. CASE SyncNames BY <1>11 DEF SyncNames
<1>12. CASE PowerLoss BY <1>12 DEF PowerLoss
<1>13. CASE UNCHANGED vars BY <1>13 DEF vars
<1>. QED BY <1>1, <1>2, <1>3, <1>4, <1>5, <1>6, <1>7, <1>8, <1>9, <1>10, <1>11, <1>12, <1>13 DEF Next

\* Every step keeps the rest of the invariant: one case per action.
LEMMA OrderlyStep ==
  ASSUME TypeOK, apart, Orderly, apart', [Next]_vars
  PROVE  Orderly'
<1> USE FileAssumption DEF TypeOK, Steps, Block, Blocks, dev, calls, Orderly
<1>1. ASSUME NEW t \in Thread, Call(t) PROVE Orderly'
  <2>0. \A u \in Thread : pc[u] = "idle" BY <1>1, Zenon DEF Call
  <2>1. OneWriter' BY <1>1, <2>0 DEF Call, OneWriter
  <2>2. NamesApart' /\ FilesHold' BY <1>1 DEF Call, NamesApart, FilesHold, Holds, Whole
  <2>3. TmpHolds' BY <1>1 DEF Call, TmpHolds, Writing
  <2>. QED BY <2>1, <2>2, <2>3
<1>2. ASSUME NEW t \in Thread, OpenNew(t) PROVE Orderly'
  <2>1. OneWriter' BY <1>2 DEF OpenNew, OneWriter
  <2>2. NamesApart' BY <1>2 DEF OpenNew, NamesApart, TmpHolds, Writing
  <2>3. TmpHolds' BY <1>2 DEF OpenNew, TmpHolds, OneWriter, Writing, Whole, Empty
  <2>4. FilesHold'
    BY <1>2 DEF OpenNew, FilesHold, Holds, NamesApart, TmpHolds, OneWriter, Writing, Whole
  <2>. QED BY <2>1, <2>2, <2>3, <2>4
<1>3. ASSUME NEW t \in Thread, OpenExisting(t) PROVE Orderly'
  <2>1. OneWriter' BY <1>3 DEF OpenExisting, OneWriter
  <2>2. NamesApart' BY <1>3 DEF OpenExisting, NamesApart, TmpHolds, Writing
  <2>3. TmpHolds' BY <1>3 DEF OpenExisting, TmpHolds, OneWriter, Writing, Whole, Empty
  <2>4. FilesHold'
    BY <1>3 DEF OpenExisting, FilesHold, Holds, NamesApart, TmpHolds, OneWriter, Writing, Whole
  <2>. QED BY <2>1, <2>2, <2>3, <2>4
<1>4. ASSUME NEW t \in Thread, WriteHead(t) PROVE Orderly'
  <2>1. OneWriter' BY <1>4 DEF WriteHead, OneWriter
  <2>2. NamesApart' BY <1>4 DEF WriteHead, NamesApart, TmpHolds, Writing
  <2>3. TmpHolds' BY <1>4 DEF WriteHead, TmpHolds, OneWriter, Writing, Whole, Empty
  <2>4. FilesHold'
    BY <1>4 DEF WriteHead, FilesHold, Holds, NamesApart, TmpHolds, OneWriter, Writing, Whole
  <2>. QED BY <2>1, <2>2, <2>3, <2>4
<1>5. ASSUME NEW t \in Thread, WriteTail(t) PROVE Orderly'
  <2>1. OneWriter' BY <1>5 DEF WriteTail, OneWriter
  <2>2. NamesApart' BY <1>5 DEF WriteTail, NamesApart, TmpHolds, Writing
  <2>3. TmpHolds' BY <1>5 DEF WriteTail, TmpHolds, OneWriter, Writing, Whole, Empty
  <2>4. FilesHold'
    BY <1>5 DEF WriteTail, FilesHold, Holds, NamesApart, TmpHolds, OneWriter, Writing, Whole
  <2>. QED BY <2>1, <2>2, <2>3, <2>4
<1>6. ASSUME NEW t \in Thread, Fsync(t) PROVE Orderly'
  <2>1. OneWriter' BY <1>6 DEF Fsync, OneWriter
  <2>2. NamesApart' BY <1>6 DEF Fsync, NamesApart, TmpHolds, Writing
  <2>3. TmpHolds' BY <1>6 DEF Fsync, TmpHolds, OneWriter, Writing, Whole, Empty
  <2>4. FilesHold'
    BY <1>6 DEF Fsync, FilesHold, Holds, NamesApart, TmpHolds, OneWriter, Writing, Whole
  <2>. QED BY <2>1, <2>2, <2>3, <2>4
<1>7. ASSUME NEW t \in Thread, Rename(t) PROVE Orderly'
  <2>1. OneWriter' BY <1>7 DEF Rename, OneWriter
  <2>2. NamesApart' BY <1>7 DEF Rename, NamesApart, TmpHolds, Writing
  <2>3. TmpHolds' BY <1>7 DEF Rename, TmpHolds, OneWriter, Writing, Whole, Empty
  <2>4. FilesHold'
    BY <1>7 DEF Rename, FilesHold, Holds, NamesApart, TmpHolds, OneWriter, Writing, Whole
  <2>. QED BY <2>1, <2>2, <2>3, <2>4
<1>8. ASSUME NEW t \in Thread, RenameFails(t) PROVE Orderly'
  <2>1. OneWriter' BY <1>8 DEF RenameFails, OneWriter
  <2>2. NamesApart' BY <1>8 DEF RenameFails, NamesApart, TmpHolds, Writing
  <2>3. TmpHolds' BY <1>8 DEF RenameFails, TmpHolds, OneWriter, Writing, Whole, Empty
  <2>4. FilesHold'
    BY <1>8 DEF RenameFails, FilesHold, Holds, NamesApart, TmpHolds, OneWriter, Writing, Whole
  <2>. QED BY <2>1, <2>2, <2>3, <2>4
<1>9. ASSUME NEW t \in Thread, DeviceFails(t) PROVE Orderly'
  <2>1. OneWriter' BY <1>9 DEF DeviceFails, OneWriter
  <2>2. NamesApart' BY <1>9 DEF DeviceFails, NamesApart, TmpHolds, Writing
  <2>3. TmpHolds' BY <1>9 DEF DeviceFails, TmpHolds, OneWriter, Writing, Whole, Empty
  <2>4. FilesHold'
    BY <1>9 DEF DeviceFails, FilesHold, Holds, NamesApart, TmpHolds, OneWriter, Writing, Whole
  <2>. QED BY <2>1, <2>2, <2>3, <2>4
<1>10. ASSUME NEW t \in Thread, CleanUp(t) PROVE Orderly'
  <2>1. OneWriter' BY <1>10 DEF CleanUp, OneWriter
  <2>2. NamesApart' BY <1>10 DEF CleanUp, NamesApart, TmpHolds, Writing
  <2>3. TmpHolds' BY <1>10 DEF CleanUp, TmpHolds, OneWriter, Writing, Whole, Empty
  <2>4. FilesHold'
    BY <1>10 DEF CleanUp, FilesHold, Holds, NamesApart, TmpHolds, OneWriter, Writing, Whole
  <2>. QED BY <2>1, <2>2, <2>3, <2>4
<1>11. CASE SyncNames
  <2>1. OneWriter' BY <1>11 DEF SyncNames, OneWriter
  <2>2. NamesApart' BY <1>11 DEF SyncNames, NamesApart
  <2>3. TmpHolds' BY <1>11 DEF SyncNames, TmpHolds, Writing
  <2>4. FilesHold' BY <1>11 DEF SyncNames, FilesHold, Holds, Whole
  <2>. QED BY <2>1, <2>2, <2>3, <2>4
<1>12. CASE PowerLoss
  <2>1. OneWriter' BY <1>12 DEF PowerLoss, OneWriter
  <2>2. NamesApart' BY <1>12 DEF PowerLoss, NamesApart
  <2>3. TmpHolds' BY <1>12 DEF PowerLoss, TmpHolds, Writing
  <2>4. FilesHold' BY <1>12 DEF PowerLoss, FilesHold, Holds, Whole, Unsynced
  <2>. QED BY <2>1, <2>2, <2>3, <2>4
<1>13. CASE UNCHANGED vars
  BY <1>13 DEF vars, OneWriter, NamesApart, TmpHolds, FilesHold, Holds, Writing, Whole
<1>. QED BY <1>1, <1>2, <1>3, <1>4, <1>5, <1>6, <1>7, <1>8, <1>9, <1>10, <1>11, <1>12, <1>13 DEF Next

\* Calls that have overlapped once are never taken for apart again.
LEMMA ApartBefore == [Next]_vars /\ apart' => apart
  BY DEF Next, vars, calls, Call, OpenNew, OpenExisting, WriteHead, WriteTail, Fsync,
         Rename, RenameFails, DeviceFails, CleanUp, SyncNames, PowerLoss

LEMMA NextInv == FileInv /\ [Next]_vars => FileInv'
  BY TypeStep, OrderlyStep, ApartBefore DEF FileInv

LEMMA Invariant == Spec => []FileInv
  BY InitInv, NextInv, PTL DEF Spec

\* The model's variables keep their types, and no thread that has left write()
\* keeps a file open.
THEOREM TypeCorrect == Spec => []TypeOK
<1>1. FileInv => TypeOK BY DEF FileInv
<1>. QED BY <1>1, Invariant, PTL

\* LinearRegion.write is atomic for callers that do not overlap: whatever
\* fails and wherever power is lost, the region file is absent or whole.
THEOREM WriteIsAtomic == Spec => []AtomicReplace
<1>1. FileInv => AtomicReplace BY DEF FileInv, Orderly, FilesHold, AtomicReplace
<1>. QED BY <1>1, Invariant, PTL

\* Overlapping or not, no write() takes a region file away that is there.
LEMMA FileStays ==
    ASSUME TypeOK, [Next]_vars, crashes' = crashes, path # NoInode
    PROVE  path' # NoInode
<1>1. ~PowerLoss BY FileAssumption DEF PowerLoss, TypeOK
<1>2. ASSUME NEW t \in Thread, Rename(t) PROVE path' # NoInode BY <1>2 DEF Rename
<1>3. path' = path \/ \E t \in Thread : Rename(t)
  BY <1>1
  DEF Next, vars, Call, OpenNew, OpenExisting, WriteHead, WriteTail, Fsync,
      RenameFails, DeviceFails, CleanUp, SyncNames
<1>. QED BY <1>2, <1>3

\* And as long as they do not overlap, none puts an older image in the place of a
\* newer one.
THEOREM WriteNeverOlder == Spec => NeverOlder
<1>1. ASSUME FileInv, apart, [Next]_vars, crashes' = crashes
      PROVE  stored' >= stored
  <2> USE FileAssumption DEF FileInv, TypeOK, Block
  <2>1. ASSUME NEW t \in Thread, Rename(t) PROVE stored' >= stored
    BY <1>1, <2>1 DEF Rename, Orderly, OneWriter
  <2>2. ~PowerLoss BY <1>1 DEF PowerLoss
  <2>3. stored \in Nat BY <1>1
  <2>4. stored' = stored \/ \E t \in Thread : Rename(t)
    BY <1>1, <2>2
    DEF Next, vars, Call, OpenNew, OpenExisting, WriteHead, WriteTail, Fsync,
        RenameFails, DeviceFails, CleanUp, SyncNames
  <2>. QED BY <2>1, <2>3, <2>4
<1>2. ASSUME FileInv, FileInv', apart, apart', stored' >= stored,
             path # NoInode, path' # NoInode
      PROVE  bytes'[path'].head >= bytes[path].head
  <2> USE DEF FileInv, Orderly, FilesHold, Holds
  <2>1. bytes[path].head = stored /\ bytes'[path'].head = stored' BY <1>2 DEF Whole
  <2>. QED BY <1>2, <2>1
<1>3. FileInv => TypeOK BY DEF FileInv
<1>4. FileInv /\ FileInv' /\ [Next]_vars =>
        [crashes' = crashes =>
            /\ path # NoInode => path' # NoInode
            /\ apart' =>
                  /\ stored' >= stored
                  /\ path # NoInode => bytes'[path'].head >= bytes[path].head]_vars
  BY <1>1, <1>2, <1>3, FileStays, ApartBefore
<1>. QED BY <1>4, Invariant, PTL DEF Spec, NeverOlder

-------------------------------------------------------------------------------
(* AnvilConversion.                                                        *)

\* Where the newest chunks of region r are: in the Anvil file as long as there is
\* one that can be read, and in the Linear file once it is converted.
Kept(r) ==
    /\ Anvil!Usable(aMca[r]) => Anvil!Readable(aMca[r]) = aLatest[r]
    /\ ~Anvil!Usable(aMca[r]) \/ aRenaming = r => aLinear[r] = aLatest[r]
    /\ aLinear[r] \in {Anvil!NoChunks, aLatest[r]}

\* An Anvil file that can be read is on the list until it is renamed.
OnList(r) ==
    /\ aPhase = "converting" /\ Anvil!Usable(aMca[r]) => r \in aTodo
    /\ aPhase = "serving" => ~Anvil!Usable(aMca[r])

ConversionInv ==
    /\ Anvil!TypeOK
    /\ aRenaming # NoRegion => aPhase = "converting" /\ aRenaming \in aTodo
    /\ \A r \in Region \ aSpoilt : Kept(r) /\ OnList(r)

-------------------------------------------------------------------------------
(* Files. *)

LEMMA ReadableType ==
    ASSUME NEW f \in Anvil!AnvilFile
    PROVE  Anvil!Readable(f) \in Anvil!LinearFile
BY AnvilAssumption DEF Anvil!Readable, Anvil!AnvilFile, Anvil!LinearFile, Anvil!Versions

LEMMA ReadableLinear ==
    ASSUME NEW f \in Anvil!LinearFile
    PROVE  /\ f \in Anvil!AnvilFile
           /\ Anvil!Readable(f) = f
BY AnvilAssumption DEF Anvil!Readable, Anvil!AnvilFile, Anvil!LinearFile, Anvil!Versions

LEMMA NoChunksType ==
    /\ Anvil!NoChunks \in Anvil!LinearFile /\ Anvil!NoChunks \in Anvil!AnvilFile
    /\ ~Anvil!Usable(Anvil!NoChunks)
<1>1. Anvil!NoChunks \in Anvil!LinearFile
  BY DEF Anvil!NoChunks, Anvil!LinearFile
<1>2. Anvil!NoChunks \in Anvil!AnvilFile /\ Anvil!Readable(Anvil!NoChunks) = Anvil!NoChunks
  BY <1>1, ReadableLinear
<1> QED
  BY <1>1, <1>2 DEF Anvil!Usable

-------------------------------------------------------------------------------
(* The initial states and the steps. *)

LEMMA ConversionInit == Anvil!Init => ConversionInv
<1> SUFFICES ASSUME Anvil!Init PROVE ConversionInv
  OBVIOUS
<1>1. aLinear \in [Region -> Anvil!LinearFile] /\ aMca \in [Region -> Anvil!AnvilFile]
  BY DEF Anvil!Init
<1>2. aBak \in [Region -> Anvil!AnvilFile]
  BY NoChunksType DEF Anvil!Init
<1>3. aLatest \in [Region -> Anvil!LinearFile]
  BY <1>1, ReadableType DEF Anvil!Init
<1>4. Anvil!TypeOK
  BY <1>1, <1>2, <1>3, AnvilAssumption DEF Anvil!Init, Anvil!TypeOK
<1>5. ASSUME NEW r \in Region PROVE Kept(r) /\ OnList(r)
  <2>1. Anvil!Usable(aMca[r]) => aLinear[r] = Anvil!NoChunks
    BY NoChunksType DEF Anvil!Init
  <2>2. aLatest[r] = IF Anvil!Usable(aMca[r]) THEN Anvil!Readable(aMca[r]) ELSE aLinear[r]
    BY DEF Anvil!Init
  <2>3. aRenaming # r /\ aPhase = "stopped"
    BY AnvilAssumption DEF Anvil!Init
  <2> QED
    BY <2>1, <2>2, <2>3 DEF Kept, OnList
<1> QED
  BY <1>4, <1>5 DEF Anvil!Init, ConversionInv

LEMMA StartKeeps == ConversionInv /\ Anvil!Start => ConversionInv'
<1> SUFFICES ASSUME ConversionInv, Anvil!Start PROVE ConversionInv'
  OBVIOUS
<1>1. Anvil!TypeOK'
  BY DEF Anvil!Start, ConversionInv, Anvil!TypeOK, Anvil!fileVars
<1>2. ASSUME NEW r \in Region \ aSpoilt' PROVE (Kept(r) /\ OnList(r))'
  <2>1. Kept(r)
    BY <1>2 DEF Anvil!Start, ConversionInv
  <2>2. Anvil!Usable(aMca[r]) => aMca[r] # Anvil!NoChunks
    BY NoChunksType
  <2> QED
    BY <2>1, <2>2 DEF Anvil!Start, Kept, OnList, Anvil!fileVars
<1> QED
  BY <1>1, <1>2 DEF Anvil!Start, ConversionInv

LEMMA ConvertKeeps == \A r \in Region : ConversionInv /\ Anvil!Convert(r) => ConversionInv'
<1> SUFFICES ASSUME NEW r \in Region, ConversionInv, Anvil!Convert(r) PROVE ConversionInv'
  OBVIOUS
<1>1. Anvil!Readable(aMca[r]) \in Anvil!LinearFile
  BY ReadableType DEF ConversionInv, Anvil!TypeOK
<1>2. Anvil!TypeOK'
  BY <1>1 DEF Anvil!Convert, ConversionInv, Anvil!TypeOK
<1>3. ASSUME NEW s \in Region \ aSpoilt' PROVE (Kept(s) /\ OnList(s))'
  <2>1. Kept(s) /\ OnList(s)
    BY <1>3 DEF Anvil!Convert, ConversionInv
  <2>2. CASE s = r
    <3>1. aLinear'[s] = Anvil!Readable(aMca[s])
      BY <2>2 DEF Anvil!Convert, ConversionInv, Anvil!TypeOK
    <3> QED
      BY <2>1, <2>2, <3>1 DEF Anvil!Convert, Kept, OnList
  <2>3. CASE s # r
    <3>1. aLinear'[s] = aLinear[s]
      BY <2>3 DEF Anvil!Convert, ConversionInv, Anvil!TypeOK
    <3> QED
      BY <2>1, <2>3, <3>1 DEF Anvil!Convert, Kept, OnList
  <2> QED
    BY <2>2, <2>3
<1> QED
  BY <1>2, <1>3 DEF Anvil!Convert, ConversionInv

\* What leaves the list without being renamed cannot be read, or is spoilt.
LEMMA UnlistKeeps ==
    \A r \in Region : ConversionInv /\ (Anvil!Skip(r) \/ Anvil!ConvertFails(r) \/ Anvil!RenameFails(r))
                      => ConversionInv'
<1> SUFFICES ASSUME NEW r \in Region, ConversionInv,
                    Anvil!Skip(r) \/ Anvil!ConvertFails(r) \/ Anvil!RenameFails(r)
             PROVE  ConversionInv'
  OBVIOUS
<1> USE DEF Anvil!Skip, Anvil!ConvertFails, Anvil!RenameFails, Anvil!fileVars
<1>1. Anvil!TypeOK'
  BY AnvilAssumption DEF ConversionInv, Anvil!TypeOK
<1>2. ASSUME NEW s \in Region \ aSpoilt' PROVE (Kept(s) /\ OnList(s))'
  <2>1. s \in Region \ aSpoilt
    BY <1>2
  <2>2. Kept(s) /\ OnList(s)
    BY <2>1 DEF ConversionInv
  <2>3. s = r => ~Anvil!Usable(aMca[r])
    BY <1>2
  <2> QED
    BY <2>2, <2>3, AnvilAssumption DEF Kept, OnList
<1> QED
  BY <1>1, <1>2, AnvilAssumption DEF ConversionInv

LEMMA RenameKeeps == \A r \in Region : ConversionInv /\ Anvil!Rename(r) => ConversionInv'
<1> SUFFICES ASSUME NEW r \in Region, ConversionInv, Anvil!Rename(r) PROVE ConversionInv'
  OBVIOUS
<1>1. Anvil!TypeOK'
  BY NoChunksType DEF Anvil!Rename, ConversionInv, Anvil!TypeOK
<1>2. ASSUME NEW s \in Region \ aSpoilt' PROVE (Kept(s) /\ OnList(s))'
  <2>1. Kept(s) /\ OnList(s)
    BY <1>2 DEF Anvil!Rename, ConversionInv
  <2>2. CASE s = r
    <3>1. ~Anvil!Usable(aMca'[s])
      BY <2>2, NoChunksType DEF Anvil!Rename, ConversionInv, Anvil!TypeOK
    <3> QED
      BY <2>1, <2>2, <3>1 DEF Anvil!Rename, Kept, OnList
  <2>3. CASE s # r
    <3>1. aMca'[s] = aMca[s]
      BY <2>3 DEF Anvil!Rename, ConversionInv, Anvil!TypeOK
    <3> QED
      BY <2>1, <2>3, <3>1, AnvilAssumption DEF Anvil!Rename, Kept, OnList
  <2> QED
    BY <2>2, <2>3
<1> QED
  BY <1>1, <1>2 DEF Anvil!Rename, ConversionInv

LEMMA ServeKeeps == ConversionInv /\ Anvil!Serve => ConversionInv'
<1> SUFFICES ASSUME ConversionInv, Anvil!Serve PROVE ConversionInv'
  OBVIOUS
<1>1. Anvil!TypeOK'
  BY DEF Anvil!Serve, ConversionInv, Anvil!TypeOK, Anvil!fileVars
<1>2. ASSUME NEW r \in Region \ aSpoilt' PROVE (Kept(r) /\ OnList(r))'
  BY <1>2 DEF Anvil!Serve, ConversionInv, Kept, OnList, Anvil!fileVars
<1>3. aRenaming = NoRegion
  BY DEF Anvil!Serve, ConversionInv
<1> QED
  BY <1>1, <1>2, <1>3 DEF Anvil!Serve, ConversionInv

LEMMA SaveKeeps ==
    \A r \in Region, c \in Chunk : ConversionInv /\ Anvil!Save(r, c) => ConversionInv'
<1> SUFFICES ASSUME NEW r \in Region, NEW c \in Chunk, ConversionInv, Anvil!Save(r, c)
             PROVE  ConversionInv'
  OBVIOUS
<1>1. PICK v \in Anvil!Versions : /\ aLinear' = [aLinear EXCEPT ![r][c] = v]
                            /\ aLatest' = [aLatest EXCEPT ![r][c] = v]
  BY DEF Anvil!Save
<1>2. aLinear' \in [Region -> Anvil!LinearFile] /\ aLatest' \in [Region -> Anvil!LinearFile]
  BY <1>1 DEF ConversionInv, Anvil!TypeOK, Anvil!LinearFile
<1>3. Anvil!TypeOK'
  BY <1>2 DEF Anvil!Save, ConversionInv, Anvil!TypeOK
<1>4. ASSUME NEW s \in Region \ aSpoilt' PROVE (Kept(s) /\ OnList(s))'
  <2>1. Kept(s) /\ OnList(s) /\ ~Anvil!Usable(aMca[s])
    BY <1>4 DEF Anvil!Save, ConversionInv, OnList
  <2>2. aLinear[s] = aLatest[s]
    BY <2>1 DEF Kept
  <2>3. aLinear'[s] = aLatest'[s]
    BY <1>1, <2>2 DEF ConversionInv, Anvil!TypeOK, Anvil!LinearFile
  <2> QED
    BY <2>1, <2>3 DEF Anvil!Save, Kept, OnList
<1> QED
  BY <1>3, <1>4 DEF Anvil!Save, ConversionInv

LEMMA HaltKeeps == ConversionInv /\ Anvil!Halt => ConversionInv'
<1> SUFFICES ASSUME ConversionInv, Anvil!Halt PROVE ConversionInv'
  OBVIOUS
<1>1. Anvil!TypeOK'
  BY DEF Anvil!Halt, ConversionInv, Anvil!TypeOK, Anvil!fileVars
<1>2. ASSUME NEW r \in Region \ aSpoilt' PROVE (Kept(r) /\ OnList(r))'
  BY <1>2, AnvilAssumption DEF Anvil!Halt, ConversionInv, Kept, OnList, Anvil!fileVars
<1> QED
  BY <1>1, <1>2 DEF Anvil!Halt, ConversionInv

\* What is exported is the newest where no conversion is still to come.
LEMMA ExportKeeps == \A r \in Region : ConversionInv /\ Anvil!Export(r) => ConversionInv'
<1> SUFFICES ASSUME NEW r \in Region, ConversionInv, Anvil!Export(r) PROVE ConversionInv'
  OBVIOUS
<1>1. aLinear[r] \in Anvil!LinearFile /\ aLinear[r] \in Anvil!AnvilFile
  BY ReadableLinear DEF ConversionInv, Anvil!TypeOK
<1>2. Anvil!TypeOK'
  BY <1>1 DEF Anvil!Export, ConversionInv, Anvil!TypeOK
<1>3. ASSUME NEW s \in Region \ aSpoilt' PROVE (Kept(s) /\ OnList(s))'
  <2>1. Kept(s) /\ OnList(s)
    BY <1>3 DEF Anvil!Export, ConversionInv
  <2>2. CASE s = r
    <3>1. aMca'[r] = aLinear[r] /\ Anvil!Readable(aLinear[r]) = aLinear[r]
      BY <1>1, ReadableLinear DEF Anvil!Export, ConversionInv, Anvil!TypeOK
    <3>2. aPhase = "stopped"
      BY <1>3, <2>2 DEF Anvil!Export
    <3>3. aLinear[r] = aLatest[r]
      BY <2>1, <2>2 DEF Anvil!Export, Kept
    <3> QED
      BY <2>1, <2>2, <3>1, <3>2, <3>3 DEF Anvil!Export, Kept, OnList
  <2>3. CASE s # r
    <3>1. aMca'[s] = aMca[s]
      BY <2>3 DEF Anvil!Export, ConversionInv, Anvil!TypeOK
    <3> QED
      BY <2>1, <3>1 DEF Anvil!Export, Kept, OnList
  <2> QED
    BY <2>2, <2>3
<1> QED
  BY <1>2, <1>3 DEF Anvil!Export, ConversionInv

LEMMA ConversionNext == ConversionInv /\ [Anvil!Next]_(Anvil!vars) => ConversionInv'
<1> SUFFICES ASSUME ConversionInv, [Anvil!Next]_(Anvil!vars) PROVE ConversionInv'
  OBVIOUS
<1>1. CASE UNCHANGED Anvil!vars
  BY <1>1 DEF Anvil!vars, Anvil!fileVars, ConversionInv, Anvil!TypeOK, Kept, OnList
<1> QED
  BY <1>1, StartKeeps, ServeKeeps, HaltKeeps, ConvertKeeps, UnlistKeeps, RenameKeeps, SaveKeeps,
     ExportKeeps DEF Anvil!Next

LEMMA ConversionInvariant == Anvil!Spec => []ConversionInv
BY ConversionInit, ConversionNext, PTL DEF Anvil!Spec

-------------------------------------------------------------------------------
\* The server serves the newest of every chunk: no conversion goes over a change,
\* however often a start crashes, but in the regions the property names.
THEOREM NewestServed == Anvil!Spec => []ServesNewest
<1>1. ConversionInv => ServesNewest
  BY DEF ConversionInv, ServesNewest, Anvil!ServesNewest, Kept, OnList
<1> QED
  BY ConversionInvariant, <1>1, PTL

-------------------------------------------------------------------------------
(* RegionMemory: the counter and the regions it counts.                    *)

MemoryInv == Memory!TypeOK /\ MemoryDriftIsGrowth

Cached == {r \in CacheRegion : Listed(mOrder, r)}

\* The counter m is off by what regions of the sizes s have grown since they had
\* the sizes b, when those of K are in the cache.
Drift(m, s, b, K) == m = SumOf(s, K) - (SumOf(s, CacheRegion) - SumOf(b, CacheRegion))

LEMMA SameSums == \A f, S : Memory!SumOf(f, S) = SumOf(f, S)
BY DEF Memory!SumOf, Memory!MapThenSumSet, Memory!MapThenFoldSet,
       SumOf, MapThenSumSet, MapThenFoldSet

LEMMA SameRemoval == \A s, i : Memory!RemoveAt(s, i) = RemoveAt(s, i)
BY DEF Memory!RemoveAt, RemoveAt

\* RegionMemory in the terms of DataTheorems.
LEMMA MemoryTerms ==
    ASSUME Memory!TypeOK
    PROVE  /\ Distinct(mOrder)
           /\ Memory!InCache = Cached
           /\ MemoryDriftIsGrowth <=> Drift(mMemory, mSize, mBase, Cached)
<1>1. mOrder \in Seq(CacheRegion) /\ Len(mOrder) \in Nat /\ DOMAIN mOrder = 1..Len(mOrder)
  BY LenProperties DEF Memory!TypeOK
<1>2. Distinct(mOrder)
  BY <1>1 DEF Memory!TypeOK, Memory!IsInjective, Distinct
<1>3. Memory!InCache = Cached
  BY <1>1, ElementOfSeq DEF Memory!InCache, Memory!ToSet, Cached, Listed
<1> QED
  BY <1>2, <1>3, SameSums
  DEF MemoryDriftIsGrowth, Memory!DriftIsGrowth, Memory!ActualMemory, Memory!Growth, Drift

\* What a step must show: the types, and the drift of the new values.
LEMMA MemoryStep ==
    ASSUME Memory!TypeOK', Drift(mMemory, mSize, mBase, Cached)'
    PROVE  MemoryInv'
<1>1. mOrder' \in Seq(CacheRegion) /\ Len(mOrder') \in Nat /\ DOMAIN mOrder' = 1..Len(mOrder')
  BY LenProperties DEF Memory!TypeOK
<1>2. Memory!InCache' = Cached'
  BY <1>1, ElementOfSeq DEF Memory!InCache, Memory!ToSet, Cached, Listed
<1> QED
  BY <1>2, SameSums
  DEF MemoryInv, MemoryDriftIsGrowth, Memory!DriftIsGrowth, Memory!ActualMemory,
      Memory!Growth, Drift

LEMMA OrderType ==
    ASSUME NEW s \in Seq(CacheRegion), Distinct(s)
    PROVE  Memory!IsInjective(s)
<1>1. DOMAIN s = 1..Len(s)
  BY LenProperties
<1> QED
  BY <1>1 DEF Distinct, Memory!IsInjective

LEMMA CacheTypes ==
    ASSUME Memory!TypeOK
    PROVE  /\ IsFiniteSet(CacheRegion) /\ IsFiniteSet(Cached)
           /\ Cached \in SUBSET CacheRegion
           /\ mSize \in [CacheRegion -> Int] /\ mBase \in [CacheRegion -> Int]
           /\ \A S \in SUBSET CacheRegion : SumOf(mSize, S) \in Int /\ SumOf(mBase, S) \in Int
<1>1. IsFiniteSet(CacheRegion) /\ MaxSize \in Nat
  BY CacheAssumption DEF Memory!MemoryAssumption, Memory!IsFiniteSet, IsFiniteSet
<1>2. Cached \in SUBSET CacheRegion
  BY DEF Cached
<1>3. mSize \in [CacheRegion -> Int] /\ mBase \in [CacheRegion -> Int]
  BY <1>1 DEF Memory!TypeOK
<1>4. \A S \in SUBSET CacheRegion : IsFiniteSet(S)
  BY <1>1, FS_Subset
<1> QED
  BY <1>1, <1>2, <1>3, <1>4, SumType

LEMMA MemoryInit == Memory!Init => MemoryInv
<1> SUFFICES ASSUME Memory!Init PROVE MemoryInv
  OBVIOUS
<1>1. mOrder = <<>> /\ mOrder \in Seq(CacheRegion) /\ Distinct(mOrder) /\ Cached = {}
  BY DEF Memory!Init, Distinct, Cached, Listed
<1>2. Memory!TypeOK
  <2>1. Memory!IsInjective(mOrder)
    BY <1>1, OrderType
  <2>2. mMemory = 0 /\ mEvicting \in BOOLEAN
    BY Zenon DEF Memory!Init
  <2>3. mSize \in [CacheRegion -> 1..MaxSize] /\ mBase \in [CacheRegion -> 1..MaxSize]
    BY DEF Memory!Init
  <2> QED
    BY <1>1, <2>1, <2>2, <2>3 DEF Memory!TypeOK
<1>3. Drift(mMemory, mSize, mBase, Cached)
  BY <1>1, <1>2, CacheTypes, SumEmpty DEF Memory!Init, Drift
<1> QED
  BY <1>2, <1>3, MemoryTerms DEF MemoryInv

\* The position of a cached region, and the keys without it.
LEMMA LeaveKeys ==
    ASSUME Memory!TypeOK, NEW r \in Cached
    PROVE  /\ Memory!Without(r) \in Seq(CacheRegion) /\ Distinct(Memory!Without(r))
           /\ \A k : Listed(Memory!Without(r), k) <=> Listed(mOrder, k) /\ k # r
<1>1. Memory!Position(r) \in 1..Len(mOrder) /\ mOrder[Memory!Position(r)] = r
  BY DEF Memory!Position, Cached, Listed
<1>2. Distinct(mOrder) /\ mOrder \in Seq(CacheRegion)
  BY MemoryTerms DEF Memory!TypeOK
<1> QED
  BY <1>1, <1>2, RemoveKey, SameRemoval DEF Memory!Without

LEMMA HitKeeps == \A r \in CacheRegion : MemoryInv /\ Memory!Hit(r) => MemoryInv'
<1> SUFFICES ASSUME NEW r \in CacheRegion, MemoryInv, Memory!Hit(r) PROVE MemoryInv'
  OBVIOUS
<1>1. r \in Cached
  BY MemoryTerms DEF Memory!Hit, MemoryInv
<1> DEFINE rest == Memory!Without(r)
<1>2. /\ rest \in Seq(CacheRegion) /\ Distinct(rest)
      /\ \A k : Listed(rest, k) <=> Listed(mOrder, k) /\ k # r
  BY <1>1, LeaveKeys DEF MemoryInv
<1> HIDE DEF rest
<1>3. mOrder' = Append(rest, r)
  BY DEF Memory!Hit, Memory!Touch, rest
<1>4. /\ mOrder' \in Seq(CacheRegion) /\ Distinct(mOrder')
      /\ \A k : Listed(mOrder', k) <=> Listed(rest, k) \/ k = r
  BY <1>2, <1>3, AppendKey
<1>5. Cached' = Cached
  BY <1>1, <1>2, <1>4 DEF Cached
<1>6. Memory!TypeOK'
  BY <1>4, OrderType DEF MemoryInv, Memory!TypeOK, Memory!Hit
<1>7. Drift(mMemory, mSize, mBase, Cached)
  BY MemoryTerms DEF MemoryInv
<1> QED
  BY <1>5, <1>6, <1>7, MemoryStep DEF Memory!Hit, Drift

LEMMA PutKeeps == \A r \in CacheRegion : MemoryInv /\ Memory!Put(r) => MemoryInv'
<1> SUFFICES ASSUME NEW r \in CacheRegion, MemoryInv, Memory!Put(r) PROVE MemoryInv'
  OBVIOUS
<1>1. r \notin Cached /\ ~Listed(mOrder, r) /\ Distinct(mOrder)
  BY MemoryTerms DEF Memory!Put, MemoryInv, Cached
<1>2. /\ mOrder' \in Seq(CacheRegion) /\ Distinct(mOrder')
      /\ \A k : Listed(mOrder', k) <=> Listed(mOrder, k) \/ k = r
  BY <1>1, AppendKey DEF Memory!Put, MemoryInv, Memory!TypeOK
<1>3. Cached' = Cached \cup {r}
  BY <1>2 DEF Cached
<1>4. mSize[r] \in Int
  BY CacheTypes DEF MemoryInv
<1>5. Memory!TypeOK'
  <2>1. Memory!IsInjective(mOrder')
    BY <1>2, OrderType
  <2>2. mMemory' \in Int
    BY <1>4 DEF MemoryInv, Memory!TypeOK, Memory!Put
  <2> QED
    BY <1>2, <2>1, <2>2 DEF MemoryInv, Memory!TypeOK, Memory!Put
<1>6. Drift(mMemory, mSize, mBase, Cached)
  BY MemoryTerms DEF MemoryInv
<1>7. SumOf(mSize, Cached') = SumOf(mSize, Cached) + mSize[r]
  BY <1>1, <1>3, CacheTypes, SumAdd DEF MemoryInv
<1>8. /\ SumOf(mSize, Cached) \in Int
      /\ SumOf(mSize, CacheRegion) \in Int /\ SumOf(mBase, CacheRegion) \in Int
  BY CacheTypes DEF MemoryInv
<1>9. Drift(mMemory, mSize, mBase, Cached)'
  BY <1>4, <1>6, <1>7, <1>8 DEF Memory!Put, Drift
<1> QED
  BY <1>5, <1>9, MemoryStep

\* A region leaves and takes the size it has then.
LEMMA LeaveKeeps ==
    ASSUME MemoryInv, NEW r \in Cached, mMemory' = mMemory - mSize[r],
           mOrder' \in Seq(CacheRegion), Distinct(mOrder'),
           \A k : Listed(mOrder', k) <=> Listed(mOrder, k) /\ k # r,
           UNCHANGED <<mSize, mBase, mEvicting>>
    PROVE  MemoryInv'
<1>1. Cached' = Cached \ {r}
  BY DEF Cached
<1>2. mSize[r] \in Int
  BY CacheTypes DEF MemoryInv
<1>3. Memory!TypeOK'
  BY <1>2, OrderType DEF MemoryInv, Memory!TypeOK
<1>4. Drift(mMemory, mSize, mBase, Cached)
  BY MemoryTerms DEF MemoryInv
<1>5. SumOf(mSize, Cached) = mSize[r] + SumOf(mSize, Cached')
  <2>1. Cached \in SUBSET CacheRegion /\ IsFiniteSet(Cached) /\ mSize \in [CacheRegion -> Int]
    BY CacheTypes DEF MemoryInv
  <2> QED
    BY <1>1, <2>1, SumRemove
<1>6. /\ Cached' \in SUBSET CacheRegion
      /\ SumOf(mSize, Cached') \in Int
      /\ SumOf(mSize, CacheRegion) \in Int /\ SumOf(mBase, CacheRegion) \in Int
  BY <1>1, CacheTypes DEF MemoryInv
<1>7. Drift(mMemory, mSize, mBase, Cached)'
  BY <1>2, <1>4, <1>5, <1>6 DEF Drift
<1> QED
  BY <1>3, <1>7, MemoryStep

LEMMA DiscardKeeps == \A r \in CacheRegion : MemoryInv /\ Memory!Discard(r) => MemoryInv'
<1> SUFFICES ASSUME NEW r \in CacheRegion, MemoryInv, Memory!Discard(r) PROVE MemoryInv'
  OBVIOUS
<1>1. r \in Cached
  BY MemoryTerms DEF Memory!Discard, MemoryInv
<1> QED
  BY <1>1, LeaveKeys, LeaveKeeps DEF Memory!Discard, MemoryInv

LEMMA EvictKeeps == MemoryInv /\ Memory!Evict => MemoryInv'
<1> SUFFICES ASSUME MemoryInv, Memory!Evict PROVE MemoryInv'
  OBVIOUS
<1>1. Distinct(mOrder) /\ mOrder # <<>> /\ mOrder \in Seq(CacheRegion)
  BY MemoryTerms DEF MemoryInv, Memory!TypeOK, Memory!Evict
<1>2. /\ Tail(mOrder) \in Seq(CacheRegion) /\ Distinct(Tail(mOrder))
      /\ Head(mOrder) \in Cached
      /\ \A k : Listed(Tail(mOrder), k) <=> Listed(mOrder, k) /\ k # Head(mOrder)
  BY <1>1, DropHead DEF Cached
<1> QED
  BY <1>2, LeaveKeeps DEF Memory!Evict

LEMMA SetChunkKeeps ==
    \A r \in CacheRegion, n \in 1..MaxSize : MemoryInv /\ Memory!SetChunk(r, n) => MemoryInv'
<1> SUFFICES ASSUME NEW r \in CacheRegion, NEW n \in 1..MaxSize, MemoryInv,
                    Memory!SetChunk(r, n)
             PROVE  MemoryInv'
  OBVIOUS
<1>1. r \in Cached /\ Cached' = Cached /\ n \in Int
  BY MemoryTerms, CacheAssumption
  DEF Memory!SetChunk, MemoryInv, Cached, Memory!MemoryAssumption
<1>2. Memory!TypeOK'
  BY DEF MemoryInv, Memory!TypeOK, Memory!SetChunk
<1>3. Drift(mMemory, mSize, mBase, Cached)
  BY MemoryTerms DEF MemoryInv
<1>4. /\ SumOf(mSize', Cached) = SumOf(mSize, Cached) + n - mSize[r]
      /\ SumOf(mSize', CacheRegion) = SumOf(mSize, CacheRegion) + n - mSize[r]
  <2>1. /\ Cached \in SUBSET CacheRegion /\ IsFiniteSet(Cached) /\ IsFiniteSet(CacheRegion)
        /\ mSize \in [CacheRegion -> Int] /\ mSize' = [mSize EXCEPT ![r] = n]
    BY CacheTypes DEF MemoryInv, Memory!SetChunk
  <2>2. SumOf([mSize EXCEPT ![r] = n], Cached) = SumOf(mSize, Cached) + n - mSize[r]
    BY <1>1, <2>1, SumChange
  <2>3. SumOf([mSize EXCEPT ![r] = n], CacheRegion) = SumOf(mSize, CacheRegion) + n - mSize[r]
    <3>1. CacheRegion \in SUBSET CacheRegion
      OBVIOUS
    <3> QED
      BY <1>1, <2>1, <3>1, SumChange
  <2> QED
    BY <2>1, <2>2, <2>3
<1>5. /\ SumOf(mSize, Cached) \in Int /\ mSize[r] \in Int
      /\ SumOf(mSize, CacheRegion) \in Int /\ SumOf(mBase, CacheRegion) \in Int
  BY CacheTypes DEF MemoryInv
<1>6. Drift(mMemory, mSize, mBase, Cached)'
  BY <1>1, <1>3, <1>4, <1>5 DEF Memory!SetChunk, Drift
<1> QED
  BY <1>2, <1>6, MemoryStep

LEMMA ClearKeeps == MemoryInv /\ Memory!Clear => MemoryInv'
<1> SUFFICES ASSUME MemoryInv, Memory!Clear PROVE MemoryInv'
  OBVIOUS
<1>1. mOrder' = <<>> /\ mOrder' \in Seq(CacheRegion) /\ Distinct(mOrder') /\ Cached' = {}
  BY DEF Memory!Clear, Distinct, Cached, Listed
<1>2. Memory!TypeOK'
  <2>1. Memory!IsInjective(mOrder')
    BY <1>1, OrderType
  <2> QED
    BY <1>1, <2>1 DEF MemoryInv, Memory!TypeOK, Memory!Clear
<1>3. SumOf(mSize, CacheRegion) \in Int
  BY CacheTypes DEF MemoryInv
<1>4. Drift(mMemory, mSize, mBase, Cached)'
  BY <1>1, <1>3, SumEmpty DEF Memory!Clear, Drift
<1> QED
  BY <1>2, <1>4, MemoryStep

LEMMA MemoryNext == MemoryInv /\ [Memory!Next]_(Memory!vars) => MemoryInv'
<1> SUFFICES ASSUME MemoryInv, [Memory!Next]_(Memory!vars) PROVE MemoryInv'
  OBVIOUS
<1>1. CASE Memory!EvictDone \/ UNCHANGED Memory!vars
  <2>1. UNCHANGED <<mOrder, mSize, mMemory, mBase>> /\ mEvicting' \in BOOLEAN
    BY <1>1 DEF Memory!EvictDone, Memory!vars, MemoryInv, Memory!TypeOK
  <2>2. Memory!TypeOK'
    BY <2>1 DEF MemoryInv, Memory!TypeOK
  <2>3. Drift(mMemory, mSize, mBase, Cached)'
    BY <2>1, MemoryTerms DEF MemoryInv, Drift, Cached
  <2> QED
    BY <2>2, <2>3, MemoryStep
<1> QED
  BY <1>1, EvictKeeps, ClearKeeps, HitKeeps, PutKeeps, DiscardKeeps, SetChunkKeeps
  DEF Memory!Next

\* The counter is off by exactly what the regions have grown while they were in the
\* cache, whatever their number, their sizes and the limits: the error only adds up.
THEOREM MemoryDrifts == Memory!Spec => []MemoryDriftIsGrowth
<1>1. MemoryInv => MemoryDriftIsGrowth
  BY DEF MemoryInv
<1> QED
  BY MemoryInit, MemoryNext, <1>1, PTL DEF Memory!Spec
================================================================================
