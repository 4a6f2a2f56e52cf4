------------------------------ MODULE RegionFile ------------------------------
(***************************************************************************)
(* world/storage.py, LinearRegion.write: a region file is replaced by      *)
(* writing <path>.tmp, syncing it and renaming it over <path>.             *)
(* WorldStorage.save_player_data and ContainerManager.save use the same    *)
(* sequence of calls on their own paths.                                   *)
(*                                                                         *)
(* The file system is modelled as POSIX gives it: a name refers to an      *)
(* inode, an open file keeps its inode when the name moves or goes, and    *)
(* opening with 'wb' truncates the inode the name refers to.  A file is    *)
(* written in two blocks, enough for a torn one to be visible.  write()    *)
(* syncs the file and never the directory, so the two names reach the      *)
(* device when the kernel likes.                                           *)
(***************************************************************************)
EXTENDS Naturals

CONSTANTS Thread,     \* threads that may call write() for this path
          Inode,      \* inodes of the directory
          NoInode,    \* the name does not exist
          MaxVersion, \* bound: number of calls of write()
          MaxCrashes  \* bound: number of crashes

ASSUME FileAssumption ==
    /\ NoInode \notin Inode
    /\ MaxVersion \in Nat
    /\ MaxCrashes \in Nat

VARIABLES tmp,      \* inode of <path>.tmp
          path,     \* inode of <path>
          devTmp,   \* what the device has for <path>.tmp
          devPath,  \* what the device has for <path>
          bytes,    \* bytes[i]: the two blocks of inode i as the kernel has them
          synced,   \* synced[i]: the two blocks as the device has them
          pc,       \* pc[t]: where thread t is inside write()
          fd,       \* fd[t]: inode of the open temporary file
          image,    \* image[t]: number of the image thread t is writing
          version,  \* images handed to write() so far
          apart,    \* history: no call of write() has begun during another
          stored,   \* history: the image of the last write() that succeeded
          kept,     \* history: what stored was when the names were last synced
          crashes

dev == <<devTmp, devPath, kept>>
calls == <<version, apart>>
vars == <<tmp, path, dev, bytes, synced, pc, fd, image, calls, stored, crashes>>

Steps == {"idle", "open", "head", "tail", "fsync", "rename", "failed"}

\* A block holds the number of the image it belongs to; 0 is no data.
Block == 0..MaxVersion
Blocks == [head : Block, tail : Block]
Empty == [head |-> 0, tail |-> 0]
Whole(v) == [head |-> v, tail |-> v]

TypeOK ==
    /\ tmp \in Inode \cup {NoInode}
    /\ path \in Inode \cup {NoInode}
    /\ devTmp \in Inode \cup {NoInode}
    /\ devPath \in Inode \cup {NoInode}
    /\ bytes \in [Inode -> Blocks]
    /\ synced \in [Inode -> Blocks]
    /\ pc \in [Thread -> Steps]
    /\ fd \in [Thread -> Inode \cup {NoInode}]
    /\ image \in [Thread -> Block]
    /\ version \in Block
    /\ apart \in BOOLEAN
    /\ stored \in Block
    /\ kept \in Block
    /\ crashes \in 0..MaxCrashes
    /\ \A t \in Thread : pc[t] = "idle" => fd[t] = NoInode

Init ==
    /\ tmp = NoInode
    /\ path = NoInode
    /\ devTmp = NoInode
    /\ devPath = NoInode
    /\ bytes = [i \in Inode |-> Empty]
    /\ synced = [i \in Inode |-> Empty]
    /\ pc = [t \in Thread |-> "idle"]
    /\ fd = [t \in Thread |-> NoInode]
    /\ image = [t \in Thread |-> 0]
    /\ version = 0
    /\ apart = TRUE
    /\ stored = 0
    /\ kept = 0
    /\ crashes = 0

-------------------------------------------------------------------------------
\* write() is called with the next image of the region.
Call(t) ==
    /\ pc[t] = "idle"
    /\ version < MaxVersion
    /\ version' = version + 1
    /\ apart' = (apart /\ \A u \in Thread : pc[u] = "idle")
    /\ image' = [image EXCEPT ![t] = version + 1]
    /\ pc' = [pc EXCEPT ![t] = "open"]
    /\ UNCHANGED <<tmp, path, dev, bytes, synced, fd, stored, crashes>>

\* Mutant: the region file is opened in place, without a temporary file.
OpenInPlace(t) ==
    /\ pc[t] = "open"
    /\ \E i \in Inode :
          /\ path \in {i, NoInode}
          /\ path' = i /\ tmp' = i
          /\ fd' = [fd EXCEPT ![t] = i]
          /\ bytes' = [bytes EXCEPT ![i] = Empty]
    /\ pc' = [pc EXCEPT ![t] = "head"]
    /\ UNCHANGED <<dev, synced, image, calls, stored, crashes>>

\* open(tmp_path, 'wb') when there is no such name
OpenNew(t) ==
    /\ pc[t] = "open"
    /\ tmp = NoInode
    /\ \E i \in Inode :
          /\ i \notin {path, devPath, devTmp}
          /\ \A u \in Thread : fd[u] # i
          /\ tmp' = i
          /\ fd' = [fd EXCEPT ![t] = i]
          /\ bytes' = [bytes EXCEPT ![i] = Empty]
          /\ synced' = [synced EXCEPT ![i] = Empty]
    /\ pc' = [pc EXCEPT ![t] = "head"]
    /\ UNCHANGED <<path, dev, image, calls, stored, crashes>>

\* open(tmp_path, 'wb') of a file left by a crash, or being written
OpenExisting(t) ==
    /\ pc[t] = "open"
    /\ tmp # NoInode
    /\ fd' = [fd EXCEPT ![t] = tmp]
    /\ bytes' = [bytes EXCEPT ![tmp] = Empty]
    /\ pc' = [pc EXCEPT ![t] = "head"]
    /\ UNCHANGED <<tmp, path, dev, synced, image, calls, stored, crashes>>

\* f.write(header) and the first part of the compressed data
WriteHead(t) ==
    /\ pc[t] = "head"
    /\ bytes' = [bytes EXCEPT ![fd[t]].head = image[t]]
    /\ pc' = [pc EXCEPT ![t] = "tail"]
    /\ UNCHANGED <<tmp, path, dev, synced, fd, image, calls, stored, crashes>>

\* the rest of the data, f.write(footer), f.flush()
WriteTail(t) ==
    /\ pc[t] = "tail"
    /\ bytes' = [bytes EXCEPT ![fd[t]].tail = image[t]]
    /\ pc' = [pc EXCEPT ![t] = "fsync"]
    /\ UNCHANGED <<tmp, path, dev, synced, fd, image, calls, stored, crashes>>

\* Mutant: f.flush() without os.fsync.
FlushOnly(t) ==
    /\ pc[t] = "fsync"
    /\ pc' = [pc EXCEPT ![t] = "rename"]
    /\ UNCHANGED <<tmp, path, dev, bytes, synced, fd, image, calls, stored, crashes>>

\* os.fsync(f.fileno())
Fsync(t) ==
    /\ pc[t] = "fsync"
    /\ synced' = [synced EXCEPT ![fd[t]] = bytes[fd[t]]]
    /\ pc' = [pc EXCEPT ![t] = "rename"]
    /\ UNCHANGED <<tmp, path, dev, bytes, fd, image, calls, stored, crashes>>

\* os.replace / os.rename: the name moves, whatever inode it refers to by now
Rename(t) ==
    /\ pc[t] = "rename"
    /\ tmp # NoInode
    /\ path' = tmp
    /\ tmp' = NoInode
    /\ stored' = image[t]
    /\ pc' = [pc EXCEPT ![t] = "idle"]
    /\ fd' = [fd EXCEPT ![t] = NoInode]
    /\ UNCHANGED <<dev, bytes, synced, image, calls, crashes>>

\* The name is gone: FileNotFoundError.
RenameFails(t) ==
    /\ pc[t] = "rename"
    /\ tmp = NoInode
    /\ pc' = [pc EXCEPT ![t] = "failed"]
    /\ UNCHANGED <<tmp, path, dev, bytes, synced, fd, image, calls, stored, crashes>>

\* The device is full or fails while the temporary file is written.
DeviceFails(t) ==
    /\ pc[t] \in {"open", "head", "tail", "fsync"}
    /\ pc' = [pc EXCEPT ![t] = "failed"]
    /\ UNCHANGED <<tmp, path, dev, bytes, synced, fd, image, calls, stored, crashes>>

\* except: unlink the temporary name if it exists, raise to the caller
CleanUp(t) ==
    /\ pc[t] = "failed"
    /\ tmp' = NoInode
    /\ pc' = [pc EXCEPT ![t] = "idle"]
    /\ fd' = [fd EXCEPT ![t] = NoInode]
    /\ UNCHANGED <<path, dev, bytes, synced, image, calls, stored, crashes>>

-------------------------------------------------------------------------------
\* The kernel writes the directory back, whenever it likes.
SyncNames ==
    /\ <<devTmp, devPath>> # <<tmp, path>>
    /\ devTmp' = tmp
    /\ devPath' = path
    /\ kept' = stored
    /\ UNCHANGED <<tmp, path, bytes, synced, pc, fd, image, calls, stored, crashes>>

\* The files whose latest blocks the device may not have.
Unsynced == {i \in Inode : bytes[i] # synced[i]}

\* Power is lost: the names are those on the device, and a block holds either
\* what was synced or what the kernel had.
PowerLoss ==
    /\ crashes < MaxCrashes
    /\ crashes' = crashes + 1
    /\ tmp' = devTmp
    /\ path' = devPath
    /\ stored' = kept
    /\ \E h, l \in SUBSET Unsynced :
          bytes' = [i \in Inode |->
                       [head |-> IF i \in h THEN bytes[i].head ELSE synced[i].head,
                        tail |-> IF i \in l THEN bytes[i].tail ELSE synced[i].tail]]
    /\ synced' = bytes'
    /\ pc' = [t \in Thread |-> "idle"]
    /\ fd' = [t \in Thread |-> NoInode]
    /\ UNCHANGED <<dev, image, calls>>

Next ==
    \/ SyncNames
    \/ PowerLoss
    \/ \E t \in Thread :
          \/ Call(t) \/ OpenNew(t) \/ OpenExisting(t)
          \/ WriteHead(t) \/ WriteTail(t) \/ Fsync(t)
          \/ Rename(t) \/ RenameFails(t) \/ DeviceFails(t) \/ CleanUp(t)

Spec == Init /\ [][Next]_vars

-------------------------------------------------------------------------------
(* Properties.                                                             *)

\* A name is absent exactly when no image was stored, and otherwise refers to
\* all of that image, in the kernel and on the device.
Holds(name, v) ==
    /\ v = 0 <=> name = NoInode
    /\ name # NoInode => bytes[name] = Whole(v) /\ synced[name] = Whole(v)

\* "Atomic write (temporary file first, then rename)": as long as calls of
\* write() have not overlapped, the region file is at every instant absent or
\* exactly the image of the last write() that returned, whatever has failed
\* since; and losing power now would leave one earlier image, whole.
AtomicReplace == apart => Holds(path, stored) /\ Holds(devPath, kept)

\* While the power stays on, a region file that is there stays there, even when
\* writers overlap: the one whose rename finds no temporary file fails, and removes
\* nothing else.  As long as they have not overlapped, the file never goes back to
\* an older image, across failed writes and temporary files left by a crash.
NeverOlder ==
    [][crashes' = crashes =>
          /\ path # NoInode => path' # NoInode
          /\ apart' =>
                /\ stored' >= stored
                /\ path # NoInode => bytes'[path'].head >= bytes[path].head]_vars
===============================================================================
