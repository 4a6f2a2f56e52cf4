SPECIFICATION FilesSpec
CONSTANTS
    Thread = {t1, t2}
    Inode = {i1, i2, i3}
    NoInode = NoInode
    MaxVersion = 3
    MaxCrashes = 1
    CacheRegion = {r1, r2, r3}
    MaxRegions = 2
    MaxMemory = 4
    MaxSize = 3
    Region = {a1, a2}
    Chunk = {c1, c2}
    MaxEdits = 2
    MaxFaults = 1
    None = None
    Bad = Bad
    NoRegion = NoRegion
SYMMETRY Symmetry
INVARIANTS AtomicReplace  ServesNewest
PROPERTIES NeverOlder
CHECK_DEADLOCK FALSE
