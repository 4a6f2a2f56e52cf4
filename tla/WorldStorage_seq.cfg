SPECIFICATION FairSpec
CONSTANTS
    Thread = {loop}
    Region = {r1, r2, r3}
    Chunk = {c1}
    Data = {d1}
    Object = {o1, o2, o3}
    NoData = NoData
    NoFile = NoFile
    None = None
    MaxRegions = 2
    MaxCrashes = 1
    MaxFaults = 2
INVARIANTS UnsavedIsDirty
PROPERTIES ImplementsStore DirtyIsFlushed
