SPECIFICATION Spec
CONSTANTS
    Thread = {loop, worker}
    Region = {r1, r2}
    Chunk = {c1}
    Data = {d1}
    Object = {o1, o2, o3}
    NoData = NoData
    NoFile = NoFile
    None = None
    MaxRegions = 1
    MaxCrashes = 0
    MaxFaults = 1
SYMMETRY ThreadSymmetry
INVARIANTS  CacheBounded
