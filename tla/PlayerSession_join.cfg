SPECIFICATION Spec
CONSTANTS
    Conn = {k1}
    Player = {alice}
    Nobody = Nobody
    NoFile = NoFile
    NoItems = NoItems
    MaxChanges = 1
    MaxFaults = 0
    MaxCrashes = 1
SYMMETRY SessionSymmetry

PROPERTIES ProgressIsKept
