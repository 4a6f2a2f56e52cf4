SPECIFICATION ChunksSpec
CONSTANTS
    LastChunk = 4
    Chunk <- Row
    View <- RowView
    Spawn = 1
    Immediate <- Nearest
    MaxMoves = 3
    MaxFaults = 1
    Player = {p1, p2}
    Area = {c1, c2}
    Edit = {e1}
    NoChunk = NoChunk
    MaxRequests = 2
INVARIANTS NoMoveMissed ViewIsLoaded ClientInSync  
PROPERTIES SurroundingsArrive
CHECK_DEADLOCK FALSE
