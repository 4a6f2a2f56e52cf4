SPECIFICATION EnginesSpec
CONSTANTS
    LastChunk = 1
    Chunk <- Row
    View <- RowView
    Spawn = 0
    Immediate <- Nearest
    MaxMoves = 3
    MaxFaults = 1
    Player = {p1}
    Area = {c1}
    Edit = {e1}
    NoChunk = NoChunk
    MaxRequests = 2
    Cells <- Room
    Worlds <- SomeWorlds
    Kinds = {"water", "lava"}
    Diggable <- Room
    Reach <- ReachMC
    Speed <- SpeedMC
    MaxEdits = 2
    RedCells <- Board
    Handy <- Board
    Layouts <- SomeLayouts
    Pieces <- SomePieces
    ButtonTime = 2
    Fuse = 3
    Threshold = 3
    Window = 8
    Burnout = 4
    PushLimit = 2
    MaxActions = 2
INVARIANTS UnfedFluidIsPending   RedstoneWireLevels
PROPERTIES FluidFlowEnds 
CHECK_DEADLOCK FALSE
