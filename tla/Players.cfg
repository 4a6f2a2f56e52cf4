SPECIFICATION AllSpec
CONSTANTS
    Conn = {k1, k2}
    Player = {alice}
    Nobody = Nobody
    NoFile = NoFile
    NoItems = NoItems
    MaxChanges = 1
    MaxFaults = 1
    MaxCrashes = 1
    Peer = {k1, k2, k3}
    SlowPeer = {k1}
    KickedPeer = {k2}
    OldPeer = {}
    Entity = {e1, e2}
    Known = {e1, e2}
    Viewer = {k1}
    Loop = Loop
    MaxMoves = 2
    Caller = Caller
    Durations = {0, 2}
    CommandDuration = 3
    MaxOrders = 2
    SlowConn = {k1}
INVARIANTS Remembered SeenAreOnline ClientsInSync SkyIsWeather
 
