SPECIFICATION ConnectionsSpec
CONSTANTS
    Timeout = 3
    MaxDelay = 3
    MaxStall = 5
    NoTime = NoTime
    Conn = {k1, k2}
    Name = {alice, bob}
    Nobody = Nobody
    Slow = {k1}
    MaxFrames = 3
    MaxJoins = 2
INVARIANTS HealthyStays FramesFirstInOrder FramesNothingLost
PROPERTIES OnlyStallDrops FramesQueuesEmpty
CHECK_DEADLOCK FALSE
