SPECIFICATION AllSpec
CONSTANTS
    Task = {t1, t2, t3}
    Plugin = {p1, p2}
    NoTask = NoTask
    Interval = {1, 2}
    Delay = {0, 2}
    MaxTicks = 3
    m1 = m1
    m2 = m2
    m3 = m3
    Msg = {m1, m2, m3}
    Size <- SizeMC
    Capacity = 16
    MaxRead = 5
    Blank = Blank
    Garbled = Garbled
    None = None
    MaxMissed = 1
    MaxLaunches = 1
    MaxCrashes = 1
    Id = {1, 2, 3}
    Directories <- DirectoriesMC
SYMMETRY Symmetry
INVARIANTS DependenciesKept
PROPERTIES ImplementsTimers ServerOnTime RingImplementsChannel PromptStays
CHECK_DEADLOCK FALSE
