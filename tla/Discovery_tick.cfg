SPECIFICATION FairSpec
CONSTANTS
    Config <- TwoShops
    PagesOf <- OnePageEach
    Grids <- RodComesAndGoes
    Unsafe = {}
    Cap <- FirstCapped
    Interval = 2
    MaxPages <- TwoThenOne
    MaxTasks = 1
    Deadline = 2
    TTL = 3
    Latency = {0, 1}
    Delay = {0, 2}
    MaxPause = 1
    MaxTicks = 2
    Horizon = 4
INVARIANTS
    CapHolds
    ExpiryIsAccountedFor
    SightingsArePlanned
    SweptIsRecorded
PROPERTIES
    TickEnds
CHECK_DEADLOCK FALSE
