\* Small budgets, and a cooldown that one delay may outlast, so that the breaker
\* reopens and trips again within a tick.
SPECIFICATION Spec
CONSTANTS
    DrainKinds = {"ENROLL", "CONFIRM"}
    MinDelay = 1
    Jitter = 1
    MaxHour = 1
    MaxDay = 4
    ReservedPct = 50
    Hour = 3
    Day = 7
    ConsecutiveBlocks = 2
    MinSample = 2
    BlockRatePct = 40
    Cooldown = 2
    MaxTrips = 2
    TripWindow = 4
    MaxPause = 1
    MaxContacts = 6
    Horizon = 12
INVARIANTS
    HourlyBudget
    ReserveKept
    DelayNeverRefuses
    BreakerRests
    DisabledForCause
