\* The next tick does not know of the trip.
SPECIFICATION Spec
CONSTANTS
    DrainKinds = {"ENROLL", "CONFIRM"}
    MinDelay = 1
    Jitter = 1
    MaxHour = 1
    MaxDay = 2
    ReservedPct = 50
    Hour = 3
    Day = 7
    ConsecutiveBlocks = 2
    MinSample = 1
    BlockRatePct = 100
    Cooldown = 3
    MaxTrips = 2
    TripWindow = 8
    MaxPause = 1
    MaxContacts = 3
    Horizon = 10
PROPERTIES
    CooldownIsKept
