SPECIFICATION Spec
CONSTANTS
    Pages <- SomePages
    CrossMaxAge = 2
    UsedMaxAge = 1
    Window = 3
    MinDays = 2
    MinSpan = 1
    MaxFetches = 4
    Horizon = 3
    NamedAgents = {"ai", "*"}
    Identified = "bot"
    RobotsTexts <- SomeTexts
    SitePaths <- SomePaths
    Amounts <- SomeAmounts
    SiteProducts <- SomeProducts
    PageProducts <- PairProducts
INVARIANTS
    OneRowEach
    SameBarcodeMeets
    OneObservationPerFetch
    ReferenceIsComparable
    ClosedSitesAreLeftAlone
    FirmRowsAgree
    
PROPERTIES
    SaleLeavesHistory
CHECK_DEADLOCK FALSE
