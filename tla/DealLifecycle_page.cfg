\* One product-page offer, two kinds of reference, four observations: every
\* interleaving of fetches, sweeps and time.  The clock runs on until the last
\* task is overdue.
SPECIFICATION FairSpec
CONSTANTS
    MinDiscount = 5000
    HeldUpper = 8500
    Implausible = 9500
    MinSaving = 1000
    MaxIncrease = 2
    LargeMoveMin = 35
    LargeMoveMax = 300
    Offers = {"page"}
    GridOffers = {}
    UsedOffers = {}
    Variants = {"v1", "v2"}
    InputSet <- PairInputs
    ReferenceSet <- PageReferences
    MinGap = 1
    DeadlineAfter = 2
    MaxObs = 4
    LastFetch = 1
    Horizon = 4
INVARIANTS
    SecondLook
    OneOpenDealPerRule
    OneOpenTaskPerDeal
PROPERTIES
    LedgerSpec
    LiveDealFirst
    TasksAreClosed
