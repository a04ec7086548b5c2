\* Every kind of fetch on a grid offer and on a used one, three observations.
SPECIFICATION Spec
CONSTANTS
    MinDiscount = 5000
    HeldUpper = 8500
    Implausible = 9500
    MinSaving = 1000
    MaxIncrease = 2
    LargeMoveMin = 35
    LargeMoveMax = 300
    Offers = {"grid", "used"}
    GridOffers = {"grid"}
    UsedOffers = {"used"}
    Variants = {"v1", "v2"}
    InputSet <- WideInputs
    ReferenceSet <- WideReferences
    MinGap = 1
    DeadlineAfter = 2
    MaxObs = 3
    LastFetch = 1
    Horizon = 1
INVARIANTS
    TypeOK
    RowsAreDeep
