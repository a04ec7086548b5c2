\* One process whose second migration fails.
SPECIFICATION Spec
CONSTANTS
    Runs = {"a"}
    Files <- EarlyFiles
    FirstFiles <- EarlyFiles
    MaxStarts = 1
INVARIANTS
    EarlierStayApplied
CHECK_DEADLOCK FALSE
