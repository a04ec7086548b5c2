\* Two overlapping processes, started four times in all, while files with a
\* lower number and with a version already taken are added.
SPECIFICATION FairSpec
CONSTANTS
    Runs = {"a", "b"}
    Files <- LateFiles
    FirstFiles <- EarlyFiles
    MaxStarts = 4
INVARIANTS
    SuccessMeansApplied
    InOrder
PROPERTIES
    RunsAreSerial
    RunsEnd
CHECK_DEADLOCK FALSE
