\* Two exports, two commits of the tick, one reader.
SPECIFICATION FairSpec
CONSTANTS
    Deals <- TwoDeals
    Product <- OneProductEach
    RowSet <- Rows
    Cents = {1}
    HealthSet <- Retailers
    Now = 24
    MaxExports = 2
    MaxCommits = 2
INVARIANTS
    ReaderFindsWhole
    AllRowsPublish
PROPERTIES
    OnlyGoodFeeds
    FeedIsServed
CHECK_DEADLOCK FALSE
