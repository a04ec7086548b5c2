SPECIFICATION FairSpec
CONSTANTS
    Threads = {t1, t2}
    Clients = {c}
    Payloads <- Retried
    MaxHits = 2
    Window = 2
    MinPrice = 1
    MaxPrice = 2
    Skew = 1
    MaxAge = 2
    Minute = 2
    MaxLag = 1
    MaxRequests = 3
    Horizon = 3
INVARIANTS
    WindowBound
    OneRowPerCapture
PROPERTIES
    TableIsABook
    RefusedForCause
CHECK_DEADLOCK FALSE
