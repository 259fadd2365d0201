SPECIFICATION FairSpec
CONSTANTS
    c1 = c1
    i1 = i1
    i2 = i2
    w1 = w1
    w2 = w2
    h1 = h1
    h2 = h2
    NoMessage = NoMessage
    NoEvent = NoEvent
    Messages <- MCMessages
    Workers = {w1, w2}
    MaxAttempts = 2
    Budgets = {0, 1, 2}
    Customers = {c1}
    Events <- MCEvents
    Handlers = {h1, h2}
    MaxRetries = 2
    Traffics <- MCTraffics
CHECK_DEADLOCK FALSE
INVARIANTS
    OneCopyPerFault
    CountedOnce
    HandledReachesManager
PROPERTIES
    StatusFallsOnlyByCrossing
    IsDelivery
    OutboxDrains
    StoredIsRecorded
