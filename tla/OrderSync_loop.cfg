SPECIFICATION Spec
CONSTANTS
    Volume = 2
    FailLimit = 1
    StopRetries = 2
    Lossy = TRUE
    Requests = {}
    MaxOrders = 3
    MaxRequests = 0
    MaxCrashes = 1
INVARIANTS TypeOK SellsWithinFill BuysLeaveCovered LiveOrdersAreTracked
CHECK_DEADLOCK FALSE
