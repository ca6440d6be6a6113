SPECIFICATION Spec
CONSTANTS
    Volume = 2
    FailLimit = 1
    StopRetries = 2
    Lossy = FALSE
    Requests = {"cancel", "sync", "status"}
    MaxOrders = 2
    MaxRequests = 1
    MaxCrashes = 0
INVARIANTS SellsWithinFill BuysLeaveCovered  LogWithinExecuted
CHECK_DEADLOCK FALSE
