SPECIFICATION Spec
CONSTANTS
    Volume = 2
    FailLimit = 1
    StopRetries = 1
    Lossy = FALSE
    Requests = {"sync"}
    MaxOrders = 2
    MaxRequests = 1
    MaxCrashes = 0
INVARIANTS SyncedBuysLeaveCovered
CHECK_DEADLOCK FALSE
