SPECIFICATION Spec
CONSTANTS
    Volume = 2
    FailLimit = 1
    StopRetries = 1
    Lossy = FALSE
    Requests = {}
    MaxOrders = 3
    MaxRequests = 0
    MaxCrashes = 0
INVARIANTS NeverOversold
CHECK_DEADLOCK FALSE
