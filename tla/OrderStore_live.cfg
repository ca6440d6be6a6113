SPECIFICATION FairSpec
CONSTANTS
    u1 = u1  u2 = u2  none = none  alice = alice  r1 = r1
    Uuids = {u1, u2}
    NoUuid = none
    Users = {alice}
    Owner <- OneOwner
    Reloaders = {r1}
    MaxTasks = 2
    MaxVer = 2
    MaxOps = 2
    MaxManager = 0
    MaxCrashes = 0
INVARIANTS FlushedOrdersAgree FlushContract
PROPERTIES TrackedOrdersReachTheTable  ReloadKeepsFlushedOrders
