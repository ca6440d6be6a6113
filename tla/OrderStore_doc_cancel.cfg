SPECIFICATION Spec
CONSTANTS
    u1 = u1  none = none  alice = alice
    Uuids = {u1}
    NoUuid = none
    Users = {alice}
    Owner <- OneOwner
    Reloaders = {}
    MaxTasks = 1
    MaxVer = 2
    MaxOps = 2
    MaxManager = 1
    MaxCrashes = 0
PROPERTIES CancelRequestsAreSeen
