SPECIFICATION Spec
CONSTANTS
    u1 = u1  none = none  alice = alice  r1 = r1
    Uuids = {u1}
    NoUuid = none
    Users = {alice}
    Owner <- OneOwner
    Reloaders = {r1}
    MaxTasks = 1
    MaxVer = 2
    MaxOps = 2
    MaxManager = 0
    MaxCrashes = 0
PROPERTIES ReloadUndoesNothing
