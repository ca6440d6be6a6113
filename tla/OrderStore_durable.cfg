SPECIFICATION Spec
CONSTANTS
    u1 = u1  u2 = u2  u3 = u3  none = none  alice = alice
    Uuids = {u1, u2, u3}
    NoUuid = none
    Users = {alice}
    Owner <- OneOwner
    Reloaders = {}
    MaxTasks = 2
    MaxVer = 2
    MaxOps = 2
    MaxManager = 1
    MaxCrashes = 1
INVARIANTS TypeOK
PROPERTIES DurableOrdersStayDurable
SYMMETRY UuidSymmetry
VIEW DurableView
