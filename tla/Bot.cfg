SPECIFICATION Spec
CHECK_DEADLOCK FALSE
CONSTANTS
    Slots = 2  MonthLengths <- TheMonths  MaxDayOfMonth = 11
    Ids = {"i1"}  Frequencies <- DailyOnly  Limits = {0, 1}
    ExecSlot = 1  FailLimit = 2  RetryDelay = 1  SidecarDelay = 2
    MaxDcaTime = 3  MaxDcaTasks = 1  MaxOrders = 2  MaxDcaFaults = 1
    Requests = {"r1", "r2"}  Users = {"u1", "u2"}  Shapes <- TheShapes
    Cap = 2  TokenTTL = 0  GateTTL = 1  MaxTime = 1  MaxFaults = 1
    Rows = {1, 2, 3}  PageSize = 2  Interval = 2
    TicksPerDay = 2  TargetSlot = 1  WeekLength = 2  Days = {0}
    InitialSettings <- TheSettings  DefaultKeep = 1  DriveKeep = 2
    MaxTicks = 2  MaxBackups = 3  MaxBackupChanges = 1  MaxBackupFaults = 1
    Loops = {"loop"}  MaxOwn = 2  MaxChanges = 1  MaxUserTasks = 2  MaxUserFaults = 1
INVARIANTS
    TypeOK
    OneOrderPerRun
    HandledRunsAreOver
    StoppedIsDeleted
    NextRunsAreNamed
    WeeksAreProvidedFor
    RunOnceByItsUser
    
    GatedBuysWithinCap
    OneFamilyAtOnce
    
    
    DumpMissesNothing
    ArchivesKept
    
PROPERTIES
    PassesEnd
