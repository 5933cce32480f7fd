SPECIFICATION FairSpec
CONSTANTS
    Threads = {t1, t2}
    SourceDevices = {"GPU", "Retimer"}
    Names = {"GPU", "Baseboard"}
    DeviceAssociation <- Association
    EventSeverities = {1, 2}
    MaxEvents = 2
    MaxRestarts = 1
INVARIANTS
    CacheOK
    CompletedIsReported
PROPERTIES
    FileKeepsHighest
    HandlerEnds
CHECK_DEADLOCK FALSE
