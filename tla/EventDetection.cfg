SPECIFICATION FairSpec
CONSTANTS
    d1 = d1
    d2 = d2
    Objects = {"o", "quiet", "count"}
    Values <- CounterValues
    Devices = {d1}
    Events = {"fault", "again", "both", "never", "count"}
    Profile <- Counter
    InitProp <- Zeros
    QueueSize = 2
    Guards = {g1, g2}
    MaxRunning = 1
    MaxChanges = 3
INVARIANTS
    TypeOK
    RecoveryReachesItsLogs
PROPERTIES
    SignalsAreServed
    ResolvedByLaterRecovery
CHECK_DEADLOCK FALSE
