SPECIFICATION Spec
CONSTANTS
    d1 = d1
    d2 = d2
    Objects = {"o", "quiet"}
    Values = {0, 1}
    Devices = {d1}
    Events = {"fault", "both"}
    Profile <- OneDevice
    InitProp <- Zeros
    QueueSize = 1
    Guards = {g1}
    MaxRunning = 1
    MaxChanges = 3
INVARIANT RecoveryResolvesAll
CHECK_DEADLOCK FALSE
