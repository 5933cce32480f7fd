SPECIFICATION Spec
CONSTANTS
    d1 = d1
    d2 = d2
    Objects = {"mask"}
    Values = {0, 1, 2, 3}
    Devices = {d1, d2}
    Events = {"fault", "again"}
    Profile <- TwoDevices
    InitProp <- Zeros
    QueueSize = 1
    Guards = {g1, g2}
    MaxRunning = 1
    MaxChanges = 3
INVARIANTS
    LeakyBucketExact
    ReportsAccounted
SYMMETRY GuardSymmetry
CHECK_DEADLOCK FALSE
