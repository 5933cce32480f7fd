SPECIFICATION Spec
CONSTANTS
    Profiles <- Profiles3
    InitWorld <- InitWorld3
    Variants <- Variants3
    BootData <- BootData3
    deviceNameMap <- noDeviceNames
    Words <- Words3
    Number <- Number3
    Width = 4
    QueueSize = 1
    MaxChanges = 3
INVARIANTS
    LoadedOK
    ProductInOrder
    DiscoveredAll
    AssertedIsWitnessed
    CompleteWhenStable
    DeathIsMismatch
CHECK_DEADLOCK FALSE
