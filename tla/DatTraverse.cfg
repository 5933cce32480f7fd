SPECIFICATION FairSpec
CONSTANTS
    Names <- NamesOf3
    Order <- OrderOf3
    Trees <- TreesOf3
    Buses <- BusesOf3
    Services = {"mgr", "gpumgr"}
    Interfaces = {"Definitions", "Health"}
    Definitions = "Definitions"
    None = None
    MaxQueue = 5
    MaxResult = 7
INVARIANTS
    WalksOK
    RollupOK
PROPERTIES
    LostOnlyInRace
    WalksEnd
CHECK_DEADLOCK FALSE
