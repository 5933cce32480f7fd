SPECIFICATION FairSpec
CONSTANTS
    Names = {"a", "b", "c", "x"}
    None = "none"
    Tasks <- TasksOf3
INVARIANTS
    TestsOK
    ReferencesAgree
    TracerDoesNotThrow
    TraceOK
    ResolvedIsTestedAgain
    EntriesResolved
PROPERTY JobEnds
CHECK_DEADLOCK FALSE
