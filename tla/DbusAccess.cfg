SPECIFICATION FairSpec
CONSTANTS
    Threads = {t1, t2}
    Bound = 2
INVARIANTS
    DelayerOK
PROPERTIES
    CallsSpaced
    DelayerIsReleased
