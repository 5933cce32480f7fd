SPECIFICATION FairSpec
CONSTANTS
    d1 = d1
    d2 = d2
    p1 = p1
    p2 = p2
    Devices <- TwoDevices
    ErrorIds = {e1}
    Paths <- TwoPaths
    PathsOf <- PathsOfTwo
    MaxErrors = 1
    DeassertLog = FALSE
PROPERTIES
    NeverImproves
    DeferredIsRetried
