SPECIFICATION Spec
CONSTANTS
    d1 = d1
    d2 = d2
    p1 = p1
    p2 = p2
    Devices <- OneDevice
    ErrorIds = {e1}
    Paths <- TwoPaths
    PathsOf <- PathsOfOne
    MaxErrors = 1
    DeassertLog = FALSE
INVARIANT SetReportsTruth
