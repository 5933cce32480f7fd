SPECIFICATION FairSpec
CONSTANTS
    Guards = {g1, g2, g3, g4, g5}
    MaxRunning = 2
    MaxTotal = 2
INVARIANTS
    IInv
PROPERTIES
    RejectOnlyAtCap
    ImplementsSlots
    SlotsComeBack
