SPECIFICATION MCSpec
CONSTANTS
    Swaps = TRUE
    Measurements <- MCMeasurements
    Earlier = {8, 65535}
    HeapLimits = {7, 64}
    MaxMessages = 2
    MaxResets = 1
    InboxSize = 1
INVARIANTS
    TypeOK
    UnderstoodIfItFits
    NothingMadeUp
    IDTellsCopies
    ThreeLossesBorne
    StatusCounts
PROPERTY SendReturns
CHECK_DEADLOCK FALSE
