SPECIFICATION LiveSpec
CONSTANTS
    ByteBits = 2
    LoopLimit = 1
    SettleTime = 2
    Transmissions <- MCTransmissions
    MaxSlips = 1
INVARIANTS
    TypeOK
    OkMeansTrue
    ErrorIsExplained
    WithinArray
PROPERTY ReadReturns
