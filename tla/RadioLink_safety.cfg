SPECIFICATION Spec

CONSTANTS
    Pipes <- MCPipes
    Widths <- MCWidths
    WriteCounts <- MCPositiveCounts
    ReadCounts <- MCReadCounts
    FifoSize = 2
    FifoDepth = 2
    RssiSamples = 2
    RssiModulus = 2
    MaxArrivals = 3
    MaxWrites = 2
    MaxRestarts = 1

INVARIANTS
    TypeOK
    ModeMatchesChip
    TxQuiet
    WriteReportsTruth
    ReadIsHonest
    ReadsInOrder
    RssiCountsSamples
    ListeningSurvivesCalls
    CeAsRequested

PROPERTIES
    OnlyCurrentPayloadIsSent
    IsPacketRadio
