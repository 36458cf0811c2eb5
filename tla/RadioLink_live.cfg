SPECIFICATION LiveSpec

CONSTANTS
    Pipes <- MCPipes
    Widths <- MCWidths
    WriteCounts <- MCWriteCounts
    ReadCounts <- MCReadCounts
    FifoSize = 2
    FifoDepth = 2
    RssiSamples = 2
    RssiModulus = 2
    MaxArrivals = 2
    MaxWrites = 1
    MaxRestarts = 1

PROPERTIES
    CallsReturn
    FlaggedPacketIsTaken
