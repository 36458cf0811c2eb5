SPECIFICATION Spec

CONSTANTS
    Pipes <- MCPipes
    Widths <- MCWidths
    WriteCounts <- MCPositiveCounts
    ReadCounts <- MCReadCounts
    FifoSize = 2
    FifoDepth = 2
    RssiSamples = 2
    RssiModulus = 2
    MaxArrivals = 2
    MaxWrites = 0
    MaxRestarts = 0

INVARIANTS
    WaitingPacketIsReadable
