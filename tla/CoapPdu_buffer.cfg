SPECIFICATION MCSpec
CONSTANTS
  Subjects = {"header", "buffer"}
  Swaps = FALSE
  Owned = FALSE
  BufferLength = 14
  HeapLimits = {64}
  AnyOrder = FALSE
  MaxOptions = 3
  Versions <- MCVersions
  Types <- MCTypes
  Codes <- MCCodes
  MessageIDs <- MCMessageIDs
  Tokens <- MCTokens
  OptionNumbers <- MCNumbers
  OptionValues <- MCValues
  Formats <- None
  Queries <- None
  URIs <- None
  Payloads <- MCPayloads
  Frames <- MCFrames
INVARIANTS PayloadFound ValidAsSent WithinBuffer
PROPERTY MeansWhatWasAsked
