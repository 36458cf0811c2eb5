SPECIFICATION MCSpec
CONSTANTS
  Subjects = {"any"}
  Swaps = FALSE
  Owned = FALSE
  BufferLength = 13
  HeapLimits = {64}
  AnyOrder = TRUE
  MaxOptions = 4
  Versions <- None
  Types <- None
  Codes <- None
  MessageIDs <- None
  Tokens <- None
  OptionNumbers <- MCNumbers
  OptionValues <- MCValues
  Formats <- None
  Queries <- None
  URIs <- None
  Payloads <- None
  Frames <- Answered
INVARIANT OptionIsThere
