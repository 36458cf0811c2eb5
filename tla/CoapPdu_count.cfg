SPECIFICATION MCSpec
CONSTANTS
  Subjects = {"any"}
  Swaps = FALSE
  Owned = TRUE
  BufferLength = 0
  HeapLimits = {64}
  AnyOrder = FALSE
  MaxOptions = 3
  Versions <- None
  Types <- None
  Codes <- None
  MessageIDs <- None
  Tokens <- None
  OptionNumbers <- None
  OptionValues <- None
  Formats <- MCFormats
  Queries <- None
  URIs <- Path
  Payloads <- None
  Frames <- None
INVARIANT PathReadBack
