SPECIFICATION MCSpec
CONSTANTS
  Subjects = {"any"}
  Swaps = FALSE
  Owned = FALSE
  BufferLength = 14
  HeapLimits = {64}
  AnyOrder = TRUE
  MaxOptions = 3
  Versions <- None
  Types <- None
  Codes <- None
  MessageIDs <- None
  Tokens <- OneToken
  OptionNumbers <- None
  OptionValues <- None
  Formats <- None
  Queries <- None
  URIs <- None
  Payloads <- MCPayloads
  Frames <- Twice
INVARIANT PayloadFound
