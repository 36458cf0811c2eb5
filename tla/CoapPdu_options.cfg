SPECIFICATION MCSpec
CONSTANTS
  Subjects = {"order", "lengths", "paths"}
  Swaps = TRUE
  Owned = TRUE
  BufferLength = 0
  HeapLimits = {9, 64}
  AnyOrder = FALSE
  MaxOptions = 3
  Versions <- None
  Types <- None
  Codes <- None
  MessageIDs <- None
  Tokens <- MCTokens
  OptionNumbers <- MCNumbers
  OptionValues <- MCAllValues
  Formats <- MCFormats
  Queries <- MCQueries
  URIs <- MCURIs
  Payloads <- OnePayload
  Frames <- None
INVARIANTS TypeOK OptionsWithin ValidAsSent PathReadBack
PROPERTY MeansWhatWasAsked
