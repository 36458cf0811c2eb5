SPECIFICATION Spec
CONSTANTS
    Boards <- MCBoards
    NodeAddress <- MCNodeAddress
    FirstRole <- MCFirstRole
INVARIANTS
    FramesReachTheirPipe
    ReceivesOnlyWhenReady
