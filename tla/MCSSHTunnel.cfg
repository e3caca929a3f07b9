SPECIFICATION FairSpec
CONSTANTS
    handle = handle
    guest = guest
    Clients = {handle, guest}
    Handle = handle
    None = None
    Packets <- GuestGetsTwo
    MaxRequests <- HandleAsks
INVARIANTS
    ForwarderHasObject
    NothingLeft
    PacketsInOrder
PROPERTIES
    LoopUndisturbed
    DestructionReturns
    HangUpFrees
    ClientAnswered
CHECK_DEADLOCK FALSE
