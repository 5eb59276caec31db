SPECIFICATION FairSpec
CONSTANTS
    c1 = c1
    a1 = a1
    i1 = i1
    i2 = i2
    Callers = {c1}
    Waiters = {c1}
    Announcers = {a1}
    Inv = {i1, i2}
    Received = {"block", "ping", "malformed"}
    OutputBufferSize = 1
    MaxKnownInventory = 1
    MaxInvTrickleSize = 2
    MaxEvents = 2
INVARIANTS
    OneInFlight
    WrittenInOrder
    SignalledOnce
PROPERTIES
    QueueExits
CHECK_DEADLOCK FALSE
