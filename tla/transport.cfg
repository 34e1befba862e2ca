SPECIFICATION Spec
CONSTANTS
    Conn = {c1, c2}
    Message = {m1}
    Datagram = {d1}
    Send = {s1}
    SegmentCount = 2
    Nothing = Nothing
INVARIANTS
    NoUseAfterFree
    MessagesWhole
    HoldersFreed
PROPERTIES
    StopReturns
CHECK_DEADLOCK FALSE
