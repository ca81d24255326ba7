SPECIFICATION Spec
CONSTANTS
    Requests <- Reading
    MaxRequests = 1
    IbufSize = 4
    ObufSize = 5
    ReserveSize = 1
    LongLine = 3
    Ropes <- Small
    Prompt = FALSE
INVARIANTS
    HeldIsLive
CHECK_DEADLOCK FALSE
