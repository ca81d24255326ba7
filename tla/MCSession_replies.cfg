SPECIFICATION FairSpec
CONSTANTS
    Requests <- Replying
    MaxRequests = 3
    IbufSize = 4
    ObufSize = 5
    ReserveSize = 1
    LongLine = 3
    Ropes <- Small
    Prompt = FALSE
INVARIANTS
    Framed
    OneReply
PROPERTY EveryRequestAnswered
CHECK_DEADLOCK FALSE
