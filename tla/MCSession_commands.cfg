SPECIFICATION Spec
CONSTANTS
    Requests <- Everything
    MaxRequests = 2
    IbufSize = 5
    ObufSize = 5
    ReserveSize = 1
    LongLine = 3
    Ropes <- Small
    Prompt = TRUE
INVARIANTS
    TypeOK
    ObufFits
    ValuesWhole
CHECK_DEADLOCK FALSE
