SPECIFICATION FairSpec
CONSTANTS
    Cpus = {s, w1, w2}
    Flusher = s
INVARIANTS
    FlushGrace
    FlushInv
    NoLostWakeup
PROPERTIES
    WaiterLive
    FlushReturns
CHECK_DEADLOCK FALSE
