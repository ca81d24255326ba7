SPECIFICATION Spec
CONSTANTS
    Threads = {t1, t2}
    k1 = k1
    k2 = k2
    o1 = o1
    Nil = Nil
    Keys = {k1, k2}
    Entries = {o1, e1, e2}
    Preset <- OneEntry
    Requests <- Mixture
    InitialLg2size = 1
    MaxTables = 2
INVARIANT NoNullEntry
CHECK_DEADLOCK FALSE
