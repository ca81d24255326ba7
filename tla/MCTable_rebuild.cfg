SPECIFICATION Spec
CONSTANTS
    Threads = {t1, t2}
    k1 = k1
    k2 = k2
    b1 = b1
    b2 = b2
    o1 = o1
    Nil = Nil
    Keys <- MCKeys
    Buckets <- MCBuckets
    Size = 2
    Probe <- MCProbe
    Entries = {o1, e1, e2}
    OldKeys <- TwoKeys
    OldValue <- DeletedValue
SYMMETRY Symmetry
INVARIANTS
    TypeOK
    WalkInv
    OneBucketPerKey
    EntryOwnedOnce
    NoDanglingValue
    OldKeyOwnedOnce
    CountsExact
PROPERTY Linearizable
CHECK_DEADLOCK FALSE
