SPECIFICATION Spec
CONSTANTS
    Threads = {t1, t2, t3}
    Versions = {base, v1, v2, v3, v4}
    Base = base
    Nil = Nil
SYMMETRY VersionSymmetry
INVARIANTS
    TypeOK
    ChainInv
PROPERTIES
    StaysLinked
    Linearizable
CHECK_DEADLOCK FALSE
