SPECIFICATION Spec
CONSTANTS
    Threads = {t1, t2}
    Chunks = {m0, m1, m2}
    First = m0
    Nil = Nil
    Texts <- MCTexts
    Amount = 10
    Modulus = 20
SYMMETRY Symmetry
INVARIANTS
    TypeOK
    NothingLost
    FreesItsOwn
PROPERTIES
    CasFresh
    WritesAtomic
CHECK_DEADLOCK FALSE
