SPECIFICATION Spec
CONSTANTS
    MaxCpus = 2
    Objects = {a1, a2, a3}
    Recycle = TRUE
    Leavers <- AllLeave
    Nil = Nil
SYMMETRY ObjectSymmetry
INVARIANTS
    TypeOK
    NoUseAfterFree
    GraceInv
CHECK_DEADLOCK FALSE
