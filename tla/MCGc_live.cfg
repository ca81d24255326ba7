SPECIFICATION FairSpec
CONSTANTS
    MaxCpus = 2
    Objects = {a1, a2, a3}
    Recycle = FALSE
    Leavers <- NoLeavers
    Nil = Nil
PROPERTY FreedIsDeleted
