CONSTANTS
    a = a
    b = b
    c = c
    Nil = Nil
    Res <- MCRes
    Group <- MCGroup
    PatchRes = {c}
    Orphan = FALSE
    MaxRV = 3
    MaxTime = 2
    MaxLag = 2
SPECIFICATION Spec
CHECK_DEADLOCK FALSE
CONSTANTS DeletedRes = {}
CONSTANTS NoUpdateRes = {b}
CONSTANTS CheckedRes = {a}
CONSTANTS Deletable = {b}
CONSTANTS MaxEdits = 1
INVARIANT TypeOK
PROPERTY ReadinessOrderOnce PromiseRefinement
