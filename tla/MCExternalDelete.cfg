CONSTANTS
    a = a
    b = b
    c = c
    Nil = Nil
    Res <- MCRes
    Group <- MCGroup
    PatchRes = {}
    Orphan = FALSE
    MaxRV = 3
    MaxTime = 1
    MaxLag = 1
SPECIFICATION Spec
CHECK_DEADLOCK FALSE
CONSTANTS DeletedRes = {}
CONSTANTS NoUpdateRes = {}
CONSTANTS CheckedRes = {}
CONSTANTS Deletable = {b}
CONSTANTS MaxEdits = 1
PROPERTY Converges
