CONSTANTS
    a = a
    b = b
    c = c
    Nil = Nil
    Res <- MCRes
    Group <- MCGroup
    PatchRes = {}
    Orphan = FALSE
    MaxRV = 3
    MaxTime = 2
    MaxLag = 2
SPECIFICATION Spec
CHECK_DEADLOCK FALSE
CONSTANTS DeletedRes = {}
CONSTANTS NoUpdateRes = {}
CONSTANTS CheckedRes = {a}
CONSTANTS Deletable = {}
CONSTANTS MaxEdits = 1
PROPERTY ReadyStable
