CONSTANTS
    c1 = c1
    c2 = c2
    c3 = c3
    Nil = Nil
    Comps <- MCComps2
    Limit = 1
    MaxRestarts = 1
    MaxGen = 2
    MaxLag = 3
SPECIFICATION Spec
PROPERTY DispatchProgress
CHECK_DEADLOCK FALSE
