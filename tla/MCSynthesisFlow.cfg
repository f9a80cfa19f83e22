CONSTANTS
    c1 = c1
    c2 = c2
    c3 = c3
    Nil = Nil
    Comps <- MCComps
    Limit = 1
    MaxRestarts = 1
    MaxGen = 2
    MaxLag = 2
SPECIFICATION Spec
INVARIANT TypeOK
PROPERTY SlotsRefinement
SYMMETRY MCSymmetry
CHECK_DEADLOCK FALSE
