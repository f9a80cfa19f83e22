CONSTANTS
    c1 = c1
    c2 = c2
    Nil = Nil
    Comps <- MCComps1
    Threshold = 1
    MaxTime = 3
    MaxSyntheses = 2
    MaxSynEdits = 1
    MaxLag = 2
SPECIFICATION Spec
INVARIANT LockstepNeedsSynthesizer
CHECK_DEADLOCK FALSE
