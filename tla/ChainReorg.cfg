SPECIFICATION Spec
CONSTANTS
    g = g
    a1 = a1
    a2 = a2
    b1 = b1
    b2 = b2
    b3 = b3
    c2 = c2
    c3 = c3
    Genesis = g
    None = None
    Block = {g, a1, a2, b1, b2, b3, c2, c3}
    Parent <- BushParent
    Anc <- BushAnc
    WorkSum <- BushWork
    Bad = {a2, b2}
    MissingInputs = {b2}
    Misplaced <- NoneMisplaced
    Disapproves = {a2, b2}
    FastAddable = {b1}
    MaxOrphans = 2
    MaxCrashes = 0
    MaxDbErrors = 0
INVARIANTS
    ValidMeansChecked
    OrphanPoolSound
    MostWork
CHECK_DEADLOCK FALSE
