SPECIFICATION FairSpec
CONSTANTS
    g = g
    a1 = a1
    a2 = a2
    b1 = b1
    b2 = b2
    b3 = b3
    c2 = c2
    c3 = c3
    Genesis = g
    None = None
    Block = {g, a1, a2, b1, c2, c3}
    Parent <- TwigParent
    Anc <- TwigAnc
    WorkSum <- TwigWork
    Bad = {c2}
    MissingInputs = {c2}
    Misplaced <- UnlessFast
    Disapproves = {a2}
    FastAddable = {a2, b1}
    MaxOrphans = 1
    MaxCrashes = 1
    MaxDbErrors = 1
CHECK_DEADLOCK FALSE
INVARIANTS
    MainChainValid
    InvalidMeansRuleBroken
    ValidMeansAncestorsValid
    DatabaseConsistent
    MemoryMatchesDatabase
PROPERTIES
    PanicOnlyOnDbError
    CallReturns
    ImplementsBestChain
