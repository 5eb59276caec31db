SPECIFICATION FairSpec
CONSTANTS
    x = x
    y = y
    k = k
    v = v
    w = w
    Block = {x, y}
    Key = {k}
    Value = {v}
    None = None
    Keep = Keep
    MaxFileSize = 8
    MaxFile = 0
    PowerLoss = TRUE
    MaxTx = 2
    MaxFaults = 1
    MaxCrashes = 1
INVARIANTS
    StoreIntact
PROPERTIES
    ImplementsDurableStore
