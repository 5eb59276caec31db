SPECIFICATION FairSpec
CONSTANTS
    x = x
    y = y
    k = k
    v = v
    w = w
    Block = {x, y}
    Key = {k}
    Value = {v}
    None = None
    Keep = Keep
    MaxFileSize = 3
    MaxFile = 5
    PowerLoss = FALSE
    MaxTx = 2
    MaxFaults = 2
    MaxCrashes = 1
INVARIANTS
    StoreIntact
PROPERTIES
    ImplementsDurableStore
    TransactionEnds
