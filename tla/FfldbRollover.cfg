SPECIFICATION FairSpec
CONSTANTS
    x = x
    y = y
    k = k
    v = v
    w = w
    Block = {x, y}
    Key = {k}
    Value = {v}
    None = None
    Keep = Keep
    MaxFileSize = 3
    MaxFile = 3
    PowerLoss = TRUE
    MaxTx = 2
    MaxFaults = 0
    MaxCrashes = 1
INVARIANTS
    FlushedBlocksWritten
