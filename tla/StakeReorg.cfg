SPECIFICATION Spec
CONSTANTS
    Block <- Blocks
    Genesis = "g"
    Parent <- BlockParent
    Purchases <- BlockPurchases
    TicketsVoted <- BlockVoted
    TicketsRevoked <- BlockRevoked
    LotteryIV <- BlockIV
    TicketsPerBlock = 3
    TicketMaturity = 1
    TicketExpiry = 2
    StakeEnabledHeight = 2
    StakeValidationHeight = 4
    LatestCheckpointHeight = 2
    MinMemoryNodes = 4
    MinMemoryStakeNodes = 2
    None = "none"
    MaxFailures = 1
INVARIANTS
    StakeNodesSound
    DatabaseMatchesChain
    NoErrors
    TicketsConserved
