SPECIFICATION Spec
CONSTANTS
    Tx <- Txs
    Type <- TxType
    Inputs <- TxInputs
    Outputs <- TxOutputs
    Expiry <- TxExpiry
    Price <- TxPrice
    VoteOn <- TxVoteOn
    Unfit = {"v"}
    BadInputs = {}
    Free = {"b"}
    Large = {"k"}
    Block <- Blocks
    Base = "b0"
    Bad = {"b3w"}
    Parent <- BlockParent
    Height <- BlockHeight
    Regular <- BlockRegular
    Stake <- BlockStake
    ApprovesParent <- BlockApproves
    StakeDiff <- BlockStakeDiff
    InitialUtxos <- Utxos
    Stakebase <- Stakebase0
    Orders <- BothOrders
    TicketsPerBlock = 1
    StakeValidationHeight = 1
    MaxOrphanTxs = 2
    MaxVoteDoubleSpends = 1
    VoteAge = 1
    PruneTicket = 1
    PruneVotes = 1
INVARIANTS
    MapsExact
    
    PoolCandidates

    
CHECK_DEADLOCK FALSE
