SPECIFICATION FairSpec
CONSTANTS
    Block <- Blocks
    Genesis = "g"
    Parent <- BlockParent
    Height <- BlockHeight
    Anc <- BlockAnc
    Tx <- SomeTxs
    Txs <- BlockTxs
    Spends <- TxSpends
    Configs <- SomeConfigs
    None = None
    Increment = 4
    IdSpace = 16
    MaxEvents = 1
INVARIANTS
    IndexesFollowChain
    ContentsMatchTip
    IdsResolve
PROPERTIES
    InitEnds
