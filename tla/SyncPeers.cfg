SPECIFICATION FairSpec
CONSTANTS
    p1 = p1
    p2 = p2
    Peers = {p1, p2}
    Block <- Tree
    Genesis = "g"
    None = None
    Parent <- TreeParent
    Anc <- TreeAnc
    Height <- TreeHeight
    RemoteChain <- OneOnFork
    Checkpoints <- AtOneAndThree
    CurrentHeight = 3
    MaxHeaders = 1
    MaxBlocks = 1
    MaxInv = 1
    MaxRequested = 2
    MinInFlight = 2
    MaxResend = 1
    MaxEvents = 2
INVARIANTS
    HeadersVouch
    LostPeersForgotten
    HeadersFirstHasPeer

    
CHECK_DEADLOCK FALSE
