SPECIFICATION FairSpec
CONSTANTS
    r1 = r1
    r2 = r2
    p1 = p1
    p2 = p2
    g1 = g1
    Reqs = {r1, r2}
    Permanent = {r1}
    Peers = {p1, p2}
    Groups = {g1}
    Whitelisted = {}
    Loopback = {}
    AutoConnect = TRUE
    TargetOutbound = 1
    MaxPeers = 1
    MaxSameIP = 0
    MaxFailedAttempts = 2
    MaxRelay = 1
    MaxEvents = 2
INVARIANTS
    GroupCounts
    PoolSize
    ConnsSound
PROPERTIES
    DeadConnectionLeaves
CHECK_DEADLOCK FALSE
