SPECIFICATION FairStopSpec
CONSTANTS
    r1 = r1
    r2 = r2
    p1 = p1
    p2 = p2
    g1 = g1
    Reqs = {r1}
    Permanent = {r1}
    Peers = {p1}
    Groups = {g1}
    Whitelisted = {}
    Loopback = {}
    AutoConnect = TRUE
    TargetOutbound = 1
    MaxPeers = 1
    MaxSameIP = 0
    MaxFailedAttempts = 2
    MaxRelay = 2
    MaxEvents = 2
PROPERTIES
    ShutdownCompletes
CHECK_DEADLOCK FALSE
