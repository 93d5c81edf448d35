SPECIFICATION FairSpec
CONSTANTS
    home = home
    other = other
    c1 = c1
    c2 = c2
    None = None
    Home = home
    Servers <- TwoServers
    Clients <- TwoClients
    Leavers = {c2}
    Placements <- Mixed
    MaxChats = 1
INVARIANTS
    LeaverCleared
    SwitchTogether
PROPERTIES
    UdpReached
    LoopEnds
CHECK_DEADLOCK FALSE
