SPECIFICATION RealtimeSpec
CONSTANTS
    Conns = {1, 2}
    Users = {"ann"}
    Replicas = {"r1", "r2"}
    UserOf <- MCUserOf
    HomeOf <- MCHomeOf
    Rooms = {"doc"}
    Channels = {"chan"}
    HubEnvironments <- RealtimeEnvironments
    Senders = {g1, g2, g3}
    SendBuffer = 2
    MaxDrops = 2
    MaxFrames = 7
INVARIANTS
    HubDelivers
    
PROPERTIES
    NoResurrection
    MembershipConverges
CHECK_DEADLOCK FALSE
