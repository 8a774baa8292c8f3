SPECIFICATION ReachSpec
CONSTANTS
    Folders = {"r", "a", "b", "c", "n"}
    Files = {"x", "y"}
    Channels = {"ch"}
    Mailboxes = {"mb"}
    Conversations = {"cv"}
    Users = {"ann", "gus"}
    Links = {"l"}
    WS = "ws"
    Root = "r"
    None = "none"
    MaxPathDepth = 6
    MaxFolderDepth = 5
    Procs = {1, 2}
    Environments <- ReachDrives
    Members = {1, 2, 3}
    ChannelIds = {1, 2}
    Tasks = {1, 2}
    Replicas = {1, 2}
    Home <- MCHome
    RosterEnvironments <- ReachRosters
INVARIANTS
    
    RosterSound
PROPERTIES
    KeysConverge
    SubscriptionsLapse
CHECK_DEADLOCK FALSE
