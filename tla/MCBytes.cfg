SPECIFICATION BytesSpec
CONSTANTS
    Requests = {1, 2}
    FileEnvironments <- BytesFiles
    MaxFiles = 3
    MaxKeys = 4
    KeyBatch = 2
    Shards = 2
    MaxDeliver = 2
    Hosts <- MCHosts
    Tenants = {1, 2}
    Boxes = {1, 2}
    HostOf <- MCHostOf
    Letters = {1, 2, 3}
    Jobs = {1, 2}
    MaxMails = 6
    MaxAttempts = 2
    MailEnvironments <- BytesMails
INVARIANTS
    StoreSound
    
PROPERTIES
    LeaksAreCollected
    RepliesGoOut
CHECK_DEADLOCK FALSE
