SPECIFICATION ProviderSpec
CONSTANTS
    CatchUpPage = 1
    GapLimit = 1
    CompactAt = 2
    ProviderEnvironments <- EarlyLoad
INVARIANT SyncedIsCurrent
CHECK_DEADLOCK FALSE
