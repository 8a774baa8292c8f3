\* Liveness, with a reconnect, failures and access reduced.
SPECIFICATION ProviderFairSpec
CONSTANTS
    CatchUpPage = 1
    GapLimit = 1
    CompactAt = 2
    ProviderEnvironments <- LiveEnvironments
PROPERTIES
    ProviderSettles
CHECK_DEADLOCK FALSE
