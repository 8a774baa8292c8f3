SPECIFICATION TalkSpec
CONSTANTS
    MessageIds = {1, 2, 3}
    People = {1, 2}
    Clients = {1, 2}
    MaxDeliver = 2
    MessageEnvironments <- TalkChannels
    Admins = {1, 2}
    Workflows = {1, 2}
    Editors = {1, 2}
    Consumers = {1, 2}
    Runners = {1, 2}
    MaxSteps = 2
    MaxDepth = 1
    MaxRunsPerMinute = 2
    MaxRunIds = 3
    MaxEvents = 4
    WfEnvironments <- TalkEngines
    Requests = {r1}
    Sids = {s1, s2}
    MaxHuddles = 1
    MaxOutages = 1
    CallFaults = {"lose", "duplicate", "restart", "media"}
INVARIANTS
    TimelineSound
    RunsSound
PROPERTIES
    RecordedIsFindable
    RecordedIsFinal
    RunsEnd
    FirstReasonWins
    CallsWindUp
CHECK_DEADLOCK FALSE
