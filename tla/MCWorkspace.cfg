SPECIFICATION WorkspaceSpec
CONSTANTS
    CatchUpPage = 1
    GapLimit = 1
    CompactAt = 2
    ProviderEnvironments <- WorkspaceProviders
    Base = 6
    MaxRankLength = 3
    Projects = {1, 2}
    IssueIds = {1, 2, 3, 4, 5}
    Callers = {1, 2}
    People = {1, 2}
    BoardEnvironments <- WorkspaceBoards
    Authors = {1, 2, 3}
    CommentIds = {1, 2}
    Writers = {1, 2}
    ThreadEnvironments <- WorkspaceThreads
INVARIANTS
    ReplicaSound
    EditsKept
    BoardSound
    ThreadSound
PROPERTY MovesKeepTheBoard
CHECK_DEADLOCK FALSE
