SPECIFICATION RecordsSpec
SYMMETRY Symmetry
CONSTANTS
    w1 = w1  w2 = w2  e1 = e1  e2 = e2  e3 = e3  e4 = e4
    Workspaces = {w1, w2}
    Entries = {e1, e2, e3, e4}
    Home <- MCHome
    Buffered = {e2, e3, e4}
    AuditRequests = {q1}
    BufferWorkers = {b1}
    QueueSize = 1
    BatchSize = 2
    VerifyBatch = 1
    MaxRuns = 2
    Faults = {"write", "sink", "job"}
    u1 = u1  u2 = u2  m1 = m1  m2 = m2  s1 = s1
    Users = {u1, u2}
    Subjects = {s1}
    Msgs = {m1, m2}
    Workers = {c1, c2}
    Audience <- MCAudience
    SubjectOf <- MCSubjectOf
    Rank <- MCRank
    InboxEnvironments <- RecordsInboxes
INVARIANTS
    ChainSound
    EntriesAccounted
    ItemsSound
    ToldOnce
CHECK_DEADLOCK FALSE
