\* An event that is filed between the read of the digest and its claim.
CONSTANTS
    u1 = u1
    u2 = u2
    m1 = m1
    m2 = m2
    s1 = s1
    Users = {u1, u2}
    Subjects = {s1}
    Msgs = {m1, m2}
    Workers = {w1, w2}
    Audience <- MCAudience
    SubjectOf <- MCSubjectOf
    Rank <- MCRank
    InboxEnvironments <- OneDigest
SYMMETRY Symmetry
SPECIFICATION InboxSpec
PROPERTIES MarkedMeansRead
CHECK_DEADLOCK FALSE
