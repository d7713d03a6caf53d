\* Two uploads and deletions of one content by two members, one process that stops once, and
\* four users, two of whom at a time use one link, one request lost.
SPECIFICATION ProjectSpec
CONSTANTS
    w1 = w1
    m1 = m1
    None = None
    Calls = {c1, c2}
    Workers = {w1}
    WorkerOf <- OnOneProcess
    Uploaders = {m1, m2}
    Documents = {d1}
    Files = {f1, f2, f3}
    Cap = 2
    MaxJobs = 2
    MaxFaults = 1
    MaxDeleted = 1
    Nobody = Nobody
    Clients = {r1, r2}
    Invitees = {u1, u2, u3, u4}
    Invites = {i1}
    MaxLost = 1
SYMMETRY Alike
INVARIANTS
    ProjectTypeOK
    RecordSpeaksOfItsJob
    CountedOnce
    OneRecordPerContent
    InviteOveruseIsBounded
PROPERTIES
    VerdictStands
    AcceptorStands
\* Uploads and submissions are bounded.
CHECK_DEADLOCK FALSE
