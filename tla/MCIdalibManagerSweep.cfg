SPECIFICATION Spec
CONSTANTS
    m1 = m1
    m2 = m2
    a = a
    b = b
    p1 = p1
    p2 = p2
    p3 = p3
    f1 = f1
    f2 = f2
    None = None
    Id = {a, b}
    Info <- MCInfo
    Candidates <- MCCandidates
    NonceOf <- MCNonceOf
    MaxInstances = 3
    MaxExpired = 0
    MaxAge = 0
    StaleAfter = 0
    Manager = {m1, m2}
    Reaped = {}
    Pid = {p1, p2}
    Path = {f1}
    Gen = {1, 2}
    MaxWorkers = 1
PROPERTIES
    CleanupKeepsLiveEntries
CHECK_DEADLOCK FALSE
