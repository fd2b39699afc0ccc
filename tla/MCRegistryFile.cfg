SPECIFICATION FairSpec
CONSTANTS
    p = p
    q = q
    a = a
    b = b
    g1 = g1
    w1 = w1
    n1 = n1
    None = None
    Id = {a, b}
    Info = {g1, w1}
    Candidates <- MCCandidates
    NonceOf <- MCNonceOf
    MaxInstances = 2
    MaxExpired = 1
    MaxAge = 0
    StaleAfter = 0
    Proc = {p, q}
    Hung = {q}
    Requests <- Calls
    Faults = {"crash", "power", "read"}
    MaxCalls = 2
INVARIANTS
    FileTypeOK
    MutualExclusion
PROPERTIES
    Atomic
    CallsEnd
CHECK_DEADLOCK FALSE
