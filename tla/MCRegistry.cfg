SPECIFICATION Spec
CONSTANTS
    a = a
    b = b
    c = c
    g1 = g1
    w1 = w1
    w2 = w2
    n1 = n1
    n2 = n2
    None = None
    Id = {a, b, c}
    Info = {g1, w1, w2}
    Candidates <- MCCandidates
    NonceOf <- MCNonceOf
    MaxInstances = 2
    MaxExpired = 1
    MaxAge = 1
    StaleAfter = 1
    SeqNos = {0, 1, 2}
    Times = {0, 1, 2}
INVARIANTS
    TypeOK
    ActiveIsLive
    CapacityRespected
PROPERTIES
    NoIdentityTheft
    FocusIsStable
    RecentTombstonesKept
