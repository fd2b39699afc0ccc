SPECIFICATION FairSpec
CONSTANTS
    a = a
    b = b
    i1 = i1
    s1 = s1
    None = None
    Request = {a, b}
    Timed = {a, b}
    Watched = {a, b}
    Endless = {a}
    RpcId = {i1}
    IdOf <- SameIds
    Session = {s1}
    SessionOf <- Sessions
    MaxSse = 1
    Starts = {1, 2}
INVARIANTS
    TypeOK
    IdleIsClean
    FlagIsOwn
    PendingIsServed
PROPERTIES
    EveryoneGetsOn
    DroppedSessionsEnd
CHECK_DEADLOCK FALSE
