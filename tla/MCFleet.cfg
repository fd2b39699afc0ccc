SPECIFICATION FairSpec
CONSTANTS
    p1 = p1
    p2 = p2
    r1 = r1
    r2 = r2
    q1 = q1
    q2 = q2
    f1 = f1
    f2 = f2
    None = None
    Ida = {p1}
    Router = {r1, r2}
    Frail = {r2}
    Port = {q1}
    Path = {f1}
    Id <- MCId
    Candidates <- MCCandidates
    Faults = {"ida", "pid", "register", "unregister"}
INVARIANTS
    OwnEntryIntact
PROPERTIES
    DeadEntriesSwept
    EmptyRegistryRefilled
