SPECIFICATION Spec
CONSTANTS
    None = None
    Nil = Nil
    Address = {1, 2, 3}
    Kinds = {"globals"}
    Tools = {"list_globals"}
    Matches = {{1, 2, 3}}
    Counts = {2}
    PageSize = 1
    MaxLimit = 2
    Some = {2}
    Databases = {{1, 2}, {1, 3}}
    MaxEdits = 1
    MaxMeddling = 0
INVARIANTS
    ReadsComplete
CHECK_DEADLOCK FALSE
