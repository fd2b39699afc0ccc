SPECIFICATION FairSpec
CONSTANTS
    None = None
    Nil = Nil
    Address = {1, 2, 3}
    Kinds = {"functions", "globals", "strings"}
    Tools = {"list_funcs", "func_query", "entity_query", "find_regex", "search_text", "decompile_to_file"}
    Matches = {{1, 2, 3}, {1, 3}}
    Counts = {0, 1, 2}
    PageSize = 1
    MaxLimit = 2
    Some = {2}
    Databases = {{1, 3}, {1, 2, 3}}
    MaxEdits = 1
    MaxMeddling = 1
INVARIANTS
    ReadsComplete
    NoneSkipped
    OutcomeTrue
PROPERTIES
    JobEnds
    OriginalNotDropped
CHECK_DEADLOCK FALSE
