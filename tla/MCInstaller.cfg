SPECIFICATION Spec
CONSTANTS
    augment = augment
    vscode = vscode
    cursor = cursor
    settings = settings
    own = own
    ida = ida
    flat = flat
    nested = nested
    None = None
    Bad = Bad
    Client <- Order
    File = {settings, own, ida}
    FileOf <- Files
    SectionOf <- InFile
    Extensions = {augment}
    IdaConfig = ida
    MaxEdits = 1
    MaxRuns = 2
INVARIANTS
    DoneMeansDone
PROPERTIES
    UsersKept
    LoaderKept
CHECK_DEADLOCK FALSE
