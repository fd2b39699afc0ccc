SPECIFICATION Spec
CONSTANTS
    None = None
    Instance = {1, 2}
    Local = {"list_instances"}
    Static <- Bundled
    Newer <- OfNewer
    Payload <- Answers
    Limits = {0, 2, 4, 9, 12, 17, 20, 25, 30, 36, 45, 60}
INVARIANTS
    AnswersConform
    AnswersFit
    OwnToolsListed
