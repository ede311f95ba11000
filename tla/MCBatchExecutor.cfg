SPECIFICATION Spec
CONSTANTS
    ALIGN = 8
    MAX_HANDLES = 15
    MAX_BATCH = 2
    MAX_ROWS = 3
    MAX_POS = 3
    MAX_GEN = 1
    HIDDEN = 2
    INTER = 3
    KV_DIM = 1
    VOCAB = 2
    Requests = {1, 2}
    Prompts <- SomePrompts
    Answers = {0}
    Budgets = {1, 2}
    ADMISSIONS = 3
INVARIANTS
    RowsAreOwned
PROPERTIES
    RunsAlone
    AnsweredUnlessTooLong
CHECK_DEADLOCK FALSE
