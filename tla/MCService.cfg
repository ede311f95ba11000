SPECIFICATION Spec
CONSTANTS
    MAX_STREAMS = 3
    MAX_BATCH = 2
    MAX_CONNS = 1
    Asks <- MCMoreAsks
    FAULTS = 1
INVARIANTS
    TablesAgree
    OwnAnswerUnlessUpset
CHECK_DEADLOCK FALSE
