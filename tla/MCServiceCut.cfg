SPECIFICATION Spec
CONSTANTS
    MAX_STREAMS = 3
    MAX_BATCH = 2
    MAX_CONNS = 1
    Asks <- MCAsks
    FAULTS = 1
INVARIANTS
    AnswersAreWhole
CHECK_DEADLOCK FALSE
