SPECIFICATION Spec
CONSTANTS
    MAX_STREAMS = 3
    MAX_BATCH = 1
    MAX_CONNS = 1
    Asks <- MCAsks
    FAULTS = 1
PROPERTIES
    EveryStreamEnds
CHECK_DEADLOCK FALSE
