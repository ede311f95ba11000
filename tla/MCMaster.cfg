SPECIFICATION Spec
CONSTANTS
    WORKERS = 3
    SIGNALS = 1
INVARIANTS
    ReportIsHonest
    StopsForAReason
PROPERTIES
    FleetEnds
CHECK_DEADLOCK FALSE
