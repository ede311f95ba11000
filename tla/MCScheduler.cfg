SPECIFICATION Spec
CONSTANTS
    MAX_BATCH = 2
    token_budget = 3
    max_chunk = 2
    block_size = 2
    capacity_blocks = 5
    watermark_permille = 800
    max_wait_ticks = 1
    Offers <- ThreeOffers
    ARRIVALS = 2
    EVENTS = 1
INVARIANTS
    TypeOK
    BooksBalance
    CommittedWithinWatermark
    PlanKeepsPolicy
    AdmissionIsAtomic
PROPERTIES
    OnlyCachePreempts
    OverCapacityOnlyByReport
    Drains
