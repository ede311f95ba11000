SPECIFICATION EngineSpec
CONSTANTS
    MAX_BATCH = 2
    token_budget = 3
    max_chunk = 2
    block_size = 2
    capacity_blocks = 5
    watermark_permille = 800
    max_wait_ticks = 1
    Offers <- FourOffers
    ARRIVALS = 2
    EVENTS = 2
    MAX_ROWS = 4
    MAX_BLOCKS = 7
    MAX_NODES = 8
    MAX_NODE_TOKENS = 6
    MAX_NODE_BLOCKS = 4
    MAX_PATH = 4
    MAX_REQUESTS = 2
    MAX_SEQ_TOKENS = 6
    MAX_BLOCKS_PER_SEQ = 7
    PromptOf <- Prompts
    CANCELS = 1
INVARIANTS
    RoomWithinBooks
    PlanIsExecutable
PROPERTIES
    EveryRequestEnds
CHECK_DEADLOCK FALSE
