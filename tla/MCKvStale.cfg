SPECIFICATION Spec
CONSTANTS
    MAX_BLOCKS = 4
    block_size = 2
    MAX_NODES = 4
    MAX_NODE_TOKENS = 3
    MAX_NODE_BLOCKS = 3
    MAX_PATH = 4
    MAX_REQUESTS = 2
    MAX_SEQ_TOKENS = 4
    MAX_BLOCKS_PER_SEQ = 4
    Tokens = {2}
    Prompts <- CommonPrompts
    LOOKUPS = 4
    MISHAP_BOUND = 1
    FREED_BOUND = 2
INVARIANT CacheSound
CHECK_DEADLOCK FALSE
