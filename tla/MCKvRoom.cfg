SPECIFICATION Spec
CONSTANTS
    MAX_BLOCKS = 3
    block_size = 2
    MAX_NODES = 5
    MAX_NODE_TOKENS = 3
    MAX_NODE_BLOCKS = 3
    MAX_PATH = 4
    MAX_REQUESTS = 2
    MAX_SEQ_TOKENS = 4
    MAX_BLOCKS_PER_SEQ = 2
    Tokens = {0}
    Prompts <- CommonPrompts
    LOOKUPS = 5
    MISHAP_BOUND = 1
    FREED_BOUND = 2
INVARIANTS
    RefsAccountedUntilFull
    ViewsAgreeUntilError
    KvSoundButForStale
    LongestPrefixUntilMishap
PROPERTIES
    ReclaimMeasured
    PublishAddsExactlyThat
CHECK_DEADLOCK FALSE
