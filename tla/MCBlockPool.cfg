SPECIFICATION Spec
CONSTANTS
    MAX_BLOCKS = 3
    h1 = h1
    h2 = h2
    h3 = h3
    h4 = h4
    Holders <- MCHolders
    None = None
INVARIANTS
    TypeOK
    PoolSound
PROPERTY
    ImplementsRefs
