\* The reference scripts' computations end: no deadlock check.
CONSTANTS
    vocab = 4
    Logits <- FixtureLogits
    Histories <- FixtureHistories
    Biases <- FixtureBiases
    Calls <- FixtureCalls
    UNDERFLOW = 6
    GRID = 4
    HALF = 2
    Q40Streams <- FixtureStreams
    Q4KBlocks <- FixtureSuperBlocks
    n_heads = 4
    n_kv_heads = 2
    head_dim = 1
    PagedCalls <- FixturePagedCalls
SPECIFICATION Spec
INVARIANT ReproducesTraces
INVARIANT NoDefects
INVARIANT AgreesWithHF
INVARIANT QuantReadsBack
INVARIANT PagesAsReference
CHECK_DEADLOCK FALSE
