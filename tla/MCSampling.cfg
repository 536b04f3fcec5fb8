CONSTANTS
    Workloads <- MCWorkloads
    Slots <- MCSlots
    Ranks <- MCRanks
    None = None
    VocabSize = 4
    Weight <- MCWeight
    Noise <- MCNoise
    HintK = 2
    HintMinP = 3
    HintRows = 2
    GumbelRows = 2
    UnfilteredRows = 2
    UnfilteredOffset = 4
    ShardedMinRows = 2
    ShardedMaxRows = 2
    PrefilterRows = 2
SPECIFICATION DecodeSpec
INVARIANTS TokensRight OwnNoise InputsRight
