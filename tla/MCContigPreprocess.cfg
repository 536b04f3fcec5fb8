CONSTANTS
    Calls <- MCCalls
    BlockThreads = 2
    SlotsPerBlock = 4
    TreeTokens = 5
    TreeExperts = 3
    MinTokens = 2
    MaxTopK = 2
    Junk = 77
SPECIFICATION Spec
INVARIANTS TypeOK RowsRight TilesUniform
