CONSTANTS
    r1 = r1
    r2 = r2
    l1 = l1
    l2 = l2
    Requests = {r1, r2}
    Lines = {l1, l2}
    NullLine = null
    Zero = zero
    Unwritten = unwritten
    Width = 4
    BlockM = 4
    ChunkLens = {1, 2, 3, 5}
    MaxTokens = 6
    SplitMinLen = 5
    ManySequences = 2
SYMMETRY Interchangeable
SPECIFICATION Spec
INVARIANTS TypeOK OutputsRight StateIsTail
