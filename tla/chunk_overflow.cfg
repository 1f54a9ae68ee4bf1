SPECIFICATION TextSpec
CONSTANTS
    Texts <- SmallTexts
    Pages <- OneText
    CharsPerToken = 4
    ChunkTarget = 8
    ChunkOverlap = 2
    Cuts = {0, 10, 24}
    MaxChunks = 3
CHECK_DEADLOCK FALSE
INVARIANTS ChunksFitTheTarget
