SPECIFICATION Spec
CONSTANTS
    TreebinShift = 2
    NTreeBins = 4
    SizeBits = 6
    IntBits = 3
    MinChunk = 2
    Record = 2
    FootPad = 2
    MmapPad = 4
    Granularity = 10
    MmapThreshold = 6
    TrimThreshold = 12
    MaxReleaseCheck = 2
    BrkPages = 3
    Environments <- Surroundings
    Requests = {2, 3, 6, 9}
    Alignments = {2}
    Chunk = {1, 2, 3, 4, 5, 6, 7, 8}
    size <- ChunkSizes
    Request = {4, 5, 7, 12, 13, 15, 16, 17, 19, 20, 21}
    Fd = {3, 4}
    MaxEntries = 2
INVARIANT
    WithinFootprintLimit
