\* The bit vector build writing past the superblocks reset() allocated.
CONSTANTS
    BlockSize = 2
    BlockPerSuperBlock = 2
    SelectBlockSize = 3
    SupportSelect = TRUE
    BitsMaxLen = 9
    Values = {0, 130, 20000}
    MaxData = 2
    CacheSizes = {1, 2}
    Null = Null
    AlphabetNum = 3
    SeqMaxLen = 4
    NodeCharDefault = 0
    Keys = {k1, k2}
    SmallVal = SmallVal
    LargeVal = LargeVal
    DefaultMapSize = 8
    MapSizes = {8}
    Threads = {t1}
    MaxAppends = 3
    Names = {n1, n2, n3}
    W = 4
    MinID = 1
    MaxID = 13
    TermIds = {1, 2, 3}
    BufSizes = {2, 4}
    FieldLen = 3
    None = None
    MaxValues = 3
    BufCap = 2
INIT Init
NEXT Next
INVARIANT
    BuildWithinAllocation
