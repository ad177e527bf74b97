\* writers: as MC_Writers (IndexWriter over doc ids up to 6 and over two
\*   doc ids with updates and optimize; two writer and two searcher threads).
\* structures: as MC_Structures, with the wavelet tree's default node
\*   character 0, inside the alphabet.
\* btree: keys {1, 2}, doc ids {1, 2, 3}, a three-entry cache, two count()
\*   callers.
\* The only states without a successor are those in which an Indexer insert
\* has dereferenced a NULL barrel writer and the process has crashed.
CONSTANTS
    Collections = {c1}
    Writers = {w1, w2}
    Searchers = {s1, s2}
    Docs = {d1, d2}
    None = None
    BlockSize = 2
    BlockPerSuperBlock = 2
    SelectBlockSize = 3
    SupportSelect = TRUE
    BitsMaxLen = 9
    Values = {0, 130, 20000}
    MaxData = 2
    CacheSizes = {1, 2}
    Null = Null
    AlphabetNum = 3
    SeqMaxLen = 4
    NodeCharDefault = 0
    Keys = {k1, k2}
    SmallVal = SmallVal
    LargeVal = LargeVal
    DefaultMapSize = 8
    MapSizes = {8}
    Threads = {t1}
    MaxAppends = 3
    Names = {n1, n2, n3}
    W = 4
    MinID = 1
    MaxID = 13
    TermIds = {1, 2, 3}
    BufSizes = {2, 4}
    FieldLen = 3
    MaxValues = 3
    BufCap = 2
    CacheCap = 3
    Readers = {r1, r2}
CHECK_DEADLOCK FALSE
SYMMETRY ReaderSymmetry
INIT Init
NEXT Next
INVARIANTS
    TypeOK
    BaseDocIDsExact
    WriterHasCurrentBarrel
    ReaderSeesFlushed
    BitsRankCorrect
    BitsSelectCorrect
    CharCacheDecodes
    TreeAccessCorrect
    TreeOccCorrect
    TreeIntersectCorrect
    ReadsLastStored
    VocabularyInOrder
    IteratesPushedValues
    CountCorrect
PROPERTIES
    OptimizeMergesAll
    AbstractSpec
