\* Inserts and optimize: a second optimize with an empty in-memory barrel clears pCurBarrelInfo_.
CONSTANTS
    Collections = {c1}
    MaxDocId = 3
    MemCap = 2
    MaxBarrels = 5
    MergeStrategy = "imm"
    Updates = FALSE
    EmptyDocs = FALSE
    Optimize = TRUE
    None = None
SPECIFICATION Spec
INVARIANT
    WriterHasCurrentBarrel
