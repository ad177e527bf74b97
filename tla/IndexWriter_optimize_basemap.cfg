\* Inserts and optimize: the barrel opened by optimize inherits the previous barrel's base doc id.
CONSTANTS
    Collections = {c1}
    MaxDocId = 3
    MemCap = 2
    MaxBarrels = 5
    MergeStrategy = "imm"
    Updates = FALSE
    EmptyDocs = FALSE
    Optimize = TRUE
    None = None
SPECIFICATION Spec
INVARIANT
    BaseDocIDsExact
