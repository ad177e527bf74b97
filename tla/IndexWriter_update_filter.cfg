\* Inserts and updates: mergeUpdatedBarrel drops the delete filter that its next call dereferences.
CONSTANTS
    Collections = {c1}
    MaxDocId = 3
    MemCap = 2
    MaxBarrels = 5
    MergeStrategy = "imm"
    Updates = TRUE
    EmptyDocs = FALSE
    Optimize = FALSE
    None = None
SPECIFICATION Spec
INVARIANT
    UpdateMergeHasFilter
