\* Two writer threads: one inserting while the other flushes.  A crashed
\* process takes no further steps.
CONSTANTS
    Writers = {w1, w2}
    Searchers = {}
    Docs = {d1, d2}
    None = None
CHECK_DEADLOCK FALSE
SPECIFICATION Spec
INVARIANTS
    InsertedDocsKept
