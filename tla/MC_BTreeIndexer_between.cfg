\* Writers only: getValueBetween(low, high, maxDoc, data) against the index.
CONSTANTS
    Keys <- MCKeys
    Docs <- MCDocs
    CacheCap = 3
    Readers = {}
    None = None
SPECIFICATION Spec
INVARIANT
    GetValueBetweenComplete
