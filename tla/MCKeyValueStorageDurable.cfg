CONSTANTS
    Keys = {k1, k2}
    Values = {v1, v2}
SPECIFICATION Spec
INVARIANTS
    SyncIsDurable
