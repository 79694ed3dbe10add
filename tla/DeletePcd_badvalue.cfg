CONSTANTS
    Dimms = {1, 2}
    PcdValues = {"", "Config", "LSA", "Other"}
SPECIFICATION Spec
INVARIANTS
    ClearedAsRequested
CHECK_DEADLOCK FALSE
