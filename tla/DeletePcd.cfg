CONSTANTS
    Dimms = {1, 2}
    PcdValues = {"", "Config", "LSA"}
    NUnits = 2
    Uuids = {u1, u2}
    Sizes = {1, Largest}
    Largest = Largest
    MaxNsOps = 2
SPECIFICATION Spec
INVARIANTS
    TypeOK
    ClearedAsRequested
    ConsentBeforeClear
    NoDoubleAllocation
    UsedCoversMedia
CHECK_DEADLOCK FALSE
