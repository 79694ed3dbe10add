\* show -dimm and show -memoryresources dispatched by the CLI.
CONSTANTS
    NDimms = 2
    Sockets = {0, 1}
    Skus = {"s1", "s2"}
    ErrorBits = {"MemInfoPage", "SmartAndHealth"}
    Options = {"table", "all", "Capacity", "VolatileCapacity"}
    DimmInfos <- MCDimmInfos
SPECIFICATION Spec
INVARIANT ListsExactlySelection
INVARIANT MixedSkuDetected
INVARIANT CapacityFailureReported
CHECK_DEADLOCK FALSE
