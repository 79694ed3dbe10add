\* show -dimm -display with a flag that outlives its DIMM.
CONSTANTS
    NDimms = 2
    Sockets = {0, 1}
    Skus = {"s1", "s2"}
    ErrorBits = {"MemInfoPage", "SmartAndHealth"}
    Options = {"all", "MaxControllerTemperature", "InterfaceFormatCode"}
    DimmInfos <- MCDimmInfos
SPECIFICATION Spec
INVARIANT AttributesOfOwnDimm
CHECK_DEADLOCK FALSE
