CONSTANTS
    NDimms = 2
    Options = {"default", "all", "MaxTemperature"}
SPECIFICATION Spec
INVARIANTS
    MaxTemperatureOnlyFromFis113
CHECK_DEADLOCK FALSE
