SPECIFICATION Spec
CONSTANTS
    NDimms = 3
    Options = {"default", "all", "MaxTemperature"}
INVARIANTS
    TypeOK
    EveryReadableDimmShown
CHECK_DEADLOCK FALSE
