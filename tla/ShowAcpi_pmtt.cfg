SPECIFICATION FairSpec
CONSTANTS
    Modes = {"Dump"}
    CallKinds = {"PMTT"}
    PcatLists = 1
    NfitLists = 1
    SubtableTypes = {"Socket", "iMC", "Module", "Vendor"}
    MaxSubtables = 3
    MaxCalls = 1
PROPERTIES
    PmttWalkTerminates
CHECK_DEADLOCK FALSE
