SPECIFICATION FairSpec
CONSTANTS
    Modes = {"Decode", "Dump"}
    CallKinds = {"NFIT", "PCAT", "PMTT"}
    PcatLists = 3
    NfitLists = 2
    SubtableTypes = {"Socket", "iMC", "Module", "Vendor"}
    MaxSubtables = 2
    MaxCalls = 2
INVARIANTS
    DecodeMatchesReference
    StateFlagsMatchReference
    PathsIdentifyTables
PROPERTIES
    EveryCallReturns
CHECK_DEADLOCK FALSE
