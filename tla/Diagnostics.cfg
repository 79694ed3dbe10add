CONSTANTS
    Dimms = {1, 2}
    BadId = 9
    Outcomes <- MCOutcomes
    HiiCanFail = FALSE
    Entries = {"Combined", "Detail"}
SPECIFICATION Spec
INVARIANTS
    TypeOK
    EveryRunTestReported
    FirstErrorKept
CHECK_DEADLOCK FALSE
