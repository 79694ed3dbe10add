CONSTANTS
    Uuids = {u1, u2, u3}
    Names = {n1, n2}
    Dpas = {d1}
    NSlots = 2
    SeqModulus = 4
    MaxInsert = 2
    MultiRange = FALSE
    NoLabel = NoLabel
    NoName = NoName
    NoRequest = NoRequest
SPECIFICATION Spec
INVARIANTS
    TypeOK
    InUseSlotsHoldLabels
PROPERTIES
    AtomicLabelStore
