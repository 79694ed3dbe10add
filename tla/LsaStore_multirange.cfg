CONSTANTS
    Uuids = {u1, u2}
    Names = {n1, n2}
    Dpas = {d1, d2}
    NSlots = 3
    SeqModulus = 4
    MaxInsert = 2
    MultiRange = TRUE
    NoLabel = NoLabel
    NoName = NoName
    NoRequest = NoRequest
SPECIFICATION Spec
PROPERTIES
    AtomicLabelStore
