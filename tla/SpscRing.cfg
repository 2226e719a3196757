CONSTANTS
    p1 = p1
    v1 = v1
    v2 = v2
    Producer = {p1}
    Value = {v1, v2}
    Uninit = Uninit
    Cap = 4
    Size = 8
SPECIFICATION Spec
CHECK_DEADLOCK FALSE
INVARIANTS
    SlotOwnership
    NothingLeaks
PROPERTIES
    ImplementsFifo
