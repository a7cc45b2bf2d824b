SPECIFICATION Spec
CONSTANTS
    Aggregates = {a1, a2}
    MaxSends = 4
INVARIANTS
    RemovesItsEvent
CHECK_DEADLOCK FALSE
