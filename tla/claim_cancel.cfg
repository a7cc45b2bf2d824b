SPECIFICATION Spec
CONSTANTS
    Orders = {o1}
    Actors = {a1, a2}
    MaxEvents = 4
SYMMETRY Interchangeable
INVARIANTS
    CancelsOnlyPaidUnshipped
CHECK_DEADLOCK FALSE
