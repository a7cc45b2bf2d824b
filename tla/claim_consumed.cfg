SPECIFICATION Spec
CONSTANTS
    Orders = {o1}
    Actors = {a1, a2}
    MaxEvents = 3
SYMMETRY Interchangeable
INVARIANTS
    ConsumedIsStored
CHECK_DEADLOCK FALSE
