SPECIFICATION Spec
CONSTANTS
    Orders = {o1}
    Actors = {a1, a2, a3}
    MaxEvents = 5
SYMMETRY Interchangeable
INVARIANTS
    OnePaymentRecorded
CHECK_DEADLOCK FALSE
