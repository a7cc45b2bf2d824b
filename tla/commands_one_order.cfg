SPECIFICATION Spec
CONSTANTS
    Orders = {o1}
    Actors = {a1, a2, a3}
    MaxEvents = 5
SYMMETRY Interchangeable
INVARIANTS
    TypeOK
    SerialHistory
    AckedDurable
    CommittedBeforeBus
    ChargedOnce
    KeysUnique
PROPERTIES
    AtomicCommands
    ShippingForward
    StatusMachine
CHECK_DEADLOCK FALSE
