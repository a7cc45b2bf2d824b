SPECIFICATION SysFairSpec
CONSTANTS
    Orders = {o1}
    Actors = {client, initializer, processor}
    Initializers = {initializer}
    Processors = {processor}
    Indexers = {x1, x2}
    MaxEvents = 3
    MaxFaults = 1
INVARIANTS
    SysTypeOK
    RowIsAPrefix
    CaughtUp
    PaidAtRest
PROPERTIES
    SendTerminates
    ListingForward
    PlacedIsPaid
    TableCatchesUp
CHECK_DEADLOCK FALSE
