SPECIFICATION SysFairSpec
CONSTANTS
    Orders = {o1}
    Actors = {client, initializer, processor}
    Initializers = {initializer}
    Processors = {processor}
    Indexers = {x1, x2}
    MaxEvents = 3
    MaxFaults = 0
PROPERTIES
    EventuallyConsistent
CHECK_DEADLOCK FALSE
