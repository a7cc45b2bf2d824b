SPECIFICATION FairSpec
CONSTANTS
    Members = {x1, x2}
    Partitions = {p1, p2}
    MaxMessages = 2
    MaxGenerations = 2
INVARIANTS
    TypeOK
    NoneSettledUntried
    NoneSkipped
PROPERTIES
    OncePerGeneration
    AtLeastOneAttempt
CHECK_DEADLOCK FALSE
