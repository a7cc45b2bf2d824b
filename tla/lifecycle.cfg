SPECIFICATION FairSpec
CONSTANTS
    Consumers = {initializer, processor, indexer}
INVARIANTS
    TypeOK
    ConsumersOutliveErrors
    OneMessageAfterCancel
PROPERTIES
    ConsumersStop
    ProcessEnds
CHECK_DEADLOCK FALSE
