SPECIFICATION FairSpec
CONSTANTS
    Consumers = {indexer}
PROPERTIES
    CancelShutsDown
CHECK_DEADLOCK FALSE
