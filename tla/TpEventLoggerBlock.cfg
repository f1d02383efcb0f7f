SPECIFICATION FairSpec
CONSTANTS
    BufferCount = 2
    BufferSize = 2
    MaxEvents = 5
PROPERTY AddEventReturns
CHECK_DEADLOCK FALSE
