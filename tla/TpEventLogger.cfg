\* Three buffers of two events: the size, the age and the end trigger a flush.
SPECIFICATION FairSpec
CONSTANTS
    BufferCount = 3
    BufferSize = 2
    MaxEvents = 6
INVARIANTS
    TypeOK
    OnePlacePerBuffer
PROPERTIES
    ImplementsEventLog
    WaitsForGood
    EventsLeave
    DestructorReturns
\* main may end its loop and the logger with it.
CHECK_DEADLOCK FALSE
