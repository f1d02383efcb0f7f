\* Two buffers of two events and a disk that may fail.
SPECIFICATION FairSpec
CONSTANTS
    BufferCount = 2
    BufferSize = 2
    MaxEvents = 6
    MaxDays = 2
    MaxRestarts = 1
    DiskFails = TRUE
INVARIANTS
    TypeOK
    Conserved
    NoneForgotten
PROPERTIES
    OnlyRestartErases
    EventsLeave
    ImplementsDayLog
\* main may end its loop and the logger with it, or the process may crash.
CHECK_DEADLOCK FALSE
