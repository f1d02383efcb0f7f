\* SIGTERM interrupts the tracepoint daemon's poll: the join never returns.
SPECIFICATION FairSpec
CONSTANTS
    Daemons = {"tp"}
    FileChanges = {"write"}
    ContainerChanges = {"start"}
    MaxChanges = 1
    MaxGlitches = 0
    MaxRestarts = 0
    StreamEnds = FALSE
PROPERTIES
    JoinReturns
