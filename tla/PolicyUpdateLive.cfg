\* lsm and tracepoint with fair threads: retries end, SIGINT ends the process.
SPECIFICATION FairSpec
CONSTANTS
    Daemons = {"lsm", "tp"}
    FileChanges = {"write", "delete"}
    ContainerChanges = {"start", "stop"}
    MaxChanges = 2
    MaxGlitches = 1
    MaxRestarts = 0
    StreamEnds = FALSE
PROPERTIES
    RetryCatchesUp
    ExitsWhenTold
