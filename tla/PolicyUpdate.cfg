\* The three daemons, each under every change of the world, a failing Docker
\* call, a lost event stream and a restart.
SPECIFICATION Spec
CONSTANTS
    Daemons = {"lsm", "raw", "tp"}
    FileChanges = {"write", "delete", "move"}
    ContainerChanges = {"start", "stop", "exit"}
    MaxChanges = 3
    MaxGlitches = 1
    MaxRestarts = 1
    StreamEnds = TRUE
INVARIANTS
    TypeOK
    OneUpdater
    FreshWhenQuiet
PROPERTIES
    LostOnlyAfterUnlock
