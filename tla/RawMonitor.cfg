\* Two containers over two starts, two process numbers, one CPU.
SPECIFICATION Spec
CONSTANTS
    c1 = c1
    c2 = c2
    Containers = {c1, c2}
    p1 = p1
    p2 = p2
    Pids <- PidSet
    Policies <- PolicySet
    Cpus = {1}
    PidMapSize = 2
    CgroupMapSize = 2
    Strays = {1}
    MaxStarts = 2
SYMMETRY PidSymmetry
ACTION_CONSTRAINT LessInterleaving
INVARIANTS
    TypeOK
    NothingElse
    WatchedWhenSettled
PROPERTIES
    Uninterrupted
