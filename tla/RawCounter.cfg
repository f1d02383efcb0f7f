\* Three CPUs, a ring buffer of two records, six calls.
SPECIFICATION Spec
CONSTANTS
    u1 = u1
    u2 = u2
    u3 = u3
    Cpus <- CpuSet
    RingSize = 2
    MaxCalls = 6
SYMMETRY CpuSymmetry
INVARIANTS
    TypeOK
    MissingExplained
    PlaceInLog
    LaterIsLarger
\* The bound on calls ends a behaviour.
CHECK_DEADLOCK FALSE
