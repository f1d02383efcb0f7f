\* Two containers, two namespaces, tables of one call; a stray namespace may be
\* a real one or none.
SPECIFICATION Spec
CONSTANTS
    c1 = c1
    c2 = c2
    open = open
    read = read
    Unknown = unknown
    Containers = {c1, c2}
    Namespaces = {2, 3}
    Calls = {open, read}
    Policies <- PolicySet
    Limit = 1
    MapSize = 3
    Strays = {3, 101}
INVARIANTS
    TypeOK
    NoOrphan
    TablesWhenSettled
PROPERTIES
    Uninterrupted
