\* Three threads, maps of two entries, a policy that comes and goes: two calls whose
\* cleanup deletes from the wrong map, and one that shares such a map.
SPECIFICATION Spec
CONSTANTS
  t1 = t1  t2 = t2  t3 = t3
  Threads <- Three
  Calls = {"accept", "accept4", "getdents64"}
  Policies <- AllOrNone
  Capacity = 2
  Room = 1
SYMMETRY ThreadSymmetry
ACTION_CONSTRAINT OneFamily
INVARIANTS TypeOK PointersOfThisCall EntriesAreInUse RefusedOnlyWhenBusy
