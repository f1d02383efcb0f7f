\* Every call, made by one thread; the policy asks for all or for none of them, and changes
\* at any time, also between the entry and the exit of a call.
SPECIFICATION Spec
CONSTANTS
  t1 = t1  t2 = t2  t3 = t3
  Threads = {t1}
  Calls <- AllCalls
  Policies <- AllOrNone
  Capacity = 1
  Room = 1
ACTION_CONSTRAINT HandledAtOnce
INVARIANTS OthersAreTrue ResultsArrive
