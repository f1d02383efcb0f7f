-------------------------- MODULE MCSyscallEvents --------------------------
(* Instances of SyscallEvents for TLC: one thread making every known call, *)
(* and three threads that compete for the entries of a few maps.           *)
EXTENDS SyscallEvents, TLC

AllCalls == DOMAIN Stores
AllOrNone == {Calls, {}}

CONSTANTS t1, t2, t3
Three == {t1, t2, t3}
ThreadSymmetry == Permutations(Three)

\* An event is handled before the thread makes another call: in a run over all calls, what
\* is printed of each is the question; full rings are in the other run.
HandledAtOnce == ring # <<>> => ring' = Tail(ring)

\* Where threads compete for entries, what kind of address is read does not matter.
OneFamily == \A i \in 1..Len(ring') : ring'[i].memory \in {"unreadable", "whole", "inet"}
=============================================================================
