---------------------------- MODULE MCRawMonitor ----------------------------
(* The policies of the instance of RawMonitor that TLC checks, and its     *)
(* process numbers, which are alike.                                       *)
EXTENDS RawMonitor, TLC

CONSTANTS c1, c2, p1, p2

\* No container, and two by two patterns that overlap.
PolicySet == {{}, {{c1}, {c1, c2}}}

PidSet == {p1, p2}
PidSymmetry == Permutations(PidSet)

\* Making the list neither reads nor writes the maps: no system call is looked up in
\* the meantime, though one may be under way when it begins.  The file is read at the
\* start of an update: it changes between two of them.
LessInterleaving ==
    /\ pc = "list" /\ pc' = "list" => UNCHANGED cpu
    /\ pc # "idle" => UNCHANGED file
=============================================================================
