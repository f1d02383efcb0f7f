------------------------------- MODULE DayLog -------------------------------
(***************************************************************************)
(* What a logger with one file per day promises its daemon.  An event is   *)
(* in memory until it is in the file, and then it is there once; only the  *)
(* order of the events is open, since buffers may overtake each other.     *)
(* Files grow, and are put away when the day is over.  A killed process    *)
(* loses what it had in memory, one that ends by itself loses nothing, and *)
(* the next one starts over the file of the same day.  A process in which  *)
(* two threads met in a buffer or the disk failed only promises that files *)
(* grow.                                                                   *)
(***************************************************************************)
EXTENDS Naturals, Sequences, Functions

CONSTANT MaxEvents   \* bound: events numbered 1, 2, ... in a behaviour

VARIABLES
    accepted,   \* number of events taken so far, by all processes
    pending,    \* the events of the present process that are in memory only
    archive,    \* what the files of earlier days hold
    file,       \* what the last file holds
    today,      \* that file is the one of today
    process,    \* "up", "ended" or "killed"
    sound       \* no data race and no failure of the disk in the present process

log == <<archive, file, today>>
vars == <<accepted, pending, log, process, sound>>

Init ==
    /\ accepted = 0
    /\ pending = {}
    /\ archive = <<>>
    /\ file = <<>>
    /\ today = TRUE
    /\ process = "up"
    /\ sound = TRUE

Accept ==
    /\ process = "up"
    /\ accepted < MaxEvents
    /\ accepted' = accepted + 1
    /\ pending' = pending \cup {accepted + 1}
    /\ UNCHANGED <<log, process, sound>>

\* The file grows by a sequence of events that were in memory, each written once.
Added == SubSeq(file', Len(file) + 1, Len(file'))
Grows == file' = file \o Added
Writes == Grows /\ IsInjective(Added) /\ Range(Added) \subseteq pending

Deliver ==
    /\ process = "up"
    /\ Writes
    /\ pending' = pending \ Range(Added)
    /\ UNCHANGED <<accepted, archive, today, process, sound>>

Midnight ==
    /\ today' = FALSE
    /\ UNCHANGED <<accepted, pending, archive, file, process, sound>>

PutAway ==
    /\ archive' = archive \o file
    /\ file' = <<>>
    /\ today' = TRUE

NewDay ==
    /\ process = "up"
    /\ ~today
    /\ PutAway
    /\ UNCHANGED <<accepted, pending, process, sound>>

End ==
    /\ process = "up"
    /\ pending = {}
    /\ process' = "ended"
    /\ UNCHANGED <<accepted, pending, log, sound>>

\* Some of what is in memory may still reach the file.
Kill ==
    /\ process = "up"
    /\ Writes
    /\ pending' = {}
    /\ process' = "killed"
    /\ UNCHANGED <<accepted, archive, today, sound>>

Restart ==
    /\ process # "up"
    /\ IF today THEN file' = <<>> /\ UNCHANGED <<archive, today>> ELSE PutAway
    /\ pending' = {}
    /\ process' = "up"
    /\ sound' = TRUE
    /\ UNCHANGED accepted

\* What a race or a failure does to the events of the present process, at once or later.
Spoil ==
    /\ process = "up"
    /\ sound' = FALSE
    /\ accepted' \in accepted..MaxEvents
    /\ pending' \subseteq 1..accepted'
    /\ Grows
    /\ process' \in {"up", "ended", "killed"}
    /\ UNCHANGED <<archive, today>>

Next ==
    \/ Accept \/ Deliver \/ Midnight \/ NewDay
    \/ End \/ Kill \/ Restart \/ Spoil

Spec == Init /\ [][Next]_vars

=============================================================================
