------------------------------ MODULE EventLog ------------------------------
(***************************************************************************)
(* What a Youmuu event logger promises its daemon: an event handed to      *)
(* addEvent is delivered at most once and in the order of the calls.  The  *)
(* sink (Kafka, or a log file) may refuse an event, and closing the logger *)
(* may lose what has not left it yet; nothing else is lost.                *)
(***************************************************************************)
EXTENDS Naturals, Sequences

CONSTANT MaxEvents   \* bound: events numbered 1, 2, ... in a behaviour

VARIABLES
    accepted,   \* number of events taken so far
    pending,    \* the events taken and neither delivered nor lost
    sink,       \* events the sink has taken
    closed

vars == <<accepted, pending, sink, closed>>

Init ==
    /\ accepted = 0
    /\ pending = {}
    /\ sink = <<>>
    /\ closed = FALSE

Accept ==
    /\ ~closed
    /\ accepted < MaxEvents
    /\ accepted' = accepted + 1
    /\ pending' = pending \cup {accepted + 1}
    /\ UNCHANGED <<sink, closed>>

\* The oldest of the events that are left goes first, to the sink or away.
Oldest(e) == e \in pending /\ \A d \in pending : e <= d

Deliver(e) ==
    /\ Oldest(e)
    /\ sink' = Append(sink, e)
    /\ pending' = pending \ {e}
    /\ UNCHANGED <<accepted, closed>>

Refuse(e) ==
    /\ Oldest(e)
    /\ pending' = pending \ {e}
    /\ UNCHANGED <<accepted, sink, closed>>

Close ==
    /\ ~closed
    /\ closed' = TRUE
    /\ pending' = {}
    /\ UNCHANGED <<accepted, sink>>

Next == Accept \/ Close \/ \E e \in pending : Deliver(e) \/ Refuse(e)

Spec == Init /\ [][Next]_vars

=============================================================================
