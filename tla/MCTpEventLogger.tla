--------------------------- MODULE MCTpEventLogger ---------------------------
(***************************************************************************)
(* TpEventLogger for TLC: what moves on, and what its comments say of      *)
(* waiting for a buffer.                                                   *)
(***************************************************************************)
EXTENDS TpEventLogger

\* An event does not stay in a buffer that never fills: the age of the current
\* buffer moves it on, unless main is blocked or has closed the logger.
EventsLeave ==
    \A e \in Events :
        e \in Pending ~> (e \notin Pending \/ main = "waiting" \/ shutdown)

\* The destructor returns: whatever is queued or half flushed when shutdown_ is set, both
\* threads end, unless the pool thread misses stop_, which is announced without the
\* mutex of its queue.
DestructorReturns == shutdown ~> (main = "done" \/ (stop /\ worker = "asleep"))

\* EventLogger.cpp:226, "all buffers are in use, so wait", and :305, "notify the
\* waiting threads": addEvent that waits for a buffer gets one.
AddEventReturns == main = "waiting" ~> main # "waiting"

=============================================================================
