----------------------------- MODULE RawCounter -----------------------------
(***************************************************************************)
(* How the raw_tracepoint daemon numbers the system calls it logs.  The    *)
(* program sys_enter adds one to the global cnt, reserves a record of the  *)
(* ring buffer and then, in steps of its own, copies err_cnt and cnt into  *)
(* the record, while other CPUs do the same.  The daemon handles records   *)
(* in the order they were reserved, and the script check_missing_events    *)
(* looks for gaps between the numbers.  Which calls get here is            *)
(* RawMonitor; what becomes of the events is RawEventLogger.               *)
(***************************************************************************)
EXTENDS Integers, Sequences, FiniteSets

CONSTANTS
    Cpus,
    RingSize,   \* records the ring buffer events_1 has room for
    MaxCalls    \* bound: system calls counted in a behaviour

ASSUME ConstantsAssumption ==
    /\ IsFiniteSet(Cpus)
    /\ RingSize \in Nat
    /\ MaxCalls \in Nat

VARIABLES
    cnt,        \* calls counted
    err_cnt,    \* calls for which the ring buffer had no room
    events,     \* all records, in the order they were reserved
    handled,    \* rb_cnt_1: records the daemon has handled
    reported,   \* the daemon's own err_cnt, copied from the last record
    cpu,        \* where each CPU is in sys_enter, and its record
    before      \* history: for each CPU, the largest number submitted before
                \* its call was counted

vars == <<cnt, err_cnt, events, handled, reported, cpu, before>>

Unset == -1
Idle == [pc |-> "idle", record |-> 0]
Fresh(n) == [ready |-> FALSE, error_cnt |-> Unset, cnt |-> Unset, after |-> n]

\* Calls that are counted and have neither a record nor an error yet.
Midway == {u \in Cpus : cpu[u].pc = "reserve"}

\* The numbers submitted so far.
Submitted == {events[i].cnt : i \in {j \in DOMAIN events : events[j].ready}}
IsLargest(n, numbers) == n \in numbers /\ \A m \in numbers : m <= n

Init ==
    /\ cnt = 0
    /\ err_cnt = 0
    /\ events = <<>>
    /\ handled = 0
    /\ reported = 0
    /\ cpu = [u \in Cpus |-> Idle]
    /\ before = [u \in Cpus |-> 0]

-----------------------------------------------------------------------------
CountPlainly(u) ==   \* mutant: cnt++, which two CPUs may do at once
    /\ cpu[u] = Idle
    /\ cnt < MaxCalls
    /\ cnt' = IF Midway = {} THEN cnt + 1 ELSE cnt
    /\ cpu' = [cpu EXCEPT ![u].pc = "reserve"]
    /\ \E n \in Submitted \cup {0} :
         /\ IsLargest(n, Submitted \cup {0})
         /\ before' = [before EXCEPT ![u] = n]
    /\ UNCHANGED <<err_cnt, events, handled, reported>>

\* __sync_fetch_and_add(&cnt, 1)
Count(u) ==
    /\ cpu[u] = Idle
    /\ cnt < MaxCalls
    /\ cnt' = cnt + 1
    /\ cpu' = [cpu EXCEPT ![u].pc = "reserve"]
    /\ \E n \in Submitted \cup {0} :
         /\ IsLargest(n, Submitted \cup {0})
         /\ before' = [before EXCEPT ![u] = n]
    /\ UNCHANGED <<err_cnt, events, handled, reported>>

ReserveAnyway(u) ==   \* mutant: a record although there is no room
    /\ cpu[u].pc = "reserve"
    /\ Len(events) - handled <= RingSize
    /\ events' = Append(events, Fresh(before[u]))
    /\ cpu' = [cpu EXCEPT ![u] = [pc |-> "error_cnt", record |-> Len(events) + 1]]
    /\ UNCHANGED <<cnt, err_cnt, handled, reported, before>>

Reserve(u) ==
    /\ cpu[u].pc = "reserve"
    /\ Len(events) - handled < RingSize
    /\ events' = Append(events, Fresh(before[u]))
    /\ cpu' = [cpu EXCEPT ![u] = [pc |-> "error_cnt", record |-> Len(events) + 1]]
    /\ UNCHANGED <<cnt, err_cnt, handled, reported, before>>

DropUncounted(u) ==   \* mutant: the error is not counted
    /\ cpu[u].pc = "reserve"
    /\ Len(events) - handled >= RingSize
    /\ cpu' = [cpu EXCEPT ![u] = Idle]
    /\ UNCHANGED <<cnt, err_cnt, events, handled, reported, before>>

\* The buffer is full: the call is lost, and counted.
Drop(u) ==
    /\ cpu[u].pc = "reserve"
    /\ Len(events) - handled >= RingSize
    /\ err_cnt' = err_cnt + 1
    /\ cpu' = [cpu EXCEPT ![u] = Idle]
    /\ UNCHANGED <<cnt, events, handled, reported, before>>

\* e->error_cnt = err_cnt
CopyErrors(u) ==
    /\ cpu[u].pc = "error_cnt"
    /\ events' = [events EXCEPT ![cpu[u].record].error_cnt = err_cnt]
    /\ cpu' = [cpu EXCEPT ![u].pc = "cnt"]
    /\ UNCHANGED <<cnt, err_cnt, handled, reported, before>>

\* e->cnt = cnt: whatever it is by now.
CopyCount(u) ==
    /\ cpu[u].pc = "cnt"
    /\ events' = [events EXCEPT ![cpu[u].record].cnt = cnt]
    /\ cpu' = [cpu EXCEPT ![u].pc = "submit"]
    /\ UNCHANGED <<cnt, err_cnt, handled, reported, before>>

Submit(u) ==
    /\ cpu[u].pc = "submit"
    /\ events' = [events EXCEPT ![cpu[u].record].ready = TRUE]
    /\ cpu' = [cpu EXCEPT ![u] = Idle]
    /\ UNCHANGED <<cnt, err_cnt, handled, reported, before>>

-----------------------------------------------------------------------------
\* handle_event1, for the oldest record; one that is not submitted holds up those
\* behind it.
Handle ==
    /\ handled < Len(events)
    /\ events[handled + 1].ready
    /\ handled' = handled + 1
    /\ reported' = events[handled + 1].error_cnt
    /\ UNCHANGED <<cnt, err_cnt, events, cpu, before>>

SysEnter(u) ==
    \/ Count(u) \/ Reserve(u) \/ Drop(u)
    \/ CopyErrors(u) \/ CopyCount(u) \/ Submit(u)

Next == Handle \/ \E u \in Cpus : SysEnter(u)

Spec == Init /\ [][Next]_vars

-----------------------------------------------------------------------------
\* check_missing_events: numbers between the least and the largest of the log that
\* no event has, and events whose number another has.
Logged == {events[i].cnt : i \in 1..handled}
Missing == {n \in 1..MaxCalls : n \notin Logged /\ (\E m \in Logged : m < n)
                                                /\ (\E m \in Logged : m > n)}
Duplicates == handled - Cardinality(Logged)

Pcs == {"idle", "reserve", "error_cnt", "cnt", "submit"}
Records == [ready : BOOLEAN, error_cnt : Nat \cup {Unset}, cnt : Nat \cup {Unset},
            after : Nat]

TypeOK ==
    /\ cnt \in 0..MaxCalls
    /\ err_cnt \in Nat
    /\ events \in Seq(Records)
    /\ handled \in 0..Len(events)
    /\ Len(events) - handled <= RingSize
    /\ reported \in 0..err_cnt
    /\ cpu \in [Cpus -> [pc : Pcs, record : 0..Len(events)]]
    /\ before \in [Cpus -> Nat]

\* What check_missing_events reports is accounted for: a number that no logged event
\* has was counted for a call the ring buffer had no room for, or skipped because two
\* CPUs copied the same later number, or belongs to a call that is not logged yet.
MissingExplained ==
    Cardinality(Missing)
      <= err_cnt + Duplicates + (Len(events) - handled) + Cardinality(Midway)

\* Without its error count the number of an event is at least its place in the log,
\* however the steps of the CPUs interleave: error_cnt is copied before cnt, and a call
\* is counted before it has a record.
PlaceInLog ==
    \A i \in 1..handled : events[i].cnt - events[i].error_cnt >= i

\* A call that is counted after another one's event was submitted has the larger
\* number; calls that overlap may have the same, in any order.
LaterIsLarger ==
    \A i \in DOMAIN events : events[i].ready => events[i].cnt > events[i].after
=============================================================================
