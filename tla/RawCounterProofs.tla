-------------------------- MODULE RawCounterProofs --------------------------
(***************************************************************************)
(* RawCounter for any number of CPUs, any ring buffer and any number of    *)
(* calls: what the numbers in the log are worth.                           *)
(***************************************************************************)
EXTENDS RawCounter, SequenceTheorems, FiniteSetTheorems, TLAPS

\* Each counted call has ended in an error, has a record, or is still midway.
Balance == cnt = err_cnt + Len(events) + Cardinality(Midway)

Writing(u) == cpu[u].pc \in {"error_cnt", "cnt", "submit"}

\* How far the record of a CPU is filled in.
Filled(u) ==
    LET e == events[cpu[u].record]
    IN  /\ cpu[u].record \in DOMAIN events
        /\ ~e.ready
        /\ cpu[u].pc = "error_cnt" => e.cnt = Unset
        /\ cpu[u].pc = "cnt" => e.error_cnt # Unset /\ e.cnt = Unset
        /\ cpu[u].pc = "submit" => e.cnt # Unset
CpuInv == \A u \in Cpus : Writing(u) => Filled(u)

\* No two CPUs write the same record.
OwnRecord ==
    \A u, v \in Cpus :
        Writing(u) /\ Writing(v) /\ cpu[u].record = cpu[v].record => u = v

\* What the fields of record i are once they are set.
Sound(i) ==
    LET e == events[i]
    IN  /\ e.error_cnt # Unset => e.error_cnt <= err_cnt
        /\ e.cnt # Unset => /\ e.error_cnt # Unset
                            /\ e.cnt <= cnt
                            /\ e.cnt - e.error_cnt >= i
                            /\ e.cnt > e.after
        /\ e.ready => e.cnt # Unset
        /\ e.after < cnt
EventInv == \A i \in DOMAIN events : Sound(i)

HandledInv == \A i \in 1..handled : events[i].ready
BeforeInv == \A u \in Midway : before[u] < cnt

Inv ==
    /\ TypeOK
    /\ Balance
    /\ CpuInv
    /\ OwnRecord
    /\ EventInv
    /\ HandledInv
    /\ BeforeInv

-----------------------------------------------------------------------------
LEMMA MidwayFinite == IsFiniteSet(Midway) /\ Cardinality(Midway) \in Nat
<1>1. IsFiniteSet(Cpus)
  BY ConstantsAssumption
<1>2. Midway \in SUBSET Cpus
  BY DEF Midway
<1>3. IsFiniteSet(Midway)
  BY <1>1, <1>2, FS_Subset
<1>4. QED
  BY <1>3, FS_CardinalityType

LEMMA EventType ==
    ASSUME TypeOK
    PROVE  /\ Len(events) \in Nat
           /\ DOMAIN events = 1..Len(events)
           /\ \A i \in DOMAIN events : events[i] \in Records
BY LenProperties, ElementOfSeq DEF TypeOK

\* Writing a record leaves the others as they are.
LEMMA Rewritten ==
    ASSUME TypeOK, NEW r \in DOMAIN events, NEW e \in Records,
           events' = [events EXCEPT ![r] = e]
    PROVE  /\ events' \in Seq(Records)
           /\ Len(events') = Len(events)
           /\ DOMAIN events' = DOMAIN events
           /\ events'[r] = e
           /\ \A i \in DOMAIN events : i # r => events'[i] = events[i]
<1>1. events \in Seq(Records) /\ DOMAIN events = 1..Len(events)
  BY EventType DEF TypeOK
<1>2. events' \in Seq(Records) /\ Len(events') = Len(events)
  BY <1>1, ExceptSeq
<1>3. QED
  BY <1>1, <1>2

\* A record appended leaves the others as they are.
LEMMA Appended ==
    ASSUME TypeOK, NEW e \in Records, events' = Append(events, e)
    PROVE  /\ events' \in Seq(Records)
           /\ Len(events') = Len(events) + 1
           /\ DOMAIN events' = 1..(Len(events) + 1)
           /\ events'[Len(events) + 1] = e
           /\ \A i \in DOMAIN events : events'[i] = events[i]
<1>1. events \in Seq(Records) /\ DOMAIN events = 1..Len(events) /\ Len(events) \in Nat
  BY EventType DEF TypeOK
<1>2. events' \in Seq(Records) /\ Len(events') = Len(events) + 1
  BY <1>1, AppendProperties
<1>3. QED
  BY <1>1, <1>2, AppendProperties, LenProperties

LEMMA InitInv == Init => Inv
<1>1. SUFFICES ASSUME Init PROVE Inv
  OBVIOUS
<1>2. events \in Seq(Records) /\ Len(events) = 0 /\ DOMAIN events = {}
  BY <1>1, EmptySeq DEF Init
<1>3. TypeOK
  BY <1>1, <1>2, ConstantsAssumption DEF Init, TypeOK, Idle, Pcs
<1>4. Midway = {}
  BY <1>1 DEF Init, Midway, Idle
<1>5. Balance
  BY <1>1, <1>2, <1>4, FS_EmptySet DEF Init, Balance
<1>6. CpuInv /\ OwnRecord
  BY <1>1 DEF Init, CpuInv, OwnRecord, Writing, Idle
<1>7. EventInv /\ HandledInv /\ BeforeInv
  BY <1>1, <1>2, <1>4 DEF Init, EventInv, HandledInv, BeforeInv
<1>8. QED
  BY <1>3, <1>5, <1>6, <1>7 DEF Inv

-----------------------------------------------------------------------------
LEMMA CountInv ==
    ASSUME Inv, NEW u \in Cpus, Count(u)
    PROVE  Inv'
<1>1. TypeOK /\ Balance /\ cnt \in Nat /\ cnt' = cnt + 1
  BY DEF Inv, Count, TypeOK
<1>2. /\ UNCHANGED <<err_cnt, events, handled, reported>>
      /\ cpu' = [cpu EXCEPT ![u].pc = "reserve"]
      /\ cpu[u].pc = "idle"
  BY DEF Count, Idle
<1>3. PICK n \in Submitted \cup {0} : before' = [before EXCEPT ![u] = n]
  BY DEF Count
<1>4. n \in Nat /\ n <= cnt
  <2>1. CASE n = 0
    BY <1>1, <2>1
  <2>2. CASE n \in Submitted
    <3>1. PICK i \in DOMAIN events : events[i].ready /\ n = events[i].cnt
      BY <2>2 DEF Submitted
    <3>2. events[i] \in Records /\ Sound(i)
      BY <1>1, <3>1, EventType DEF Inv, EventInv
    <3>3. QED
      BY <3>1, <3>2 DEF Sound, Records, Unset
  <2>3. QED
    BY <2>1, <2>2
<1>5. cnt' <= MaxCalls
  BY <1>1, ConstantsAssumption DEF Count, TypeOK
<1>6. TypeOK'
  BY SMTT(30), <1>1, <1>2, <1>3, <1>4, <1>5, ConstantsAssumption DEF TypeOK, Pcs
<1>7. Midway' = Midway \cup {u} /\ u \notin Midway
  BY <1>1, <1>2 DEF Midway, TypeOK
<1>8. Cardinality(Midway') = Cardinality(Midway) + 1
  BY <1>7, MidwayFinite, FS_AddElement
<1>9. Balance'
  BY <1>1, <1>2, <1>8, MidwayFinite, EventType DEF Balance, TypeOK
<1>10. \A v \in Cpus : /\ Writing(v)' => Writing(v) /\ cpu'[v] = cpu[v]
                       /\ cpu'[v].record = cpu[v].record
  BY <1>1, <1>2 DEF Writing, TypeOK
<1>11. CpuInv'
  BY <1>2, <1>10 DEF Inv, CpuInv, Filled, Writing
<1>12. OwnRecord'
  BY <1>10 DEF Inv, OwnRecord
<1>13. EventInv'
  <2>1. SUFFICES ASSUME NEW i \in DOMAIN events PROVE Sound(i)'
    BY <1>2 DEF EventInv
  <2>2. Sound(i) /\ events[i] \in Records
    BY <1>1, EventType DEF Inv, EventInv
  <2>3. QED
    BY <1>1, <1>2, <2>2 DEF Sound, Records, Unset
<1>14. HandledInv'
  BY <1>2 DEF Inv, HandledInv
<1>15. BeforeInv'
  BY <1>1, <1>3, <1>4, <1>7 DEF Inv, BeforeInv, TypeOK, Midway
<1>16. QED
  BY <1>6, <1>9, <1>11, <1>12, <1>13, <1>14, <1>15 DEF Inv

LEMMA ReserveInv ==
    ASSUME Inv, NEW u \in Cpus, Reserve(u)
    PROVE  Inv'
<1> DEFINE last == Len(events) + 1
           e == Fresh(before[u])
<1>1. /\ TypeOK /\ Len(events) \in Nat /\ DOMAIN events = 1..Len(events)
      /\ cnt \in Nat /\ err_cnt \in Nat /\ handled \in 0..Len(events)
      /\ before[u] \in Nat
  BY EventType DEF Inv, TypeOK
<1>2. /\ UNCHANGED <<cnt, err_cnt, handled, reported, before>>
      /\ cpu[u].pc = "reserve"
      /\ cpu' = [cpu EXCEPT ![u] = [pc |-> "error_cnt", record |-> last]]
  BY DEF Reserve
<1>3. /\ e = [ready |-> FALSE, error_cnt |-> Unset, cnt |-> Unset, after |-> before[u]]
      /\ e \in Records
  BY <1>1 DEF Fresh, Records, Unset
<1>4. events' = Append(events, e)
  BY DEF Reserve
<1>5. /\ events' \in Seq(Records)
      /\ Len(events') = last
      /\ DOMAIN events' = 1..last
      /\ events'[last] = e
      /\ \A i \in DOMAIN events : events'[i] = events[i]
  BY <1>1, <1>3, <1>4, Appended
<1> HIDE DEF e
<1>6. Len(events) - handled < RingSize
  BY DEF Reserve
<1>7. TypeOK'
  <2>1. cpu' \in [Cpus -> [pc : Pcs, record : 0..Len(events')]]
    BY <1>1, <1>2, <1>5 DEF TypeOK, Pcs
  <2>2. handled \in 0..Len(events') /\ Len(events') - handled <= RingSize
    BY <1>1, <1>5, <1>6, ConstantsAssumption
  <2>3. QED
    BY <1>1, <1>2, <1>5, <2>1, <2>2 DEF TypeOK
<1>8. Midway' = Midway \ {u} /\ u \in Midway
  BY <1>1, <1>2 DEF Midway, TypeOK
<1>9. Cardinality(Midway') = Cardinality(Midway) - 1
  BY <1>8, MidwayFinite, FS_RemoveElement
<1>10. Balance'
  BY <1>1, <1>2, <1>5, <1>9, MidwayFinite DEF Inv, Balance
<1>11. /\ cpu'[u] = [pc |-> "error_cnt", record |-> last]
       /\ \A v \in Cpus : v # u => cpu'[v] = cpu[v]
  BY <1>1, <1>2 DEF TypeOK
<1>12. CpuInv'
  <2>1. SUFFICES ASSUME NEW v \in Cpus, Writing(v)' PROVE Filled(v)'
    BY DEF CpuInv
  <2>2. CASE v = u
    BY <1>1, <1>3, <1>5, <1>11, <2>2 DEF Filled
  <2>3. CASE v # u
    <3>1. Filled(v) /\ cpu'[v] = cpu[v]
      BY <1>11, <2>1, <2>3 DEF Inv, CpuInv, Writing
    <3>2. cpu[v].record \in DOMAIN events
      BY <3>1 DEF Filled
    <3>3. QED
      BY <1>1, <1>5, <3>1, <3>2 DEF Filled
  <2>4. QED
    BY <2>2, <2>3
<1>13. OwnRecord'
  <2>1. \A v \in Cpus : Writing(v) => cpu[v].record \in 1..Len(events)
    BY <1>1 DEF Inv, CpuInv, Filled
  <2>2. \A v \in Cpus : Writing(v)' /\ v # u => Writing(v) /\ cpu'[v].record = cpu[v].record
    BY <1>11 DEF Writing
  <2>3. cpu'[u].record = Len(events) + 1
    BY <1>11
  <2>4. QED
    BY <1>1, <2>1, <2>2, <2>3 DEF Inv, OwnRecord
<1>14. EventInv'
  <2>1. SUFFICES ASSUME NEW i \in 1..last PROVE Sound(i)'
    BY <1>5 DEF EventInv
  <2>2. CASE i = last
    <3>1. before[u] < cnt
      BY <1>8 DEF Inv, BeforeInv
    <3>2. QED
      BY <1>2, <1>3, <1>5, <2>2, <3>1 DEF Sound, Unset
  <2>3. CASE i # last
    <3>1. i \in DOMAIN events
      BY <1>1, <2>3
    <3>2. Sound(i) /\ events'[i] = events[i]
      BY <1>5, <3>1 DEF Inv, EventInv
    <3>3. QED
      BY <1>2, <3>2 DEF Sound
  <2>4. QED
    BY <2>2, <2>3
<1>15. HandledInv'
  BY SMTT(30), <1>1, <1>2, <1>5 DEF Inv, HandledInv
<1>16. BeforeInv'
  BY <1>2, <1>8 DEF Inv, BeforeInv
<1>17. QED
  BY <1>7, <1>10, <1>12, <1>13, <1>14, <1>15, <1>16 DEF Inv

LEMMA DropInv ==
    ASSUME Inv, NEW u \in Cpus, Drop(u)
    PROVE  Inv'
<1>1. /\ TypeOK /\ Len(events) \in Nat /\ cnt \in Nat /\ err_cnt \in Nat
      /\ \A i \in DOMAIN events : events[i] \in Records
  BY EventType DEF Inv, TypeOK
<1>2. /\ UNCHANGED <<cnt, events, handled, reported, before>>
      /\ cpu[u].pc = "reserve"
      /\ cpu' = [cpu EXCEPT ![u] = Idle]
      /\ err_cnt' = err_cnt + 1
  BY DEF Drop
<1>3. TypeOK'
  BY <1>1, <1>2 DEF TypeOK, Idle, Pcs
<1>4. Midway' = Midway \ {u} /\ u \in Midway
  BY <1>1, <1>2 DEF Midway, TypeOK, Idle
<1>5. Cardinality(Midway') = Cardinality(Midway) - 1
  BY <1>4, MidwayFinite, FS_RemoveElement
<1>6. Balance'
  BY <1>1, <1>2, <1>5, MidwayFinite DEF Inv, Balance
<1>7. \A v \in Cpus : Writing(v)' => Writing(v) /\ cpu'[v] = cpu[v]
  BY <1>1, <1>2 DEF Writing, TypeOK, Idle
<1>8. CpuInv'
  BY <1>2, <1>7 DEF Inv, CpuInv, Filled
<1>9. OwnRecord'
  BY <1>7 DEF Inv, OwnRecord
<1>10. EventInv'
  <2>1. SUFFICES ASSUME NEW i \in DOMAIN events PROVE Sound(i)'
    BY <1>2 DEF EventInv
  <2>2. Sound(i) /\ events[i] \in Records
    BY <1>1 DEF Inv, EventInv
  <2>3. QED
    BY <1>1, <1>2, <2>2 DEF Sound, Records, Unset
<1>11. HandledInv' /\ BeforeInv'
  BY <1>2, <1>4 DEF Inv, HandledInv, BeforeInv
<1>12. QED
  BY <1>3, <1>6, <1>8, <1>9, <1>10, <1>11 DEF Inv
-----------------------------------------------------------------------------
LEMMA CopyErrorsInv ==
    ASSUME Inv, NEW u \in Cpus, CopyErrors(u)
    PROVE  Inv'
<1> DEFINE r == cpu[u].record
           e == events[r]
           f == [e EXCEPT !.error_cnt = err_cnt]
<1>1. /\ TypeOK /\ Len(events) \in Nat /\ cnt \in Nat /\ err_cnt \in Nat
      /\ DOMAIN events = 1..Len(events)
      /\ \A i \in DOMAIN events : events[i] \in Records
  BY EventType DEF Inv, TypeOK
<1>2. /\ UNCHANGED <<cnt, err_cnt, handled, reported, before>>
      /\ cpu[u].pc = "error_cnt"
      /\ cpu' = [cpu EXCEPT ![u].pc = "cnt"]
      /\ Filled(u) /\ Writing(u)
  BY DEF CopyErrors, Inv, CpuInv, Writing
<1>3. r \in DOMAIN events /\ e \in Records /\ f \in Records /\ Sound(r)
  BY <1>1, <1>2 DEF Filled, Records, Inv, EventInv
<1>4. events' = [events EXCEPT ![r] = f]
  BY <1>1, <1>3 DEF CopyErrors, Records, TypeOK
<1>5. /\ events' \in Seq(Records)
      /\ Len(events') = Len(events)
      /\ DOMAIN events' = DOMAIN events
      /\ events'[r] = f
      /\ \A i \in DOMAIN events : i # r => events'[i] = events[i]
  BY <1>1, <1>3, <1>4, Rewritten
<1>6. /\ cpu'[u] = [cpu[u] EXCEPT !.pc = "cnt"]
      /\ \A v \in Cpus : v # u => cpu'[v] = cpu[v]
  BY <1>1, <1>2 DEF TypeOK
<1>7. TypeOK'
  BY <1>1, <1>2, <1>5 DEF TypeOK, Pcs, Idle
<1>8. Midway' = Midway
  BY <1>1, <1>2, <1>6 DEF Midway, Idle
<1>9. Balance'
  BY <1>2, <1>5, <1>8 DEF Inv, Balance
<1>10. CpuInv'
  <2>1. SUFFICES ASSUME NEW v \in Cpus, Writing(v)' PROVE Filled(v)'
    BY DEF CpuInv
  <2>2. CASE v = u
    BY <1>1, <1>2, <1>3, <1>5, <1>6, <2>1, <2>2 DEF Filled, Records, Unset
  <2>3. CASE v # u
    <3>1. Writing(v) /\ Filled(v) /\ cpu'[v] = cpu[v]
      BY <1>6, <2>1, <2>3 DEF Inv, CpuInv, Writing
    <3>2. cpu[v].record # r
      BY <1>2, <2>3, <3>1 DEF Inv, OwnRecord
    <3>3. events'[cpu[v].record] = events[cpu[v].record]
      BY <1>5, <3>1, <3>2 DEF Filled
    <3>4. QED
      BY <1>5, <3>1, <3>3 DEF Filled
  <2>4. QED
    BY <2>2, <2>3
<1>11. OwnRecord'
  BY <1>2, <1>6 DEF Inv, OwnRecord, Writing, Idle
<1>12. EventInv'
  <2>1. SUFFICES ASSUME NEW i \in DOMAIN events PROVE Sound(i)'
    BY <1>5 DEF EventInv
  <2>2. CASE i = r
    <3>1. e.cnt = Unset /\ ~e.ready
      BY <1>2 DEF Filled
    <3>2. f.error_cnt = err_cnt /\ f.cnt = Unset /\ ~f.ready /\ f.after = e.after
      BY <1>3, <3>1 DEF Records
    <3>3. e.after < cnt
      BY <1>3 DEF Sound
    <3>4. events'[i] = f /\ cnt' = cnt /\ err_cnt' = err_cnt
      BY <1>2, <1>5, <2>2
    <3>5. QED
      BY <1>1, <3>2, <3>3, <3>4 DEF Sound
  <2>3. CASE i # r
    BY <1>2, <1>5, <2>3 DEF Inv, EventInv, Sound
  <2>4. QED
    BY <2>2, <2>3
<1>13. HandledInv'
  <2>1. \A i \in 1..handled : i # r
    BY <1>2 DEF Inv, HandledInv, Filled
  <2>2. 1..handled \subseteq DOMAIN events
    BY <1>1 DEF TypeOK
  <2>3. QED
    BY <1>2, <1>5, <2>1, <2>2 DEF Inv, HandledInv
<1>14. BeforeInv'
  BY <1>2, <1>8 DEF Inv, BeforeInv
<1>15. QED
  BY <1>7, <1>9, <1>10, <1>11, <1>12, <1>13, <1>14 DEF Inv

LEMMA CopyCountInv ==
    ASSUME Inv, NEW u \in Cpus, CopyCount(u)
    PROVE  Inv'
<1> DEFINE r == cpu[u].record
           e == events[r]
           f == [e EXCEPT !.cnt = cnt]
<1>1. /\ TypeOK /\ Len(events) \in Nat /\ cnt \in Nat /\ err_cnt \in Nat
      /\ DOMAIN events = 1..Len(events)
      /\ \A i \in DOMAIN events : events[i] \in Records
  BY EventType DEF Inv, TypeOK
<1>2. /\ UNCHANGED <<cnt, err_cnt, handled, reported, before>>
      /\ cpu[u].pc = "cnt"
      /\ cpu' = [cpu EXCEPT ![u].pc = "submit"]
      /\ Filled(u) /\ Writing(u)
  BY DEF CopyCount, Inv, CpuInv, Writing
<1>3. r \in DOMAIN events /\ e \in Records /\ f \in Records /\ Sound(r)
  BY <1>1, <1>2 DEF Filled, Records, Inv, EventInv
<1> f.cnt = cnt /\ f.error_cnt = e.error_cnt /\ f.after = e.after /\ ~f.ready
  BY <1>2, <1>3 DEF Records, Filled
<1>4. events' = [events EXCEPT ![r] = f]
  BY <1>1, <1>3 DEF CopyCount, Records, TypeOK
<1>5. /\ events' \in Seq(Records)
      /\ Len(events') = Len(events)
      /\ DOMAIN events' = DOMAIN events
      /\ events'[r] = f
      /\ \A i \in DOMAIN events : i # r => events'[i] = events[i]
  BY <1>1, <1>3, <1>4, Rewritten
<1> HIDE DEF f
<1>6. /\ cpu'[u] = [cpu[u] EXCEPT !.pc = "submit"]
      /\ \A v \in Cpus : v # u => cpu'[v] = cpu[v]
  BY <1>1, <1>2 DEF TypeOK
<1>7. TypeOK'
  BY <1>1, <1>2, <1>5 DEF TypeOK, Pcs, Idle
<1>8. Midway' = Midway
  BY <1>1, <1>2, <1>6 DEF Midway, Idle
<1>9. Balance'
  BY <1>2, <1>5, <1>8 DEF Inv, Balance
<1>10. CpuInv'
  <2>1. SUFFICES ASSUME NEW v \in Cpus, Writing(v)' PROVE Filled(v)'
    BY DEF CpuInv
  <2>2. CASE v = u
    <3>1. cpu'[u].record = r /\ cpu'[u].pc = "submit"
      BY <1>1, <1>2 DEF TypeOK
    <3>2. QED
      BY <1>1, <1>3, <1>5, <2>2, <3>1 DEF Filled, Unset
  <2>3. CASE v # u
    <3>1. Writing(v) /\ Filled(v) /\ cpu'[v] = cpu[v]
      BY <1>6, <2>1, <2>3 DEF Inv, CpuInv, Writing
    <3>2. cpu[v].record # r
      BY <1>2, <2>3, <3>1 DEF Inv, OwnRecord
    <3>3. events'[cpu[v].record] = events[cpu[v].record]
      BY <1>5, <3>1, <3>2 DEF Filled
    <3>4. QED
      BY <1>5, <3>1, <3>3 DEF Filled
  <2>4. QED
    BY <2>2, <2>3
<1>11. OwnRecord'
  BY <1>2, <1>6 DEF Inv, OwnRecord, Writing, Idle
<1>12. EventInv'
  <2>1. SUFFICES ASSUME NEW i \in DOMAIN events PROVE Sound(i)'
    BY <1>5 DEF EventInv
  <2>2. CASE i = r
    <3>1. e.error_cnt # Unset /\ ~e.ready
      BY <1>2 DEF Filled
    <3>2. cnt >= err_cnt + r
      BY <1>1, <1>3, MidwayFinite DEF Inv, Balance
    <3>3. e.error_cnt \in Nat /\ e.error_cnt <= err_cnt /\ e.after < cnt /\ r \in Nat
          /\ e.after \in Nat /\ r >= 1
      BY <1>1, <1>3, <3>1 DEF Sound, Records, Unset
    <3>4. cnt - e.error_cnt >= r
      BY <1>1, <3>2, <3>3
    <3>5. QED
      BY <1>1, <1>2, <1>5, <2>2, <3>1, <3>3, <3>4 DEF Sound
  <2>3. CASE i # r
    BY <1>2, <1>5, <2>3 DEF Inv, EventInv, Sound
  <2>4. QED
    BY <2>2, <2>3
<1>13. HandledInv'
  <2>1. \A i \in 1..handled : i # r
    BY <1>2 DEF Inv, HandledInv, Filled
  <2>2. 1..handled \subseteq DOMAIN events
    BY <1>1 DEF TypeOK
  <2>3. QED
    BY <1>2, <1>5, <2>1, <2>2 DEF Inv, HandledInv
<1>14. BeforeInv'
  BY <1>2, <1>8 DEF Inv, BeforeInv
<1>15. QED
  BY <1>7, <1>9, <1>10, <1>11, <1>12, <1>13, <1>14 DEF Inv

LEMMA SubmitInv ==
    ASSUME Inv, NEW u \in Cpus, Submit(u)
    PROVE  Inv'
<1> DEFINE r == cpu[u].record
           e == events[r]
           f == [e EXCEPT !.ready = TRUE]
<1>1. /\ TypeOK /\ Len(events) \in Nat /\ cnt \in Nat /\ err_cnt \in Nat
      /\ DOMAIN events = 1..Len(events)
      /\ \A i \in DOMAIN events : events[i] \in Records
  BY EventType DEF Inv, TypeOK
<1>2. /\ UNCHANGED <<cnt, err_cnt, handled, reported, before>>
      /\ cpu[u].pc = "submit"
      /\ cpu' = [cpu EXCEPT ![u] = Idle]
      /\ Filled(u) /\ Writing(u)
  BY DEF Submit, Inv, CpuInv, Writing
<1>3. r \in DOMAIN events /\ e \in Records /\ f \in Records /\ Sound(r)
  BY <1>1, <1>2 DEF Filled, Records, Inv, EventInv
<1>4. events' = [events EXCEPT ![r] = f]
  BY <1>1, <1>3 DEF Submit, Records, TypeOK
<1>5. /\ events' \in Seq(Records)
      /\ Len(events') = Len(events)
      /\ DOMAIN events' = DOMAIN events
      /\ events'[r] = f
      /\ \A i \in DOMAIN events : i # r => events'[i] = events[i]
  BY <1>1, <1>3, <1>4, Rewritten
<1>6. /\ cpu'[u] = Idle
      /\ \A v \in Cpus : v # u => cpu'[v] = cpu[v]
  BY <1>1, <1>2 DEF TypeOK
<1>7. TypeOK'
  BY <1>1, <1>2, <1>5 DEF TypeOK, Pcs, Idle
<1>8. Midway' = Midway
  BY <1>1, <1>2, <1>6 DEF Midway, Idle
<1>9. Balance'
  BY <1>2, <1>5, <1>8 DEF Inv, Balance
<1>10. CpuInv'
  <2>1. SUFFICES ASSUME NEW v \in Cpus, Writing(v)' PROVE Filled(v)'
    BY DEF CpuInv
  <2>2. CASE v = u
    BY <1>2, <1>3, <1>5, <1>6, <2>1, <2>2 DEF Writing, Idle
  <2>3. CASE v # u
    <3>1. Writing(v) /\ Filled(v) /\ cpu'[v] = cpu[v]
      BY <1>6, <2>1, <2>3 DEF Inv, CpuInv, Writing
    <3>2. cpu[v].record # r
      BY <1>2, <2>3, <3>1 DEF Inv, OwnRecord
    <3>3. events'[cpu[v].record] = events[cpu[v].record]
      BY <1>5, <3>1, <3>2 DEF Filled
    <3>4. QED
      BY <1>5, <3>1, <3>3 DEF Filled
  <2>4. QED
    BY <2>2, <2>3
<1>11. OwnRecord'
  BY <1>2, <1>6 DEF Inv, OwnRecord, Writing, Idle
<1>12. EventInv'
  <2>1. SUFFICES ASSUME NEW i \in DOMAIN events PROVE Sound(i)'
    BY <1>5 DEF EventInv
  <2>2. CASE i = r
    <3>1. e.cnt # Unset
      BY <1>2 DEF Filled
    <3>2. f.cnt = e.cnt /\ f.error_cnt = e.error_cnt /\ f.after = e.after
      BY <1>3 DEF Records
    <3>3. QED
      BY <1>2, <1>3, <1>5, <2>2, <3>1, <3>2 DEF Sound
  <2>3. CASE i # r
    BY <1>2, <1>5, <2>3 DEF Inv, EventInv, Sound
  <2>4. QED
    BY <2>2, <2>3
<1>13. HandledInv'
  <2>1. \A i \in 1..handled : i # r
    BY <1>2 DEF Inv, HandledInv, Filled
  <2>2. 1..handled \subseteq DOMAIN events
    BY <1>1 DEF TypeOK
  <2>3. QED
    BY <1>2, <1>5, <2>1, <2>2 DEF Inv, HandledInv
<1>14. BeforeInv'
  BY <1>2, <1>8 DEF Inv, BeforeInv
<1>15. QED
  BY <1>7, <1>9, <1>10, <1>11, <1>12, <1>13, <1>14 DEF Inv

LEMMA HandleInv ==
    ASSUME Inv, Handle
    PROVE  Inv'
<1>1. /\ TypeOK /\ Len(events) \in Nat /\ handled \in Nat /\ err_cnt \in Nat
      /\ DOMAIN events = 1..Len(events)
      /\ \A i \in DOMAIN events : events[i] \in Records
  BY EventType DEF Inv, TypeOK
<1>2. /\ UNCHANGED <<cnt, err_cnt, events, cpu, before>>
      /\ handled < Len(events)
      /\ events[handled + 1].ready
      /\ handled' = handled + 1
      /\ reported' = events[handled + 1].error_cnt
  BY DEF Handle
<1>3. handled + 1 \in DOMAIN events
  BY <1>1, <1>2
<1>4. Sound(handled + 1) /\ events[handled + 1] \in Records
  BY <1>1, <1>3 DEF Inv, EventInv
<1>5. reported' \in 0..err_cnt
  BY <1>1, <1>2, <1>4 DEF Sound, Records, Unset
<1>6. TypeOK'
  BY <1>1, <1>2, <1>5, ConstantsAssumption DEF TypeOK
<1>7. Balance' /\ CpuInv' /\ OwnRecord' /\ EventInv' /\ BeforeInv'
  BY <1>2 DEF Inv, Balance, Midway, CpuInv, Writing, Filled, OwnRecord, EventInv, Sound,
              BeforeInv
<1>8. HandledInv'
  BY <1>1, <1>2 DEF Inv, HandledInv
<1>9. QED
  BY <1>6, <1>7, <1>8 DEF Inv

LEMMA StutterInv == Inv /\ UNCHANGED vars => Inv'
BY DEF vars, Inv, TypeOK, Balance, Midway, CpuInv, Writing, Filled, OwnRecord, EventInv,
       Sound, HandledInv, BeforeInv

LEMMA NextInv == Inv /\ [Next]_vars => Inv'
<1>1. ASSUME Inv, NEW u \in Cpus, SysEnter(u) PROVE Inv'
  BY <1>1, CountInv, ReserveInv, DropInv, CopyErrorsInv, CopyCountInv, SubmitInv
     DEF SysEnter
<1>2. QED
  BY <1>1, HandleInv, StutterInv DEF Next

LEMMA Invariant == Spec => []Inv
<1>1. Init => Inv
  BY InitInv
<1>2. Inv /\ [Next]_vars => Inv'
  BY NextInv
<1>3. QED
  BY <1>1, <1>2, PTL DEF Spec

-----------------------------------------------------------------------------
\* The counters, the records and the CPUs' places in sys_enter keep their types, and
\* the daemon never reports more errors than there were.
THEOREM TypeCorrect == Spec => []TypeOK
<1>1. Inv => TypeOK
  BY DEF Inv
<1>2. QED
  BY <1>1, Invariant, PTL

\* A handled record is submitted, and one that is submitted has both its copies.
LEMMA HandledSound ==
    ASSUME Inv, NEW i \in 1..handled
    PROVE  /\ i \in DOMAIN events /\ events[i] \in Records
           /\ events[i].cnt \in 1..cnt
           /\ events[i].cnt - events[i].error_cnt >= i
<1>1. i \in DOMAIN events /\ events[i] \in Records /\ i \in Nat /\ i >= 1 /\ cnt \in Nat
  BY EventType DEF Inv, TypeOK
<1>2. Sound(i) /\ events[i].ready
  BY <1>1 DEF Inv, EventInv, HandledInv
<1>3. QED
  BY <1>1, <1>2 DEF Sound, Records, Unset

\* Whatever the CPUs' interleaving, an event's number exceeds the errors copied with it
\* by its place in the log at least (raw_tracepoint.bpf.c:160-169).
THEOREM AtLeastItsPlace == Spec => []PlaceInLog
<1>1. Inv => PlaceInLog
  BY HandledSound DEF PlaceInLog
<1>2. QED
  BY <1>1, Invariant, PTL

\* Numbers are ordered between calls that do not overlap.
THEOREM OrderedWhenApart == Spec => []LaterIsLarger
<1>1. Inv => LaterIsLarger
  BY DEF Inv, EventInv, Sound, LaterIsLarger
<1>2. QED
  BY <1>1, Invariant, PTL

\* The gaps that check_missing_events finds in a log are no more than the calls lost or
\* under way and the numbers that were skipped for a duplicate.
THEOREM GapsAccountedFor == Spec => []MissingExplained
<1>1. ASSUME Inv PROVE MissingExplained
  <2>1. cnt \in Nat /\ err_cnt \in Nat /\ Len(events) \in Nat /\ handled \in Nat
    BY <1>1, EventType DEF Inv, TypeOK
  <2>2. Logged \in SUBSET (1..cnt)
    BY <1>1, HandledSound DEF Logged
  <2>3. Missing \in SUBSET ((1..cnt) \ Logged)
    <3>1. ASSUME NEW n \in Missing PROVE n \in (1..cnt) \ Logged
      <4>1. PICK m \in Logged : m > n
        BY <3>1 DEF Missing
      <4>2. n \in Nat /\ n >= 1 /\ n \notin Logged
        BY <1>1, <3>1 DEF Missing, Inv, TypeOK
      <4>3. QED
        BY <2>1, <2>2, <4>1, <4>2
    <3>2. QED
      BY <3>1
  <2>4. IsFiniteSet(1..cnt) /\ Cardinality(1..cnt) = cnt
    BY SMTT(30), <2>1, FS_Interval
  <2>5. IsFiniteSet(Logged) /\ Cardinality(Logged) \in Nat
    BY <2>2, <2>4, FS_Subset, FS_CardinalityType
  <2>6. /\ IsFiniteSet((1..cnt) \ Logged)
        /\ Cardinality((1..cnt) \ Logged) = cnt - Cardinality(Logged)
    <3>1. (1..cnt) \cap Logged = Logged
      BY <2>2
    <3> DEFINE C == 1..cnt
    <3> HIDE DEF C
    <3>2. IsFiniteSet(C) /\ Cardinality(C) = cnt /\ C \cap Logged = Logged
      BY <2>4, <3>1 DEF C
    <3>3. /\ IsFiniteSet(C \ Logged)
          /\ Cardinality(C \ Logged) = Cardinality(C) - Cardinality(C \cap Logged)
      BY <3>2, FS_Difference
    <3>4. QED
      BY <3>2, <3>3 DEF C
  <2>7. IsFiniteSet(Missing) /\ Cardinality(Missing) <= cnt - Cardinality(Logged)
    BY <2>3, <2>6, FS_Subset
  <2>8. Cardinality(Missing) \in Nat
    BY <2>7, FS_CardinalityType
  <2>9. cnt = err_cnt + Len(events) + Cardinality(Midway)
    BY <1>1 DEF Inv, Balance
  <2>10. QED
    BY <2>1, <2>5, <2>7, <2>8, <2>9, MidwayFinite DEF MissingExplained, Duplicates
<1>2. QED
  BY <1>1, Invariant, PTL
=============================================================================
