------------------------ MODULE SyscallEventsProofs ------------------------
(***************************************************************************)
(* The maps of user pointers, for every number of threads, every set of    *)
(* calls and policies and every size of the maps: an exit program never    *)
(* reads through pointers an earlier call left behind; a map whose cleanup *)
(* deletes its own entry holds only the entries of threads that are inside *)
(* the call, so by counting it is full only of calls in progress; and the  *)
(* types.                                                                  *)
(*                                                                         *)
(* None is inductive.  An old entry is harmless only because the entry     *)
(* program overwrites it before the exit program looks (NoStalePointer),   *)
(* and an entry that is not old belongs to the call the thread is in       *)
(* (Owned).  These facts need no more of the two tables than that they are *)
(* functions, so they hold for any choice of slots.                        *)
(*                                                                         *)
(* What is printed is compared with what is stored call by call, over the  *)
(* whole of the two tables: outside the calls of Misread only values this  *)
(* event stored are printed, each as the argument it is, and a result      *)
(* whose pointers were kept is printed whole.  The ring therefore holds    *)
(* only events written by one run of one program (SafeEvents), and an      *)
(* entry that was kept is still there when the call returns (KeptIsHeld).  *)
(***************************************************************************)
EXTENDS SyscallEvents, SequenceTheorems, FiniteSetTheorems, TLAPS

CallRecords == {Idle} \cup [name : Calls, given : BOOLEAN, entry : Fates]

\* A valid exit event of a call that keeps pointers holds what its program reads of the row
\* of the call; and it is valid when the pointers were kept and the memory can be read.
TrueExit(e) ==
  /\ e.valid /\ e.name \in Keeping =>
       /\ e.memory \in MemoryOf(ResultOf(e.name)) \ Unread
       /\ e.data = StoredOf(ResultOf(e.name), e.memory)
  /\ e.memory \notin Unread /\ e.given /\ e.fate = "kept" => e.valid /\ e.name \in Keeping

Memories == {"unreadable", "whole", "inet", "inet6", "other", "short", "long"}

\* The events the programs can write, except those read through an old entry.
ReadAtExit(m) == {StoredOf(ResultOf(m), memory) : memory \in Memories}
ExitData == {Nothing} \cup UNION {ReadAtExit(m) : m \in Keeping}
ExitRecords ==
  [name : Calls, phase : {"exit"}, data : ExitData, valid : BOOLEAN, null : BOOLEAN,
   source : Entries \ {"old"}, given : BOOLEAN, fate : Fates, memory : Memories]
EnterOf(m, fate) ==
  UNION {EnterEvents(m, memory, fate) : memory \in MemoryOf(Stores[m].checked)}
EnterRecords == UNION {EnterOf(m, fate) : m \in Calls, fate \in Fates}
SafeExits == {e \in ExitRecords : TrueExit(e)}
SafeEvents == EnterRecords \cup SafeExits

Typed ==
  /\ call \in [Threads -> CallRecords]
  /\ pointers \in [Keeping -> [Threads -> Entries]]
  /\ ring \in Seq(SafeEvents)

NoStalePointer ==
  \A t \in Threads : call[t].name \in Keeping => pointers[call[t].name][t] # "old"

Owned ==
  \A m \in Keeping, t \in Threads :
    pointers[m][t] \in {"this", "null"} => call[t].name = m

CleanNeverOld == \A m \in Keeping \ Leaking, t \in Threads : pointers[m][t] # "old"

KeptIsHeld ==
  \A t \in Threads :
    call[t].name \in Keeping /\ call[t].given /\ call[t].entry = "kept" =>
      pointers[call[t].name][t] = "this"

IInv == Typed /\ NoStalePointer /\ Owned /\ CleanNeverOld /\ KeptIsHeld

-----------------------------------------------------------------------------
\* What memory may hold is one of seven things, and without anything to read it does not
\* matter.
LEMMA MemoryType ==
  /\ \A v : MemoryOf(v) \subseteq Memories
  /\ MemoryOf(Nothing) = {"unreadable"}
<1>0. DOMAIN Nothing = {} BY DEF Nothing
<1>1. MemoryOf(Nothing) = {"unreadable"}
  <2>1. Nothing # OptionValue BY <1>0 DEF OptionValue
  <2> QED BY <1>0, <2>1 DEF MemoryOf
<1>2. ASSUME NEW v PROVE MemoryOf(v) \subseteq Memories
  <2>1. CASE v = Nothing BY <1>1, <2>1 DEF Memories
  <2>2. CASE v # Nothing /\ "ip" \in DOMAIN v
    <3>1. v = OptionValue \/ v # OptionValue OBVIOUS
    <3>2. MemoryOf(v) \subseteq Memories BY <2>2, <3>1 DEF MemoryOf, Memories
    <3> QED BY <3>2
  <2>3. CASE v # Nothing /\ "ip" \notin DOMAIN v BY <2>3 DEF MemoryOf, Memories
  <2> QED BY <2>1, <2>2, <2>3
<1> QED BY <1>1, <1>2

LEMMA ResultsType ==
  ASSUME NEW m, NEW succeeds, NEW memory \in Results(m, succeeds)
  PROVE  /\ memory \in MemoryOf(ResultOf(m)) /\ memory \in Memories
         /\ m \notin Keeping => memory = "unreadable"
<1>1. memory \in MemoryOf(ResultOf(m)) BY DEF Results, MemoryOf
<1>2. m \notin Keeping => ResultOf(m) = Nothing BY DEF ResultOf
<1> QED BY <1>1, <1>2, MemoryType

\* What an exit program stores is in the set of what is stored at exits.
LEMMA ExitDataHas ==
  /\ Nothing \in ExitData
  /\ \A m \in Keeping, memory \in Memories : StoredOf(ResultOf(m), memory) \in ExitData
<1>1. \A m \in Keeping, memory \in Memories : StoredOf(ResultOf(m), memory) \in ReadAtExit(m)
  BY DEF ReadAtExit
<1>2. \A m \in Keeping : ReadAtExit(m) \subseteq ExitData BY DEF ExitData
<1> QED BY <1>1, <1>2 DEF ExitData

\* What an entry program writes was read through the call's own arguments.
LEMMA EnterSource ==
  ASSUME NEW e \in EnterRecords
  PROVE  e.source = "this" /\ e.phase = "enter"
<1>0. PICK m \in Calls, fate \in Fates :
        \E memory \in MemoryOf(Stores[m].checked) : e \in EnterEvents(m, memory, fate)
  BY DEF EnterRecords, EnterOf
<1>1. PICK memory \in MemoryOf(Stores[m].checked) : e \in EnterEvents(m, memory, fate)
  BY <1>0
<1> DEFINE row == Stores[m]
           valid == IF memory \notin Unread THEN {TRUE}
                    ELSE IF row.flag = "clear" THEN {FALSE} ELSE BOOLEAN
<1>2. PICK v \in valid :
        e = Event(m, "enter", row.always ++ StoredOf(row.checked, memory), v, FALSE, "this",
                  TRUE, fate, memory)
  BY <1>1 DEF EnterEvents
<1> HIDE DEF row, valid
<1> QED BY <1>2 DEF Event

\* Idle is no call.
LEMMA IdleIsNoCall == Idle.name \notin Calls /\ Idle.name = "idle"
BY CallsAssumption DEF Idle

\* What becomes of the pointers at the entry is one of the fates.
LEMMA FateType ==
  ASSUME NEW m, NEW t
  PROVE  FateOf(m, t) \in Fates
<1>1. CASE m \notin Keeping BY <1>1 DEF FateOf, Fates
<1>2. CASE m \in Keeping /\ Fits(m, t) BY <1>2 DEF FateOf, Fates
<1>3. CASE m \in Keeping /\ ~Fits(m, t) BY <1>3 DEF FateOf, Fates
<1> QED BY <1>1, <1>2, <1>3

\* Submitting events of a set of safe ones keeps the ring typed.
LEMMA SubmitType ==
  ASSUME NEW events, events \subseteq SafeEvents, NEW m, ring \in Seq(SafeEvents),
         Submit(events, m)
  PROVE  ring' \in Seq(SafeEvents)
<1>1. CASE Wanted(m)
  <2>1. PICK e \in events : ring' = Append(ring, e) BY <1>1 DEF Submit
  <2> QED BY <2>1, AppendProperties
<1>2. CASE ~Wanted(m) BY <1>2 DEF Submit
<1> QED BY <1>1, <1>2

-----------------------------------------------------------------------------
\* In the initial state nothing is in the maps or in the ring.
LEMMA InitIInv == Init => IInv
<1> SUFFICES ASSUME Init PROVE IInv OBVIOUS
<1>1. call \in [Threads -> CallRecords] BY DEF Init, CallRecords, Fates
<1>2. pointers \in [Keeping -> [Threads -> Entries]] BY DEF Init, Entries
<1>3. ring \in Seq(SafeEvents) BY DEF Init
<1>4. \A m \in Keeping, t \in Threads : pointers[m][t] = "absent" BY DEF Init
<1>5. \A t \in Threads : call[t].entry # "kept" BY DEF Init, Idle
<1> QED
  BY <1>1, <1>2, <1>3, <1>4, <1>5
  DEF IInv, Typed, NoStalePointer, Owned, CleanNeverOld, KeptIsHeld

\* An entry program overwrites the thread's entry of the call, or finds none and no room.
LEMMA EnterIInv ==
  ASSUME IInv, NEW t \in Threads, NEW m \in Calls, NEW given \in BOOLEAN,
         NEW memory \in MemoryOf(Stores[m].checked), Enter(t, m, given, memory)
  PROVE  IInv'
<1> USE DEF IInv, Typed
<1>1. call' = [call EXCEPT ![t] = [name |-> m, given |-> given, entry |-> FateOf(m, t)]]
  BY DEF Enter
<1>2. call' \in [Threads -> CallRecords]
  <2>1. [name |-> m, given |-> given, entry |-> FateOf(m, t)] \in CallRecords
    BY FateType DEF CallRecords
  <2> QED BY <1>1, <2>1
<1>3. call'[t].name = m /\ \A u \in Threads \ {t} : call'[u] = call[u] BY <1>1
<1>4. call[t].name \notin Keeping
  <2>1. call[t].name = "idle" BY DEF Enter, InCall
  <2> QED BY <2>1, CallsAssumption DEF Keeping
<1>5. pointers' \in [Keeping -> [Threads -> Entries]]
  <2>1. CASE m \in Keeping /\ Fits(m, t)
    <3>1. pointers' = [pointers EXCEPT ![m][t] = IF given THEN "this" ELSE "null"]
      BY <2>1 DEF Enter, Keep
    <3> QED BY <2>1, <3>1 DEF Entries
  <2>2. CASE ~(m \in Keeping /\ Fits(m, t)) BY <2>2 DEF Enter, Keep
  <2> QED BY <2>1, <2>2
<1>6. \A n \in Keeping, u \in Threads :
        \/ pointers'[n][u] = pointers[n][u]
        \/ n = m /\ u = t /\ pointers'[n][u] \in {"this", "null"}
  <2>1. CASE m \in Keeping /\ Fits(m, t)
    <3>1. pointers' = [pointers EXCEPT ![m][t] = IF given THEN "this" ELSE "null"]
      BY <2>1 DEF Enter, Keep
    <3> QED BY <2>1, <3>1
  <2>2. CASE ~(m \in Keeping /\ Fits(m, t)) BY <2>2 DEF Enter, Keep
  <2> QED BY <2>1, <2>2
<1>7. m \in Keeping => pointers'[m][t] # "old"
  <2> SUFFICES ASSUME m \in Keeping PROVE pointers'[m][t] # "old" OBVIOUS
  <2>1. CASE Fits(m, t)
    <3>1. pointers' = [pointers EXCEPT ![m][t] = IF given THEN "this" ELSE "null"]
      BY <2>1 DEF Enter, Keep
    <3> QED BY <3>1
  <2>2. CASE ~Fits(m, t)
    <3>1. pointers[m][t] = "absent" BY <2>2 DEF Fits
    <3>2. pointers' = pointers BY <2>2 DEF Enter, Keep
    <3> QED BY <3>1, <3>2
  <2> QED BY <2>1, <2>2
<1>8. ring' \in Seq(SafeEvents)
  <2>1. EnterEvents(m, memory, FateOf(m, t)) \subseteq SafeEvents
    <3> DEFINE fate == FateOf(m, t)
    <3>1. fate \in Fates BY FateType
    <3> HIDE DEF fate
    <3>2. EnterEvents(m, memory, fate) \subseteq EnterOf(m, fate) BY DEF EnterOf
    <3>3. EnterOf(m, fate) \subseteq EnterRecords BY <3>1 DEF EnterRecords
    <3> QED BY <3>2, <3>3 DEF SafeEvents, fate
  <2> QED BY <2>1, SubmitType DEF Enter
<1>9. NoStalePointer'
  <2> SUFFICES ASSUME NEW u \in Threads, call'[u].name \in Keeping
               PROVE pointers'[call'[u].name][u] # "old"
    BY DEF NoStalePointer, Keeping
  <2>1. CASE u = t BY <2>1, <1>3, <1>7
  <2>2. CASE u # t BY <2>2, <1>3, <1>6 DEF NoStalePointer
  <2> QED BY <2>1, <2>2
<1>10. Owned'
  <2> SUFFICES ASSUME NEW n \in Keeping, NEW u \in Threads, pointers'[n][u] \in {"this", "null"}
               PROVE call'[u].name = n
    BY DEF Owned, Keeping
  <2>1. CASE u # t BY <2>1, <1>3, <1>6 DEF Owned
  <2>2. CASE u = t /\ n = m BY <2>2, <1>3
  <2>3. CASE u = t /\ n # m BY <2>3, <1>4, <1>6 DEF Owned
  <2> QED BY <2>1, <2>2, <2>3
<1>11. CleanNeverOld'
  <2> SUFFICES ASSUME NEW n \in Keeping \ Leaking, NEW u \in Threads
               PROVE pointers'[n][u] # "old"
    BY DEF CleanNeverOld, Keeping, Leaking
  <2> QED BY <1>6 DEF CleanNeverOld
<1>12. KeptIsHeld'
  <2> SUFFICES ASSUME NEW u \in Threads, call'[u].name \in Keeping, call'[u].given,
                      call'[u].entry = "kept"
               PROVE pointers'[call'[u].name][u] = "this"
    BY DEF KeptIsHeld, Keeping
  <2>1. CASE u = t
    <3>1. m \in Keeping /\ given /\ FateOf(m, t) = "kept" BY <2>1, <1>1
    <3>2. Fits(m, t) BY <3>1 DEF FateOf
    <3>3. pointers' = [pointers EXCEPT ![m][t] = "this"] BY <3>1, <3>2 DEF Enter, Keep
    <3> QED BY <2>1, <1>3, <3>1, <3>3
  <2>2. CASE u # t BY <2>2, <1>3, <1>6 DEF KeptIsHeld
  <2> QED BY <2>1, <2>2
<1> QED BY <1>2, <1>5, <1>8, <1>9, <1>10, <1>11, <1>12

\* An exit program reads the entry of its own call; what it does not delete becomes old.
LEMMA ExitIInv ==
  ASSUME IInv, NEW t \in Threads, NEW succeeds \in BOOLEAN,
         NEW memory \in Results(call[t].name, succeeds),
         Exit(t, succeeds, memory)
  PROVE  IInv'
<1> USE DEF IInv, Typed
<1> DEFINE m == call[t].name
<1>1. call' = [call EXCEPT ![t] = Idle] BY DEF Exit
<1>2. call[t] \in [name : Calls, given : BOOLEAN, entry : Fates]
  <2>1. call[t] # Idle BY DEF Exit, InCall, Idle
  <2> QED BY <2>1 DEF CallRecords
<1>3. call' \in [Threads -> CallRecords] BY <1>1 DEF CallRecords
<1>4. call'[t] = Idle /\ \A u \in Threads \ {t} : call'[u] = call[u] BY <1>1
<1>5. pointers' = [n \in Keeping |-> [u \in Threads |->
        IF u # t \/ pointers[n][u] = "absent" THEN pointers[n][u]
        ELSE IF m \in Keeping /\ Fetches[m].frees = n THEN "absent" ELSE "old"]]
  BY DEF Exit, Cleanup
<1> HIDE DEF m
<1>6. pointers' \in [Keeping -> [Threads -> Entries]] BY <1>5 DEF Entries
<1>7. ring' \in Seq(SafeEvents)
  <2>1. ExitEvents(t, m, succeeds, memory) \subseteq SafeExits
    <3>1. m \in Calls /\ call[t].given \in BOOLEAN /\ call[t].entry \in Fates BY <1>2 DEF m
    <3>4. memory \in Memories /\ memory \in MemoryOf(ResultOf(m))
      BY ResultsType DEF m
    <3>2. CASE m \in Keeping
      <4> DEFINE found == pointers[m][t]
                 reads == found \in {"this", "old"} /\ memory # "unreadable"
      <4>1. found \in Entries \ {"old"} BY <3>2 DEF NoStalePointer, m
      <4> DEFINE data == IF reads THEN StoredOf(ResultOf(m), memory) ELSE Nothing
                 valid == reads /\ memory \notin Unread
                 null == Fetches[m].nulls /\ succeeds /\ found \in {"absent", "null"}
                 source == IF reads THEN found ELSE "absent"
      <4>2. ExitEvents(t, m, succeeds, memory) =
              {Event(m, "exit", data, valid, null, source, call[t].given, call[t].entry,
                     memory)}
        BY <3>2 DEF ExitEvents
      <4>8. StoredOf(ResultOf(m), memory) \in ExitData /\ Nothing \in ExitData
        BY <3>2, <3>4, ExitDataHas
      <4>3. /\ data \in ExitData
            /\ source \in Entries \ {"old"}
            /\ valid \in BOOLEAN /\ null \in BOOLEAN
        <5>1. data = StoredOf(ResultOf(m), memory) \/ data = Nothing OBVIOUS
        <5>2. source \in Entries \ {"old"} BY <4>1 DEF Entries
        <5>3. valid \in BOOLEAN /\ null \in BOOLEAN OBVIOUS
        <5> HIDE DEF data, valid, null, source
        <5> QED BY <4>8, <5>1, <5>2, <5>3
      <4>4. valid => memory \notin Unread /\ data = StoredOf(ResultOf(m), memory) OBVIOUS
      <4>5. memory \notin Unread /\ call[t].given /\ call[t].entry = "kept" => valid
        BY <3>2 DEF KeptIsHeld, Unread, m
      <4> HIDE DEF reads, found, data, valid, null, source
      <4>6. Event(m, "exit", data, valid, null, source, call[t].given, call[t].entry, memory)
              \in ExitRecords
        BY <3>1, <3>4, <4>3 DEF ExitRecords, Event
      <4>7. TrueExit(Event(m, "exit", data, valid, null, source, call[t].given,
                           call[t].entry, memory))
        BY <3>2, <3>4, <4>4, <4>5 DEF TrueExit, Event
      <4> QED BY <4>2, <4>6, <4>7 DEF SafeExits
    <3>3. CASE m \notin Keeping
      <4>1. \A v \in BOOLEAN : Event(m, "exit", Nothing, v, FALSE, "absent", call[t].given,
                                  call[t].entry, memory) \in ExitRecords
        <5> DEFINE given == call[t].given
                   fate == call[t].entry
        <5>1. given \in BOOLEAN /\ fate \in Fates /\ Nothing \in ExitData
          BY <3>1, ExitDataHas
        <5> HIDE DEF given, fate
        <5>2. \A v \in BOOLEAN : Event(m, "exit", Nothing, v, FALSE, "absent", given, fate,
                                      memory) \in ExitRecords
          BY <3>1, <3>4, <5>1 DEF ExitRecords, Event, Entries
        <5> QED BY <5>2 DEF given, fate
      <4>4. memory \in Unread BY <3>3, ResultsType DEF Unread, m
      <4>2. \A v \in BOOLEAN : TrueExit(Event(m, "exit", Nothing, v, FALSE, "absent",
                                           call[t].given, call[t].entry, memory))
        BY <3>3, <4>4 DEF TrueExit, Event
      <4>3. ExitEvents(t, m, succeeds, memory) =
              {Event(m, "exit", Nothing, v, FALSE, "absent", call[t].given, call[t].entry,
                     memory) : v \in BOOLEAN}
        BY <3>3 DEF ExitEvents
      <4> QED BY <4>1, <4>2, <4>3 DEF SafeExits
    <3> QED BY <3>2, <3>3
  <2> QED BY <2>1, SubmitType DEF Exit, SafeEvents, m
<1>8. NoStalePointer'
  <2> SUFFICES ASSUME NEW u \in Threads, call'[u].name \in Keeping
               PROVE pointers'[call'[u].name][u] # "old"
    BY DEF NoStalePointer, Keeping
  <2>1. u # t BY <1>4, IdleIsNoCall DEF Keeping
  <2> QED BY <2>1, <1>4, <1>5 DEF NoStalePointer
<1>9. Owned'
  <2> SUFFICES ASSUME NEW n \in Keeping, NEW u \in Threads, pointers'[n][u] \in {"this", "null"}
               PROVE call'[u].name = n
    BY DEF Owned, Keeping
  <2>1. u # t BY <1>5
  <2> QED BY <2>1, <1>4, <1>5 DEF Owned
<1>10. CleanNeverOld'
  <2> SUFFICES ASSUME NEW n \in Keeping \ Leaking, NEW u \in Threads
               PROVE pointers'[n][u] # "old"
    BY DEF CleanNeverOld, Keeping, Leaking
  <2>1. CASE u # t \/ pointers[n][u] = "absent" BY <2>1, <1>5 DEF CleanNeverOld
  <2>2. CASE u = t /\ pointers[n][u] # "absent"
    <3>1. pointers[n][u] \in {"this", "null"} BY <2>2 DEF CleanNeverOld, Entries
    <3>2. m = n BY <2>2, <3>1 DEF Owned, m
    <3>3. Fetches[n].frees = n BY DEF Leaking
    <3> QED BY <2>2, <3>2, <3>3, <1>5
  <2> QED BY <2>1, <2>2
<1>11. KeptIsHeld'
  <2> SUFFICES ASSUME NEW u \in Threads, call'[u].name \in Keeping, call'[u].given,
                      call'[u].entry = "kept"
               PROVE pointers'[call'[u].name][u] = "this"
    BY DEF KeptIsHeld, Keeping
  <2>1. u # t BY <1>4, IdleIsNoCall DEF Keeping
  <2> QED BY <2>1, <1>4, <1>5 DEF KeptIsHeld
<1> QED BY <1>3, <1>6, <1>7, <1>8, <1>9, <1>10, <1>11

\* Consuming an event leaves the rest of the ring as it was.
LEMMA HandleIInv ==
  ASSUME IInv, Handle
  PROVE  IInv'
<1>1. ring' \in Seq(SafeEvents) BY HeadTailProperties DEF IInv, Typed, Handle
<1> QED
  BY <1>1
  DEF IInv, Typed, Handle, NoStalePointer, Owned, CleanNeverOld, Leaking, Keeping, KeptIsHeld

\* IInv is an invariant: one lemma for each program, and the policy touches none of it.
LEMMA StepKeepsIInv == IInv /\ [Next]_vars => IInv'
<1> SUFFICES ASSUME IInv, [Next]_vars PROVE IInv' OBVIOUS
<1>1. CASE \E t \in Threads, m \in Calls, given \in BOOLEAN :
             \E memory \in MemoryOf(Stores[m].checked) : Enter(t, m, given, memory)
  BY <1>1, EnterIInv
<1>2. CASE \E t \in Threads, succeeds \in BOOLEAN :
             \E memory \in Results(call[t].name, succeeds) : Exit(t, succeeds, memory)
  BY <1>2, ExitIInv
<1>3. CASE Handle BY <1>3, HandleIInv
<1>4. CASE SetPolicy \/ UNCHANGED vars
  BY <1>4
  DEF IInv, Typed, SetPolicy, vars, NoStalePointer, Owned, CleanNeverOld, Leaking, Keeping,
      KeptIsHeld
<1> QED BY <1>1, <1>2, <1>3, <1>4 DEF Next

LEMMA Inductive == Spec => []IInv
BY InitIInv, StepKeepsIInv, PTL DEF Spec

-----------------------------------------------------------------------------
\* An exit program of tracepoint.bpf.c never reads user memory through the pointers of an
\* earlier call of its thread.
THEOREM OwnPointers == Spec => []PointersOfThisCall
<1>1. IInv => PointersOfThisCall
  <2> SUFFICES ASSUME IInv, NEW i \in 1..Len(ring) PROVE ring[i].source # "old"
    BY DEF PointersOfThisCall, Events
  <2>1. ring[i] \in SafeEvents BY ElementOfSeq DEF IInv, Typed
  <2>2. CASE ring[i] \in EnterRecords BY <2>2, EnterSource
  <2>3. CASE ring[i] \in ExitRecords BY <2>3 DEF ExitRecords
  <2> QED BY <2>1, <2>2, <2>3 DEF SafeEvents, SafeExits
<1> QED BY <1>1, Inductive, PTL

\* The maps whose cleanup deletes its own entry hold entries of calls in progress only.
THEOREM NoForgottenEntries == Spec => []EntriesAreInUse
<1>1. IInv => EntriesAreInUse
  <2> SUFFICES ASSUME IInv, NEW m \in Keeping \ Leaking, NEW t \in Threads,
                      pointers[m][t] # "absent"
               PROVE call[t].name = m
    BY DEF EntriesAreInUse, Held, Inside
  <2>1. pointers[m][t] \in {"this", "null"} BY DEF IInv, Typed, CleanNeverOld, Entries
  <2> QED BY <2>1 DEF IInv, Owned
<1> QED BY <1>1, Inductive, PTL

-----------------------------------------------------------------------------
\* A map whose cleanup deletes its own entry is full of calls in progress.
LEMMA FateOfClean ==
  ASSUME IInv, NEW t \in Threads, NEW m \in Calls, FateOf(m, t) = "leaked"
  PROVE  m \in Leaking
<1> SUFFICES ASSUME m \notin Leaking PROVE FALSE OBVIOUS
<1>1. m \in Keeping /\ ~Fits(m, t) /\ ~(Cardinality(Inside(m)) >= Capacity) BY DEF FateOf
<1>2. Held(m) \subseteq Inside(m)
  <2> SUFFICES ASSUME NEW u \in Threads, pointers[m][u] # "absent" PROVE call[u].name = m
    BY DEF Held, Inside
  <2>1. pointers[m][u] \in {"this", "null"}
    BY <1>1 DEF IInv, Typed, CleanNeverOld, Entries
  <2> QED BY <1>1, <2>1 DEF IInv, Owned
<1>3. IsFiniteSet(Inside(m))
  <2>1. Inside(m) \subseteq Threads BY DEF Inside
  <2> QED BY <2>1, ThreadsAssumption, FS_Subset
<1>4. /\ Cardinality(Held(m)) <= Cardinality(Inside(m))
      /\ Cardinality(Held(m)) \in Nat /\ Cardinality(Inside(m)) \in Nat
  BY <1>2, <1>3, FS_Subset, FS_CardinalityType
<1>5. ~(Cardinality(Held(m)) < Capacity) BY <1>1 DEF Fits
<1> QED BY <1>1, <1>4, <1>5, SizesAssumption

\* The pointers of a call are refused only while as many threads as the map has entries are
\* inside that call, unless the call is one of the four whose cleanup leaves its entry.
THEOREM OnlyBusyRefuses == Spec => []RefusedOnlyWhenBusy
<1>1. Init => RefusedOnlyWhenBusy BY DEF Init, RefusedOnlyWhenBusy, Idle
<1>2. IInv /\ RefusedOnlyWhenBusy /\ [Next]_vars => RefusedOnlyWhenBusy'
  <2> SUFFICES ASSUME IInv, RefusedOnlyWhenBusy, [Next]_vars PROVE RefusedOnlyWhenBusy'
    OBVIOUS
  <2>1. ASSUME NEW t \in Threads, NEW m \in Calls, NEW given \in BOOLEAN,
               NEW memory \in MemoryOf(Stores[m].checked), Enter(t, m, given, memory)
        PROVE  RefusedOnlyWhenBusy'
    <3>1. /\ call'[t] = [name |-> m, given |-> given, entry |-> FateOf(m, t)]
          /\ \A u \in Threads \ {t} : call'[u] = call[u]
      BY <2>1 DEF Enter, IInv, Typed
    <3>2. FateOf(m, t) = "leaked" => m \in Leaking BY FateOfClean
    <3> QED BY <3>1, <3>2 DEF RefusedOnlyWhenBusy, Leaking, Keeping
  <2>2. ASSUME NEW t \in Threads, NEW succeeds \in BOOLEAN,
         NEW memory \in Results(call[t].name, succeeds),
               Exit(t, succeeds, memory)
        PROVE  RefusedOnlyWhenBusy'
    <3>1. call'[t] = Idle /\ \A u \in Threads \ {t} : call'[u] = call[u]
      BY <2>2 DEF Exit, IInv, Typed
    <3> QED BY <3>1 DEF RefusedOnlyWhenBusy, Leaking, Keeping, Idle
  <2>3. CASE Handle \/ SetPolicy \/ UNCHANGED vars
    BY <2>3 DEF Handle, SetPolicy, vars, RefusedOnlyWhenBusy, Leaking, Keeping
  <2> QED BY <2>1, <2>2, <2>3 DEF Next
<1> QED BY <1>1, <1>2, InitIInv, StepKeepsIInv, PTL DEF Spec

-----------------------------------------------------------------------------
\* An event names its call and says whether it is of the entry or of the exit.
LEMMA EventTyped ==
  ASSUME NEW e \in SafeEvents
  PROVE  e.name \in Calls /\ e.phase \in {"enter", "exit"}
<1>1. CASE e \in ExitRecords BY <1>1 DEF ExitRecords
<1>2. CASE e \in EnterRecords
  <2>0. PICK m \in Calls, fate \in Fates :
          \E memory \in MemoryOf(Stores[m].checked) : e \in EnterEvents(m, memory, fate)
    BY <1>2 DEF EnterRecords, EnterOf
  <2>1. PICK memory \in MemoryOf(Stores[m].checked) : e \in EnterEvents(m, memory, fate)
    BY <2>0
  <2> DEFINE row == Stores[m]
             valid == IF memory \notin Unread THEN {TRUE}
                      ELSE IF row.flag = "clear" THEN {FALSE} ELSE BOOLEAN
  <2>2. PICK v \in valid :
          e = Event(m, "enter", row.always ++ StoredOf(row.checked, memory), v, FALSE, "this",
                    TRUE, fate, memory)
    BY <2>1 DEF EnterEvents
  <2> HIDE DEF row, valid
  <2> QED BY <2>2 DEF Event
<1> QED BY <1>1, <1>2 DEF SafeEvents, SafeExits

Bounded == logged \in Policies /\ Len(ring) <= Room

LEMMA BoundedKept == IInv /\ Bounded /\ [Next]_vars => Bounded'
<1> SUFFICES ASSUME IInv, Bounded, [Next]_vars PROVE Bounded' OBVIOUS
<1>1. ring \in Seq(SafeEvents) /\ Len(ring) \in Nat BY LenProperties DEF IInv, Typed
<1>2. ASSUME NEW events, NEW m, Submit(events, m) PROVE Len(ring') <= Room
  <2>1. CASE Wanted(m)
    <3>1. PICK e \in events : ring' = Append(ring, e) BY <1>2, <2>1 DEF Submit
    <3>2. ring \in Seq(SafeEvents \cup {e})
      <4>1. SafeEvents \subseteq SafeEvents \cup {e} OBVIOUS
      <4> QED BY <1>1, <4>1, SeqMonotonic
    <3>3. Len(ring') = Len(ring) + 1 BY <3>1, <3>2, AppendProperties
    <3> QED BY <1>1, <2>1, <3>3, SizesAssumption DEF Wanted
  <2>2. CASE ~Wanted(m) BY <1>2, <2>2 DEF Submit, Bounded
  <2> QED BY <2>1, <2>2
<1>3. CASE \E t \in Threads, m \in Calls, given \in BOOLEAN :
             \E memory \in MemoryOf(Stores[m].checked) : Enter(t, m, given, memory)
  BY <1>2, <1>3 DEF Enter, Bounded
<1>4. CASE \E t \in Threads, succeeds \in BOOLEAN :
             \E memory \in Results(call[t].name, succeeds) : Exit(t, succeeds, memory)
  BY <1>2, <1>4 DEF Exit, Bounded
<1>5. CASE Handle
  <2>1. Len(ring') = Len(ring) - 1 BY <1>1, <1>5, HeadTailProperties DEF Handle
  <2> QED BY <1>1, <1>5, <2>1, SizesAssumption DEF Handle, Bounded
<1>6. CASE SetPolicy \/ UNCHANGED vars
  BY <1>6 DEF SetPolicy, vars, Bounded
<1> QED BY <1>3, <1>4, <1>5, <1>6 DEF Next

\* Calls, maps and ring have their types: no program writes an event for a call it does not
\* know, or past the end of the ring.
THEOREM TypeCorrect == Spec => []TypeOK
<1>1. Init => Bounded
  BY SizesAssumption, EmptySeq DEF Init, Bounded
<1>2. IInv /\ Bounded => TypeOK
  <2> SUFFICES ASSUME IInv, Bounded PROVE TypeOK OBVIOUS
  <2>1. Len(ring) \in 0..Room
    BY LenProperties, SizesAssumption DEF IInv, Typed, Bounded
  <2>2. \A e \in Events : e \in SafeEvents
    BY ElementOfSeq DEF IInv, Typed, Events
  <2> QED BY <2>1, <2>2, EventTyped DEF TypeOK, IInv, Typed, CallRecords, Bounded
<1> QED BY <1>1, <1>2, InitIInv, StepKeepsIInv, BoundedKept, PTL DEF Spec

-----------------------------------------------------------------------------
\* The two tables, row by row.  The groups of SyscallKernel and of SyscallHandlers follow
\* the same order, and no call is in two groups.
AllIn(printed, stored, but) ==
  \A x \in DOMAIN printed \ but : x \in DOMAIN stored /\ stored[x] = printed[x]

\* Whatever the enter program finds in memory, and whatever is_valid was left at where the
\* program does not write it, the handler prints what was stored.
TrueRow(row, handler) ==
  \A memory \in MemoryOf(row.checked), valid \in BOOLEAN :
    /\ memory \notin Unread => valid
    /\ memory \in Unread /\ row.flag = "clear" => ~valid
    => AllIn(handler.always ++
               (IF valid THEN ShownOf(handler.valid, memory) ELSE handler.invalid),
             row.always ++ StoredOf(row.checked, memory), Misprinted(memory))

\* Most rows are written the same way on both sides.
SameRow(row, handler) ==
  /\ row.always = handler.always /\ row.checked = handler.valid
  /\ handler.invalid = Nothing
  /\ row.checked = Nothing \/ row.flag = "clear"

Groups ==
    {<<StoreSocketOptions, PrintSocketOptions>>,
   <<StoreSocketPeers, PrintSocketPeers>>, <<StoreMessages, PrintMessages>>,
   <<StoreHostNames, PrintHostNames>>, <<StoreOpening, PrintOpening>>,
   <<StoreNodes, PrintNodes>>, <<StoreSizes, PrintSizes>>,
   <<StoreDirectories, PrintDirectories>>, <<StoreLinks, PrintLinks>>,
   <<StoreLinkTargets, PrintLinkTargets>>, <<StoreFileStatus, PrintFileStatus>>,
   <<StoreModes, PrintModes>>, <<StoreOwners, PrintOwners>>,
   <<StoreDescriptors, PrintDescriptors>>, <<StoreReads, PrintReads>>,
   <<StoreWrites, PrintWrites>>, <<StoreWatches, PrintWatches>>,
   <<StoreMounts, PrintMounts>>, <<StoreProcesses, PrintProcesses>>,
   <<StoreProcessIds, PrintProcessIds>>, <<StoreUserIds, PrintUserIds>>,
   <<StoreGroupIds, PrintGroupIds>>, <<StoreLimits, PrintLimits>>,
   <<StoreMappings, PrintMappings>>, <<StoreKernelModules, PrintKernelModules>>,
   <<StoreMemoryLocks, PrintMemoryLocks>>, <<StoreSignals, PrintSignals>>}

\* What is printed of values that were read was stored, but for the address of an IPv6 peer
\* and the value of a short option.
LEMMA ShownIsStored ==
  ASSUME NEW v, NEW memory \in MemoryOf(v) \ Unread
  PROVE  AllIn(ShownOf(v, memory), StoredOf(v, memory), Misprinted(memory))
<1>1. v # Nothing BY MemoryType DEF Unread
<1>2. CASE "ip" \in DOMAIN v
  <2>0. v # OptionValue BY <1>2 DEF OptionValue
  <2>1. memory \in {"inet", "inet6"} BY <1>1, <1>2, <2>0 DEF MemoryOf, Unread
  <2>2. CASE memory = "inet" BY <2>2 DEF AllIn, ShownOf, StoredOf
  <2>3. CASE memory = "inet6"
    <3>1. /\ ShownOf(v, memory) = [ip6 |-> v.ip, port |-> v.port, family |-> v.family]
          /\ StoredOf(v, memory) = [ip6 |-> Garbage, port |-> v.port, family |-> v.family]
          /\ Misprinted(memory) = {"ip6"}
      BY <2>3 DEF ShownOf, StoredOf, Misprinted
    <3> QED BY <3>1 DEF AllIn
  <2> QED BY <2>1, <2>2, <2>3
<1>3. CASE "ip" \notin DOMAIN v /\ v = OptionValue
  <2>1. memory \in {"whole", "short"} BY <1>1, <1>3 DEF MemoryOf, Unread
  <2>2. CASE memory = "whole" BY <2>2 DEF AllIn, ShownOf, StoredOf
  <2>3. CASE memory = "short"
    <3>1. /\ ShownOf(v, memory) = v /\ StoredOf(v, memory) = [u1 |-> v.u1]
          /\ Misprinted(memory) = {"u0"}
      BY <2>3 DEF ShownOf, StoredOf, Misprinted
    <3> QED BY <1>3, <3>1 DEF AllIn, OptionValue
  <2> QED BY <2>1, <2>2, <2>3
<1>4. CASE "ip" \notin DOMAIN v /\ v # OptionValue
  <2>1. memory = "whole" BY <1>1, <1>4 DEF MemoryOf, Unread
  <2> QED BY <2>1 DEF AllIn, ShownOf, StoredOf
<1> QED BY <1>2, <1>3, <1>4

\* Slots stored whatever happens are printed as they are.
LEMMA SameAlways ==
  ASSUME NEW always, NEW shown, NEW stored, NEW but, AllIn(shown, stored, but)
  PROVE  AllIn(always ++ shown, always ++ stored, but)
BY DEF AllIn, ++

LEMMA SameRowIsTrue ==
  ASSUME NEW row, NEW handler, SameRow(row, handler)
  PROVE  TrueRow(row, handler)
<1> DEFINE v == row.checked
<1> SUFFICES ASSUME NEW memory \in MemoryOf(v), NEW valid \in BOOLEAN,
                    memory \notin Unread => valid,
                    memory \in Unread /\ row.flag = "clear" => ~valid
             PROVE  AllIn(handler.always ++
                            (IF valid THEN ShownOf(handler.valid, memory) ELSE handler.invalid),
                          row.always ++ StoredOf(v, memory), Misprinted(memory))
  BY DEF TrueRow
<1>1. handler.always = row.always /\ handler.valid = v /\ handler.invalid = Nothing
  BY DEF SameRow
<1>2. v = Nothing \/ row.flag = "clear" BY DEF SameRow
<1> DEFINE shown == IF valid THEN ShownOf(v, memory) ELSE Nothing
<1>3. AllIn(shown, StoredOf(v, memory), Misprinted(memory))
  <2>1. CASE memory \notin Unread BY <2>1, ShownIsStored
  <2>2. CASE memory \in Unread /\ v = Nothing
    <3>1. memory = "unreadable" BY <2>2, MemoryType
    <3>2. shown = Nothing BY <2>2, <3>1 DEF ShownOf
    <3> QED BY <3>2 DEF AllIn, Nothing
  <2>3. CASE memory \in Unread /\ row.flag = "clear"
    <3>1. shown = Nothing BY <2>3
    <3> QED BY <3>1 DEF AllIn, Nothing
  <2> QED BY <1>2, <2>1, <2>2, <2>3
<1>4. AllIn(row.always ++ shown, row.always ++ StoredOf(v, memory), Misprinted(memory))
  <2> HIDE DEF shown, v
  <2> QED BY <1>3, SameAlways
<1> QED BY <1>1, <1>4

\* The handlers of five calls print less than the program stores, or print the address of a
\* peer over the descriptor.
UnlikeRows == {"bind", "connect", "wait4", "init_module", "sched_setscheduler"}

LEMMA UnlikeRowsAreTrue ==
  /\ TrueRow(StoreSocketPeers["bind"], PrintSocketPeers["bind"])
  /\ TrueRow(StoreSocketPeers["connect"], PrintSocketPeers["connect"])
  /\ TrueRow(StoreProcesses["wait4"], PrintProcesses["wait4"])
  /\ TrueRow(StoreKernelModules["init_module"], PrintKernelModules["init_module"])
  /\ TrueRow(StoreSignals["sched_setscheduler"], PrintSignals["sched_setscheduler"])
<1>1. \A m \in {"bind", "connect"} :
        /\ StoreSocketPeers[m] = Row([s0 |-> 0], Address(1))
        /\ PrintSocketPeers[m] = Replaces([s0 |-> 0], Address(1))
  BY DEF StoreSocketPeers, PrintSocketPeers, ++
<1>2. TrueRow(Row([s0 |-> 0], Address(1)), Replaces([s0 |-> 0], Address(1)))
  <2> DEFINE peer == Address(1)
             descriptor == [s0 |-> 0]
             row == Row(descriptor, peer)
             handler == Replaces(descriptor, peer)
  <2>1. /\ row.always = descriptor /\ row.checked = peer /\ row.flag = "clear"
        /\ handler.always = Nothing /\ handler.valid = peer /\ handler.invalid = descriptor
    BY DEF Row, Replaces
  <2>2. "s0" \notin DOMAIN peer /\ "s0" \notin {"ip6", "port", "family"}
        /\ DOMAIN descriptor = {"s0"}
    BY DEF Address
  <2> HIDE DEF peer, descriptor, row, handler
  <2>3. TrueRow(row, handler)
    <3> SUFFICES ASSUME NEW memory \in MemoryOf(peer), NEW valid \in BOOLEAN,
                        memory \notin Unread => valid, memory \in Unread => ~valid
                 PROVE  AllIn(Nothing ++ (IF valid THEN ShownOf(peer, memory) ELSE descriptor),
                              descriptor ++ StoredOf(peer, memory), Misprinted(memory))
      BY <2>1 DEF TrueRow
    <3>1. CASE memory \notin Unread
      <4> DEFINE shown == ShownOf(peer, memory)
                 stored == StoredOf(peer, memory)
      <4>1. AllIn(shown, stored, Misprinted(memory)) BY <3>1, ShownIsStored
      <4>2. "s0" \notin DOMAIN shown BY <2>2 DEF ShownOf
      <4> HIDE DEF shown, stored
      <4>3. AllIn(Nothing ++ shown, descriptor ++ stored, Misprinted(memory))
        BY <2>2, <4>1, <4>2 DEF AllIn, ++, Nothing
      <4> QED BY <3>1, <4>3 DEF shown, stored
    <3>2. CASE memory \in Unread
      <4> DEFINE stored == StoredOf(peer, memory)
      <4> HIDE DEF stored
      <4>1. AllIn(Nothing ++ descriptor, descriptor ++ stored, Misprinted(memory))
        BY DEF AllIn, ++, Nothing
      <4> QED BY <3>2, <4>1 DEF stored
    <3> QED BY <3>1, <3>2
  <2> QED BY <2>3 DEF peer, descriptor, row, handler
<1>3. /\ StoreProcesses["wait4"] = Row([u0 |-> 0, s0 |-> 2], [s1 |-> 1])
      /\ PrintProcesses["wait4"] = ShowsIf([u0 |-> 0], [s1 |-> 1, s0 |-> 2])
  BY DEF StoreProcesses, PrintProcesses, ++
<1>4. /\ StoreKernelModules["init_module"] = Row([q0 |-> 1], Nothing)
      /\ PrintKernelModules["init_module"] = ShowsIf([q0 |-> 1], [str |-> 2])
  BY DEF StoreKernelModules, PrintKernelModules, ++
<1>5. /\ StoreSignals["sched_setscheduler"] = Plain([u0 |-> 0, s0 |-> 1, s1 |-> 2])
      /\ PrintSignals["sched_setscheduler"] = Shows([u0 |-> 0, s0 |-> 1])
  BY DEF StoreSignals, PrintSignals, ++
<1>9. /\ MemoryOf(Nothing) = {"unreadable"} /\ "unreadable" \in Unread
      /\ StoredOf(Nothing, "unreadable") = Nothing
      /\ \A v : ShownOf(v, "unreadable") = v
  BY MemoryType DEF Unread, StoredOf, ShownOf
<1>6. TrueRow(Row([u0 |-> 0, s0 |-> 2], [s1 |-> 1]), ShowsIf([u0 |-> 0], [s1 |-> 1, s0 |-> 2]))
  <2> DEFINE v == [s1 |-> 1]
  <2>1. MemoryOf(v) \subseteq {"unreadable", "whole"}
    <3>1. DOMAIN v = {"s1"} /\ DOMAIN OptionValue = {"u0", "u1"} /\ DOMAIN Nothing = {}
      BY DEF OptionValue, Nothing
    <3>2. v # Nothing /\ v # OptionValue /\ "ip" \notin DOMAIN v BY <3>1
    <3> HIDE DEF v
    <3> QED BY <3>2 DEF MemoryOf
  <2>2. ShownOf([s1 |-> 1, s0 |-> 2], "whole") = [s1 |-> 1, s0 |-> 2] /\ StoredOf(v, "whole") = v
    BY DEF ShownOf, StoredOf
  <2>3. AllIn([u0 |-> 0] ++ [s1 |-> 1, s0 |-> 2], [u0 |-> 0, s0 |-> 2] ++ v, {})
    BY SMTT(30) DEF AllIn, ++
  <2>4. AllIn([u0 |-> 0] ++ Nothing, [u0 |-> 0, s0 |-> 2] ++ Nothing, {})
    BY SMTT(30) DEF AllIn, ++, Nothing
  <2>5. StoredOf(v, "unreadable") = Nothing BY DEF StoredOf
  <2>6. /\ Row([u0 |-> 0, s0 |-> 2], v).always = [u0 |-> 0, s0 |-> 2]
        /\ Row([u0 |-> 0, s0 |-> 2], v).checked = v
        /\ Row([u0 |-> 0, s0 |-> 2], v).flag = "clear"
        /\ ShowsIf([u0 |-> 0], [s1 |-> 1, s0 |-> 2]).always = [u0 |-> 0]
        /\ ShowsIf([u0 |-> 0], [s1 |-> 1, s0 |-> 2]).valid = [s1 |-> 1, s0 |-> 2]
        /\ ShowsIf([u0 |-> 0], [s1 |-> 1, s0 |-> 2]).invalid = Nothing
    BY DEF Row, ShowsIf
  <2>7. Misprinted("whole") = {} /\ Misprinted("unreadable") = {} /\ "whole" \notin Unread
    BY DEF Misprinted, Unread
  <2> DEFINE row == Row([u0 |-> 0, s0 |-> 2], v)
             handler == ShowsIf([u0 |-> 0], [s1 |-> 1, s0 |-> 2])
             all == [s1 |-> 1, s0 |-> 2]
             both == [u0 |-> 0, s0 |-> 2]
             first == [u0 |-> 0]
  <2> HIDE DEF v, row, handler, all, both, first
  <2>8. TrueRow(row, handler)
    <3> SUFFICES ASSUME NEW memory \in {"unreadable", "whole"}, NEW valid \in BOOLEAN,
                        memory \notin Unread => valid, memory \in Unread => ~valid
                 PROVE  AllIn(first ++ (IF valid THEN ShownOf(all, memory) ELSE Nothing),
                              both ++ StoredOf(v, memory), Misprinted(memory))
      BY <2>1, <2>6 DEF TrueRow, row, handler, all, both, first
    <3>1. CASE memory = "whole" BY <2>2, <2>3, <2>7, <3>1 DEF all, both, first
    <3>2. CASE memory = "unreadable" BY <1>9, <2>4, <2>5, <2>7, <3>2 DEF both, first
    <3> QED BY <3>1, <3>2
  <2> QED BY <2>8 DEF row, handler, v
<1>10. ASSUME NEW row, NEW handler, row.checked = Nothing,
              AllIn(handler.always, row.always, {}), handler.invalid = Nothing,
              row.flag = "clear" \/ handler.valid = Nothing
       PROVE  TrueRow(row, handler)
  <2>1. \A f : DOMAIN (f ++ Nothing) = DOMAIN f /\ \A x \in DOMAIN f : (f ++ Nothing)[x] = f[x]
    BY DEF ++, Nothing
  <2>2. AllIn(handler.always ++ Nothing, row.always ++ Nothing, Misprinted("unreadable"))
    BY <1>10, <2>1 DEF AllIn, Misprinted
  <2> QED BY <1>9, <1>10, <2>2 DEF TrueRow
<1>7. TrueRow(Row([q0 |-> 1], Nothing), ShowsIf([q0 |-> 1], [str |-> 2]))
  <2> DEFINE row == Row([q0 |-> 1], Nothing)
             handler == ShowsIf([q0 |-> 1], [str |-> 2])
  <2>1. /\ row.checked = Nothing /\ row.flag = "clear" /\ row.always = handler.always
        /\ handler.invalid = Nothing
    BY DEF Row, ShowsIf
  <2> HIDE DEF row, handler
  <2>2. AllIn(handler.always, row.always, {}) BY <2>1 DEF AllIn
  <2>3. TrueRow(row, handler) BY <1>10, <2>1, <2>2
  <2> QED BY <2>3 DEF row, handler
<1>8. TrueRow(Plain([u0 |-> 0, s0 |-> 1, s1 |-> 2]), Shows([u0 |-> 0, s0 |-> 1]))
  <2> DEFINE row == Plain([u0 |-> 0, s0 |-> 1, s1 |-> 2])
             handler == Shows([u0 |-> 0, s0 |-> 1])
  <2>1. row.checked = Nothing /\ handler.invalid = Nothing /\ handler.valid = Nothing
    BY DEF Plain, Shows
  <2>2. AllIn(handler.always, row.always, {}) BY DEF Plain, Shows, AllIn
  <2> HIDE DEF row, handler
  <2>3. TrueRow(row, handler) BY <1>10, <2>1, <2>2
  <2> QED BY <2>3 DEF row, handler
<1> QED BY <1>1, <1>2, <1>3, <1>4, <1>5, <1>6, <1>7, <1>8

\* Group by group, a call that is printed is stored, and what is printed of it is true.
LikeRows(stores, prints) ==
  \A m \in DOMAIN prints :
    /\ m \in DOMAIN stores
    /\ m \notin Misread \cup UnlikeRows => SameRow(stores[m], prints[m])

LEMMA GroupsAreLike == \A g \in Groups : LikeRows(g[1], g[2])
<1> USE DEF LikeRows, SameRow, ++, Plain, Row, Stale, Shows, ShowsIf, Replaces, Misread, UnlikeRows
<1>1. LikeRows(StoreSocketOptions, PrintSocketOptions) BY DEF StoreSocketOptions, PrintSocketOptions
<1>2. LikeRows(StoreSocketPeers, PrintSocketPeers) BY DEF StoreSocketPeers, PrintSocketPeers
<1>3. LikeRows(StoreMessages, PrintMessages) BY DEF StoreMessages, PrintMessages
<1>4. LikeRows(StoreHostNames, PrintHostNames) BY DEF StoreHostNames, PrintHostNames
<1>5. LikeRows(StoreOpening, PrintOpening) BY DEF StoreOpening, PrintOpening
<1>6. LikeRows(StoreNodes, PrintNodes) BY DEF StoreNodes, PrintNodes
<1>7. LikeRows(StoreSizes, PrintSizes) BY DEF StoreSizes, PrintSizes
<1>8. LikeRows(StoreDirectories, PrintDirectories) BY DEF StoreDirectories, PrintDirectories
<1>9. LikeRows(StoreLinks, PrintLinks) BY DEF StoreLinks, PrintLinks
<1>10. LikeRows(StoreLinkTargets, PrintLinkTargets) BY DEF StoreLinkTargets, PrintLinkTargets
<1>11. LikeRows(StoreFileStatus, PrintFileStatus) BY DEF StoreFileStatus, PrintFileStatus
<1>12. LikeRows(StoreModes, PrintModes) BY DEF StoreModes, PrintModes
<1>13. LikeRows(StoreOwners, PrintOwners) BY DEF StoreOwners, PrintOwners
<1>14. LikeRows(StoreDescriptors, PrintDescriptors) BY DEF StoreDescriptors, PrintDescriptors
<1>15. LikeRows(StoreReads, PrintReads) BY DEF StoreReads, PrintReads
<1>16. LikeRows(StoreWrites, PrintWrites) BY DEF StoreWrites, PrintWrites
<1>17. LikeRows(StoreWatches, PrintWatches) BY DEF StoreWatches, PrintWatches
<1>18. LikeRows(StoreMounts, PrintMounts) BY DEF StoreMounts, PrintMounts
<1>19. LikeRows(StoreProcesses, PrintProcesses) BY DEF StoreProcesses, PrintProcesses
<1>20. LikeRows(StoreProcessIds, PrintProcessIds) BY DEF StoreProcessIds, PrintProcessIds
<1>21. LikeRows(StoreUserIds, PrintUserIds) BY DEF StoreUserIds, PrintUserIds
<1>22. LikeRows(StoreGroupIds, PrintGroupIds) BY DEF StoreGroupIds, PrintGroupIds
<1>23. LikeRows(StoreLimits, PrintLimits) BY DEF StoreLimits, PrintLimits
<1>24. LikeRows(StoreMappings, PrintMappings) BY DEF StoreMappings, PrintMappings
<1>25. LikeRows(StoreKernelModules, PrintKernelModules) BY DEF StoreKernelModules, PrintKernelModules
<1>26. LikeRows(StoreMemoryLocks, PrintMemoryLocks) BY DEF StoreMemoryLocks, PrintMemoryLocks
<1>27. LikeRows(StoreSignals, PrintSignals) BY SMTT(120) DEF StoreSignals, PrintSignals
<1> HIDE DEF LikeRows
<1> QED
  BY <1>1, <1>2, <1>3, <1>4, <1>5, <1>6, <1>7, <1>8, <1>9, <1>10, <1>11, <1>12,
     <1>13, <1>14, <1>15, <1>16, <1>17, <1>18, <1>19, <1>20, <1>21, <1>22, <1>23,
     <1>24, <1>25, <1>26, <1>27
  DEF Groups

\* The calls of each group.
LEMMA GroupNames ==
  /\ DOMAIN StoreSocketOptions = {"socket", "socketpair", "getsockopt", "getsockname",
       "getpeername", "setsockopt"}
  /\ DOMAIN StoreSocketPeers = {"bind", "connect", "listen", "shutdown", "accept",
       "accept4"}
  /\ DOMAIN StoreMessages = {"recvmmsg", "sendmmsg", "recvfrom", "recvmsg", "sendto",
       "sendmsg"}
  /\ DOMAIN StoreHostNames = {"sethostname", "setdomainname", "ioctl", "close"}
  /\ DOMAIN StoreOpening = {"creat", "memfd_create", "open", "openat", "openat2",
       "name_to_handle_at", "open_by_handle_at"}
  /\ DOMAIN StoreNodes = {"mknod", "mknodat", "rename", "renameat", "renameat2"}
  /\ DOMAIN StoreSizes = {"truncate", "ftruncate", "fallocate", "mkdir", "mkdirat",
       "rmdir", "getcwd"}
  /\ DOMAIN StoreDirectories = {"chdir", "chroot", "fchdir", "pivot_root", "getdents",
       "getdents64"}
  /\ DOMAIN StoreLinks = {"link", "symlink", "linkat", "symlinkat", "unlink",
       "unlinkat"}
  /\ DOMAIN StoreLinkTargets = {"readlink", "readlinkat", "umask", "newstat"}
  /\ DOMAIN StoreFileStatus = {"newlstat", "statfs", "newfstat", "fstatfs",
       "newfstatat", "statx"}
  /\ DOMAIN StoreModes = {"chown", "lchown", "chmod", "fchmod", "fchmodat"}
  /\ DOMAIN StoreOwners = {"fchown", "fchownat", "access", "faccessat"}
  /\ DOMAIN StoreDescriptors = {"dup2", "flock", "fcntl", "dup", "dup3", "read"}
  /\ DOMAIN StoreReads = {"pread64", "pwrite64", "readv", "preadv", "preadv2",
       "write"}
  /\ DOMAIN StoreWrites = {"writev", "pwritev", "pwritev2", "lseek", "sendfile64"}
  /\ DOMAIN StoreWatches = {"inotify_init", "inotify_init1", "inotify_add_watch",
       "inotify_rm_watch", "fanotify_init", "fanotify_mark"}
  /\ DOMAIN StoreMounts = {"mount", "umount", "move_mount", "clone", "clone3"}
  /\ DOMAIN StoreProcesses = {"fork", "vfork", "exit", "exit_group", "execve",
       "execveat", "wait4", "waitid"}
  /\ DOMAIN StoreProcessIds = {"getpid", "getppid", "gettid", "setsid", "getpgrp",
       "getpgid", "setuid", "setpgid"}
  /\ DOMAIN StoreUserIds = {"getuid", "getgid", "getresuid", "getresgid", "setresuid",
       "setresgid", "setgid"}
  /\ DOMAIN StoreGroupIds = {"setreuid", "setregid", "geteuid", "getegid",
       "setgroups", "getgroups", "setns"}
  /\ DOMAIN StoreLimits = {"getrlimit", "getrusage", "setrlimit", "prlimit64",
       "setpriority", "getpriority", "ioprio_set", "ioprio_get"}
  /\ DOMAIN StoreMappings = {"process_vm_readv", "process_vm_writev", "mmap",
       "mprotect", "capset", "ptrace"}
  /\ DOMAIN StoreKernelModules = {"init_module", "finit_module", "delete_module",
       "munmap", "mremap"}
  /\ DOMAIN StoreMemoryLocks = {"mlock", "munlock", "madvise", "mlock2", "mlockall",
       "munlockall"}
  /\ DOMAIN StoreSignals = {"capget", "prctl", "arch_prctl", "kill", "tkill",
       "tgkill", "brk", "sched_setscheduler"}
BY DEF ++, StoreSocketOptions, StoreSocketPeers, StoreMessages, StoreHostNames, StoreOpening, StoreNodes, StoreSizes, StoreDirectories, StoreLinks, StoreLinkTargets, StoreFileStatus, StoreModes, StoreOwners, StoreDescriptors, StoreReads, StoreWrites, StoreWatches, StoreMounts, StoreProcesses, StoreProcessIds, StoreUserIds, StoreGroupIds, StoreLimits, StoreMappings, StoreKernelModules, StoreMemoryLocks, StoreSignals

\* The group of a call: no call is in two of them.
GroupOf(m) ==
  IF m \in DOMAIN StoreSocketOptions THEN <<StoreSocketOptions, PrintSocketOptions>>
  ELSE IF m \in DOMAIN StoreSocketPeers THEN <<StoreSocketPeers, PrintSocketPeers>>
  ELSE IF m \in DOMAIN StoreMessages THEN <<StoreMessages, PrintMessages>>
  ELSE IF m \in DOMAIN StoreHostNames THEN <<StoreHostNames, PrintHostNames>>
  ELSE IF m \in DOMAIN StoreOpening THEN <<StoreOpening, PrintOpening>>
  ELSE IF m \in DOMAIN StoreNodes THEN <<StoreNodes, PrintNodes>>
  ELSE IF m \in DOMAIN StoreSizes THEN <<StoreSizes, PrintSizes>>
  ELSE IF m \in DOMAIN StoreDirectories THEN <<StoreDirectories, PrintDirectories>>
  ELSE IF m \in DOMAIN StoreLinks THEN <<StoreLinks, PrintLinks>>
  ELSE IF m \in DOMAIN StoreLinkTargets THEN <<StoreLinkTargets, PrintLinkTargets>>
  ELSE IF m \in DOMAIN StoreFileStatus THEN <<StoreFileStatus, PrintFileStatus>>
  ELSE IF m \in DOMAIN StoreModes THEN <<StoreModes, PrintModes>>
  ELSE IF m \in DOMAIN StoreOwners THEN <<StoreOwners, PrintOwners>>
  ELSE IF m \in DOMAIN StoreDescriptors THEN <<StoreDescriptors, PrintDescriptors>>
  ELSE IF m \in DOMAIN StoreReads THEN <<StoreReads, PrintReads>>
  ELSE IF m \in DOMAIN StoreWrites THEN <<StoreWrites, PrintWrites>>
  ELSE IF m \in DOMAIN StoreWatches THEN <<StoreWatches, PrintWatches>>
  ELSE IF m \in DOMAIN StoreMounts THEN <<StoreMounts, PrintMounts>>
  ELSE IF m \in DOMAIN StoreProcesses THEN <<StoreProcesses, PrintProcesses>>
  ELSE IF m \in DOMAIN StoreProcessIds THEN <<StoreProcessIds, PrintProcessIds>>
  ELSE IF m \in DOMAIN StoreUserIds THEN <<StoreUserIds, PrintUserIds>>
  ELSE IF m \in DOMAIN StoreGroupIds THEN <<StoreGroupIds, PrintGroupIds>>
  ELSE IF m \in DOMAIN StoreLimits THEN <<StoreLimits, PrintLimits>>
  ELSE IF m \in DOMAIN StoreMappings THEN <<StoreMappings, PrintMappings>>
  ELSE IF m \in DOMAIN StoreKernelModules THEN <<StoreKernelModules, PrintKernelModules>>
  ELSE IF m \in DOMAIN StoreMemoryLocks THEN <<StoreMemoryLocks, PrintMemoryLocks>>
  ELSE <<StoreSignals, PrintSignals>>

\* The group a call is printed in is the one it is stored in.
LEMMA OneGroup ==
  /\ \A t \in StoreGroups : \A m \in DOMAIN t : GroupOf(m)[1] = t
  /\ \A t \in EnterGroups : \A m \in DOMAIN t :
       /\ GroupOf(m)[2] = t /\ GroupOf(m)[1] \in StoreGroups
       /\ LikeRows(GroupOf(m)[1], t)
<1> DEFINE Of2(s, p) == \A m \in DOMAIN s : GroupOf(m) = <<s, p>>
<1>1. Of2(StoreSocketOptions, PrintSocketOptions) BY GroupNames DEF GroupOf
<1>2. Of2(StoreSocketPeers, PrintSocketPeers) BY GroupNames DEF GroupOf
<1>3. Of2(StoreMessages, PrintMessages) BY GroupNames DEF GroupOf
<1>4. Of2(StoreHostNames, PrintHostNames) BY GroupNames DEF GroupOf
<1>5. Of2(StoreOpening, PrintOpening) BY GroupNames DEF GroupOf
<1>6. Of2(StoreNodes, PrintNodes) BY GroupNames DEF GroupOf
<1>7. Of2(StoreSizes, PrintSizes) BY GroupNames DEF GroupOf
<1>8. Of2(StoreDirectories, PrintDirectories) BY GroupNames DEF GroupOf
<1>9. Of2(StoreLinks, PrintLinks) BY GroupNames DEF GroupOf
<1>10. Of2(StoreLinkTargets, PrintLinkTargets) BY GroupNames DEF GroupOf
<1>11. Of2(StoreFileStatus, PrintFileStatus) BY GroupNames DEF GroupOf
<1>12. Of2(StoreModes, PrintModes) BY GroupNames DEF GroupOf
<1>13. Of2(StoreOwners, PrintOwners) BY GroupNames DEF GroupOf
<1>14. Of2(StoreDescriptors, PrintDescriptors) BY GroupNames DEF GroupOf
<1>15. Of2(StoreReads, PrintReads) BY GroupNames DEF GroupOf
<1>16. Of2(StoreWrites, PrintWrites) BY GroupNames DEF GroupOf
<1>17. Of2(StoreWatches, PrintWatches) BY GroupNames DEF GroupOf
<1>18. Of2(StoreMounts, PrintMounts) BY GroupNames DEF GroupOf
<1>19. Of2(StoreProcesses, PrintProcesses) BY GroupNames DEF GroupOf
<1>20. Of2(StoreProcessIds, PrintProcessIds) BY GroupNames DEF GroupOf
<1>21. Of2(StoreUserIds, PrintUserIds) BY GroupNames DEF GroupOf
<1>22. Of2(StoreGroupIds, PrintGroupIds) BY GroupNames DEF GroupOf
<1>23. Of2(StoreLimits, PrintLimits) BY GroupNames DEF GroupOf
<1>24. Of2(StoreMappings, PrintMappings) BY GroupNames DEF GroupOf
<1>25. Of2(StoreKernelModules, PrintKernelModules) BY GroupNames DEF GroupOf
<1>26. Of2(StoreMemoryLocks, PrintMemoryLocks) BY GroupNames DEF GroupOf
<1>27. Of2(StoreSignals, PrintSignals) BY GroupNames DEF GroupOf
<1>28. \A t \in StoreGroups : \A m \in DOMAIN t : GroupOf(m)[1] = t
  <2> HIDE DEF GroupOf
  <2> QED
    BY <1>1, <1>2, <1>3, <1>4, <1>5, <1>6, <1>7, <1>8, <1>9, <1>10, <1>11, <1>12,
       <1>13, <1>14, <1>15, <1>16, <1>17, <1>18, <1>19, <1>20, <1>21, <1>22, <1>23,
       <1>24, <1>25, <1>26, <1>27
    DEF StoreGroups
<1>29. \A g \in Groups : Of2(g[1], g[2]) /\ g[1] \in StoreGroups
  <2> HIDE DEF Of2
  <2>1. \A g \in Groups : Of2(g[1], g[2])
    BY <1>1, <1>2, <1>3, <1>4, <1>5, <1>6, <1>7, <1>8, <1>9, <1>10, <1>11, <1>12,
       <1>13, <1>14, <1>15, <1>16, <1>17, <1>18, <1>19, <1>20, <1>21, <1>22, <1>23,
       <1>24, <1>25, <1>26, <1>27
    DEF Groups
  <2>2. \A g \in Groups : g[1] \in StoreGroups BY DEF StoreGroups, Groups
  <2> QED BY <2>1, <2>2
<1>30. \A t \in EnterGroups : \E g \in Groups : t = g[2]
  BY DEF Groups, EnterGroups
<1> HIDE DEF GroupOf, Groups
<1>31. \A g \in Groups : \A m \in DOMAIN g[2] : GroupOf(m)[1] = g[1] /\ GroupOf(m)[2] = g[2]
  BY <1>29, GroupsAreLike DEF LikeRows
<1> QED BY <1>28, <1>29, <1>30, <1>31, GroupsAreLike

\* An entry of a joined table is that of the one table that has it.
LEMMA JoinedEntry ==
  ASSUME NEW tables, NEW t \in tables, NEW x \in DOMAIN t,
         \A u \in tables : x \in DOMAIN u => u = t
  PROVE  x \in DOMAIN Joined(tables) /\ Joined(tables)[x] = t[x]
BY DEF Joined

LEMMA EnterRowsAreTrue ==
  ASSUME NEW m \in DOMAIN EnterHandlers, m \notin Misread
  PROVE  m \in DOMAIN Stores /\ TrueRow(Stores[m], EnterHandlers[m])
<1>1. PICK t \in EnterGroups : m \in DOMAIN t BY DEF EnterHandlers, Joined
<1> DEFINE g == GroupOf(m)
<1>2. g[2] = t /\ g[1] \in StoreGroups /\ LikeRows(g[1], t) BY <1>1, OneGroup
<1>3. m \in DOMAIN g[1] BY <1>1, <1>2 DEF LikeRows
<1>4. m \in DOMAIN Stores /\ Stores[m] = g[1][m]
  BY <1>2, <1>3, OneGroup, JoinedEntry DEF Stores
<1>5. EnterHandlers[m] = t[m] BY <1>1, OneGroup, JoinedEntry DEF EnterHandlers
<1>6. CASE m \notin UnlikeRows
  <2>1. SameRow(g[1][m], t[m]) BY <1>1, <1>2, <1>6 DEF LikeRows
  <2> QED BY <2>1, <1>4, <1>5, SameRowIsTrue
<1>7. CASE m \in UnlikeRows
  <2>1. CASE m \in {"bind", "connect"}
    <3>1. g = <<StoreSocketPeers, PrintSocketPeers>> BY <2>1, GroupNames DEF GroupOf
    <3> QED BY <2>1, <3>1, <1>2, <1>4, <1>5, UnlikeRowsAreTrue
  <2>2. CASE m = "wait4"
    <3>1. g = <<StoreProcesses, PrintProcesses>> BY <2>2, GroupNames DEF GroupOf
    <3> QED BY <2>2, <3>1, <1>2, <1>4, <1>5, UnlikeRowsAreTrue
  <2>3. CASE m = "init_module"
    <3>1. g = <<StoreKernelModules, PrintKernelModules>> BY <2>3, GroupNames DEF GroupOf
    <3> QED BY <2>3, <3>1, <1>2, <1>4, <1>5, UnlikeRowsAreTrue
  <2>4. CASE m = "sched_setscheduler"
    <3>1. g = <<StoreSignals, PrintSignals>> BY <2>4, GroupNames DEF GroupOf
    <3> QED BY <2>4, <3>1, <1>2, <1>4, <1>5, UnlikeRowsAreTrue
  <2> QED BY <2>1, <2>2, <2>3, <2>4, <1>7 DEF UnlikeRows
<1> QED BY <1>6, <1>7

-----------------------------------------------------------------------------
\* The calls that return data through pointers, and those whose results are printed.
LEMMA FetchNames ==
  /\ DOMAIN FetchSocketOptions = {"socketpair", "getsockopt", "getsockname", "getpeername"}
  /\ DOMAIN FetchPeers = {"accept", "accept4"}
  /\ DOMAIN FetchMessages = {"recvfrom", "recvmsg"}
  /\ DOMAIN FetchDirectories = {"getdents", "getdents64"}
  /\ DOMAIN FetchIds = {"getresuid", "getresgid"}
  /\ DOMAIN FetchLimits = {"getrlimit"}
  /\ DOMAIN FetchCapabilities = {"capget"}
BY DEF ++, FetchSocketOptions, FetchPeers, FetchMessages, FetchDirectories, FetchIds, FetchLimits, FetchCapabilities

LEMMA ResultNames ==
  /\ DOMAIN PrintSocketResults = {"getsockname", "getpeername", "accept", "accept4",
       "recvmsg", "recvfrom", "socketpair", "getsockopt"}
  /\ DOMAIN PrintDirectoryResults = {"getdents", "getdents64"}
  /\ DOMAIN PrintIdResults = {"getresuid", "getresgid"}
  /\ DOMAIN PrintCapabilityResults = {"capget"}
BY DEF ++, PrintSocketResults, PrintDirectoryResults, PrintIdResults, PrintCapabilityResults

LEMMA FetchEntries ==
  /\ \A m \in DOMAIN FetchSocketOptions : m \in DOMAIN Fetches /\ Fetches[m] = FetchSocketOptions[m]
  /\ \A m \in DOMAIN FetchPeers : m \in DOMAIN Fetches /\ Fetches[m] = FetchPeers[m]
  /\ \A m \in DOMAIN FetchMessages : m \in DOMAIN Fetches /\ Fetches[m] = FetchMessages[m]
  /\ \A m \in DOMAIN FetchDirectories : m \in DOMAIN Fetches /\ Fetches[m] = FetchDirectories[m]
  /\ \A m \in DOMAIN FetchIds : m \in DOMAIN Fetches /\ Fetches[m] = FetchIds[m]
  /\ \A m \in DOMAIN FetchLimits : m \in DOMAIN Fetches /\ Fetches[m] = FetchLimits[m]
  /\ \A m \in DOMAIN FetchCapabilities : m \in DOMAIN Fetches /\ Fetches[m] = FetchCapabilities[m]
<1>1. \A m \in DOMAIN FetchSocketOptions : m \in DOMAIN Fetches /\ Fetches[m] = FetchSocketOptions[m]
  <2>1. FetchSocketOptions \in FetchGroups BY DEF FetchGroups
  <2>2. \A m \in DOMAIN FetchSocketOptions, t \in FetchGroups : m \in DOMAIN t => t = FetchSocketOptions
    BY FetchNames DEF FetchGroups
  <2> QED BY <2>1, <2>2, JoinedEntry DEF Fetches
<1>2. \A m \in DOMAIN FetchPeers : m \in DOMAIN Fetches /\ Fetches[m] = FetchPeers[m]
  <2>1. FetchPeers \in FetchGroups BY DEF FetchGroups
  <2>2. \A m \in DOMAIN FetchPeers, t \in FetchGroups : m \in DOMAIN t => t = FetchPeers
    BY FetchNames DEF FetchGroups
  <2> QED BY <2>1, <2>2, JoinedEntry DEF Fetches
<1>3. \A m \in DOMAIN FetchMessages : m \in DOMAIN Fetches /\ Fetches[m] = FetchMessages[m]
  <2>1. FetchMessages \in FetchGroups BY DEF FetchGroups
  <2>2. \A m \in DOMAIN FetchMessages, t \in FetchGroups : m \in DOMAIN t => t = FetchMessages
    BY FetchNames DEF FetchGroups
  <2> QED BY <2>1, <2>2, JoinedEntry DEF Fetches
<1>4. \A m \in DOMAIN FetchDirectories : m \in DOMAIN Fetches /\ Fetches[m] = FetchDirectories[m]
  <2>1. FetchDirectories \in FetchGroups BY DEF FetchGroups
  <2>2. \A m \in DOMAIN FetchDirectories, t \in FetchGroups : m \in DOMAIN t => t = FetchDirectories
    BY FetchNames DEF FetchGroups
  <2> QED BY <2>1, <2>2, JoinedEntry DEF Fetches
<1>5. \A m \in DOMAIN FetchIds : m \in DOMAIN Fetches /\ Fetches[m] = FetchIds[m]
  <2>1. FetchIds \in FetchGroups BY DEF FetchGroups
  <2>2. \A m \in DOMAIN FetchIds, t \in FetchGroups : m \in DOMAIN t => t = FetchIds
    BY FetchNames DEF FetchGroups
  <2> QED BY <2>1, <2>2, JoinedEntry DEF Fetches
<1>6. \A m \in DOMAIN FetchLimits : m \in DOMAIN Fetches /\ Fetches[m] = FetchLimits[m]
  <2>1. FetchLimits \in FetchGroups BY DEF FetchGroups
  <2>2. \A m \in DOMAIN FetchLimits, t \in FetchGroups : m \in DOMAIN t => t = FetchLimits
    BY FetchNames DEF FetchGroups
  <2> QED BY <2>1, <2>2, JoinedEntry DEF Fetches
<1>7. \A m \in DOMAIN FetchCapabilities : m \in DOMAIN Fetches /\ Fetches[m] = FetchCapabilities[m]
  <2>1. FetchCapabilities \in FetchGroups BY DEF FetchGroups
  <2>2. \A m \in DOMAIN FetchCapabilities, t \in FetchGroups : m \in DOMAIN t => t = FetchCapabilities
    BY FetchNames DEF FetchGroups
  <2> QED BY <2>1, <2>2, JoinedEntry DEF Fetches
<1> QED BY <1>1, <1>2, <1>3, <1>4, <1>5, <1>6, <1>7

LEMMA ResultEntries ==
  /\ \A m \in DOMAIN PrintSocketResults : m \in DOMAIN ExitHandlers /\ ExitHandlers[m] = PrintSocketResults[m]
  /\ \A m \in DOMAIN PrintDirectoryResults : m \in DOMAIN ExitHandlers /\ ExitHandlers[m] = PrintDirectoryResults[m]
  /\ \A m \in DOMAIN PrintIdResults : m \in DOMAIN ExitHandlers /\ ExitHandlers[m] = PrintIdResults[m]
  /\ \A m \in DOMAIN PrintCapabilityResults : m \in DOMAIN ExitHandlers /\ ExitHandlers[m] = PrintCapabilityResults[m]
<1>1. \A m \in DOMAIN PrintSocketResults : m \in DOMAIN ExitHandlers /\ ExitHandlers[m] = PrintSocketResults[m]
  <2>1. PrintSocketResults \in ExitGroups BY DEF ExitGroups
  <2>2. \A m \in DOMAIN PrintSocketResults, t \in ExitGroups : m \in DOMAIN t => t = PrintSocketResults
    BY ResultNames DEF ExitGroups
  <2> QED BY <2>1, <2>2, JoinedEntry DEF ExitHandlers
<1>2. \A m \in DOMAIN PrintDirectoryResults : m \in DOMAIN ExitHandlers /\ ExitHandlers[m] = PrintDirectoryResults[m]
  <2>1. PrintDirectoryResults \in ExitGroups BY DEF ExitGroups
  <2>2. \A m \in DOMAIN PrintDirectoryResults, t \in ExitGroups : m \in DOMAIN t => t = PrintDirectoryResults
    BY ResultNames DEF ExitGroups
  <2> QED BY <2>1, <2>2, JoinedEntry DEF ExitHandlers
<1>3. \A m \in DOMAIN PrintIdResults : m \in DOMAIN ExitHandlers /\ ExitHandlers[m] = PrintIdResults[m]
  <2>1. PrintIdResults \in ExitGroups BY DEF ExitGroups
  <2>2. \A m \in DOMAIN PrintIdResults, t \in ExitGroups : m \in DOMAIN t => t = PrintIdResults
    BY ResultNames DEF ExitGroups
  <2> QED BY <2>1, <2>2, JoinedEntry DEF ExitHandlers
<1>4. \A m \in DOMAIN PrintCapabilityResults : m \in DOMAIN ExitHandlers /\ ExitHandlers[m] = PrintCapabilityResults[m]
  <2>1. PrintCapabilityResults \in ExitGroups BY DEF ExitGroups
  <2>2. \A m \in DOMAIN PrintCapabilityResults, t \in ExitGroups : m \in DOMAIN t => t = PrintCapabilityResults
    BY ResultNames DEF ExitGroups
  <2> QED BY <2>1, <2>2, JoinedEntry DEF ExitHandlers
<1> QED BY <1>1, <1>2, <1>3, <1>4

\* Every result that is fetched is printed, but for one, and nothing else is.
LEMMA ResultsAreTrue ==
  /\ DOMAIN ExitHandlers \subseteq DOMAIN Fetches \ Unlogged
  /\ \A m \in DOMAIN Fetches \ Unlogged :
       /\ m \in DOMAIN ExitHandlers
       /\ ExitHandlers[m] = ShowsIf(Nothing, Fetches[m].row)
<1> DEFINE Shown(m) == /\ m \in DOMAIN Fetches /\ m \in DOMAIN ExitHandlers
                       /\ ExitHandlers[m] = ShowsIf(Nothing, Fetches[m].row)
<1>1. \A m \in DOMAIN FetchSocketOptions : Shown(m)
  <2>1. \A m \in DOMAIN FetchSocketOptions :
          m \in DOMAIN PrintSocketResults /\ PrintSocketResults[m] = ShowsIf(Nothing, FetchSocketOptions[m].row)
    BY DEF FetchSocketOptions, PrintSocketResults, Fetch, FetchOrNull, ++, Of, Address
  <2> QED BY <2>1, FetchEntries, ResultEntries
<1>2. \A m \in DOMAIN FetchPeers : Shown(m)
  <2>1. \A m \in DOMAIN FetchPeers :
          m \in DOMAIN PrintSocketResults /\ PrintSocketResults[m] = ShowsIf(Nothing, FetchPeers[m].row)
    BY DEF FetchPeers, PrintSocketResults, Fetch, FetchOrNull, ++, Of, Address
  <2> QED BY <2>1, FetchEntries, ResultEntries
<1>3. \A m \in DOMAIN FetchMessages : Shown(m)
  <2>1. \A m \in DOMAIN FetchMessages :
          m \in DOMAIN PrintSocketResults /\ PrintSocketResults[m] = ShowsIf(Nothing, FetchMessages[m].row)
    BY DEF FetchMessages, PrintSocketResults, Fetch, FetchOrNull, ++, Of, Address
  <2> QED BY <2>1, FetchEntries, ResultEntries
<1>4. \A m \in DOMAIN FetchDirectories : Shown(m)
  <2>1. \A m \in DOMAIN FetchDirectories :
          m \in DOMAIN PrintDirectoryResults /\ PrintDirectoryResults[m] = ShowsIf(Nothing, FetchDirectories[m].row)
    BY DEF FetchDirectories, PrintDirectoryResults, Fetch, FetchOrNull, ++, Of, Address
  <2> QED BY <2>1, FetchEntries, ResultEntries
<1>5. \A m \in DOMAIN FetchIds : Shown(m)
  <2>1. \A m \in DOMAIN FetchIds :
          m \in DOMAIN PrintIdResults /\ PrintIdResults[m] = ShowsIf(Nothing, FetchIds[m].row)
    BY DEF FetchIds, PrintIdResults, Fetch, FetchOrNull, ++, Of, Address
  <2> QED BY <2>1, FetchEntries, ResultEntries
<1>6. DOMAIN FetchLimits = Unlogged BY FetchNames DEF Unlogged
<1>7. \A m \in DOMAIN FetchCapabilities : Shown(m)
  <2>1. \A m \in DOMAIN FetchCapabilities :
          m \in DOMAIN PrintCapabilityResults /\ PrintCapabilityResults[m] = ShowsIf(Nothing, FetchCapabilities[m].row)
    BY DEF FetchCapabilities, PrintCapabilityResults, Fetch, FetchOrNull, ++, Of, Address
  <2> QED BY <2>1, FetchEntries, ResultEntries
<1> HIDE DEF Shown
<1>8. \A m \in DOMAIN Fetches \ Unlogged : Shown(m)
  BY <1>1, <1>2, <1>3, <1>4, <1>5, <1>6, <1>7 DEF Fetches, FetchGroups, Joined
<1>9. \A m \in DOMAIN ExitHandlers : Shown(m)
  BY FetchNames, ResultNames, <1>1, <1>2, <1>3, <1>4, <1>5, <1>7 DEF ExitHandlers, ExitGroups, Joined
<1>10. DOMAIN ExitHandlers \cap Unlogged = {}
  BY ResultNames DEF ExitHandlers, ExitGroups, Joined, Unlogged
<1> QED BY <1>8, <1>9, <1>10 DEF Shown

-----------------------------------------------------------------------------
\* What is printed of an event of a call that is not misread was stored by this event.
LEMMA EnterIsTrue ==
  ASSUME NEW e \in EnterRecords, e.name \notin Misread
  PROVE  TrueArguments(e)
<1>0. PICK m \in Calls, fate \in Fates :
        \E memory \in MemoryOf(Stores[m].checked) : e \in EnterEvents(m, memory, fate)
  BY DEF EnterRecords, EnterOf
<1>1. PICK memory \in MemoryOf(Stores[m].checked) : e \in EnterEvents(m, memory, fate)
  BY <1>0
<1> DEFINE row == Stores[m]
           valid == IF memory \notin Unread THEN {TRUE}
                    ELSE IF row.flag = "clear" THEN {FALSE} ELSE BOOLEAN
           data == row.always ++ StoredOf(row.checked, memory)
<1>2. PICK v \in valid : e = Event(m, "enter", data, v, FALSE, "this", TRUE, fate, memory)
  BY <1>1 DEF EnterEvents
<1>3. /\ v \in BOOLEAN
      /\ memory \notin Unread => v
      /\ memory \in Unread /\ row.flag = "clear" => ~v
  BY <1>2
<1> HIDE DEF valid
<1>4. e.name = m /\ e.phase = "enter" /\ e.data = data /\ e.valid = v /\ e.memory = memory
  <2> HIDE DEF data
  <2> QED BY <1>2 DEF Event
<1>5. CASE m \notin DOMAIN EnterHandlers
  <2>1. Printed(e) = Nothing BY <1>4, <1>5 DEF Printed
  <2> QED BY <2>1 DEF TrueArguments, Nothing
<1>6. CASE m \in DOMAIN EnterHandlers
  <2> DEFINE handler == EnterHandlers[m]
  <2>1. TrueRow(row, handler) BY <1>4, <1>6, EnterRowsAreTrue
  <2>4. memory \in MemoryOf(row.checked) BY <1>1
  <2> HIDE DEF row, handler
  <2>2. AllIn(handler.always ++ (IF v THEN ShownOf(handler.valid, memory) ELSE handler.invalid),
              data, Misprinted(memory))
    BY <1>3, <2>1, <2>4 DEF TrueRow
  <2>3. Printed(e) = handler.always ++
                       (IF v THEN ShownOf(handler.valid, memory) ELSE handler.invalid)
    BY <1>4, <1>6 DEF Printed, handler
  <2> HIDE DEF data
  <2> QED BY <1>4, <2>2, <2>3 DEF TrueArguments, AllIn
<1> QED BY <1>5, <1>6

\* What is printed of a result was stored, and all of it is printed when it was fetched.
LEMMA ExitIsTrue ==
  ASSUME NEW e \in SafeExits
  PROVE  /\ TrueArguments(e)
         /\ e.valid /\ e.name \in Keeping \ Unlogged =>
              DOMAIN Printed(e) = DOMAIN ShownOf(ResultOf(e.name), e.memory)
<1>1. /\ e.name \in Calls /\ e.phase = "exit" /\ e.valid \in BOOLEAN
      /\ e.valid /\ e.name \in Keeping =>
           /\ e.memory \in MemoryOf(ResultOf(e.name)) \ Unread
           /\ e.data = StoredOf(ResultOf(e.name), e.memory)
  BY DEF SafeExits, ExitRecords, TrueExit
<1>2. CASE e.name \notin DOMAIN ExitHandlers
  <2>1. Printed(e) = Nothing BY <1>1, <1>2 DEF Printed
  <2>2. e.name \notin Keeping \ Unlogged BY <1>2, ResultsAreTrue DEF Keeping
  <2> QED BY <2>1, <2>2 DEF TrueArguments, Nothing
<1>3. CASE e.name \in DOMAIN ExitHandlers
  <2> DEFINE row == ResultOf(e.name)
             shown == ShownOf(row, e.memory)
  <2>1. e.name \in Keeping /\ ExitHandlers[e.name] = ShowsIf(Nothing, row)
    <3>1. e.name \in Keeping BY <1>1, <1>3, ResultsAreTrue DEF Keeping
    <3>2. e.name \notin Unlogged BY <1>3, ResultsAreTrue
    <3> QED BY <3>1, <3>2, ResultsAreTrue DEF Keeping, ResultOf
  <2>2. CASE e.valid
    <3>1. AllIn(shown, e.data, Misprinted(e.memory)) BY <1>1, <2>1, <2>2, ShownIsStored
    <3>2. Printed(e) = Nothing ++ shown
      BY <1>1, <1>3, <2>1, <2>2 DEF Printed, ShowsIf
    <3> HIDE DEF shown
    <3>3. DOMAIN Printed(e) = DOMAIN shown /\ \A s \in DOMAIN shown : Printed(e)[s] = shown[s]
      BY <3>2 DEF ++, Nothing
    <3>4. TrueArguments(e) BY <3>1, <3>3 DEF TrueArguments, AllIn
    <3> QED BY <3>3, <3>4 DEF shown
  <2>3. CASE ~e.valid
    <3>1. Printed(e) = Nothing ++ Nothing BY <1>1, <1>3, <2>1, <2>3 DEF Printed, ShowsIf
    <3>2. DOMAIN Printed(e) = {} BY <3>1 DEF ++, Nothing
    <3> QED BY <2>3, <3>2 DEF TrueArguments
  <2> QED BY <1>1, <2>2, <2>3
<1> QED BY <1>2, <1>3

\* Of a call that is not one of the twenty-one, the daemon logs only values that the BPF
\* program stored in this very event, each under the name of the argument it is: nothing an
\* earlier event left in the ring buffer, whatever user memory holds.  Two slots are wrong
\* for some contents of it: the address of an IPv6 peer, and an option shorter than four
\* bytes.
THEOREM PrintedIsTrue == Spec => []OthersAreTrue
<1>1. IInv => OthersAreTrue
  <2> SUFFICES ASSUME IInv, NEW e \in Events, e.name \notin Misread PROVE TrueArguments(e)
    BY DEF OthersAreTrue
  <2>1. e \in SafeEvents BY ElementOfSeq DEF IInv, Typed, Events
  <2> QED BY <2>1, EnterIsTrue, ExitIsTrue DEF SafeEvents
<1> QED BY <1>1, Inductive, PTL

\* A result whose pointers were kept at the entry, and that is_valid is set for, is logged,
\* whatever the policy and the other threads did meanwhile; only that of getrlimit is not.
THEOREM ResultsReachTheLog == Spec => []ResultsArrive
<1>1. IInv => ResultsArrive
  <2> SUFFICES ASSUME IInv, NEW e \in Events, e.phase = "exit", e.name \notin Unlogged,
                      e.memory \notin Unread, e.given, e.fate = "kept"
               PROVE  /\ e.valid
                      /\ DOMAIN Printed(e) = DOMAIN ShownOf(ResultOf(e.name), e.memory)
    BY DEF ResultsArrive
  <2>1. e \in SafeEvents BY ElementOfSeq DEF IInv, Typed, Events
  <2>2. e \notin EnterRecords BY EnterSource
  <2>3. e \in SafeExits BY <2>1, <2>2 DEF SafeEvents
  <2>4. e.valid /\ e.name \in Keeping BY <2>3 DEF SafeExits, TrueExit
  <2> QED BY <2>3, <2>4, ExitIsTrue
<1> QED BY <1>1, Inductive, PTL
=============================================================================
