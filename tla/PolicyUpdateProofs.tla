------------------------- MODULE PolicyUpdateProofs -------------------------
(***************************************************************************)
(* What TLAPS proves about PolicyUpdate for all three daemons, every set   *)
(* of file changes and every bound.                                        *)
(***************************************************************************)
EXTENDS PolicyUpdate, SequenceTheorems, TLAPS

-----------------------------------------------------------------------------
(* Every variable has its type.  The queues need two facts on sequences,   *)
(* stated for any set of elements.                                         *)

\* Cutting the pending events in two, as read(2) does, keeps both parts sequences
\* of events.
LEMMA SplitType ==
    ASSUME NEW S, NEW s \in Seq(S), NEW n \in 1..Len(s)
    PROVE  /\ SubSeq(s, 1, n) \in Seq(S)
           /\ SubSeq(s, n + 1, Len(s)) \in Seq(S)
<1>1. \A i \in 1..Len(s) : s[i] \in S
  BY ElementOfSeq
<1>2. Len(s) \in Nat
  BY LenProperties
<1>3. SubSeq(s, 1, n) \in Seq(S)
  BY <1>1, <1>2, SubSeqProperties
<1>4. SubSeq(s, n + 1, Len(s)) \in Seq(S)
  BY <1>1, <1>2, SubSeqProperties
<1>5. QED
  BY <1>3, <1>4

\* Dropping the event that was handled leaves a sequence, and more events when
\* there were more than one.
LEMMA TailType ==
    ASSUME NEW S, NEW s \in Seq(S), s # <<>>
    PROVE  /\ Tail(s) \in Seq(S)
           /\ Head(s) \in S
           /\ Len(s) > 1 => Tail(s) # <<>>
<1>1. Len(s) \in Nat /\ Len(s) # 0
  BY EmptySeq, LenProperties
<1>2. Head(s) = s[1] /\ s[1] \in S
  BY <1>1, ElementOfSeq
<1>3. Tail(s) \in Seq(S) /\ Len(Tail(s)) = Len(s) - 1
  BY HeadTailProperties
<1>4. Len(<<>>) = 0
  BY EmptySeq
<1>5. ASSUME NEW q, NEW n \in Nat, n > 1, Len(q) = n - 1 PROVE q # <<>>
  <2>1. Len(q) # 0
    BY <1>5
  <2>2. QED
    BY <1>4, <2>1, Zenon
<1>6. Len(s) > 1 => Tail(s) # <<>>
  BY <1>1, <1>3, <1>5
<1>7. QED
  BY <1>2, <1>3, <1>6

\* read(2) returns at least one event.
LEMMA SplitNotEmpty ==
    ASSUME NEW S, NEW s \in Seq(S), NEW n \in 1..Len(s)
    PROVE  SubSeq(s, 1, n) # <<>>
<1>1. n \in Nat /\ n >= 1 /\ \A i \in 1..n : s[i] \in S
  BY ElementOfSeq, LenProperties
<1>2. Len(SubSeq(s, 1, n)) = n
  BY <1>1, SubSeqProperties
<1>3. Len(SubSeq(s, 1, n)) # 0
  BY <1>1, <1>2
<1>4. Len(<<>>) = 0
  BY EmptySeq
<1>5. QED
  BY <1>3, <1>4, Zenon

\* Announcing an event keeps the queue a sequence of events.
LEMMA AppendType ==
    ASSUME NEW S, NEW s \in Seq(S), NEW e \in S
    PROVE  Append(s, e) \in Seq(S)
BY AppendProperties

-----------------------------------------------------------------------------
\* A watcher at these points is handling the head of its batch.
Working == Claimed \cup {"event", "enter"}
BatchInv == \A t \in Watchers : pc[t] \in Working => batch[t] # <<>>

USE DEF Watchers, Threads, NoThread

\* The empty queues and the cleared versions of a fresh process have their types.
LEMMA EmptyTypes ==
    /\ [t \in Watchers |-> <<>>] \in [Watchers -> Seq(Event)]
    /\ [t \in Threads |-> Cleared] \in [Threads -> Version]
    /\ Cleared \in Version
<1>1. <<>> \in Seq(Event)
  BY EmptySeq
<1>2. Cleared \in Version
  BY DEF Cleared, Version
<1>3. QED
  BY <1>1, <1>2

\* The types hold in the initial states.
LEMMA TypesInit == Init => TypeOK /\ BatchInv
<1> SUFFICES ASSUME Init PROVE TypeOK /\ BatchInv
  OBVIOUS
<1>1. ver \in Version
  BY DEF Init, Version
<1>2. TypeOK
  BY <1>1, EmptyTypes DEF Init, ProcessInit, TypeOK, MainPoints, WatcherPoints,
       UpdateSteps
<1>3. BatchInv
  BY DEF Init, ProcessInit, BatchInv, Working, Claimed, UpdateSteps
<1>4. QED
  BY <1>2, <1>3

\* A change of the file or of the containers counts one version up and leaves the
\* other one alone.
LEMMA VersionGrows ==
    ASSUME ver \in Version, NEW t \in Watchers, ver' = [ver EXCEPT ![t] = @ + 1]
    PROVE  /\ ver' \in Version
           /\ ver[t] \in Int /\ ver'[t] = ver[t] + 1
           /\ ver.file <= ver.file' /\ ver.docker <= ver.docker'
           /\ \A w \in Watchers \ {t} : ver'[w] = ver[w]
<1>1. ver.file \in Int /\ ver.docker \in Int
  BY DEF Version
<1>2. CASE t = "file"
  <2>1. ver' = [file |-> ver.file + 1, docker |-> ver.docker]
    BY <1>2 DEF Version
  <2>2. QED
    BY <1>1, <1>2, <2>1 DEF Version
<1>3. CASE t = "docker"
  <2>1. ver' = [file |-> ver.file, docker |-> ver.docker + 1]
    BY <1>3 DEF Version
  <2>2. QED
    BY <1>1, <1>3, <2>1 DEF Version
<1>4. QED
  BY <1>2, <1>3

\* Which version a change of the world counts up.
LEMMA WorldCounts ==
    /\ \A kind \in FileChanges : FileChange(kind) => ver' = [ver EXCEPT !["file"] = @ + 1]
    /\ \A kind \in ContainerChanges :
          ContainerChange(kind) => ver' = [ver EXCEPT !["docker"] = @ + 1]
BY DEF FileChange, ContainerChange

\* Changes of the world, signals and restarts keep the types.
LEMMA TypesWorld ==
    TypeOK /\ BatchInv /\ (Environment \/ Restart \/ Down) => TypeOK' /\ BatchInv'
<1> SUFFICES ASSUME TypeOK, BatchInv PROVE
        (Environment \/ Restart \/ Down) => TypeOK' /\ BatchInv'
  OBVIOUS
<1> USE DEF TypeOK, BatchInv, world
<1>0. \A t \in Watchers, k \in {"write", "delete", "docker"} :
        Append(queue[t], [kind |-> k, ver |-> ver[t] + 1]) \in Seq(Event)
  <2> SUFFICES ASSUME NEW t \in Watchers, NEW k \in {"write", "delete", "docker"}
               PROVE  Append(queue[t], [kind |-> k, ver |-> ver[t] + 1]) \in Seq(Event)
    OBVIOUS
  <2>1. [kind |-> k, ver |-> ver[t] + 1] \in Event
    BY DEF Event, Version
  <2> QED BY <2>1, AppendType
<1>1. ASSUME NEW kind \in FileChanges, FileChange(kind)
      PROVE  TypeOK' /\ BatchInv'
  <2>1. kind \in {"write", "delete", "move"}
    BY ConstantsAssumption
  <2>2. file' \in {"good", "bad", "empty", "gone"} /\ ver' \in Version
    <3>1. file' \in {"good", "bad", "empty", "gone"}
      BY <1>1 DEF FileChange
    <3>2. QED
      BY <1>1, <3>1, WorldCounts, VersionGrows
  <2>3. queue' \in [Watchers -> Seq(Event)]
    <3>1. queue' = queue \/ queue' = [queue EXCEPT !["file"] =
                                          Append(@, [kind |-> kind, ver |-> ver["file"] + 1])]
      BY <1>1 DEF FileChange, Announce
    <3>2. kind = "move" => queue' = queue
      BY <1>1 DEF FileChange
    <3>3. kind # "move" => Append(queue["file"], [kind |-> kind, ver |-> ver["file"] + 1])
                              \in Seq(Event)
      BY <1>0, <2>1
    <3>4. QED
      BY <3>1, <3>2, <3>3
  <2>4. excuses' \subseteq excuses \cup {"unwatched", "move"}
    BY <1>1 DEF FileChange, Announce
  <2>5. QED
    BY <1>1, <2>2, <2>3, <2>4 DEF FileChange
<1>2. ASSUME NEW kind \in ContainerChanges, ContainerChange(kind)
      PROVE  TypeOK' /\ BatchInv'
  <2>1. up' \in BOOLEAN
    BY <1>2, Zenon DEF ContainerChange
  <2>2. ver' \in Version
    BY <1>2, WorldCounts, VersionGrows
  <2>3. queue' \in [Watchers -> Seq(Event)]
    BY <1>0, <1>2 DEF ContainerChange, Announce
  <2>4. excuses' \subseteq excuses \cup {"unwatched", "exit"}
    BY <1>2 DEF ContainerChange, Announce
  <2>5. QED
    BY <1>2, <2>1, <2>2, <2>3, <2>4 DEF ContainerChange
<1>3. ASSUME Interrupt PROVE TypeOK' /\ BatchInv'
  <2>1. /\ \A t \in Threads : pc'[t] = pc[t] \/ (pc[t] = "wait" /\ pc'[t] = "relock")
        /\ pc' \in [Threads -> MainPoints \cup WatcherPoints]
    BY <1>3 DEF Interrupt, MainPoints, WatcherPoints, Claimed
  <2>2. TypeOK'
    BY <1>3, <2>1 DEF Interrupt, MainPoints, WatcherPoints, Claimed, UpdateSteps
  <2>3. BatchInv'
    BY <1>3, <2>1 DEF Interrupt, Working, Claimed
  <2>4. QED
    BY <2>2, <2>3
<1>5. ASSUME Kill PROVE TypeOK' /\ BatchInv'
  <2>1. TypeOK'
    BY <1>5, EmptyTypes DEF Kill, MainPoints, WatcherPoints, UpdateSteps
  <2>2. BatchInv'
    BY <1>5 DEF Kill, Working, Claimed, UpdateSteps
  <2>3. QED
    BY <2>1, <2>2
<1>6. ASSUME Restart PROVE TypeOK' /\ BatchInv'
  <2>0. restarts' \in Nat /\ pc' \in [Threads -> MainPoints \cup WatcherPoints]
    BY <1>6 DEF Restart, MainPoints, WatcherPoints, UpdateSteps
  <2>1. TypeOK'
    BY <1>6, <2>0, EmptyTypes DEF Restart, MainPoints, WatcherPoints, UpdateSteps
  <2>2. BatchInv'
    BY <1>6 DEF Restart, Working, Claimed, UpdateSteps
  <2>3. QED
    BY <2>1, <2>2
<1>7. ASSUME Down PROVE TypeOK' /\ BatchInv'
  BY <1>7 DEF Down, vars, process
<1>8. QED
  BY <1>1, <1>2, <1>3, <1>5, <1>6, <1>7 DEF Environment

\* The program points, expanded: cited where a step changes pc.
USE DEF MainPoints, WatcherPoints, Working, Claimed, UpdateSteps

\* update_policy_with_file keeps the types, whatever daemon and thread runs it.
LEMMA TypesUpdate ==
    ASSUME TypeOK, BatchInv, NEW t \in Threads, Update(t)
    PROVE  TypeOK' /\ BatchInv'
<1> USE DEF TypeOK, BatchInv, world
<1>1. ASSUME LoadFile(t) PROVE TypeOK' /\ BatchInv'
  <2>1. [file |-> ver.file, docker |-> -1] \in Version
    BY DEF Version
  <2>2. seen' \in [Threads -> Version]
    BY <1>1, <2>1 DEF LoadFile
  <2>3. applied' \in Version
    BY <1>1, EmptyTypes DEF LoadFile, Version
  <2>4. /\ exiting' \in BOOLEAN
        /\ excuses' \subseteq {"unwatched", "move", "exit", "threw", "initial",
                              "ignored", "skipped"}
        /\ mtx' \in Watchers \cup {NoThread}
    BY <1>1 DEF LoadFile, Throw, Failure
  <2>5. /\ pc[t] = "load"
        /\ \E l \in {"spawn", "wait", "unlock", "list", "join"} :
             /\ pc' = [pc EXCEPT ![t] = l]
             /\ IF t = "main" THEN l \in {"spawn", "list", "join"}
                              ELSE l \in {"wait", "unlock", "list"}
    BY <1>1 DEF LoadFile, Throw, Failure, Success, Goto
  <2>6. /\ pc' \in [Threads -> MainPoints \cup WatcherPoints]
        /\ pc'["main"] \in MainPoints
        /\ \A u \in Watchers : pc'[u] \in WatcherPoints
        /\ \A u \in Watchers : pc'[u] \in Working => pc[u] \in Working
    BY <2>5
  <2>7. QED
    BY <1>1, <2>2, <2>3, <2>4, <2>6 DEF LoadFile
<1>2. ASSUME ListContainers(t) PROVE TypeOK' /\ BatchInv'
  <2>1. seen' \in [Threads -> Version]
    BY <1>2 DEF ListContainers, Version
  <2>2. QED
    BY <1>2, <2>1 DEF ListContainers, Goto
<1>3. ASSUME ListNothing(t) PROVE TypeOK' /\ BatchInv'
  <2>1. /\ pc[t] = "list"
        /\ \E l \in {"spawn", "wait", "unlock"} :
             /\ pc' = [pc EXCEPT ![t] = l]
             /\ IF t = "main" THEN l = "spawn" ELSE l \in {"wait", "unlock"}
    BY <1>3 DEF ListNothing, Success, Failure, Goto
  <2>2. /\ pc' \in [Threads -> MainPoints \cup WatcherPoints]
        /\ pc'["main"] \in MainPoints
        /\ \A u \in Watchers : pc'[u] \in WatcherPoints
        /\ \A u \in Watchers : pc'[u] \in Working => pc[u] \in Working
    BY <2>1
  <2>3. /\ glitches' \in Nat
        /\ mtx' \in Watchers \cup {NoThread}
        /\ excuses' \subseteq excuses \cup {"ignored", "initial"}
    BY <1>3 DEF ListNothing, Failure
  <2>4. QED
    BY <1>3, <2>2, <2>3 DEF ListNothing
<1>4. ASSUME WriteMap(t) PROVE TypeOK' /\ BatchInv'
  BY <1>4 DEF WriteMap, Goto, Success
<1>5. QED
  BY <1>1, <1>2, <1>3, <1>4 DEF Update

\* So does going to the next event of a batch.
LEMMA TypesNextEvent ==
    ASSUME TypeOK, BatchInv, NEW t \in Watchers, pc[t] \in Working, NextEvent(t)
    PROVE  /\ batch' \in [Watchers -> Seq(Event)]
           /\ pc' \in [Threads -> MainPoints \cup WatcherPoints]
           /\ pc'["main"] \in MainPoints
           /\ \A u \in Watchers : pc'[u] \in WatcherPoints
           /\ BatchInv'
<1> USE DEF TypeOK, BatchInv
<1>1. /\ Tail(batch[t]) \in Seq(Event)
      /\ Len(batch[t]) > 1 => Tail(batch[t]) # <<>>
  BY TailType
<1>2. batch' \in [Watchers -> Seq(Event)]
  BY <1>1 DEF NextEvent
<1>3. /\ pc'[t] \in {"event", "idle"}
      /\ pc' \in [Threads -> MainPoints \cup WatcherPoints]
      /\ \A u \in Threads \ {t} : pc'[u] = pc[u]
  BY DEF NextEvent, Goto
<1>4. pc'[t] = "event" => Len(batch[t]) > 1
  BY DEF NextEvent, Goto
<1>5. batch'[t] = Tail(batch[t]) /\ \A u \in Watchers \ {t} : batch'[u] = batch[u]
  BY DEF NextEvent
<1>6. BatchInv'
  <2>1. SUFFICES ASSUME NEW u \in Watchers, pc'[u] \in Working PROVE batch'[u] # <<>>
    OBVIOUS
  <2>2. CASE u = t
    <3>1. pc'[t] = "event"
      BY <1>3, <2>1, <2>2
    <3>2. QED
      BY <1>1, <1>4, <1>5, <2>2, <3>1, Zenon
  <2>3. CASE u # t
    <3>1. pc'[u] = pc[u] /\ batch'[u] = batch[u]
      BY <1>3, <1>5, <2>3
    <3>2. QED
      BY <2>1, <3>1
  <2>4. QED
    BY <2>2, <2>3
<1>7. pc'["main"] \in MainPoints /\ \A u \in Watchers : pc'[u] \in WatcherPoints
  <2>1. pc'["main"] = pc["main"] /\ pc["main"] \in MainPoints
    BY <1>3
  <2>2. ASSUME NEW u \in Watchers PROVE pc'[u] \in WatcherPoints
    <3>1. pc[u] \in WatcherPoints /\ (u # t => pc'[u] = pc[u])
      BY <1>3
    <3>2. QED
      BY <1>3, <3>1
  <2>3. QED
    BY <2>1, <2>2
<1>8. QED
  BY <1>2, <1>3, <1>6, <1>7, Zenon

\* Every step of a watcher keeps the types.
LEMMA TypesWatch ==
    ASSUME TypeOK, BatchInv, NEW t \in Watchers, Watch(t)
    PROVE  TypeOK' /\ BatchInv'
<1> USE DEF TypeOK, BatchInv, world
<1>1. ASSUME SetUp(t) PROVE TypeOK' /\ BatchInv'
  BY <1>1 DEF SetUp, Goto
<1>2. ASSUME PollTimeout(t) PROVE TypeOK' /\ BatchInv'
  BY <1>2 DEF PollTimeout, vars, process
<1>3. ASSUME ReadEvents(t) PROVE TypeOK' /\ BatchInv'
  <2>0. PICK n \in IF t = "file" THEN {Len(queue[t])} ELSE 1..Len(queue[t]) :
          /\ batch' = [batch EXCEPT ![t] = SubSeq(queue[t], 1, n)]
          /\ queue' = [queue EXCEPT ![t] = SubSeq(@, n + 1, Len(@))]
    BY <1>3 DEF ReadEvents
  <2>1. n \in 1..Len(queue[t])
    <3>1. Len(queue[t]) \in Nat \ {0}
      BY <1>3, EmptySeq DEF ReadEvents
    <3>2. QED
      BY <2>0, <3>1
  <2>2. /\ SubSeq(queue[t], 1, n) \in Seq(Event)
        /\ SubSeq(queue[t], n + 1, Len(queue[t])) \in Seq(Event)
    BY <2>1, SplitType
  <2>3. SubSeq(queue[t], 1, n) # <<>>
    BY <2>1, SplitNotEmpty
  <2>4. /\ batch' \in [Watchers -> Seq(Event)]
        /\ queue' \in [Watchers -> Seq(Event)]
    BY <2>0, <2>2
  <2>5. BatchInv'
    BY <1>3, <2>0, <2>3 DEF ReadEvents, Goto
  <2>6. QED
    BY <1>3, <2>4, <2>5 DEF ReadEvents, Goto
<1>4. ASSUME NotifyWaiter(t) PROVE TypeOK' /\ BatchInv'
  <2>1. /\ pc' \in [Threads -> MainPoints \cup WatcherPoints]
        /\ pc'["main"] \in MainPoints
        /\ \A u \in Watchers : pc'[u] \in WatcherPoints
        /\ \A u \in Watchers : pc'[u] \in Working => pc[u] \in Working
    BY <1>4 DEF NotifyWaiter
  <2>2. QED
    BY <1>4, <2>1 DEF NotifyWaiter
<1>5. ASSUME SkipNotify(t) PROVE TypeOK' /\ BatchInv'
  BY <1>5 DEF SkipNotify, Goto
<1>6. ASSUME Claim(t) PROVE TypeOK' /\ BatchInv'
  BY <1>6 DEF Claim, Goto
<1>7. ASSUME Skip(t) PROVE TypeOK' /\ BatchInv'
  <2>1. pc[t] \in Working /\ NextEvent(t)
    BY <1>7 DEF Skip
  <2>2. QED
    BY <1>7, <2>1, TypesNextEvent DEF Skip
<1>8. ASSUME Lock(t) PROVE TypeOK' /\ BatchInv'
  BY <1>8, EmptyTypes DEF Lock, Goto
<1>9. ASSUME AbortUpdate(t) PROVE TypeOK' /\ BatchInv'
  BY <1>9 DEF AbortUpdate, Goto
<1>10. ASSUME WaitTimeout(t) PROVE TypeOK' /\ BatchInv'
  BY <1>10 DEF WaitTimeout, Goto
<1>11. ASSUME Unlock(t) PROVE TypeOK' /\ BatchInv'
  BY <1>11 DEF Unlock, Goto
<1>12. ASSUME Release(t) PROVE TypeOK' /\ BatchInv'
  <2>1. pc[t] \in Working /\ NextEvent(t)
    BY <1>12 DEF Release
  <2>2. seen' \in [Threads -> Version]
    BY <1>12, EmptyTypes DEF Release
  <2>3. QED
    BY <1>12, <2>1, <2>2, TypesNextEvent DEF Release
<1>13. ASSUME Leave(t) PROVE TypeOK' /\ BatchInv'
  <2>1. queue' \in [Watchers -> Seq(Event)]
    BY <1>13, EmptySeq DEF Leave
  <2>2. /\ excuses' \subseteq excuses \cup {"unwatched"}
        /\ pc' = [pc EXCEPT ![t] = "done"]
        /\ UNCHANGED <<world, glitches, restarts, batch, running, mtx, seen, applied,
                       exiting>>
    BY <1>13 DEF Leave, Goto
  <2>3. TypeOK'
    BY <2>1, <2>2
  <2>4. BatchInv'
    BY <2>2 DEF Working, Claimed
  <2>5. QED
    BY <2>3, <2>4
<1>14. QED
  BY <1>1, <1>2, <1>3, <1>4, <1>5, <1>6, <1>7, <1>8, <1>9, <1>10, <1>11, <1>12,
     <1>13 DEF Watch

\* Every step of main keeps the types.
LEMMA TypesMain ==
    ASSUME TypeOK, BatchInv, Main \/ PollError
    PROVE  TypeOK' /\ BatchInv'
<1> USE DEF TypeOK, BatchInv, world
<1>1. ASSUME NoFileAtStart PROVE TypeOK' /\ BatchInv'
  BY <1>1 DEF NoFileAtStart, Goto
<1>2. ASSUME Spawn PROVE TypeOK' /\ BatchInv'
  BY <1>2, EmptyTypes DEF Spawn
<1>3. ASSUME StopPolling PROVE TypeOK' /\ BatchInv'
  BY <1>3 DEF StopPolling, Goto
<1>4. ASSUME Join PROVE TypeOK' /\ BatchInv'
  BY <1>4 DEF Join, Goto
<1>5. ASSUME PollError PROVE TypeOK' /\ BatchInv'
  BY <1>5 DEF PollError, Goto
<1>6. QED
  BY <1>1, <1>2, <1>3, <1>4, <1>5 DEF Main

\* Every step keeps the types.
LEMMA TypesNext == TypeOK /\ BatchInv /\ [Next]_vars => TypeOK' /\ BatchInv'
<1> SUFFICES ASSUME TypeOK, BatchInv, [Next]_vars PROVE TypeOK' /\ BatchInv'
  OBVIOUS
<1>1. CASE UNCHANGED vars
  BY <1>1 DEF vars, world, process, TypeOK, BatchInv
<1>2. CASE Next
  BY <1>2, TypesWorld, TypesUpdate, TypesWatch, TypesMain DEF Next
<1>3. QED
  BY <1>1, <1>2

\* In every reachable state every variable has its type, and a watcher that handles
\* an event (docker_event_callback, monitor_policy_file) has one in its batch.
THEOREM TypeCorrectness == Spec => [](TypeOK /\ BatchInv)
<1>1. Init => TypeOK /\ BatchInv
  BY TypesInit
<1>2. TypeOK /\ BatchInv /\ [Next]_vars => TypeOK' /\ BatchInv'
  BY TypesNext
<1>3. QED
  BY <1>1, <1>2, PTL DEF Spec

-----------------------------------------------------------------------------
(***************************************************************************)
(* One updater at a time.  The flag alone excludes the other watcher; main *)
(* is excluded because it starts the watchers after its own update.  The   *)
(* last conjunct ties mtx to the program points that own it.               *)
(***************************************************************************)
MainFirst ==
    pc["main"] \in UpdateSteps \cup {"spawn"} => \A t \in Watchers : pc[t] = "off"
FlagInv == \A t \in Watchers : pc[t] \in Claimed => running
OneWatcher ==
    \A t, u \in Watchers : (pc[t] \in Claimed /\ pc[u] \in Claimed) => t = u
MutexInv == \A t \in Watchers : mtx = t <=> pc[t] \in Locked
Exclusion == MainFirst /\ FlagInv /\ OneWatcher /\ MutexInv

USE DEF Locked

\* The world, signals, restarts and main keep the exclusion.
LEMMA ExclusionWorld ==
    ASSUME TypeOK, Exclusion, Environment \/ Restart \/ Down \/ PollError \/ Main
    PROVE  Exclusion'
<1> USE DEF TypeOK, Exclusion, MainFirst, FlagInv, OneWatcher, MutexInv
<1>1. ASSUME NEW kind \in FileChanges, FileChange(kind) PROVE Exclusion'
  BY <1>1 DEF FileChange
<1>2. ASSUME NEW kind \in ContainerChanges, ContainerChange(kind) PROVE Exclusion'
  BY <1>2 DEF ContainerChange
<1>3. CASE Interrupt
  BY <1>3 DEF Interrupt
<1>4. CASE Kill
  BY <1>4 DEF Kill
<1>5. CASE Restart
  BY <1>5 DEF Restart
<1>6. CASE Down
  BY <1>6 DEF Down, vars, process
<1>7. CASE PollError
  BY <1>7 DEF PollError, Goto
<1>8. CASE NoFileAtStart
  BY <1>8 DEF NoFileAtStart, Goto
<1>9. CASE Spawn
  BY <1>9 DEF Spawn
<1>10. CASE StopPolling
  BY <1>10 DEF StopPolling, Goto
<1>11. CASE Join
  BY <1>11 DEF Join, Goto
<1>12. QED
  BY <1>1, <1>2, <1>3, <1>4, <1>5, <1>6, <1>7, <1>8, <1>9, <1>10, <1>11
     DEF Environment, Main

\* update_policy_with_file keeps the exclusion.
LEMMA ExclusionUpdate ==
    ASSUME TypeOK, Exclusion, NEW t \in Threads, Update(t)
    PROVE  Exclusion'
<1> USE DEF TypeOK, Exclusion, MainFirst, FlagInv, OneWatcher, MutexInv
<1>1. CASE LoadFile(t)
  BY <1>1 DEF LoadFile, Goto, Success, Failure, Throw
<1>2. CASE ListContainers(t)
  BY <1>2 DEF ListContainers, Goto
<1>3. CASE ListNothing(t)
  BY <1>3 DEF ListNothing, Goto, Success, Failure
<1>4. CASE WriteMap(t)
  BY <1>4 DEF WriteMap, Goto, Success
<1>5. QED
  BY <1>1, <1>2, <1>3, <1>4 DEF Update

\* A watcher keeps the exclusion: it enters only when the flag was FALSE.
LEMMA ExclusionWatch ==
    ASSUME TypeOK, Exclusion, NEW t \in Watchers, Watch(t)
    PROVE  Exclusion'
<1> USE DEF TypeOK, Exclusion, MainFirst, FlagInv, OneWatcher, MutexInv
<1>1. CASE SetUp(t)
  BY <1>1 DEF SetUp, Goto
<1>2. CASE PollTimeout(t)
  BY <1>2 DEF PollTimeout, vars, process
<1>3. CASE ReadEvents(t)
  BY <1>3 DEF ReadEvents, Goto
<1>4. CASE NotifyWaiter(t)
  BY <1>4 DEF NotifyWaiter
<1>5. CASE SkipNotify(t)
  BY <1>5 DEF SkipNotify, Goto
<1>6. CASE Claim(t)
  BY <1>6 DEF Claim, Goto
<1>7. CASE Skip(t)
  BY <1>7 DEF Skip, Goto, NextEvent
<1>8. CASE Lock(t)
  BY <1>8 DEF Lock, Goto
<1>9. CASE AbortUpdate(t)
  BY <1>9 DEF AbortUpdate, Goto
<1>10. CASE WaitTimeout(t)
  BY <1>10 DEF WaitTimeout, Goto
<1>11. CASE Unlock(t)
  BY <1>11 DEF Unlock, Goto
<1>12. CASE Release(t)
  BY <1>12 DEF Release, Goto, NextEvent
<1>13. CASE Leave(t)
  BY <1>13 DEF Leave, Goto
<1>14. QED
  BY <1>1, <1>2, <1>3, <1>4, <1>5, <1>6, <1>7, <1>8, <1>9, <1>10,
     <1>11, <1>12, <1>13 DEF Watch

\* The exclusion holds at the start.
LEMMA ExclusionInit == Init => Exclusion
BY DEF Init, ProcessInit, Exclusion, MainFirst, FlagInv, OneWatcher, MutexInv

\* Every step keeps the exclusion.
LEMMA ExclusionNext == TypeOK /\ Exclusion /\ [Next]_vars => Exclusion'
<1> SUFFICES ASSUME TypeOK, Exclusion, [Next]_vars PROVE Exclusion'
  OBVIOUS
<1>1. CASE UNCHANGED vars
  BY <1>1 DEF vars, process, Exclusion, MainFirst, FlagInv, OneWatcher, MutexInv
<1>2. CASE Next
  BY <1>2, ExclusionWorld, ExclusionUpdate, ExclusionWatch DEF Next
<1>3. QED
  BY <1>1, <1>2

\* update_policy_with_file is never run by two threads at a time, for any
\* daemon, any number of events, restarts and interleavings.
THEOREM SingleUpdater == Spec => []OneUpdater
<1>1. TypeOK /\ Exclusion => OneUpdater
  BY DEF TypeOK, Exclusion, MainFirst, OneWatcher, OneUpdater
<1>2. QED
  BY <1>1, ExclusionInit, ExclusionNext, TypeCorrectness, PTL DEF Spec

-----------------------------------------------------------------------------
(***************************************************************************)
(* The barrier.  Events carry the version they announce, so the first part *)
(* bounds the versions in flight by those of the world; the second says    *)
(* what a running update has read at each point; the third is the point:   *)
(* an event that went through NotifyWaiter is never newer than what the    *)
(* owner of mtx has read, because taking mtx for the notification waits    *)
(* for the owner of mtx, and a later owner reads later.                    *)
(***************************************************************************)
Known(t) ==
    {e \in Event : e.ver <= ver[t] /\ (e.kind = "docker" <=> t = "docker")}
InFlight ==
    \A t \in Watchers : queue[t] \in Seq(Known(t)) /\ batch[t] \in Seq(Known(t))
ReadSoFar ==
    \A t \in Watchers :
       /\ pc[t] = "load" => seen[t] = Cleared
       /\ pc[t] = "list" => seen[t].docker = -1
Barrier ==
    \A t, u \in Watchers :
       (/\ t # u
        /\ pc[t] = "enter" /\ Head(batch[t]).kind # "delete"
        /\ pc[u] \in Locked)
       => ~TooLate(u, Head(batch[t]))

\* A later world knows the events an earlier one knew.
LEMMA InFlightMonotone ==
    ASSUME NEW t \in Watchers, ver' = ver \/ (ver \in Version /\ ver' \in Version
               /\ ver.file <= ver.file' /\ ver.docker <= ver.docker'),
           NEW s \in Seq(Known(t))
    PROVE  s \in Seq(Known(t)')
<1>1. Known(t) \subseteq Known(t)'
  BY DEF Known, Event, Version
<1>2. QED
  BY <1>1, SeqMonotonic

\* Every step keeps queued events no newer than the world.
LEMMA InFlightNext ==
    ASSUME TypeOK, BatchInv, InFlight, [Next]_vars
    PROVE  InFlight'
<1> USE DEF InFlight, TypeOK, world
<1>1. ASSUME ver' = ver, queue' = queue, batch' = batch PROVE InFlight'
  BY <1>1, InFlightMonotone
<1>2. ASSUME ver' = ver,
             \A t \in Watchers : queue'[t] = <<>> \/ queue'[t] = queue[t],
             \A t \in Watchers : batch'[t] = <<>> \/ batch'[t] = batch[t]
      PROVE  InFlight'
  <2>1. \A t \in Watchers : <<>> \in Seq(Known(t)')
    BY EmptySeq
  <2>2. QED
    BY <1>2, <2>1, InFlightMonotone
<1>3. ASSUME ver' = ver, queue' = queue, NEW t \in Watchers, NextEvent(t),
             pc[t] \in Working
      PROVE  InFlight'
  <2>1. Tail(batch[t]) \in Seq(Known(t))
    BY <1>3, TailType DEF BatchInv
  <2>2. \A u \in Watchers : batch'[u] \in Seq(Known(u))
    BY <1>3, <2>1 DEF NextEvent
  <2>3. QED
    BY <1>3, <2>2, InFlightMonotone
<1>4. ASSUME NEW t \in Watchers, NEW kind \in {"write", "delete", "docker"},
             kind = "docker" <=> t = "docker",
             ver' = [ver EXCEPT ![t] = @ + 1],
             Announce(t, kind), batch' = batch
      PROVE  InFlight'
  <2>1. /\ ver' \in Version
        /\ ver.file <= ver.file' /\ ver.docker <= ver.docker'
        /\ ver[t] \in Int /\ ver'[t] = ver[t] + 1
    BY <1>4, VersionGrows
  <2>2. \A u \in Watchers : queue[u] \in Seq(Known(u)') /\ batch[u] \in Seq(Known(u)')
    BY <2>1, InFlightMonotone
  <2>3. [kind |-> kind, ver |-> ver[t] + 1] \in Known(t)'
    <3>1. ver[t] + 1 \in Int /\ ver[t] + 1 <= ver'[t]
      BY <2>1
    <3>2. ASSUME NEW v \in Int, v <= ver'[t] PROVE [kind |-> kind, ver |-> v] \in Known(t)'
      BY <1>4, <3>2 DEF Known, Event
    <3>3. QED
      BY <3>1, <3>2
  <2>4. Append(queue[t], [kind |-> kind, ver |-> ver[t] + 1]) \in Seq(Known(t)')
    BY <2>2, <2>3, AppendType
  <2>5. \A u \in Watchers : queue'[u] \in Seq(Known(u)')
    BY <1>4, <2>2, <2>4 DEF Announce
  <2>6. QED
    BY <1>4, <2>2, <2>5
<1>5. ASSUME NEW kind \in FileChanges, FileChange(kind) PROVE InFlight'
  <2>1. CASE kind = "move"
    <3>1. /\ ver' \in Version /\ ver.file <= ver.file' /\ ver.docker <= ver.docker'
          /\ queue' = queue /\ batch' = batch
      <4>1. queue' = queue /\ batch' = batch
        BY <1>5, <2>1 DEF FileChange
      <4>2. QED
        BY <1>5, <4>1, WorldCounts, VersionGrows
    <3>2. QED
      BY <3>1, InFlightMonotone
  <2>2. CASE kind # "move"
    <3>1. kind \in {"write", "delete"}
      BY <2>2, ConstantsAssumption
    <3>2. ver' = [ver EXCEPT !["file"] = @ + 1] /\ Announce("file", kind) /\ batch' = batch
      BY <1>5, <2>2, WorldCounts DEF FileChange
    <3>3. QED
      BY <1>4, <3>1, <3>2
  <2>3. QED
    BY <2>1, <2>2
<1>6. ASSUME NEW kind \in ContainerChanges, ContainerChange(kind) PROVE InFlight'
  <2>1. CASE kind = "exit"
    <3>1. /\ ver' \in Version /\ ver.file <= ver.file' /\ ver.docker <= ver.docker'
          /\ queue' = queue /\ batch' = batch
      <4>1. queue' = queue /\ batch' = batch
        BY <1>6, <2>1 DEF ContainerChange
      <4>2. QED
        BY <1>6, <4>1, WorldCounts, VersionGrows
    <3>2. QED
      BY <3>1, InFlightMonotone
  <2>2. CASE kind # "exit"
    <3>1. ver' = [ver EXCEPT !["docker"] = @ + 1] /\ Announce("docker", "docker") /\ batch' = batch
      BY <1>6, <2>2 DEF ContainerChange
    <3>2. QED
      BY <1>4, <3>1
  <2>3. QED
    BY <2>1, <2>2
<1>7. CASE Interrupt \/ Down \/ PollError \/ Main
  BY <1>1, <1>7 DEF Interrupt, Down, vars, process, PollError, Main, NoFileAtStart,
     Spawn, StopPolling, Join
<1>8. CASE Kill \/ Restart
  BY <1>2, <1>8 DEF Kill, Restart
<1>9. ASSUME NEW t \in Threads, Update(t) PROVE InFlight'
  BY <1>1, <1>9 DEF Update, LoadFile, ListContainers, ListNothing, WriteMap
<1>10. ASSUME NEW t \in Watchers, ReadEvents(t) PROVE InFlight'
  <2>0. PICK n \in IF t = "file" THEN {Len(queue[t])} ELSE 1..Len(queue[t]) :
          /\ batch' = [batch EXCEPT ![t] = SubSeq(queue[t], 1, n)]
          /\ queue' = [queue EXCEPT ![t] = SubSeq(@, n + 1, Len(@))]
    BY <1>10 DEF ReadEvents
  <2>1. n \in 1..Len(queue[t])
    <3>1. Len(queue[t]) \in Nat \ {0}
      BY <1>10, EmptySeq DEF ReadEvents
    <3>2. QED
      BY <2>0, <3>1
  <2>2. /\ SubSeq(queue[t], 1, n) \in Seq(Known(t))
        /\ SubSeq(queue[t], n + 1, Len(queue[t])) \in Seq(Known(t))
    BY <2>1, SplitType
  <2>3. \A u \in Watchers : queue'[u] \in Seq(Known(u)) /\ batch'[u] \in Seq(Known(u))
    BY <2>0, <2>2
  <2>4. ver' = ver
    BY <1>10 DEF ReadEvents
  <2>5. QED
    BY <2>3, <2>4, InFlightMonotone
<1>11. ASSUME NEW t \in Watchers, Skip(t) \/ Release(t) PROVE InFlight'
  <2>1. ver' = ver /\ queue' = queue /\ NextEvent(t) /\ pc[t] \in Working
    BY <1>11 DEF Skip, Release
  <2>2. QED
    BY <1>3, <2>1
<1>12. ASSUME NEW t \in Watchers, Leave(t) PROVE InFlight'
  <2>1. /\ ver' = ver /\ batch' = batch
        /\ \A u \in Watchers : queue'[u] = <<>> \/ queue'[u] = queue[u]
    BY <1>12 DEF Leave
  <2>2. QED
    BY <1>2, <2>1
<1>13. ASSUME NEW t \in Watchers,
              SetUp(t) \/ PollTimeout(t) \/ NotifyWaiter(t) \/ SkipNotify(t) \/ Claim(t)
               \/ Lock(t) \/ AbortUpdate(t) \/ WaitTimeout(t) \/ Unlock(t)
      PROVE  InFlight'
  BY <1>1, <1>13 DEF SetUp, PollTimeout, vars, process, NotifyWaiter, SkipNotify,
     Claim, Lock, AbortUpdate, WaitTimeout, Unlock
<1>14. CASE UNCHANGED vars
  BY <1>1, <1>14 DEF vars, process
<1>15. QED
  BY <1>5, <1>6, <1>7, <1>8, <1>9, <1>10, <1>11, <1>12, <1>13, <1>14
     DEF Next, Environment, Watch

\* Every step keeps what an updater has read in line with where it is.
LEMMA ReadSoFarNext ==
    ASSUME TypeOK, BatchInv, Exclusion, ReadSoFar, [Next]_vars
    PROVE  ReadSoFar'
<1> USE DEF ReadSoFar, TypeOK
<1>1. ASSUME seen' = seen,
             \A t \in Watchers : pc'[t] \in {"load", "list"} => pc'[t] = pc[t]
      PROVE  ReadSoFar'
  BY <1>1
<1>2. CASE Environment \/ Restart \/ Down \/ PollError \/ Main
  <2>1. CASE Environment \/ Down \/ PollError \/ NoFileAtStart \/ StopPolling \/ Join
    BY <2>1 DEF Environment, FileChange, ContainerChange, Interrupt, Kill, Down,
       vars, process, PollError, NoFileAtStart, StopPolling, Join, Goto, Cleared
  <2>2. CASE Restart \/ Spawn
    BY <2>2 DEF Restart, Spawn
  <2>3. QED
    BY <1>2, <2>1, <2>2 DEF Main
<1>3. ASSUME NEW t \in Threads, Update(t) PROVE ReadSoFar'
  <2>1. CASE LoadFile(t)
    <3>1. /\ seen' = [seen EXCEPT ![t] = [file |-> ver.file, docker |-> -1]]
          /\ \E l \in {"spawn", "wait", "unlock", "list", "join"} :
                pc' = [pc EXCEPT ![t] = l]
      BY <2>1 DEF LoadFile, Throw, Failure, Success, Goto
    <3>2. QED
      BY <3>1
  <2>2. CASE ListContainers(t)
    <3>1. /\ seen' = [seen EXCEPT ![t].docker = ver.docker]
          /\ pc' = [pc EXCEPT ![t] = "write"]
      BY <2>2 DEF ListContainers, Goto
    <3>2. QED
      BY <3>1
  <2>3. CASE ListNothing(t) \/ WriteMap(t)
    BY <1>1, <2>3 DEF ListNothing, WriteMap, Goto, Success, Failure
  <2>4. QED
    BY <1>3, <2>1, <2>2, <2>3 DEF Update
<1>4. ASSUME NEW t \in Watchers, Watch(t) PROVE ReadSoFar'
  <2>1. CASE Lock(t)
    BY <2>1 DEF Lock, Goto, Cleared
  <2>2. CASE Release(t)
    BY <2>2 DEF Release, NextEvent, Goto
  <2>3. CASE PollTimeout(t)
    BY <2>3 DEF PollTimeout, vars, process
  <2>4. CASE SetUp(t) \/ ReadEvents(t) \/ NotifyWaiter(t) \/ SkipNotify(t) \/ Claim(t)
              \/ Skip(t) \/ AbortUpdate(t) \/ WaitTimeout(t) \/ Unlock(t) \/ Leave(t)
    BY <1>1, <2>4 DEF SetUp, ReadEvents, NotifyWaiter, SkipNotify, Claim, Skip,
       NextEvent, AbortUpdate, WaitTimeout, Unlock, Leave, Goto
  <2>5. QED
    BY <1>4, <2>1, <2>2, <2>3, <2>4 DEF Watch
<1>5. CASE UNCHANGED vars
  BY <1>5 DEF vars, process
<1>6. QED
  BY <1>2, <1>3, <1>4, <1>5 DEF Next

\* The head of a batch announces a version the world has reached.
LEMMA HeadKnown ==
    ASSUME TypeOK, BatchInv, InFlight, NEW t \in Watchers, pc[t] \in Working
    PROVE  Head(batch[t]) \in Known(t)
BY TailType DEF TypeOK, BatchInv, InFlight

\* What TooLate says of a thread depends on its pc and seen alone; it stays
\* false while the thread moves on without reading anything new.
LEMMA StillNotTooLate ==
    ASSUME NEW u \in Watchers, NEW e \in Event, ~TooLate(u, e),
           seen'[u] = seen[u],
           \/ pc'[u] = pc[u]
           \/ pc'[u] \notin {"list", "write", "unlock", "release"}
           \/ /\ pc[u] = "write" /\ pc'[u] = "unlock"
           \/ /\ pc[u] = "list" /\ pc'[u] = "unlock" /\ seen[u].docker = -1
           \/ /\ pc[u] = "load" /\ pc'[u] = "unlock" /\ seen[u] = Cleared
    PROVE  ~TooLate(u, e)'
BY DEF TooLate, Event, Cleared

\* A thread that reads the file now is not too late for any event of this world.
LEMMA ReaderNotTooLate ==
    ASSUME ver \in Version, NEW t \in Watchers, NEW e \in Known(t), NEW u \in Watchers,
           seen'[u].file = ver.file, seen'[u].docker = -1
    PROVE  ~TooLate(u, e)'
<1>1. e.ver \in Int /\ e.ver <= ver[t] /\ (e.kind = "docker" <=> t = "docker")
  BY DEF Known, Event
<1>2. CASE e.kind = "docker"
  BY <1>2 DEF TooLate
<1>3. CASE e.kind # "docker"
  <2>1. e.ver <= ver.file /\ ver.file \in Int
    BY <1>1, <1>3 DEF Version
  <2>2. QED
    BY <1>1, <1>3, <2>1 DEF TooLate
<1>4. QED
  BY <1>2, <1>3

\* Every step keeps the barrier that notify_one under mtx sets up.
LEMMA BarrierNext ==
    ASSUME TypeOK, BatchInv, Exclusion, InFlight, ReadSoFar, Barrier, [Next]_vars
    PROVE  Barrier'
<1> USE DEF TypeOK
<1>0. \A t \in Watchers : pc[t] = "enter" => Head(batch[t]) \in Known(t)
  BY HeadKnown
<1>a. \A t \in Watchers : Known(t) \subseteq Event
  BY DEF Known
\* Nothing is announced and nobody takes or uses mtx.
<1>1. ASSUME seen' = seen, batch' = batch,
             \A t \in Watchers : pc'[t] = "enter" => pc[t] = "enter",
             \A u \in Watchers : pc'[u] \in Locked =>
                 \/ pc'[u] = pc[u]
                 \/ pc[u] = "write" /\ pc'[u] = "unlock"
                 \/ pc[u] = "list" /\ pc'[u] = "unlock"
                 \/ pc[u] = "load" /\ pc'[u] = "unlock"
      PROVE  Barrier'
  <2> SUFFICES ASSUME NEW t \in Watchers, NEW u \in Watchers, t # u,
                      pc'[t] = "enter", Head(batch'[t]).kind # "delete",
                      pc'[u] \in Locked
               PROVE  ~TooLate(u, Head(batch[t]))'
    BY <1>1 DEF Barrier
  <2>1. pc[t] = "enter" /\ pc[u] \in Locked
    BY <1>1
  <2>2. ~TooLate(u, Head(batch[t])) /\ Head(batch[t]) \in Event
    BY <1>0, <1>1, <1>a, <2>1 DEF Barrier
  <2>3. QED
    BY <1>1, <2>1, <2>2, StillNotTooLate DEF ReadSoFar
<1>2. CASE Environment \/ Restart \/ Down \/ PollError \/ Main
  <2>1. CASE Kill \/ Restart \/ Spawn
    BY <2>1 DEF Kill, Restart, Spawn, Barrier
  <2>2. CASE Down
    BY <1>1, <2>2 DEF Down, vars, process
  <2>3. CASE Interrupt
    BY <1>1, <2>3 DEF Interrupt
  <2>4. ASSUME NEW kind \in FileChanges, FileChange(kind) PROVE Barrier'
    BY <1>1, <2>4 DEF FileChange
  <2>5. CASE (\E kind \in ContainerChanges : ContainerChange(kind))
               \/ PollError \/ NoFileAtStart \/ StopPolling \/ Join
    BY <1>1, <2>5 DEF ContainerChange, PollError, NoFileAtStart, StopPolling, Join, Goto
  <2>6. QED
    BY <1>2, <2>1, <2>2, <2>3, <2>4, <2>5 DEF Environment, Main
<1>3. ASSUME NEW u \in Threads, Update(u) PROVE Barrier'
  <2>1. CASE u = "main"
    <3>1. \A t \in Watchers : pc'[t] = "off"
      BY <1>3, <2>1 DEF Exclusion, MainFirst, Update, LoadFile, ListContainers,
         ListNothing, WriteMap, Goto, Success, Failure, Throw
    <3>2. QED
      BY <3>1 DEF Barrier
  <2>2. CASE u \in Watchers /\ LoadFile(u)
    <3>1. /\ seen' = [seen EXCEPT ![u] = [file |-> ver.file, docker |-> -1]]
          /\ batch' = batch
          /\ \A t \in Watchers \ {u} : pc'[t] = pc[t]
          /\ pc'[u] # "enter"
      BY <2>2 DEF LoadFile, Throw, Failure, Success, Goto
    <3>2. \A t \in Watchers \ {u} : pc[t] \notin Locked
      BY <2>2 DEF Exclusion, OneWatcher, LoadFile
    <3>3. ASSUME NEW t \in Watchers, pc[t] = "enter" PROVE ~TooLate(u, Head(batch[t]))'
      <4>1. Head(batch[t]) \in Known(t)
        BY <1>0, <3>3
      <4>2. seen'[u].file = ver.file /\ seen'[u].docker = -1 /\ batch'[t] = batch[t]
        BY <2>2, <3>1
      <4>3. QED
        BY <2>2, <4>1, <4>2, ReaderNotTooLate DEF TooLate
    <3>4. QED
      BY <3>1, <3>2, <3>3 DEF Barrier
  <2>3. CASE u \in Watchers /\ ListContainers(u)
    <3>1. /\ seen' = [seen EXCEPT ![u].docker = ver.docker]
          /\ batch' = batch
          /\ pc[u] = "list" /\ pc' = [pc EXCEPT ![u] = "write"]
      BY <2>3 DEF ListContainers, Goto
    <3>2. \A t \in Watchers \ {u} : pc[t] \notin Locked
      BY <2>3, <3>1 DEF Exclusion, OneWatcher
    <3>3. ASSUME NEW t \in Watchers, t # u, pc[t] = "enter",
                 Head(batch[t]).kind # "delete"
          PROVE  ~TooLate(u, Head(batch[t]))'
      <4>1. ~TooLate(u, Head(batch[t])) /\ Head(batch[t]) \in Known(t)
        BY <1>0, <2>3, <3>1, <3>3 DEF Barrier
      <4>2. /\ seen'[u].file = seen[u].file
            /\ seen'[u].docker = ver.docker
            /\ batch'[t] = batch[t] /\ pc'[u] = "write"
        BY <2>3, <3>1 DEF Version
      <4>3. pc[u] = "list" /\ ver.docker \in Int
        BY <3>1 DEF Version
      <4>4. CASE Head(batch[t]).kind = "docker"
        <5>1. Head(batch[t]).ver \in Int /\ Head(batch[t]).ver <= ver.docker
          BY <4>1, <4>4 DEF Known, Event
        <5>2. QED
          BY <4>2, <4>3, <4>4, <5>1 DEF TooLate
      <4>5. CASE Head(batch[t]).kind # "docker"
        BY <4>1, <4>2, <4>3, <4>5 DEF TooLate
      <4>6. QED
        BY <4>4, <4>5
    <3>4. QED
      BY <3>1, <3>2, <3>3 DEF Barrier
  <2>4. CASE ListNothing(u) \/ WriteMap(u)
    BY <1>1, <2>4 DEF ListNothing, WriteMap, Goto, Success, Failure
  <2>5. QED
    BY <1>3, <2>1, <2>2, <2>3, <2>4 DEF Update
<1>4. ASSUME NEW t \in Watchers, Watch(t) PROVE Barrier'
  <2>1. CASE NotifyWaiter(t)
    \* mtx is free: no thread is past its reading and still inside.
    <3>1. \A u \in Watchers : pc'[u] \notin Locked
      BY <2>1 DEF NotifyWaiter, Exclusion, MutexInv
    <3>2. QED
      BY <3>1 DEF Barrier
  <2>2. CASE SkipNotify(t)
    BY <2>2, <1>0 DEF SkipNotify, Goto, Barrier, TooLate
  <2>3. CASE Lock(t)
    <3>1. pc' = [pc EXCEPT ![t] = "load"] /\ batch' = batch
          /\ \A u \in Watchers : pc[u] \notin Locked
      BY <2>3 DEF Lock, Goto, Exclusion, MutexInv
    <3>2. QED
      BY <3>1 DEF Barrier, TooLate
  <2>4. CASE Skip(t) \/ Release(t)
    <3>1. /\ pc'[t] \in {"idle", "event"}
          /\ \A u \in Watchers \ {t} : /\ pc'[u] = pc[u] /\ batch'[u] = batch[u]
                                       /\ seen'[u] = seen[u]
      BY <2>4 DEF Skip, Release, NextEvent, Goto
    <3>2. QED
      BY <3>1 DEF Barrier, TooLate
  <2>5. CASE ReadEvents(t)
    <3>1. /\ pc' = [pc EXCEPT ![t] = "event"] /\ seen' = seen
          /\ \A u \in Watchers \ {t} : batch'[u] = batch[u]
      BY <2>5 DEF ReadEvents, Goto
    <3>2. QED
      BY <3>1 DEF Barrier, TooLate
  <2>6. CASE PollTimeout(t)
    BY <1>1, <2>6 DEF PollTimeout, vars, process
  <2>7. CASE SetUp(t) \/ Claim(t) \/ AbortUpdate(t) \/ WaitTimeout(t) \/ Unlock(t)
              \/ Leave(t)
    BY <1>1, <2>7 DEF SetUp, Claim, AbortUpdate, WaitTimeout, Unlock, Leave, Goto
  <2>8. QED
    BY <1>4, <2>1, <2>2, <2>3, <2>4, <2>5, <2>6, <2>7 DEF Watch
<1>5. CASE UNCHANGED vars
  BY <1>1, <1>5 DEF vars, process
<1>6. QED
  BY <1>2, <1>3, <1>4, <1>5 DEF Next

\* An event announced under mtx is lost only in the window between the unlock
\* and the reset of policy_update_running.
THEOREM BarrierHolds == Spec => LostOnlyAfterUnlock
<1> DEFINE Inv == InFlight /\ ReadSoFar /\ Barrier
<1>1. Init => Inv
  <2>1. Init => InFlight
    BY EmptySeq DEF Init, ProcessInit, InFlight
  <2>2. QED
    BY <2>1 DEF Init, ProcessInit, ReadSoFar, Barrier
<1>2. TypeOK /\ BatchInv /\ Exclusion /\ Inv /\ [Next]_vars => Inv'
  BY InFlightNext, ReadSoFarNext, BarrierNext
<1>3. Inv /\ [Next]_vars =>
        [\A t, u \in Watchers :
           (/\ pc[t] = "enter" /\ pc'[t] \in {"idle", "event"}
            /\ u # t
            /\ Head(batch[t]).kind # "delete"
            /\ TooLate(u, Head(batch[t])))
           => pc[u] = "release"]_vars
  BY DEF Barrier, TooLate
<1>4. QED
  BY <1>1, <1>2, <1>3, TypeCorrectness, ExclusionInit, ExclusionNext, PTL
     DEF Spec, LostOnlyAfterUnlock

-----------------------------------------------------------------------------
(***************************************************************************)
(* A quiet daemon is up to date.  A version of the world that an update    *)
(* has not taken in is announced by an event that is still pending; the    *)
(* event a watcher is about to handle, or has handed to its own update,    *)
(* does not count any more.  Tracked says at each point of an update what  *)
(* is known of the versions it has read; Versions bounds them, so that an  *)
(* event that is not TooLate for an update has been read by it.            *)
(***************************************************************************)
Has(s, v) == \E i \in 1..Len(s) : s[i].ver = v
Ahead(w) == IF pc[w] \in Claimed THEN Tail(batch[w]) ELSE batch[w]
Pending(w) == Has(queue[w], ver[w]) \/ Has(Ahead(w), ver[w])

RunningInv == running => \E u \in Watchers : pc[u] \in Claimed
IdleInv == \A t \in Watchers : pc[t] \in {"off", "setup", "idle"} => batch[t] = <<>>
Versions ==
    /\ ver.file \in Nat /\ ver.docker \in Nat
    /\ \A u \in Threads :
         /\ pc[u] \in {"list", "write"} => seen[u].file \in 0..ver.file
         /\ pc[u] = "write" => seen[u].docker \in 0..ver.docker
    /\ \A u \in Watchers :
         pc[u] \in {"unlock", "release"} =>
            /\ ~exiting => seen[u].file \in 0..ver.file
            /\ seen[u].docker <= ver.docker
Bounds == RunningInv /\ IdleInv /\ Versions

Live == excuses = {} /\ ~exiting /\ pc["main"] \in UpdateSteps \cup {"spawn", "poll"}
FileKnown(v) == v = ver.file \/ Pending("file")
DockerKnown(v) == v = ver.docker \/ Pending("docker")
Reading ==
    \A u \in Threads :
        /\ pc[u] \in {"list", "write"} => FileKnown(seen[u].file)
        /\ pc[u] = "write" => DockerKnown(seen[u].docker)
Wrote ==
    \A u \in Watchers : pc[u] \in {"unlock", "release"} =>
        /\ FileKnown(seen[u].file)
        /\ seen[u].file = ver.file =>
              /\ file = "empty" => applied.file = ver.file
              /\ file = "good" => /\ applied = seen[u] /\ 0 <= seen[u].docker
                                  /\ DockerKnown(seen[u].docker)
Settled ==
    (\A u \in Threads : pc[u] \notin Claimed) =>
        /\ file \in {"good", "empty"} => FileKnown(applied.file)
        /\ file = "good" => Pending("file") \/ DockerKnown(applied.docker)
Tracked == Live => Reading /\ Wrote /\ Settled

\* The event that Announce appends is in the queue.
LEMMA HasAppend ==
    ASSUME NEW S, NEW s \in Seq(S), NEW e \in S
    PROVE  Has(Append(s, e), e.ver)
<1>1. Len(s) \in Nat
  BY LenProperties
<1>2. Len(Append(s, e)) = Len(s) + 1 /\ Append(s, e)[Len(s) + 1] = e
  BY AppendProperties
<1>3. QED
  BY <1>1, <1>2 DEF Has

\* An event that is not the head is in the tail.
LEMMA HasTail ==
    ASSUME NEW S, NEW s \in Seq(S), s # <<>>, NEW v, Has(s, v), Head(s).ver # v
    PROVE  Has(Tail(s), v)
<1>1. PICK i \in 1..Len(s) : s[i].ver = v
  BY DEF Has
<1>2. Len(s) \in Nat /\ Len(Tail(s)) = Len(s) - 1 /\ Head(s) = s[1]
      /\ \A j \in 1..Len(Tail(s)) : Tail(s)[j] = s[j + 1]
  BY LenProperties, HeadTailProperties
<1>3. i # 1
  BY <1>1, <1>2
<1>4. i - 1 \in 1..Len(Tail(s)) /\ Tail(s)[i - 1] = s[i]
  BY <1>1, <1>2, <1>3
<1>5. QED
  BY <1>1, <1>4 DEF Has

\* read(2) loses no event: it is returned or left.
LEMMA HasSplit ==
    ASSUME NEW S, NEW s \in Seq(S), NEW n \in 1..Len(s), NEW v, Has(s, v)
    PROVE  Has(SubSeq(s, 1, n), v) \/ Has(SubSeq(s, n + 1, Len(s)), v)
<1>1. PICK i \in 1..Len(s) : s[i].ver = v
  BY DEF Has
<1>2. Len(s) \in Nat /\ \A j \in 1..Len(s) : s[j] \in S
  BY LenProperties, ElementOfSeq
<1>3. CASE i <= n
  <2>1. Len(SubSeq(s, 1, n)) = n /\ SubSeq(s, 1, n)[i] = s[i]
    BY <1>2, <1>3, SubSeqProperties
  <2>2. QED
    BY <1>1, <1>2, <1>3, <2>1 DEF Has
<1>4. CASE i > n
  <2> DEFINE rest == SubSeq(s, n + 1, Len(s))
  <2>1. n + 1 \in Int /\ Len(s) \in Int /\ \A j \in (n + 1)..Len(s) : s[j] \in S
    BY <1>2
  <2>2. /\ Len(rest) = IF n + 1 <= Len(s) THEN Len(s) - (n + 1) + 1 ELSE 0
        /\ \A j \in 1..(Len(s) - (n + 1) + 1) : rest[j] = s[n + 1 + j - 1]
    BY <2>1, SubSeqProperties
  <2> HIDE DEF rest
  <2>3. i - n \in 1..(Len(s) - (n + 1) + 1) /\ Len(rest) = Len(s) - (n + 1) + 1
    BY <1>2, <1>4, <2>2
  <2>4. n + 1 + (i - n) - 1 = i
    BY <1>4
  <2>5. rest[i - n] = s[i]
    BY <2>2, <2>3, <2>4
  <2>6. Has(rest, v)
    BY <1>1, <2>3, <2>5 DEF Has
  <2>7. QED
    BY <2>6 DEF rest
<1>5. QED
  BY <1>2, <1>3, <1>4

\* What is left of a batch of one event is empty.
LEMMA ShortTail ==
    ASSUME NEW S, NEW s \in Seq(S), s # <<>>, ~(Len(s) > 1)
    PROVE  Tail(s) = <<>>
<1>1. Tail(s) \in Seq(S) /\ Len(Tail(s)) = Len(s) - 1
  BY HeadTailProperties
<1>2. Len(s) \in Nat /\ Len(Tail(s)) \in Nat
  BY <1>1, LenProperties
<1>3. Len(Tail(s)) = 0
  BY <1>1, <1>2
<1>4. QED
  BY <1>1, <1>3, EmptySeq

\* Nothing is in an empty queue.
LEMMA HasNone == ASSUME NEW v PROVE ~Has(<<>>, v)
BY EmptySeq DEF Has

\* What is pending changes only with the version, the queues, and whether the watcher
\* is inside an update.
LEMMA PendingSame ==
    ASSUME NEW w \in Watchers, ver'[w] = ver[w], queue'[w] = queue[w],
           batch'[w] = batch[w], pc'[w] \in Claimed <=> pc[w] \in Claimed
    PROVE  Pending(w)' <=> Pending(w)
BY DEF Pending, Ahead

\* What a thread has read stays within the versions the world has reached when those
\* only grow and the thread reads nothing and reaches no point past a reading.
LEMMA VersionsKept ==
    ASSUME TypeOK, Versions, ver' \in Version,
           ver.file <= ver'.file, ver.docker <= ver'.docker,
           exiting => exiting',
           \A u \in Threads :
              pc'[u] \in {"list", "write", "unlock", "release"} =>
                 /\ seen'[u] = seen[u]
                 /\ pc'[u] = pc[u] \/ (pc[u] = "unlock" /\ pc'[u] = "release")
    PROVE  Versions'
<1>0. /\ ver.file \in Nat /\ ver.docker \in Nat
      /\ ver'.file \in Int /\ ver'.docker \in Int
  BY DEF Versions, Version
<1>1. /\ ver.file \in Nat /\ ver'.file \in Nat /\ ver.docker \in Nat /\ ver'.docker \in Nat
      /\ \A u \in Threads : seen[u].file \in Int /\ seen[u].docker \in Int
  <2>1. \A u \in Threads : seen[u].file \in Int /\ seen[u].docker \in Int
    BY DEF TypeOK, Version
  <2>2. QED
    BY <1>0, <2>1
<1>2. ASSUME NEW u \in Threads, pc'[u] \in {"list", "write"}
      PROVE  /\ seen'[u].file \in 0..ver'.file
             /\ pc'[u] = "write" => seen'[u].docker \in 0..ver'.docker
  <2>1. pc[u] = pc'[u] /\ seen'[u] = seen[u]
    BY <1>2
  <2>2. /\ seen[u].file \in 0..ver.file
        /\ pc[u] = "write" => seen[u].docker \in 0..ver.docker
    BY <1>2, <2>1 DEF Versions
  <2>3. QED
    BY <1>1, <2>1, <2>2
<1>3. ASSUME NEW u \in Watchers, pc'[u] \in {"unlock", "release"}
      PROVE  /\ ~exiting' => seen'[u].file \in 0..ver'.file
             /\ seen'[u].docker <= ver'.docker
  <2>1. pc[u] \in {"unlock", "release"} /\ seen'[u] = seen[u]
    BY <1>3
  <2>2. /\ ~exiting => seen[u].file \in 0..ver.file
        /\ seen[u].docker <= ver.docker
    BY <2>1 DEF Versions
  <2>3. QED
    BY <1>1, <2>1, <2>2
<1>4. QED
  BY <1>1, <1>2, <1>3 DEF Versions

\* The flag is set for a watcher that is inside, an idle watcher has handled its batch,
\* and no update has read a version the world has not reached.
LEMMA BoundsNext ==
    ASSUME TypeOK, BatchInv, Exclusion, ReadSoFar, Bounds, [Next]_vars
    PROVE  Bounds'
<1> USE DEF TypeOK
<1>1. RunningInv'
  <2> USE DEF Bounds, RunningInv, Exclusion, FlagInv
  <2>1. CASE Environment \/ Restart \/ Down \/ PollError \/ Main
    <3>1. CASE Spawn
      BY <3>1 DEF Spawn, Exclusion, MainFirst
    <3>2. CASE Environment
      <4>1. ASSUME NEW kind \in FileChanges, FileChange(kind) PROVE RunningInv'
        BY <4>1 DEF FileChange
      <4>2. ASSUME NEW kind \in ContainerChanges, ContainerChange(kind) PROVE RunningInv'
        BY <4>2 DEF ContainerChange
      <4>3. CASE Interrupt
        BY <4>3 DEF Interrupt
      <4>4. CASE Kill
        BY <4>4 DEF Kill
      <4>5. QED
        BY <3>2, <4>1, <4>2, <4>3, <4>4 DEF Environment
    <3>3. CASE Restart \/ Down \/ PollError \/ NoFileAtStart \/ StopPolling \/ Join
      BY <3>3 DEF Restart, Down, vars, process, PollError, NoFileAtStart, StopPolling,
         Join, Goto
    <3>4. QED
      BY <2>1, <3>1, <3>2, <3>3 DEF Main
  <2>2. ASSUME NEW t \in Threads, Update(t) PROVE RunningInv'
    <3>1. running' = running
      BY <2>2 DEF Update, LoadFile, ListContainers, ListNothing, WriteMap
    <3>2. \E l \in {"spawn", "join", "wait", "unlock", "list", "write"} :
            /\ pc' = [pc EXCEPT ![t] = l]
            /\ t # "main" => l \in Claimed
      BY <2>2 DEF Update, LoadFile, ListContainers, ListNothing, WriteMap, Goto, Success,
         Failure, Throw
    <3>3. QED
      BY <3>1, <3>2
  <2>3. ASSUME NEW t \in Watchers, Watch(t) PROVE RunningInv'
    <3>1. CASE NotifyWaiter(t)
      BY <3>1 DEF NotifyWaiter
    <3>2. CASE SetUp(t) \/ PollTimeout(t) \/ ReadEvents(t) \/ SkipNotify(t) \/ Leave(t)
      BY ZenonT(60), <3>2 DEF SetUp, PollTimeout, vars, process, ReadEvents, SkipNotify, Leave, Goto
    <3>5. CASE Claim(t) \/ Lock(t) \/ AbortUpdate(t) \/ WaitTimeout(t) \/ Unlock(t)
      <4>1. /\ running' = running \/ (running' = TRUE)
            /\ \E l \in Claimed : pc' = [pc EXCEPT ![t] = l]
        BY <3>5 DEF Claim, Lock, AbortUpdate, WaitTimeout, Unlock, Goto
      <4>2. pc'[t] \in Claimed
        BY <4>1
      <4>3. QED
        BY <4>2
    <3>3. CASE Skip(t) \/ Release(t)
      BY <3>3 DEF Skip, Release, NextEvent, Goto
    <3>4. QED
      BY <2>3, <3>1, <3>2, <3>3, <3>5 DEF Watch
  <2>4. CASE UNCHANGED vars
    BY <2>4 DEF vars, process
  <2>5. QED
    BY <2>1, <2>2, <2>3, <2>4 DEF Next
<1>2. IdleInv'
  <2> USE DEF Bounds, IdleInv
  <2>1. CASE Environment \/ Restart \/ Down \/ PollError \/ Main
    BY <2>1 DEF Environment, FileChange, ContainerChange, Interrupt, Kill, Restart, Down,
       vars, process, PollError, NoFileAtStart, StopPolling, Join, Goto, Main, Spawn,
       Exclusion, MainFirst
  <2>2. ASSUME NEW t \in Threads, Update(t) PROVE IdleInv'
    BY <2>2 DEF Update, LoadFile, ListContainers, ListNothing, WriteMap, Goto, Success,
       Failure, Throw
  <2>3. ASSUME NEW t \in Watchers, Watch(t) PROVE IdleInv'
    <3>1. CASE Skip(t) \/ Release(t)
      <4>1. NextEvent(t) /\ batch[t] # <<>>
        BY <3>1 DEF Skip, Release, BatchInv
      <4>2. ~(Len(batch[t]) > 1) => Tail(batch[t]) = <<>>
        BY <4>1, ShortTail
      <4>3. QED
        BY <4>1, <4>2 DEF NextEvent, Goto
    <3>2. CASE ReadEvents(t)
      BY <3>2 DEF ReadEvents, Goto
    <3>3. CASE SetUp(t) \/ PollTimeout(t) \/ NotifyWaiter(t) \/ SkipNotify(t) \/ Claim(t)
                 \/ Lock(t) \/ AbortUpdate(t) \/ WaitTimeout(t) \/ Unlock(t) \/ Leave(t)
      BY <3>3 DEF SetUp, PollTimeout, vars, process, NotifyWaiter, SkipNotify, Claim,
         Lock, AbortUpdate, WaitTimeout, Unlock, Leave, Goto
    <3>4. QED
      BY <2>3, <3>1, <3>2, <3>3 DEF Watch
  <2>4. CASE UNCHANGED vars
    BY <2>4 DEF vars, process
  <2>5. QED
    BY <2>1, <2>2, <2>3, <2>4 DEF Next
<1>3. Versions'
  <2> USE DEF Bounds, Versions, world
  <2>1. CASE Environment \/ Restart \/ Down \/ PollError \/ Main
    <3>0. ASSUME ver' = ver, exiting => exiting', seen' = seen,
                 \A u \in Threads : pc'[u] = pc[u] \/ pc'[u] \notin {"list", "write", "unlock", "release"}
          PROVE  Versions'
      <4>1. ver.file <= ver'.file /\ ver.docker <= ver'.docker
        BY <3>0
      <4>2. QED
        BY <3>0, <4>1, VersionsKept
    <3>1. ASSUME NEW kind \in FileChanges, FileChange(kind) PROVE Versions'
      <4>1. exiting' = exiting /\ seen' = seen /\ pc' = pc
        BY <3>1 DEF FileChange
      <4>2. ver' \in Version /\ ver.file <= ver'.file /\ ver.docker <= ver'.docker
        BY <3>1, WorldCounts, VersionGrows
      <4>3. QED
        BY <4>1, <4>2, VersionsKept
    <3>2. ASSUME NEW kind \in ContainerChanges, ContainerChange(kind) PROVE Versions'
      <4>1. exiting' = exiting /\ seen' = seen /\ pc' = pc
        BY <3>2 DEF ContainerChange
      <4>2. ver' \in Version /\ ver.file <= ver'.file /\ ver.docker <= ver'.docker
        BY <3>2, WorldCounts, VersionGrows
      <4>3. QED
        BY <4>1, <4>2, VersionsKept
    <3>3. CASE Interrupt
      BY <3>0, <3>3 DEF Interrupt
    <3>4. CASE Kill \/ Restart
      <4>1. ver' = ver /\ \A u \in Threads : pc'[u] \in {"dead", "load", "off"}
        BY <3>4 DEF Kill, Restart
      <4>2. QED
        BY <4>1
    <3>5. CASE Down
      BY <3>0, <3>5 DEF Down, vars, process
    <3>6. CASE PollError \/ NoFileAtStart \/ StopPolling \/ Join
      <4>1. /\ ver' = ver /\ (exiting => exiting') /\ seen' = seen
            /\ pc' = [pc EXCEPT !["main"] = pc'["main"]]
            /\ pc'["main"] \in {"join", "spawn", "done"}
        BY <3>6 DEF PollError, NoFileAtStart, StopPolling, Join, Goto
      <4>2. QED
        BY <3>0, <4>1
    <3>7. CASE Spawn
      <4>1. ver' = ver /\ \A u \in Threads : pc'[u] \in {"poll", "setup"}
        BY <3>7 DEF Spawn
      <4>2. QED
        BY <4>1
    <3>8. QED
      BY <2>1, <3>1, <3>2, <3>3, <3>4, <3>5, <3>6, <3>7 DEF Environment, Main
  <2>2. ASSUME NEW t \in Threads, Update(t) PROVE Versions'
    <3>1. CASE LoadFile(t)
      <4>1. /\ seen' = [seen EXCEPT ![t] = [file |-> ver.file, docker |-> -1]]
            /\ \E l \in {"spawn", "wait", "unlock", "list", "join"} :
                  pc' = [pc EXCEPT ![t] = l]
            /\ ver' = ver /\ (exiting => exiting')
        BY <3>1 DEF LoadFile, Throw, Failure, Success, Goto
      <4>2. QED
        BY <4>1
    <3>2. CASE ListContainers(t)
      <4>1. /\ seen' = [seen EXCEPT ![t].docker = ver.docker]
            /\ pc' = [pc EXCEPT ![t] = "write"] /\ pc[t] = "list"
            /\ ver' = ver /\ exiting' = exiting
        BY <3>2 DEF ListContainers, Goto
      <4>2. seen'[t].file = seen[t].file /\ seen'[t].docker = ver.docker
            /\ \A u \in Threads \ {t} : seen'[u] = seen[u]
        BY <4>1 DEF Version
      <4>3. QED
        BY <4>1, <4>2
    <3>3. CASE ListNothing(t) \/ WriteMap(t)
      <4>1. /\ \E l \in {"spawn", "wait", "unlock"} : pc' = [pc EXCEPT ![t] = l]
            /\ pc[t] \in {"list", "write"} /\ seen' = seen /\ ver' = ver
            /\ exiting' = exiting
        BY <3>3 DEF ListNothing, WriteMap, Success, Failure, Goto
      <4>2. pc[t] = "list" /\ t \in Watchers => seen[t].docker = -1
        BY DEF ReadSoFar
      <4>3. QED
        BY <4>1, <4>2
    <3>4. QED
      BY <2>2, <3>1, <3>2, <3>3 DEF Update
  <2>3. ASSUME NEW t \in Watchers, Watch(t) PROVE Versions'
    <3>1. CASE AbortUpdate(t)
      <4>1. seen[t].docker = -1 /\ exiting
        BY <3>1 DEF AbortUpdate, ReadSoFar, Cleared
      <4>2. QED
        BY <3>1, <4>1 DEF AbortUpdate, Goto
    <3>0. ver.file <= ver.file /\ ver.docker <= ver.docker
      OBVIOUS
    <3>2. CASE NotifyWaiter(t)
      <4>1. /\ ver' = ver /\ exiting' = exiting /\ seen' = seen
            /\ \A u \in Threads : pc'[u] = pc[u] \/ pc'[u] \in {"enter", "relock"}
        BY <3>2 DEF NotifyWaiter
      <4>2. QED
        BY <3>0, <4>1, VersionsKept
    <3>3. CASE SetUp(t) \/ ReadEvents(t) \/ SkipNotify(t) \/ Claim(t) \/ WaitTimeout(t)
                 \/ Leave(t)
      <4>1. /\ ver' = ver /\ exiting' = exiting /\ seen' = seen
            /\ \E l \in {"idle", "event", "enter", "lock", "relock", "done"} :
                  pc' = [pc EXCEPT ![t] = l]
        BY <3>3 DEF SetUp, ReadEvents, SkipNotify, Claim, WaitTimeout, Leave, Goto
      <4>2. \A u \in Threads :
               \/ pc'[u] = pc[u]
               \/ pc'[u] \in {"idle", "event", "enter", "lock", "relock", "done"}
        BY <4>1
      <4>3. QED
        BY <3>0, <4>1, <4>2, VersionsKept
    <3>6. CASE Lock(t)
      <4>1. /\ ver' = ver /\ exiting' = exiting
            /\ pc'[t] = "load"
            /\ \A u \in Threads \ {t} : pc'[u] = pc[u] /\ seen'[u] = seen[u]
        BY <3>6 DEF Lock, Goto
      <4>2. QED
        BY <3>0, <4>1, VersionsKept
    <3>7. CASE Unlock(t)
      <4>1. /\ ver' = ver /\ exiting' = exiting /\ seen' = seen
            /\ pc[t] = "unlock" /\ pc'[t] = "release"
            /\ \A u \in Threads \ {t} : pc'[u] = pc[u]
        BY <3>7 DEF Unlock, Goto
      <4>2. QED
        BY <3>0, <4>1, VersionsKept
    <3>8. CASE PollTimeout(t)
      BY <3>8 DEF PollTimeout, vars, process
    <3>4. CASE Skip(t) \/ Release(t)
      <4>1. /\ \E l \in {"event", "idle"} : pc' = [pc EXCEPT ![t] = l]
            /\ seen' = seen \/ seen' = [seen EXCEPT ![t] = Cleared]
            /\ ver' = ver /\ exiting' = exiting
        BY <3>4 DEF Skip, Release, NextEvent, Goto
      <4>2. pc'[t] \in {"event", "idle"}
            /\ \A u \in Threads \ {t} : pc'[u] = pc[u] /\ seen'[u] = seen[u]
        BY <4>1
      <4>3. QED
        BY <4>1, <4>2
    <3>5. QED
      BY <2>3, <3>1, <3>2, <3>3, <3>4, <3>6, <3>7, <3>8 DEF Watch
  <2>4. CASE UNCHANGED vars
    BY <2>4 DEF vars, process
  <2>5. QED
    BY <2>1, <2>2, <2>3, <2>4 DEF Next
<1>4. QED
  BY <1>1, <1>2, <1>3 DEF Bounds

\* Steps that read and write nothing, and start or end no update, keep what is tracked.
LEMMA TrackedSame ==
    ASSUME Tracked, Live' => Live,
           ver' = ver, file' = file, queue' = queue, batch' = batch, seen' = seen,
           applied' = applied,
           \A u \in Threads :
              /\ pc'[u] \in Claimed <=> pc[u] \in Claimed
              /\ pc'[u] \in {"list", "write"} => pc'[u] = pc[u]
              /\ pc'[u] \in {"unlock", "release"} => pc[u] \in {"unlock", "release"}
    PROVE  Tracked'
<1> SUFFICES ASSUME Live' PROVE Reading' /\ Wrote' /\ Settled'
  BY DEF Tracked
<1>1. Reading /\ Wrote /\ Settled
  BY DEF Tracked
<1>2. /\ Pending("file")' <=> Pending("file")
      /\ Pending("docker")' <=> Pending("docker")
  BY PendingSame
<1>3. /\ \A v : FileKnown(v)' <=> FileKnown(v)
      /\ \A v : DockerKnown(v)' <=> DockerKnown(v)
  BY <1>2 DEF FileKnown, DockerKnown
<1>4. Reading'
  BY <1>1, <1>3 DEF Reading
<1>5. Wrote'
  BY <1>1, <1>3 DEF Wrote
<1>6. Settled'
  BY <1>1, <1>2, <1>3 DEF Settled
<1>7. QED
  BY <1>4, <1>5, <1>6

\* A change of the world is announced, or there is an excuse for it.
LEMMA TrackedWorld ==
    ASSUME TypeOK, Versions, Tracked,
           NEW t \in Watchers, NEW kind \in {"write", "delete", "docker"},
           ver' = [ver EXCEPT ![t] = @ + 1], Announce(t, kind),
           t = "docker" => file' = file,
           UNCHANGED <<batch, pc, seen, applied, exiting>>
    PROVE  Tracked'
<1> USE DEF TypeOK
<1> SUFFICES ASSUME Live' PROVE Reading' /\ Wrote' /\ Settled'
  BY DEF Tracked
<1>0. ver[t] + 1 \in Nat /\ ver'[t] = ver[t] + 1
  <2>1. ver'[t] = ver[t] + 1
    BY VersionGrows
  <2>2. ver.file \in Nat /\ ver.docker \in Nat
    BY DEF Versions
  <2>3. QED
    BY <2>1, <2>2
<1>1. /\ excuses' = excuses
      /\ queue' = [queue EXCEPT ![t] = Append(@, [kind |-> kind, ver |-> ver[t] + 1])]
  BY DEF Live, Announce
<1>2. Live /\ Reading /\ Wrote /\ Settled
  BY <1>1 DEF Live, Tracked
<1>3. Pending(t)'
  <2>1. [kind |-> kind, ver |-> ver[t] + 1] \in Event
    BY <1>0 DEF Event
  <2>2. Has(Append(queue[t], [kind |-> kind, ver |-> ver[t] + 1]), ver[t] + 1)
    BY <2>1, HasAppend
  <2>3. Has(queue'[t], ver'[t])
    BY <1>0, <1>1, <2>2
  <2>4. QED
    BY <2>3 DEF Pending
<1>4. \A w \in Watchers \ {t} : ver'[w] = ver[w] /\ (Pending(w)' <=> Pending(w))
  <2> SUFFICES ASSUME NEW w \in Watchers \ {t}
               PROVE  ver'[w] = ver[w] /\ (Pending(w)' <=> Pending(w))
    OBVIOUS
  <2>1. ver'[w] = ver[w] /\ queue'[w] = queue[w]
    BY <1>1 DEF Version
  <2>2. QED
    BY <2>1, PendingSame
<1>5. CASE t = "file"
  <2>1. /\ \A v : FileKnown(v)'
        /\ \A v : DockerKnown(v)' <=> DockerKnown(v)
    BY <1>3, <1>4, <1>5 DEF FileKnown, DockerKnown
  <2>2. Reading'
    BY <1>2, <2>1 DEF Reading
  <2>3. \A u \in Watchers : pc[u] \in {"unlock", "release"} => seen[u].file # ver'.file
    BY <1>0, <1>2, <1>5 DEF Versions, Live
  <2>4. Wrote'
    BY <2>1, <2>3 DEF Wrote
  <2>5. Settled'
    BY <1>3, <1>5, <2>1 DEF Settled
  <2>6. QED
    BY <2>2, <2>4, <2>5
<1>6. CASE t = "docker"
  <2>1. /\ \A v : FileKnown(v)' <=> FileKnown(v)
        /\ \A v : DockerKnown(v)'
        /\ ver'.file = ver.file
    BY <1>3, <1>4, <1>6 DEF FileKnown, DockerKnown
  <2>2. Reading'
    BY <1>2, <2>1 DEF Reading
  <2>3. Wrote'
    BY <1>2, <1>6, <2>1 DEF Wrote
  <2>4. Settled'
    BY <1>2, <1>6, <2>1 DEF Settled
  <2>5. QED
    BY <2>2, <2>3, <2>4
<1>7. QED
  BY <1>5, <1>6

\* The world, signals, restarts and main keep what is tracked.
LEMMA TrackedOutside ==
    ASSUME TypeOK, Exclusion, Bounds, Tracked,
           Environment \/ Restart \/ Down \/ PollError \/ Main
    PROVE  Tracked'
<1> USE DEF TypeOK
<1>1. ASSUME NEW kind \in FileChanges, FileChange(kind) PROVE Tracked'
  <2>1. CASE kind = "move"
    BY <1>1, <2>1 DEF FileChange, Tracked, Live
  <2>2. CASE kind # "move"
    <3>1. kind \in {"write", "delete"}
      BY <2>2, ConstantsAssumption
    <3>2. /\ ver' = [ver EXCEPT !["file"] = @ + 1] /\ Announce("file", kind)
          /\ UNCHANGED <<batch, pc, seen, applied, exiting>>
      BY <1>1, <2>2 DEF FileChange
    <3>3. QED
      BY <3>1, <3>2, TrackedWorld DEF Bounds
  <2>3. QED
    BY <2>1, <2>2
<1>2. ASSUME NEW kind \in ContainerChanges, ContainerChange(kind) PROVE Tracked'
  <2>1. CASE kind = "exit"
    BY <1>2, <2>1 DEF ContainerChange, Tracked, Live
  <2>2. CASE kind # "exit"
    <3>1. /\ ver' = [ver EXCEPT !["docker"] = @ + 1] /\ Announce("docker", "docker")
          /\ UNCHANGED <<file, batch, pc, seen, applied, exiting>>
      BY <1>2, <2>2 DEF ContainerChange
    <3>2. QED
      BY <3>1, TrackedWorld DEF Bounds
  <2>3. QED
    BY <2>1, <2>2
<1>3. CASE Interrupt \/ Kill \/ PollError \/ StopPolling \/ Join
  <2>1. ~Live'
    BY <1>3 DEF Interrupt, Kill, PollError, StopPolling, Join, Goto, Live
  <2>2. QED
    BY <2>1 DEF Tracked
<1>4. CASE Restart
  BY <1>4 DEF Restart, Tracked, Reading, Wrote, Settled
<1>5. CASE Down
  <2>1. UNCHANGED <<ver, file, queue, batch, seen, applied, pc, excuses, exiting>>
    BY <1>5 DEF Down, vars, process, world
  <2>2. Live' <=> Live
    BY <2>1 DEF Live
  <2>3. QED
    BY <2>1, <2>2, TrackedSame
<1>6. CASE NoFileAtStart
  <2>1. /\ \A t \in Watchers : pc'[t] = "off"
        /\ pc'["main"] = "spawn" /\ file' = "gone"
    BY <1>6 DEF NoFileAtStart, Goto, Exclusion, MainFirst, world
  <2>2. QED
    BY <2>1 DEF Tracked, Reading, Wrote, Settled
<1>7. CASE Spawn
  <2>1. /\ \A t \in Watchers : pc[t] = "off" /\ pc'[t] = "setup"
        /\ pc["main"] = "spawn" /\ pc'["main"] = "poll"
        /\ UNCHANGED <<ver, file, queue, batch, applied, excuses, exiting>>
    BY <1>7 DEF Spawn, Exclusion, MainFirst, world
  <2>2. Live' => Live
    BY <2>1 DEF Live
  <2>3. /\ Pending("file")' <=> Pending("file")
        /\ Pending("docker")' <=> Pending("docker")
    BY <2>1, PendingSame
  <2>4. Settled => Settled'
    BY <2>1, <2>3 DEF Settled, FileKnown, DockerKnown
  <2>5. QED
    BY <2>1, <2>2, <2>4 DEF Tracked, Reading, Wrote
<1>8. QED
  BY <1>1, <1>2, <1>3, <1>4, <1>5, <1>6, <1>7 DEF Environment, Main

\* Whoever performs update_policy_with_file is the only one between claiming the flag
\* and giving it back, and nobody else moves.
LEMMA UpdatesAlone ==
    ASSUME TypeOK, Exclusion, NEW t \in Threads, Update(t)
    PROVE  /\ \A u \in Threads \ {t} : pc[u] \notin Claimed /\ pc'[u] = pc[u]
           /\ pc[t] \in UpdateSteps
           /\ UNCHANGED <<ver, file, queue, batch>>
<1> USE DEF TypeOK, world
<1>1. pc[t] \in UpdateSteps /\ UNCHANGED <<ver, file, queue, batch>>
  BY DEF Update, LoadFile, ListContainers, ListNothing, WriteMap
<1>2. \A u \in Threads \ {t} : pc'[u] = pc[u]
  BY DEF Update, LoadFile, ListContainers, ListNothing, WriteMap, Goto, Success,
     Failure, Throw
<1>3. \A u \in Threads \ {t} : pc[u] \notin Claimed
  BY <1>1 DEF Exclusion, MainFirst, OneWatcher
<1>4. QED
  BY <1>1, <1>2, <1>3

\* An update keeps what is tracked: it reads what there is, and what comes later is
\* pending.
LEMMA TrackedUpdate ==
    ASSUME TypeOK, Exclusion, Bounds, Tracked, NEW t \in Threads, Update(t)
    PROVE  Tracked'
<1> USE DEF TypeOK, world
<1> SUFFICES ASSUME Live' PROVE Reading' /\ Wrote' /\ Settled'
  BY DEF Tracked
<1>0. /\ \A u \in Threads \ {t} : pc[u] \notin Claimed /\ pc'[u] = pc[u]
      /\ pc[t] \in UpdateSteps
      /\ UNCHANGED <<ver, file, queue, batch>>
  BY UpdatesAlone
\* Only the thread that updates is left to look at.
<1>1. ASSUME pc'[t] = "list" => FileKnown(seen[t].file)',
             pc'[t] = "write" => FileKnown(seen[t].file)' /\ DockerKnown(seen[t].docker)',
             pc'[t] \in {"unlock", "release"} =>
                /\ FileKnown(seen[t].file)'
                /\ (seen[t].file = ver.file)' =>
                      /\ file' = "empty" => (applied.file = ver.file)'
                      /\ file' = "good" => /\ (applied = seen[t])' /\ (0 <= seen[t].docker)'
                                           /\ DockerKnown(seen[t].docker)',
             pc'[t] \notin Claimed =>
                /\ file' \in {"good", "empty"} => FileKnown(applied.file)'
                /\ file' = "good" => DockerKnown(applied.docker)'
      PROVE  Reading' /\ Wrote' /\ Settled'
  <2>0. \A u \in Threads \ {t} : pc'[u] \notin {"list", "write", "unlock", "release"}
    BY <1>0 DEF Claimed, UpdateSteps
  <2>1. Reading'
    BY <1>1, <2>0 DEF Reading
  <2>2. Wrote'
    BY <1>1, <2>0 DEF Wrote
  <2>3. Settled'
    BY <1>1 DEF Settled
  <2>4. QED
    BY <2>1, <2>2, <2>3
<1>2. CASE LoadFile(t)
  <2>1. seen'[t].file = ver.file /\ pc[t] = "load" /\ ver' = ver /\ file' = file
    BY <1>2 DEF LoadFile
  <2>2. FileKnown(seen[t].file)'
    BY <2>1 DEF FileKnown
  <2>3. CASE file = "good"
    <3>1. pc'[t] = "list"
      BY <1>2, <2>3 DEF LoadFile, Goto
    <3>2. QED
      BY <1>1, <2>2, <3>1
  <2>4. CASE file = "empty"
    <3>1. CASE daemon = "tp"
      <4>1. /\ pc'[t] \in {"spawn", "unlock"}
            /\ applied'.file = ver.file /\ applied'.docker = ver.docker
        BY <1>2, <2>4, <3>1 DEF LoadFile, Goto, Success
      <4>2. FileKnown(applied.file)' /\ DockerKnown(applied.docker)'
        BY <2>1, <4>1 DEF FileKnown, DockerKnown
      <4>3. QED
        BY <1>1, <2>1, <2>2, <2>4, <4>1, <4>2
    <3>2. CASE daemon # "tp"
      <4>1. pc'[t] = "wait"
        BY <1>2, <2>4, <3>2 DEF LoadFile, Goto, Failure, Success, Live
      <4>2. QED
        BY <1>1, <4>1
    <3>3. QED
      BY <3>1, <3>2
  <2>5. CASE file \in {"bad", "gone"}
    <3>1. pc'[t] \in {"wait", "spawn"}
      BY <1>2, <2>5 DEF LoadFile, Goto, Failure, Throw, Live
    <3>2. QED
      BY <1>1, <2>1, <2>5, <3>1
  <2>6. QED
    BY <2>3, <2>4, <2>5
\* Beyond the first step the update goes on from a state that is tracked.
<1>3. ASSUME Live
      PROVE  /\ \A v : FileKnown(v) /\ (pc'[t] \in Claimed \/ t = "main") => FileKnown(v)'
             /\ \A v : DockerKnown(v) /\ (pc'[t] \in Claimed \/ t = "main") => DockerKnown(v)'
             /\ FileKnown(seen[t].file) \/ pc[t] = "load"
             /\ pc[t] = "write" => DockerKnown(seen[t].docker)
  <2>1. Reading
    BY <1>3 DEF Tracked
  <2>2. \A w \in Watchers : (pc'[t] \in Claimed \/ t = "main")
            => (pc'[w] \in Claimed <=> pc[w] \in Claimed)
    BY <1>0
  <2>3. pc'[t] \in Claimed \/ t = "main" =>
          /\ Pending("file")' <=> Pending("file")
          /\ Pending("docker")' <=> Pending("docker")
    BY <1>0, <2>2, PendingSame
  <2>4. QED
    BY <1>0, <2>1, <2>3 DEF Reading, FileKnown, DockerKnown
<1>4. CASE ListContainers(t)
  <2>1. /\ pc[t] = "list" /\ pc' = [pc EXCEPT ![t] = "write"]
        /\ seen' = [seen EXCEPT ![t].docker = ver.docker]
        /\ excuses' = excuses /\ exiting' = exiting
    BY <1>4 DEF ListContainers, Goto
  <2>2. Live
    BY <2>1 DEF Live
  <2>3. seen'[t].file = seen[t].file /\ seen'[t].docker = ver.docker
    BY <2>1 DEF Version
  <2>4. FileKnown(seen[t].file)'
    BY <1>3, <2>1, <2>2, <2>3 DEF FileKnown
  <2>5. DockerKnown(seen[t].docker)'
    BY <1>0, <2>3 DEF DockerKnown
  <2>6. QED
    BY <1>1, <2>1, <2>4, <2>5
<1>5. CASE ListNothing(t)
  <2>1. pc'[t] = "wait"
    BY <1>5 DEF ListNothing, Goto, Success, Failure, Live
  <2>2. QED
    BY <1>1, <2>1
<1>6. CASE WriteMap(t)
  <2>1. /\ pc[t] = "write" /\ applied' = seen[t] /\ seen' = seen
        /\ pc' = [pc EXCEPT ![t] = IF t = "main" THEN "spawn" ELSE "unlock"]
        /\ excuses' = excuses /\ exiting' = exiting
    BY <1>6 DEF WriteMap, Goto, Success
  <2>2. Live
    BY <2>1 DEF Live
  <2>3. FileKnown(seen[t].file) /\ DockerKnown(seen[t].docker)
    BY <1>3, <2>1, <2>2
  <2>4. pc'[t] \in Claimed \/ t = "main"
    BY <2>1
  <2>5. /\ FileKnown(seen[t].file)' /\ DockerKnown(seen[t].docker)'
        /\ FileKnown(applied.file)' /\ DockerKnown(applied.docker)'
    BY <1>3, <2>1, <2>2, <2>3, <2>4 DEF FileKnown, DockerKnown
  <2>6. 0 <= seen[t].docker
    BY <2>1 DEF Bounds, Versions
  <2>7. QED
    BY <1>1, <2>1, <2>5, <2>6
<1>7. QED
  BY <1>2, <1>4, <1>5, <1>6 DEF Update

\* What is pending for the other watcher stays so; of its own events a watcher that goes
\* on to the next one drops the head, and that was not pending inside an update.
LEMMA PendingNext ==
    ASSUME TypeOK, BatchInv, NEW t \in Watchers, pc[t] \in Working, NextEvent(t),
           ver' = ver, queue' = queue
    PROVE  /\ \A w \in Watchers \ {t} : Pending(w)' <=> Pending(w)
           /\ Pending(t) => \/ Pending(t)'
                            \/ pc[t] \notin Claimed /\ Head(batch[t]).ver = ver[t]
<1> USE DEF TypeOK
<1>1. /\ batch'[t] = Tail(batch[t]) /\ pc'[t] \notin Claimed
      /\ \A w \in Watchers \ {t} : batch'[w] = batch[w] /\ pc'[w] = pc[w]
  BY DEF NextEvent, Goto
<1>2. \A w \in Watchers \ {t} : Pending(w)' <=> Pending(w)
  BY <1>1, PendingSame
<1>3. batch[t] \in Seq(Event) /\ batch[t] # <<>>
  BY DEF BatchInv
<1>4. ASSUME Pending(t), pc[t] \in Claimed \/ Head(batch[t]).ver # ver[t]
      PROVE  Pending(t)'
  <2>1. CASE Has(queue[t], ver[t])
    BY <2>1 DEF Pending
  <2>2. CASE Has(Ahead(t), ver[t])
    <3>1. Has(Tail(batch[t]), ver[t])
      <4>1. CASE pc[t] \in Claimed
        BY <2>2, <4>1 DEF Ahead
      <4>2. CASE pc[t] \notin Claimed
        BY <1>3, <1>4, <2>2, <4>2, HasTail DEF Ahead
      <4>3. QED
        BY <4>1, <4>2
    <3>2. Ahead(t)' = Tail(batch[t])
      BY <1>1 DEF Ahead
    <3>3. QED
      BY <3>1, <3>2 DEF Pending
  <2>3. QED
    BY <1>4, <2>1, <2>2 DEF Pending
<1>5. QED
  BY <1>2, <1>4

\* Skipping an event is harmless unless the running update is past what it announces,
\* and then there is an excuse.
LEMMA TrackedSkip ==
    ASSUME TypeOK, BatchInv, Exclusion, InFlight, Bounds, Tracked,
           NEW t \in Watchers, Skip(t)
    PROVE  Tracked'
<1> USE DEF TypeOK
<1> SUFFICES ASSUME Live' PROVE Reading' /\ Wrote' /\ Settled'
  BY DEF Tracked
<1>1. /\ pc[t] = "enter" /\ running /\ NextEvent(t)
      /\ pc'[t] \in {"idle", "event"}
      /\ \A u \in Threads \ {t} : pc'[u] = pc[u]
      /\ UNCHANGED <<ver, file, queue, seen, applied, exiting>>
  BY DEF Skip, NextEvent, Goto, world
<1>2. Live /\ Reading /\ Wrote
  <2>1. excuses = {}
    BY DEF Skip, Live
  <2>2. Live
    BY <1>1, <2>1 DEF Live
  <2>3. QED
    BY <2>2 DEF Tracked
<1>3. PICK u \in Watchers \ {t} : pc[u] \in Claimed
  BY <1>1 DEF Bounds, RunningInv
<1>4. /\ \A v \in Threads \ {u} : pc'[v] \notin Claimed
      /\ pc'[u] = pc[u] /\ seen'[u] = seen[u]
  BY <1>1, <1>3 DEF Exclusion, OneWatcher, MainFirst
<1>5. ~TooLate(u, Head(batch[t]))
  BY <1>2, <1>3 DEF Skip, Live
<1>6. Head(batch[t]) \in Known(t)
  BY <1>1, HeadKnown
<1>7. /\ \A w \in Watchers \ {t} : Pending(w)' <=> Pending(w)
      /\ Pending(t) => Pending(t)' \/ Head(batch[t]).ver = ver[t]
  BY <1>1, PendingNext
<1>8. pc[u] \in {"list", "write", "unlock", "release"} /\ FileKnown(seen[u].file)
        => FileKnown(seen[u].file)'
  <2>1. CASE t = "docker"
    BY <1>1, <1>4, <1>7, <2>1 DEF FileKnown
  <2>2. CASE t = "file"
    <3>1. ASSUME pc[u] \in {"list", "write", "unlock", "release"},
                 Head(batch[t]).ver = ver.file
          PROVE  seen[u].file = ver.file
      <4>1. Head(batch[t]).kind # "docker"
        BY <1>6, <2>2 DEF Known
      <4>2. seen[u].file \notin 0..(ver.file - 1)
        BY <1>5, <3>1, <4>1 DEF TooLate
      <4>3. seen[u].file \in 0..ver.file /\ ver.file \in Nat
        BY <1>2, <3>1 DEF Bounds, Versions, Live
      <4>4. QED
        BY <4>2, <4>3
    <3>2. QED
      BY <1>1, <1>4, <1>7, <2>2, <3>1 DEF FileKnown
  <2>3. QED
    BY <2>1, <2>2
<1>9. pc[u] \in {"write", "unlock", "release"} /\ 0 <= seen[u].docker
          /\ DockerKnown(seen[u].docker)
        => DockerKnown(seen[u].docker)'
  <2>1. CASE t = "file"
    BY <1>1, <1>4, <1>7, <2>1 DEF DockerKnown
  <2>2. CASE t = "docker"
    <3>1. ASSUME pc[u] \in {"write", "unlock", "release"}, 0 <= seen[u].docker,
                 Head(batch[t]).ver = ver.docker
          PROVE  seen[u].docker = ver.docker
      <4>1. Head(batch[t]).kind = "docker"
        BY <1>6, <2>2 DEF Known
      <4>2. seen[u].docker \notin 0..(ver.docker - 1)
        BY <1>5, <3>1, <4>1 DEF TooLate
      <4>3. seen[u].docker <= ver.docker /\ ver.docker \in Nat /\ seen[u].docker \in Int
        BY <3>1 DEF Bounds, Versions, Version
      <4>4. QED
        BY <3>1, <4>2, <4>3
    <3>2. QED
      BY <1>1, <1>4, <1>7, <2>2, <3>1 DEF DockerKnown
  <2>3. QED
    BY <2>1, <2>2
<1>10. Reading'
  <2>1. pc[u] = "write" => 0 <= seen[u].docker
    BY DEF Bounds, Versions
  <2>2. QED
    BY <1>2, <1>4, <1>8, <1>9, <2>1 DEF Reading
<1>11. Wrote'
  <2>1. UNCHANGED <<ver, file, applied>>
    BY <1>1
  <2>2. QED
    BY <1>2, <1>4, <1>8, <1>9, <2>1 DEF Wrote
<1>12. Settled'
  BY <1>3, <1>4 DEF Settled
<1>13. QED
  BY <1>10, <1>11, <1>12

\* When the flag is reset, what the update wrote is in force.
LEMMA TrackedRelease ==
    ASSUME TypeOK, BatchInv, Exclusion, Tracked, NEW t \in Watchers, Release(t)
    PROVE  Tracked'
<1> USE DEF TypeOK
<1> SUFFICES ASSUME Live' PROVE Reading' /\ Wrote' /\ Settled'
  BY DEF Tracked
<1>1. /\ pc[t] = "release" /\ NextEvent(t)
      /\ pc'[t] \in {"idle", "event"}
      /\ \A u \in Threads \ {t} : pc'[u] = pc[u]
      /\ UNCHANGED <<ver, file, queue, applied, exiting, excuses>>
  BY DEF Release, NextEvent, Goto, world
<1>2. Wrote
  BY <1>1 DEF Live, Tracked
<1>3. \A u \in Threads : pc'[u] \notin Claimed
  BY <1>1 DEF Exclusion, OneWatcher, MainFirst
<1>4. \A w \in Watchers : Pending(w) => Pending(w)'
  BY <1>1, PendingNext
<1>5. Settled'
  <2>1. Pending("file") => Pending("file")' /\ FileKnown(applied.file)'
    BY <1>4 DEF FileKnown
  <2>2. ASSUME ~Pending("file"), file = "empty" PROVE FileKnown(applied.file)'
    BY <1>1, <1>2, <2>2 DEF Wrote, FileKnown
  <2>3. ASSUME ~Pending("file"), file = "good"
        PROVE  FileKnown(applied.file)' /\ DockerKnown(applied.docker)'
    <3>1. /\ seen[t].file = ver.file /\ applied = seen[t]
          /\ DockerKnown(seen[t].docker)
      BY <1>1, <1>2, <2>3 DEF Wrote, FileKnown
    <3>2. QED
      BY <1>1, <1>4, <3>1 DEF FileKnown, DockerKnown
  <2>4. QED
    BY <1>1, <2>1, <2>2, <2>3 DEF Settled
<1>6. QED
  BY <1>3, <1>5 DEF Reading, Wrote

\* Every step of a watcher keeps what is tracked.
LEMMA TrackedWatch ==
    ASSUME TypeOK, BatchInv, Exclusion, InFlight, Bounds, Tracked,
           NEW t \in Watchers, Watch(t)
    PROVE  Tracked'
<1> USE DEF TypeOK, world
<1>1. CASE SetUp(t) \/ SkipNotify(t) \/ WaitTimeout(t) \/ Unlock(t)
  <2>1. /\ UNCHANGED <<ver, file, queue, batch, seen, applied, excuses, exiting>>
        /\ \/ pc[t] = "setup" /\ pc' = [pc EXCEPT ![t] = "idle"]
           \/ pc[t] = "event" /\ pc' = [pc EXCEPT ![t] = "enter"]
           \/ pc[t] = "wait" /\ pc' = [pc EXCEPT ![t] = "relock"]
           \/ pc[t] = "unlock" /\ pc' = [pc EXCEPT ![t] = "release"]
    BY <1>1 DEF SetUp, SkipNotify, WaitTimeout, Unlock, Goto
  <2>2. Live' => Live
    BY <2>1 DEF Live
  <2>3. \A u \in Threads :
              /\ pc'[u] \in Claimed <=> pc[u] \in Claimed
              /\ pc'[u] \in {"list", "write"} => pc'[u] = pc[u]
              /\ pc'[u] \in {"unlock", "release"} => pc[u] \in {"unlock", "release"}
    BY <2>1
  <2>4. QED
    BY <2>1, <2>2, <2>3, TrackedSame
<1>2. CASE NotifyWaiter(t)
  <2>1. /\ UNCHANGED <<ver, file, queue, batch, seen, applied, excuses, exiting>>
        /\ pc[t] = "event"
        /\ pc' = [u \in Threads |-> IF u = t THEN "enter"
                                    ELSE IF pc[u] = "wait" THEN "relock" ELSE pc[u]]
    BY <1>2 DEF NotifyWaiter
  <2>2. Live' => Live
    BY <2>1 DEF Live
  <2>3. \A u \in Threads :
              /\ pc'[u] \in Claimed <=> pc[u] \in Claimed
              /\ pc'[u] \in {"list", "write"} => pc'[u] = pc[u]
              /\ pc'[u] \in {"unlock", "release"} => pc[u] \in {"unlock", "release"}
    BY <2>1
  <2>4. QED
    BY <2>1, <2>2, <2>3, TrackedSame
<1>3. CASE PollTimeout(t)
  <2>1. UNCHANGED <<ver, file, queue, batch, seen, applied, pc, excuses, exiting>>
    BY <1>3 DEF PollTimeout, vars, process
  <2>2. Live' => Live
    BY <2>1 DEF Live
  <2>3. QED
    BY <2>1, <2>2, TrackedSame
<1>4. CASE Claim(t) \/ Lock(t)
  <2>1. /\ pc'[t] \in {"lock", "load"}
        /\ \A u \in Threads \ {t} : pc'[u] = pc[u] /\ pc[u] \notin Claimed
    BY <1>4 DEF Claim, Lock, Goto, Exclusion, FlagInv, OneWatcher, MainFirst
  <2>2. \A u \in Threads : pc'[u] \notin {"list", "write", "unlock", "release"}
    BY <2>1 DEF Claimed, UpdateSteps
  <2>3. Reading' /\ Wrote'
    BY <2>2 DEF Reading, Wrote
  <2>4. pc'[t] \in Claimed
    BY <2>1 DEF Claimed, UpdateSteps
  <2>5. Settled'
    BY <2>4 DEF Settled
  <2>6. QED
    BY <2>3, <2>5 DEF Tracked
<1>5. CASE AbortUpdate(t) \/ Leave(t)
  <2>1. ~Live'
    BY <1>5 DEF AbortUpdate, Leave, Live
  <2>2. QED
    BY <2>1 DEF Tracked
<1>6. CASE ReadEvents(t)
  <2>0. PICK n \in IF t = "file" THEN {Len(queue[t])} ELSE 1..Len(queue[t]) :
          /\ batch' = [batch EXCEPT ![t] = SubSeq(queue[t], 1, n)]
          /\ queue' = [queue EXCEPT ![t] = SubSeq(@, n + 1, Len(@))]
    BY <1>6 DEF ReadEvents
  <2>1. n \in 1..Len(queue[t])
    <3>1. Len(queue[t]) \in Nat \ {0}
      BY <1>6, EmptySeq DEF ReadEvents
    <3>2. QED
      BY <2>0, <3>1
  <2>2. /\ pc[t] = "idle" /\ pc' = [pc EXCEPT ![t] = "event"]
        /\ UNCHANGED <<ver, file, seen, applied, excuses, exiting>>
    BY <1>6 DEF ReadEvents, Goto
  <2>3. Live' => Live
    BY <2>2 DEF Live
  <2>4. \A w \in Watchers \ {t} : Pending(w)' <=> Pending(w)
    BY <2>0, <2>2, PendingSame
  <2>5. Pending(t) => Pending(t)'
    <3>1. Ahead(t) = <<>>
      BY <2>2 DEF Ahead, Bounds, IdleInv
    <3>2. Pending(t) => Has(queue[t], ver[t])
      BY <3>1, HasNone DEF Pending
    <3>3. Has(queue[t], ver[t]) =>
            \/ Has(SubSeq(queue[t], 1, n), ver[t])
            \/ Has(SubSeq(queue[t], n + 1, Len(queue[t])), ver[t])
      BY <2>1, HasSplit
    <3>4. /\ queue'[t] = SubSeq(queue[t], n + 1, Len(queue[t]))
          /\ Ahead(t)' = SubSeq(queue[t], 1, n)
      BY <2>0, <2>2 DEF Ahead
    <3>5. QED
      BY <2>2, <3>2, <3>3, <3>4 DEF Pending
  <2>6. /\ \A v : FileKnown(v) => FileKnown(v)'
        /\ \A v : DockerKnown(v) => DockerKnown(v)'
        /\ Pending("file") => Pending("file")'
    BY <2>2, <2>4, <2>5 DEF FileKnown, DockerKnown
  <2>7. \A u \in Threads : pc'[u] \in Claimed \/ pc[u] \in Claimed => pc'[u] = pc[u]
    BY <2>2
  <2>8. Reading /\ Wrote /\ Settled => Reading' /\ Wrote' /\ Settled'
    <3>1. Reading => Reading'
      BY <2>2, <2>6, <2>7 DEF Reading
    <3>2. Wrote => Wrote'
      BY <2>2, <2>6, <2>7 DEF Wrote
    <3>3. Settled => Settled'
      BY <2>2, <2>6, <2>7 DEF Settled
    <3>4. QED
      BY <3>1, <3>2, <3>3
  <2>9. QED
    BY <2>3, <2>8 DEF Tracked
<1>7. QED
  BY <1>1, <1>2, <1>3, <1>4, <1>5, <1>6, TrackedSkip, TrackedRelease DEF Watch

\* When nothing is left to handle in a daemon that runs, its map is built from the
\* present file and containers, or there is a named excuse: for every daemon, whatever
\* the watchers skip and whenever changes arrive.
THEOREM UpToDate == Spec => []FreshWhenQuiet
<1> DEFINE Inv == InFlight /\ ReadSoFar /\ Bounds /\ Tracked
<1>1. Init => Inv
  <2>1. Init => InFlight
    BY EmptySeq DEF Init, ProcessInit, InFlight
  <2>2. Init => ReadSoFar /\ Bounds
    BY DEF Init, ProcessInit, ReadSoFar, Bounds, RunningInv, IdleInv, Versions
  <2>3. Init => Tracked
    BY DEF Init, ProcessInit, Tracked, Reading, Wrote, Settled
  <2>4. QED
    BY <2>1, <2>2, <2>3
<1>2. TypeOK /\ BatchInv /\ Exclusion /\ Inv /\ [Next]_vars => Inv'
  <2> SUFFICES ASSUME TypeOK, BatchInv, Exclusion, Inv, [Next]_vars PROVE Tracked'
    BY InFlightNext, ReadSoFarNext, BoundsNext
  <2>1. CASE UNCHANGED vars
    <3>1. UNCHANGED <<ver, file, queue, batch, seen, applied, pc, excuses, exiting>>
      BY <2>1 DEF vars, process, world
    <3>2. Live' => Live
      BY <3>1 DEF Live
    <3>3. QED
      BY <3>1, <3>2, TrackedSame
  <2>2. CASE Next
    BY <2>2, TrackedOutside, TrackedUpdate, TrackedWatch DEF Next
  <2>3. QED
    BY <2>1, <2>2
<1>3. TypeOK /\ Inv => FreshWhenQuiet
  <2> SUFFICES ASSUME TypeOK, Inv, Quiet, excuses = {} PROVE Fresh
    BY DEF FreshWhenQuiet
  <2>1. Live /\ \A u \in Threads : pc[u] \notin Claimed
    BY DEF Quiet, Live
  <2>2. ~Pending("file") /\ ~Pending("docker")
    <3>1. \A t \in Watchers : queue[t] = <<>> /\ Ahead(t) = <<>>
      BY DEF Quiet, Ahead, Bounds, IdleInv
    <3>2. QED
      BY <3>1, HasNone DEF Pending
  <2>3. /\ file \in {"good", "empty"} => applied.file = ver.file
        /\ file = "good" => applied.docker = ver.docker
    BY <2>1, <2>2 DEF Tracked, Settled, FileKnown, DockerKnown
  <2>4. applied \in Version /\ ver \in Version
    BY DEF TypeOK
  <2>5. file = "good" => applied = ver
    BY <2>3, <2>4 DEF Version
  <2>6. QED
    BY <2>3, <2>5 DEF Fresh
<1>4. QED
  BY <1>1, <1>2, <1>3, TypeCorrectness, ExclusionInit, ExclusionNext, PTL DEF Spec

-----------------------------------------------------------------------------
(***************************************************************************)
(* The map only moves forward.  What an update has read is at least as new *)
(* as what the map was built from, because nobody else writes the map      *)
(* between its reading and its writing: main updates before it starts the  *)
(* watchers, and a watcher has the flag and mtx from its reading to its    *)
(* writing.  An attempt that failed gave mtx up while it waited on cv, but *)
(* the next one starts over with a reading.                                *)
(***************************************************************************)
Forward ==
    /\ applied.file <= ver.file /\ applied.docker <= ver.docker
    /\ \A t \in Threads :
          /\ pc[t] \in {"list", "write"} => applied.file <= seen[t].file
          /\ pc[t] = "write" => applied.docker <= seen[t].docker

\* A BPF map that was built from one version of the file and of the containers is not
\* built from an older one later (update_policy_with_file of the three daemons), unless
\* it is emptied in between.
NeverRollsBack ==
    [][\/ applied' = Cleared
       \/ applied.file <= applied'.file /\ applied.docker <= applied'.docker]_vars

\* Where nobody starts or continues to read, and the map is kept or emptied.
LEMMA ForwardKept ==
    ASSUME TypeOK, Versions, Forward,
           applied' = applied \/ applied' = Cleared,
           ver' \in Version, ver.file <= ver'.file, ver.docker <= ver'.docker,
           \A u \in Threads : pc'[u] \in {"list", "write"} =>
              pc'[u] = pc[u] /\ seen'[u] = seen[u]
    PROVE  Forward'
<1>1. /\ ver.file \in Nat /\ ver.docker \in Nat
      /\ ver'.file \in Int /\ ver'.docker \in Int
  BY DEF Versions, Version
<1>2. applied.file \in Int /\ applied.docker \in Int
  BY DEF TypeOK, Version
<1>3. applied' = Cleared => applied'.file = -1 /\ applied'.docker = -1
  BY DEF Cleared
<1>4. applied'.file <= ver'.file /\ applied'.docker <= ver'.docker
  BY <1>1, <1>2, <1>3 DEF Forward
<1>5. ASSUME NEW u \in Threads, pc'[u] \in {"list", "write"}
      PROVE  /\ applied'.file <= seen'[u].file
             /\ pc'[u] = "write" => applied'.docker <= seen'[u].docker
  <2>1. pc'[u] = pc[u] /\ seen'[u] = seen[u]
    BY <1>5
  <2>2. /\ seen[u].file \in 0..ver.file /\ applied.file <= seen[u].file
        /\ pc[u] = "write" => /\ seen[u].docker \in 0..ver.docker
                              /\ applied.docker <= seen[u].docker
    BY <1>5, <2>1 DEF Versions, Forward
  <2>3. QED
    BY <1>3, <2>1, <2>2
<1>6. QED
  BY <1>4, <1>5 DEF Forward

\* Changes of the world, signals, restarts and the steps of main outside its update.
LEMMA ForwardOutside ==
    ASSUME TypeOK, Versions, Forward, Environment \/ Restart \/ Down \/ PollError \/ Main
    PROVE  Forward' /\ (applied' = applied \/ applied' = Cleared)
<1>1. ver \in Version /\ ver.file <= ver.file /\ ver.docker <= ver.docker
  BY DEF TypeOK, Version
<1>2. ASSUME NEW kind \in FileChanges, FileChange(kind) PROVE Forward' /\ applied' = applied
  <2>1. applied' = applied /\ seen' = seen /\ pc' = pc
    BY <1>2 DEF FileChange
  <2>2. ver' \in Version /\ ver.file <= ver'.file /\ ver.docker <= ver'.docker
    BY <1>1, <1>2, WorldCounts, VersionGrows
  <2>3. QED
    BY <2>1, <2>2, ForwardKept
<1>3. ASSUME NEW kind \in ContainerChanges, ContainerChange(kind)
      PROVE  Forward' /\ applied' = applied
  <2>1. applied' = applied /\ seen' = seen /\ pc' = pc
    BY <1>3 DEF ContainerChange
  <2>2. ver' \in Version /\ ver.file <= ver'.file /\ ver.docker <= ver'.docker
    BY <1>1, <1>3, WorldCounts, VersionGrows
  <2>3. QED
    BY <2>1, <2>2, ForwardKept
<1>4. ASSUME ver' = ver, applied' = applied \/ applied' = Cleared,
             \A u \in Threads : pc'[u] \in {"list", "write"} =>
                pc'[u] = pc[u] /\ seen'[u] = seen[u]
      PROVE  Forward'
  BY <1>1, <1>4, ForwardKept
<1>5. CASE Interrupt
  <2>1. ver' = ver /\ applied' = applied /\ seen' = seen
    BY <1>5 DEF Interrupt, world
  <2>2. \A u \in Threads : pc'[u] \in {"list", "write"} => pc'[u] = pc[u]
    BY <1>5 DEF Interrupt
  <2>3. QED
    BY <1>4, <2>1, <2>2
<1>6. CASE Kill \/ Restart
  <2>1. ver' = ver /\ applied' = Cleared /\ \A u \in Threads : pc'[u] \in {"dead", "load", "off"}
    BY <1>6 DEF Kill, Restart, world
  <2>2. QED
    BY <1>4, <2>1
<1>7. CASE Down
  <2>1. ver' = ver /\ applied' = applied /\ pc' = pc /\ seen' = seen
    BY <1>7 DEF Down, vars, process, world
  <2>2. QED
    BY <1>4, <2>1
<1>8. CASE PollError \/ NoFileAtStart \/ StopPolling \/ Join
  <2>1. /\ ver' = ver /\ applied' = applied /\ seen' = seen
        /\ \E l \in {"join", "spawn", "done"} : pc' = [pc EXCEPT !["main"] = l]
    BY <1>8 DEF PollError, NoFileAtStart, StopPolling, Join, Goto, world
  <2>2. \A u \in Threads : pc'[u] \in {"list", "write"} => pc'[u] = pc[u]
    BY <2>1 DEF TypeOK
  <2>3. QED
    BY <1>4, <2>1, <2>2
<1>9. CASE Spawn
  <2>1. ver' = ver /\ applied' = applied /\ \A u \in Threads : pc'[u] \in {"poll", "setup"}
    BY <1>9 DEF Spawn, world
  <2>2. QED
    BY <1>4, <2>1
<1>10. QED
  BY <1>2, <1>3, <1>5, <1>6, <1>7, <1>8, <1>9 DEF Environment, Main

\* A watcher outside update_policy_with_file touches neither the map nor a reading.
LEMMA ForwardWatch ==
    ASSUME TypeOK, Versions, Forward, NEW t \in Watchers, Watch(t)
    PROVE  Forward' /\ applied' = applied
<1>1. applied' = applied /\ ver' = ver
  BY DEF Watch, SetUp, PollTimeout, ReadEvents, NotifyWaiter, SkipNotify, Claim, Skip,
     Lock, AbortUpdate, WaitTimeout, Unlock, Release, Leave, vars, process, world
<1>2. \A u \in Threads : pc'[u] \in {"list", "write"} => pc'[u] = pc[u] /\ seen'[u] = seen[u]
  <2> DEFINE Same == \A u \in Threads : pc'[u] \in {"list", "write"} =>
                        pc'[u] = pc[u] /\ seen'[u] = seen[u]
  <2>0. ASSUME NEW l \in {"idle", "event", "enter", "lock", "load", "relock", "unlock",
                          "release", "done"},
               pc' = [pc EXCEPT ![t] = l],
               seen' = seen \/ seen' = [seen EXCEPT ![t] = Cleared]
        PROVE  Same
    BY <2>0 DEF TypeOK
  <2>1. CASE SetUp(t) \/ ReadEvents(t) \/ SkipNotify(t) \/ Claim(t)
    BY <2>0, <2>1 DEF SetUp, ReadEvents, SkipNotify, Claim, Goto
  <2>2. CASE Lock(t) \/ AbortUpdate(t) \/ WaitTimeout(t) \/ Unlock(t) \/ Leave(t)
    BY <2>0, <2>2 DEF Lock, AbortUpdate, WaitTimeout, Unlock, Leave, Goto
  <2>3. CASE Skip(t) \/ Release(t)
    <3>1. /\ pc' = [pc EXCEPT ![t] = IF Len(batch[t]) > 1 THEN "event" ELSE "idle"]
          /\ seen' = seen \/ seen' = [seen EXCEPT ![t] = Cleared]
      BY <2>3 DEF Skip, Release, NextEvent, Goto
    <3>2. QED
      BY <2>0, <3>1
  <2>4. CASE NotifyWaiter(t)
    BY <2>4 DEF NotifyWaiter
  <2>5. CASE PollTimeout(t)
    BY <2>5 DEF PollTimeout, vars, process
  <2>6. QED
    BY <2>1, <2>2, <2>3, <2>4, <2>5 DEF Watch
<1>3. ver \in Version /\ ver.file <= ver.file /\ ver.docker <= ver.docker
  BY DEF TypeOK, Version
<1>4. QED
  BY <1>1, <1>2, <1>3, ForwardKept

\* An update reads what is at least as new as the map, and writes what it has read.
LEMMA ForwardUpdate ==
    ASSUME TypeOK, Exclusion, Versions, Forward, NEW t \in Threads, Update(t)
    PROVE  /\ Forward'
           /\ \/ applied' = Cleared
              \/ applied.file <= applied'.file /\ applied.docker <= applied'.docker
<1>1. /\ ver' = ver /\ ver.file \in Nat /\ ver.docker \in Nat
      /\ applied.file \in Int /\ applied.docker \in Int
      /\ applied.file <= ver.file /\ applied.docker <= ver.docker
  <2>1. ver' = ver
    BY UpdatesAlone
  <2>2. applied.file \in Int /\ applied.docker \in Int
    BY DEF TypeOK, Version
  <2>3. QED
    BY <2>1, <2>2 DEF Versions, Forward
<1>2. \A u \in Threads \ {t} : pc'[u] \notin {"list", "write"}
  BY UpdatesAlone DEF Claimed, UpdateSteps
\* Only what the thread that updates has read is left to look at.
<1>3. ASSUME applied'.file <= ver.file, applied'.docker <= ver.docker,
             pc'[t] \in {"list", "write"} => applied'.file <= seen'[t].file,
             pc'[t] = "write" => applied'.docker <= seen'[t].docker
      PROVE  Forward'
  BY <1>1, <1>2, <1>3 DEF Forward
<1>4. Cleared.file = -1 /\ Cleared.docker = -1
  BY DEF Cleared
<1>5. CASE LoadFile(t)
  <2>1. seen'[t].file = ver.file /\ pc'[t] # "write"
    <3>1. seen' = [seen EXCEPT ![t] = [file |-> ver.file, docker |-> -1]]
      BY <1>5 DEF LoadFile
    <3>2. pc'[t] # "write"
      BY <1>5 DEF LoadFile, Throw, Failure, Success, Goto, TypeOK
    <3>3. QED
      BY <3>1, <3>2 DEF TypeOK
  <2>2. \/ applied' = applied
        \/ applied' = Cleared
        \/ applied' = [file |-> ver.file, docker |-> ver.docker]
    BY <1>5 DEF LoadFile
  <2>3. applied'.file <= ver.file /\ applied'.docker <= ver.docker
    BY <1>1, <1>4, <2>2
  <2>4. QED
    BY <1>1, <1>3, <2>1, <2>2, <2>3
<1>6. CASE ListContainers(t)
  <2>1. /\ applied' = applied /\ pc[t] = "list"
        /\ seen' = [seen EXCEPT ![t].docker = ver.docker]
    BY <1>6 DEF ListContainers
  <2>2. seen'[t].file = seen[t].file /\ seen'[t].docker = ver.docker
    BY <2>1 DEF TypeOK, Version
  <2>3. applied.file <= seen[t].file
    BY <2>1 DEF Forward
  <2>4. QED
    BY <1>1, <1>3, <2>1, <2>2, <2>3
<1>7. CASE ListNothing(t)
  <2>1. applied' = applied /\ pc'[t] \notin {"list", "write"}
    BY <1>7 DEF ListNothing, Success, Failure, Goto, TypeOK
  <2>2. QED
    BY <1>1, <1>3, <2>1
<1>8. CASE WriteMap(t)
  <2>1. pc[t] = "write" /\ applied' = seen[t] /\ pc'[t] \notin {"list", "write"}
    BY <1>8 DEF WriteMap, Success, Goto, TypeOK
  <2>2. /\ seen[t].file \in 0..ver.file /\ seen[t].docker \in 0..ver.docker
        /\ applied.file <= seen[t].file /\ applied.docker <= seen[t].docker
    BY <2>1 DEF Versions, Forward
  <2>3. QED
    BY <1>1, <1>3, <2>1, <2>2
<1>9. QED
  BY <1>5, <1>6, <1>7, <1>8 DEF Update

\* The map is never built from an older version of the file or of the containers than
\* before, unless it was emptied: no update, however long it waited for its next
\* attempt, overwrites what a later reading wrote.
THEOREM MapMovesForward == Spec => NeverRollsBack
<1> DEFINE Inv == ReadSoFar /\ Bounds /\ Forward
           Step == \/ applied' = Cleared
                   \/ applied.file <= applied'.file /\ applied.docker <= applied'.docker
<1>1. Init => Inv
  <2>1. Init => ReadSoFar /\ Bounds
    BY DEF Init, ProcessInit, ReadSoFar, Bounds, RunningInv, IdleInv, Versions
  <2>2. Init => Forward
    BY DEF Init, ProcessInit, Forward, Cleared
  <2>3. QED
    BY <2>1, <2>2
<1>2. TypeOK /\ BatchInv /\ Exclusion /\ Inv /\ [Next]_vars => Forward' /\ [Step]_vars
  <2> SUFFICES ASSUME TypeOK, Exclusion, Versions, Forward, [Next]_vars
               PROVE  Forward' /\ [Step]_vars
    BY DEF Bounds
  <2>1. applied' = applied => Step
    BY DEF TypeOK, Version
  <2>2. CASE UNCHANGED vars
    BY <2>2 DEF vars, process, world, Forward
  <2>3. CASE Next
    BY <2>1, <2>3, ForwardOutside, ForwardWatch, ForwardUpdate DEF Next
  <2>4. QED
    BY <2>2, <2>3
<1>3. TypeOK /\ BatchInv /\ Exclusion /\ Inv /\ [Next]_vars => Inv'
  BY <1>2, ReadSoFarNext, BoundsNext
<1>4. QED
  BY <1>1, <1>2, <1>3, TypeCorrectness, ExclusionInit, ExclusionNext, PTL
     DEF Spec, NeverRollsBack

-----------------------------------------------------------------------------
(***************************************************************************)
(* Nobody is locked out, and nothing runs after main has joined.           *)
(***************************************************************************)
\* Thread t is about to lock mtx: in update_policy_on_event, or around notify_one.
WantsMutex(t) ==
    \/ pc[t] \in {"lock", "relock"}
    \/ pc[t] = "event" /\ Head(batch[t]).kind # "delete"

\* Whoever finds mtx taken is a watcher that wants to notify, outside any update, and
\* the owner is inside one, at a step that takes no lock and waits for no thread: an
\* update never waits for another one, and there is no circle of waiting threads.  (What
\* a notifier does while it owns mtx itself is one step, notify_one, which never waits.)
NoLockout ==
    \A t \in Watchers : WantsMutex(t) /\ mtx # NoThread =>
        /\ mtx # t /\ pc[mtx] \in Locked
        /\ pc[t] = "event"

\* Once main has joined the watchers, no update is under way, the flag is down and mtx
\* is free: only after that main destroys the BPF maps (lsm/enforcement.cpp:1007,
\* raw_tracepoint.cpp:552, tracepoint.cpp:635), so no update writes to a map that is gone.
JoinedIsOver ==
    pc["main"] = "done" =>
        /\ ~running /\ mtx = NoThread
        /\ \A t \in Watchers : pc[t] \in {"off", "done"}

\* Of two watchers the one that wants mtx to update is the one that has the flag, so
\* that the other is not inside an update and does not own mtx.
THEOREM UpdatesNeverWaitForEachOther == Spec => []NoLockout
<1>1. TypeOK /\ Exclusion => NoLockout
  <2> SUFFICES ASSUME TypeOK, Exclusion, NEW t \in Watchers, WantsMutex(t), mtx # NoThread
               PROVE  mtx # t /\ pc[mtx] \in Locked /\ pc[t] = "event"
    BY DEF NoLockout
  <2>1. PICK u \in Watchers : mtx = u
    BY DEF TypeOK
  <2>2. pc[u] \in Locked /\ pc[u] \in Claimed
    BY <2>1 DEF Exclusion, MutexInv
  <2>3. CASE pc[t] \in {"lock", "relock"}
    <3>1. pc[t] \in Claimed
      BY <2>3
    <3>2. t = u
      BY <2>2, <3>1 DEF Exclusion, OneWatcher
    <3>3. QED
      BY <2>2, <2>3, <3>2
  <2>4. CASE pc[t] = "event"
    BY <2>1, <2>2, <2>4
  <2>5. QED
    BY <2>3, <2>4 DEF WantsMutex
<1>2. QED
  BY <1>1, ExclusionInit, ExclusionNext, TypeCorrectness, PTL DEF Spec

\* Main joins watchers that have left their loops, or were never started; while main
\* is done nothing but a restart moves a thread.
THEOREM NothingAfterJoin == Spec => []JoinedIsOver
<1> DEFINE Ended == pc["main"] = "done" => \A t \in Watchers : pc[t] \in {"off", "done"}
           Inv == ReadSoFar /\ Bounds /\ Ended
<1>1. Init => Inv
  <2>1. Init => ReadSoFar /\ Bounds
    BY DEF Init, ProcessInit, ReadSoFar, Bounds, RunningInv, IdleInv, Versions
  <2>2. Init => Ended
    BY DEF Init, ProcessInit
  <2>3. QED
    BY <2>1, <2>2
<1>2. TypeOK /\ Exclusion /\ Ended /\ [Next]_vars => Ended'
  <2> SUFFICES ASSUME TypeOK, Exclusion, Ended, [Next]_vars, pc'["main"] = "done"
               PROVE  \A t \in Watchers : pc'[t] \in {"off", "done"}
    OBVIOUS
  <2>1. CASE pc' = pc
    BY <2>1
  <2>2. CASE Environment \/ Restart \/ Down
    <3>1. CASE Interrupt
      BY <3>1 DEF Interrupt, Alive, TypeOK
    <3>2. CASE Kill \/ Restart
      BY <3>2 DEF Kill, Restart
    <3>3. CASE pc' = pc
      BY <3>3
    <3>4. QED
      BY <2>2, <3>1, <3>2, <3>3 DEF Environment, FileChange, ContainerChange, Down, vars, process
  <2>3. CASE PollError \/ NoFileAtStart \/ Spawn \/ StopPolling
    BY <2>3 DEF PollError, NoFileAtStart, Spawn, StopPolling, Goto, TypeOK
  <2>4. CASE Join
    BY <2>4 DEF Join, Goto
  <2>5. ASSUME NEW t \in Threads, Update(t) PROVE FALSE
    <3>1. pc[t] \in UpdateSteps
      BY <2>5 DEF Update, LoadFile, ListContainers, ListNothing, WriteMap
    <3>2. CASE t = "main"
      BY <2>5, <3>2 DEF Update, LoadFile, ListContainers, ListNothing, WriteMap, Goto, Success,
         Failure, Throw, TypeOK
    <3>3. CASE t \in Watchers
      <4>1. pc'["main"] = pc["main"]
        BY <2>5, <3>3, UpdatesAlone
      <4>2. QED
        BY <3>1, <3>3, <4>1
    <3>4. QED
      BY <3>2, <3>3
  <2>6. ASSUME NEW t \in Watchers, Watch(t) PROVE FALSE
    <3>1. pc[t] \notin {"off", "done"}
      BY <2>6 DEF Watch, SetUp, PollTimeout, ReadEvents, NotifyWaiter, SkipNotify, Claim, Skip,
         Lock, AbortUpdate, WaitTimeout, Unlock, Release, Leave
    <3>2. pc'["main"] = pc["main"]
      BY <2>6 DEF Watch, SetUp, PollTimeout, ReadEvents, NotifyWaiter, SkipNotify, Claim, Skip,
         Lock, AbortUpdate, WaitTimeout, Unlock, Release, Leave, NextEvent, Goto, vars, process,
         TypeOK
    <3>3. QED
      BY <3>1, <3>2
  <2>7. QED
    BY <2>1, <2>2, <2>3, <2>4, <2>5, <2>6 DEF Next, Main, vars, process
<1>3. TypeOK /\ Exclusion /\ Inv => JoinedIsOver
  <2> SUFFICES ASSUME TypeOK, Exclusion, Inv, pc["main"] = "done"
               PROVE  ~running /\ mtx = NoThread
    BY DEF JoinedIsOver
  <2>1. \A t \in Watchers : pc[t] \notin Claimed
    OBVIOUS
  <2>2. ~running
    BY <2>1 DEF Bounds, RunningInv
  <2>3. \A t \in Watchers : mtx # t
    BY <2>1 DEF Exclusion, MutexInv
  <2>4. QED
    BY <2>2, <2>3 DEF TypeOK
<1>4. TypeOK /\ BatchInv /\ Exclusion /\ Inv /\ [Next]_vars => Inv'
  BY <1>2, ReadSoFarNext, BoundsNext
<1>5. QED
  BY <1>1, <1>3, <1>4, TypeCorrectness, ExclusionInit, ExclusionNext, PTL DEF Spec

=============================================================================
