-------------------------- MODULE RawMonitorProofs --------------------------
(***************************************************************************)
(* RawMonitor for any containers, process numbers, policies and CPUs: its  *)
(* types, nothing unaccounted for in the maps, what gaps there may be in   *)
(* the watch over a container that stays on the list, and everyone the     *)
(* policy names watched after an update that went well.                    *)
(***************************************************************************)
EXTENDS RawMonitor, TLAPS

\* What each phase of an update leaves empty.
PhaseInv ==
    /\ pc # "list" => /\ asking = {} /\ answers = {} /\ looking = {}
                      /\ inodes = [c \in Containers |-> NotRead]
    /\ pc = "list" => containers = {} /\ todo = {}
    /\ pc = "idle" => old = {} /\ todo = {}
    /\ pc # "cgroup" => adding = {}

\* A cgroup is made once: of the entries only the container's own has it, unless a
\* list was mixed up.
OwnInv ==
    /\ \A c \in Running : where[c].cgroup \in 1..born
    /\ \A c, d \in Running : where[c].cgroup = where[d].cgroup => c = d
    /\ "mixed" \notin excuses =>
         /\ \A e \in containers \cup old : e.cgroup \in 1..born \/ e.cgroup \notin Cgroups
         /\ \A c \in Running, e \in containers \cup old :
              e.cgroup = where[c].cgroup => e = Entry(c)

\* The same of the list being made: a cgroup read goes to the first entry of its id.
DraftInv ==
    /\ asking # {} => \A c \in Containers : inodes[c] = NotRead
    /\ \A c \in Containers : inodes[c] \in (1..born) \cup {NotRead}
    /\ \A c \in Containers : inodes[c] # NotRead => \E a \in answers : a.id = c
    /\ \A a \in answers : \E b \in answers : b.id = a.id /\ b.first
    /\ "mixed" \notin excuses =>
         \A d \in Running, c \in Containers : inodes[c] = where[d].cgroup =>
            c = d /\ \A a \in answers : a.id = c /\ a.first => a.pid = where[c].pid

\* All that goes is deleted before the first entry is added.
OrderInv == pc \in {"edit", "cgroup"} /\ (containers # todo \/ adding # {}) => old \subseteq containers

\* An update that could do all it wanted so far.
Plan ==
    /\ \A c \in Running : Named(c) => Entry(c) \in containers
    /\ \A e \in containers \ todo : e.pid \in pids /\ e.cgroup \in cgroups
    /\ \A e \in adding : e.pid \in pids
PlanInv == pc \in {"edit", "cgroup"} /\ intact => Plan

\* The list of such an update, as far as it has been made.
DraftPlan ==
    /\ \A i \in asking : i[1] \in Running
    /\ \A c \in Running : Named(c) =>
         (\E i \in asking : i[1] = c) \/ (\E a \in answers : a.id = c)
    /\ \A a \in answers :
         /\ a.id \in Running /\ a.pid = where[a.id].pid
         /\ a.id \in looking \/ inodes[a.id] = where[a.id].cgroup
DraftPlanInv == pc = "list" /\ intact => DraftPlan

Inv ==
    /\ TypeOK
    /\ PhaseInv
    /\ OwnInv
    /\ DraftInv
    /\ OrderInv
    /\ PlanInv
    /\ DraftPlanInv
    /\ NothingElse
    /\ WatchedWhenSettled

-----------------------------------------------------------------------------
LEMMA RunningPlace ==
    ASSUME TypeOK, NEW c \in Running
    PROVE  /\ where[c] \in [pid : Pids, cgroup : Cgroups]
           /\ c \in Containers
BY DEF TypeOK, Running, Places

LEMMA EntryType ==
    ASSUME TypeOK, NEW c \in Running
    PROVE  Entry(c) \in Entries
BY RunningPlace DEF Entry, Entries

LEMMA InspectionType ==
    ASSUME NEW i \in Inspections
    PROVE  i[1] \in Running /\ i[2] \in file /\ i[1] \in i[2]
BY DEF Inspections

\* An entry of a list is an answer with the cgroup read for it or a stray one.
LEMMA ListingEntry ==
    ASSUME NEW stray \in [Unset -> Strays], NEW e \in Listing(stray)
    PROVE  \E a \in answers :
             /\ e = [id |-> a.id, pid |-> a.pid, cgroup |-> e.cgroup]
             /\ \/ a \in Unset /\ e.cgroup = stray[a] /\ stray[a] \in Strays
                \/ a.first /\ inodes[a.id] # NotRead /\ e.cgroup = inodes[a.id]
<1>1. PICK a \in answers :
        e = [id |-> a.id, pid |-> a.pid,
             cgroup |-> IF a \in Unset THEN stray[a] ELSE inodes[a.id]]
  BY DEF Listing
<1>2. CASE a \in Unset
  BY <1>1, <1>2
<1>3. CASE a \notin Unset
  <2>1. a.first /\ inodes[a.id] # NotRead
    BY <1>3 DEF Unset
  <2>2. QED
    BY <1>1, <1>3, <2>1
<1>4. QED
  BY <1>2, <1>3

LEMMA ListingType ==
    ASSUME TypeOK, NEW stray \in [Unset -> Strays]
    PROVE  Listing(stray) \subseteq Entries
<1> SUFFICES ASSUME NEW e \in Listing(stray) PROVE e \in Entries
  OBVIOUS
<1>1. PICK a \in answers :
        /\ e = [id |-> a.id, pid |-> a.pid, cgroup |-> e.cgroup]
        /\ \/ a \in Unset /\ e.cgroup = stray[a] /\ stray[a] \in Strays
           \/ a.first /\ inodes[a.id] # NotRead /\ e.cgroup = inodes[a.id]
  BY ListingEntry
<1>2. a.id \in Containers /\ a.pid \in Pids \cup {NoPid}
  BY DEF TypeOK, Answers
<1>3. e.cgroup \in Cgroups \cup Strays
  BY <1>1, <1>2 DEF TypeOK
<1>4. QED
  BY <1>1, <1>2, <1>3 DEF Entries

-----------------------------------------------------------------------------
LEMMA InitInv == Init => Inv
<1> SUFFICES ASSUME Init PROVE Inv
  OBVIOUS
<1>1. TypeOK
  <2>1. born \in 0..MaxStarts
    BY ConstantsAssumption DEF Init
  <2>2. where \in [Containers -> Places] /\ cpu \in [Cpus -> {Asleep}]
    BY DEF Init, Places
  <2>3. QED
    BY <2>1, <2>2 DEF Init, TypeOK
<1>2. Running = {}
  BY DEF Init, Running
<1>3. /\ PhaseInv /\ OwnInv /\ DraftInv /\ OrderInv /\ PlanInv /\ DraftPlanInv
      /\ NothingElse /\ WatchedWhenSettled
  BY <1>2 DEF Init, PhaseInv, OwnInv, DraftInv, OrderInv, PlanInv, DraftPlanInv,
     NothingElse, WatchedWhenSettled
<1>4. QED
  BY <1>1, <1>3 DEF Inv

LEMMA WorldTypes == TypeOK /\ World => TypeOK'
<1> SUFFICES ASSUME TypeOK, World PROVE TypeOK'
  OBVIOUS
<1> USE DEF TypeOK, maps, draft, update
<1>1. ASSUME NEW policy \in Policies, Edit(policy) PROVE TypeOK'
  BY <1>1 DEF Edit
<1>2. ASSUME NEW c \in Containers, NEW p \in Pids, Start(c, p) PROVE TypeOK'
  <2>1. born + 1 \in Cgroups /\ born' \in 0..MaxStarts
    BY <1>2, ConstantsAssumption DEF Start, Cgroups
  <2>2. where' \in [Containers -> Places]
    BY <1>2, <2>1 DEF Start, Places
  <2>3. QED
    BY <1>2, <2>1, <2>2 DEF Start
<1>3. ASSUME NEW c \in Containers, Stop(c) PROVE TypeOK'
  BY <1>3 DEF Stop, Places
<1>4. QED
  BY <1>1, <1>2, <1>3 DEF World

LEMMA ListTypes ==
    ASSUME TypeOK, PhaseInv,
           \/ \E shown \in {Inspections, {}} : List(shown)
           \/ \E i \in asking, answered \in BOOLEAN : Inspect(i, answered)
           \/ \E c \in looking, found \in BOOLEAN : ReadCgroup(c, found)
           \/ ListNothing
           \/ ListContainers
    PROVE  TypeOK'
<1>1. ASSUME NEW shown \in {Inspections, {}}, List(shown) PROVE TypeOK'
  <2>1. Inspections \subseteq Containers \X SUBSET Containers
    BY ConstantsAssumption DEF Inspections, Running, TypeOK
  <2>2. QED
    BY <1>1, <2>1 DEF List, PhaseInv, TypeOK, world, maps
<1>2. ASSUME NEW i \in asking, NEW answered \in BOOLEAN, Inspect(i, answered) PROVE TypeOK'
  <2> DEFINE new == [id |-> i[1], pattern |-> i[2], pid |-> where[i[1]].pid,
                     first |-> i[1] \notin looking]
  <2>1. i[1] \in Containers /\ i[2] \in SUBSET Containers
    BY DEF TypeOK
  <2>2. where[i[1]].pid \in Pids \cup {NoPid}
    BY <2>1 DEF TypeOK, Places, Nowhere
  <2>3. new \in Answers /\ new.id = i[1]
    BY <2>1, <2>2 DEF Answers
  <2>4. /\ answers' \subseteq answers \cup {new} /\ looking' \subseteq looking \cup {i[1]}
        /\ answers \subseteq answers'
        /\ i[1] \in looking' => i[1] \in looking \/ new \in answers'
    BY <1>2 DEF Inspect
  <2>5. looking' \subseteq {a.id : a \in answers'}
    BY <2>3, <2>4 DEF TypeOK
  <2>6. answers' \subseteq Answers /\ intact' \in BOOLEAN /\ asking' \subseteq asking
    BY <1>2, <2>3, <2>4 DEF Inspect, TypeOK
  <2>7. QED
    BY <1>2, <2>5, <2>6 DEF Inspect, TypeOK, world, maps, update
<1>3. ASSUME NEW c \in looking, NEW found \in BOOLEAN, ReadCgroup(c, found) PROVE TypeOK'
  <2>1. c \in Running => where[c].cgroup \in Cgroups
    BY RunningPlace
  <2>2. /\ inodes' \in [Containers -> Cgroups \cup {NotRead}]
        /\ excuses' \subseteq {"forgotten", "learned", "mixed"} /\ intact' \in BOOLEAN
        /\ looking' \subseteq looking
    BY <1>3, <2>1 DEF ReadCgroup, TypeOK
  <2>3. QED
    BY <1>3, <2>2 DEF ReadCgroup, TypeOK, world, maps, update
<1>4. CASE ListNothing
  BY <1>4 DEF ListNothing, TypeOK, world, maps, draft
<1>5. CASE ListContainers
  <2>1. PICK stray \in [Unset -> Strays] :
          /\ containers' = Listing(stray)
          /\ excuses' = IF \E a \in Unset : stray[a] \in Cgroups
                        THEN excuses \cup {"mixed"} ELSE excuses
    BY <1>5 DEF ListContainers
  <2>2. containers' \subseteq Entries
    BY <2>1, ListingType
  <2>3. excuses' \subseteq {"forgotten", "learned", "mixed"}
    BY <2>1 DEF TypeOK
  <2>4. /\ todo' = containers' /\ answers' = {} /\ looking' = {} /\ pc' = "edit"
        /\ inodes' = [c \in Containers |-> NotRead] /\ adding' = {}
        /\ UNCHANGED <<file, where, born, pids, cgroups, asking, old, cpu, intact>>
    BY <1>5 DEF ListContainers, PhaseInv, world, maps
  <2>5. QED
    BY <2>2, <2>3, <2>4 DEF TypeOK
<1>6. QED
  BY <1>1, <1>2, <1>3, <1>4, <1>5

LEMMA EditTypes ==
    ASSUME TypeOK, PhaseInv,
           \/ \E e \in old : Delete(e)
           \/ \E e \in todo : AddPid(e)
           \/ \E e \in adding : AddCgroup(e)
           \/ Finish
    PROVE  TypeOK'
<1> USE DEF TypeOK, world, maps, draft
<1>1. ASSUME NEW e \in old, Delete(e) PROVE TypeOK'
  BY <1>1 DEF Delete
<1>2. ASSUME NEW e \in todo, AddPid(e) PROVE TypeOK'
  <2>1. e.pid \in Pids \cup {NoPid}
    BY DEF Entries
  <2>2. /\ pids' \subseteq Pids \cup {NoPid} /\ todo' \subseteq todo
        /\ intact' \in BOOLEAN /\ pc' \in {"idle", "list", "edit", "cgroup"}
    BY <1>2, <2>1 DEF AddPid
  <2>3. adding' \subseteq todo'
    <3>1. CASE HasRoom(pids, e.pid, PidMapSize)
      BY <1>2, <3>1 DEF AddPid
    <3>2. CASE ~HasRoom(pids, e.pid, PidMapSize)
      <4>1. adding' = {}
        BY <1>2, <3>2 DEF AddPid, PhaseInv
      <4>2. QED
        BY <4>1
    <3>3. QED
      BY <3>1, <3>2
  <2>4. QED
    BY <1>2, <2>2, <2>3 DEF AddPid
<1>3. ASSUME NEW e \in adding, AddCgroup(e) PROVE TypeOK'
  <2>1. e \in containers /\ e.cgroup \in Cgroups \cup Strays
    BY DEF Entries
  <2>2. adding' = {} /\ todo' \subseteq containers'
    BY <1>3 DEF AddCgroup
  <2>3. QED
    BY <1>3, <2>1, <2>2 DEF AddCgroup
<1>4. CASE Finish
  BY <1>4 DEF Finish
<1>5. QED
  BY <1>1, <1>2, <1>3, <1>4

\* What a CPU that is not asleep works on.
LEMMA CpuType ==
    ASSUME TypeOK, NEW u \in Cpus, cpu[u].pc \in {"parent", "found"}
    PROVE  cpu[u] \in [pc : {"parent", "found"}, task : Tasks]
<1>1. cpu[u] \in {Asleep} \cup [pc : {"parent", "found"}, task : Tasks]
  BY DEF TypeOK
<1>2. cpu[u] # Asleep
  BY DEF Asleep
<1>3. QED
  BY <1>1, <1>2

LEMMA TaskTypes ==
    ASSUME TypeOK,
           NEW task \in HostTasks \cup UNION {TasksOf(c) : c \in Running}
    PROVE  task \in Tasks
<1>1. CASE task \in HostTasks
  BY <1>1 DEF HostTasks, Tasks
<1>2. ASSUME NEW c \in Running, task \in TasksOf(c) PROVE task \in Tasks
  BY <1>2, RunningPlace DEF TasksOf, Tasks
<1>3. QED
  BY <1>1, <1>2

LEMMA SysEnterTypes == TypeOK /\ SysEnter => TypeOK'
<1> SUFFICES ASSUME TypeOK, NEW u \in Cpus,
                    \/ \E task \in HostTasks \cup UNION {TasksOf(c) : c \in Running} :
                         AskCgroup(u, task)
                    \/ AskParent(u)
                    \/ Learn(u)
             PROVE  TypeOK'
  BY DEF SysEnter
<1> DEFINE Cpu == {Asleep} \cup [pc : {"parent", "found"}, task : Tasks]
<1>1. ASSUME NEW task \in HostTasks \cup UNION {TasksOf(c) : c \in Running},
             AskCgroup(u, task)
      PROVE  TypeOK'
  <2>1. cpu' \in [Cpus -> Cpu]
    BY <1>1, TaskTypes DEF AskCgroup, TypeOK
  <2>2. QED
    BY <1>1, <2>1 DEF AskCgroup, TypeOK, world, maps, draft, update
<1>2. CASE AskParent(u)
  <2>1. [cpu[u] EXCEPT !.pc = "found"] \in Cpu
    BY <1>2, CpuType DEF AskParent
  <2>2. cpu' \in [Cpus -> Cpu]
    BY <1>2, <2>1 DEF AskParent, TypeOK
  <2>3. QED
    BY <1>2, <2>2 DEF AskParent, TypeOK, world, maps, draft, update
<1>3. CASE Learn(u)
  <2>1. cpu' \in [Cpus -> Cpu]
    BY <1>3 DEF Learn, TypeOK
  <2>2. cpu[u].task.cgroup \in Cgroups \cup {HostCgroup}
    BY <1>3, CpuType DEF Learn, Tasks
  <2>3. cgroups' \subseteq Cgroups \cup Strays \cup {HostCgroup}
    BY <1>3, <2>2 DEF Learn, TypeOK
  <2>4. excuses' \subseteq {"forgotten", "learned", "mixed"}
    BY <1>3 DEF Learn, TypeOK
  <2>5. QED
    BY <1>3, <2>1, <2>3, <2>4 DEF Learn, TypeOK, world, draft, update
<1>4. QED
  BY <1>1, <1>2, <1>3

LEMMA NextTypes == TypeOK /\ PhaseInv /\ [Next]_vars => TypeOK'
<1> SUFFICES ASSUME TypeOK, PhaseInv, [Next]_vars PROVE TypeOK'
  OBVIOUS
<1>1. CASE Restart
  BY <1>1 DEF Restart, TypeOK, world
<1>2. CASE UNCHANGED vars
  BY <1>2 DEF vars, TypeOK, world, maps, draft, update
<1>3. QED
  BY <1>1, <1>2, WorldTypes, ListTypes, EditTypes, SysEnterTypes DEF Next, Update

-----------------------------------------------------------------------------
LEMMA NextPhase == Inv /\ [Next]_vars => PhaseInv' /\ OrderInv'
<1> SUFFICES ASSUME Inv, [Next]_vars PROVE PhaseInv' /\ OrderInv'
  OBVIOUS
<1> USE DEF Inv, TypeOK, PhaseInv, OrderInv
<1>1. CASE World \/ SysEnter \/ UNCHANGED vars
  <2>1. UNCHANGED <<asking, answers, looking, inodes, containers, old, todo, pc, adding>>
    BY <1>1 DEF World, Edit, Start, Stop, SysEnter, AskCgroup, AskParent, Learn, draft,
       update, vars
  <2>2. QED
    BY <2>1
<1>2. CASE ListNothing
  <2>1. asking = {} /\ answers = {} /\ looking = {} /\ UNCHANGED <<asking, answers, looking>>
    BY <1>2 DEF ListNothing, draft
  <2>2. \A c \in Containers : inodes[c] = NotRead
    BY <2>1 DEF DraftInv
  <2>3. inodes' = [c \in Containers |-> NotRead]
    BY <1>2, <2>2 DEF ListNothing, draft
  <2>4. QED
    BY <1>2, <2>1, <2>3 DEF ListNothing
<1>3. CASE Restart
  BY <1>3 DEF Restart
<1>4. CASE \E shown \in {Inspections, {}} : List(shown)
  BY <1>4 DEF List
<1>5. CASE \/ \E i \in asking, answered \in BOOLEAN : Inspect(i, answered)
           \/ \E c \in looking, found \in BOOLEAN : ReadCgroup(c, found)
  <2>1. pc = "list" /\ UNCHANGED <<containers, old, todo, pc, adding>>
    BY <1>5 DEF Inspect, ReadCgroup, update
  <2>2. QED
    BY <2>1
<1>6. CASE ListContainers
  <2>1. /\ pc' = "edit" /\ todo' = containers' /\ adding' = {} /\ answers' = {}
        /\ asking' = {} /\ looking' = {} /\ inodes' = [c \in Containers |-> NotRead]
    BY <1>6 DEF ListContainers
  <2>2. QED
    BY <2>1
<1>7. ASSUME NEW e \in old, Delete(e) PROVE PhaseInv' /\ OrderInv'
  BY <1>7 DEF Delete, draft
<1>8. ASSUME NEW e \in todo, AddPid(e) PROVE PhaseInv' /\ OrderInv'
  BY <1>8 DEF AddPid, draft
<1>9. ASSUME NEW e \in adding, AddCgroup(e) PROVE PhaseInv' /\ OrderInv'
  BY <1>9 DEF AddCgroup, draft
<1>10. CASE Finish
  BY <1>10 DEF Finish, draft
<1>11. QED
  BY <1>1, <1>2, <1>3, <1>4, <1>5, <1>6, <1>7, <1>8, <1>9, <1>10 DEF Next, Update

\* A new cgroup is nobody else's, and neither is the one of a container that stops.
LEMMA WorldOwn ==
    ASSUME Inv, World
    PROVE  OwnInv' /\ DraftInv'
<1>1. ASSUME NEW policy \in Policies, Edit(policy) PROVE OwnInv' /\ DraftInv'
  <2>1. UNCHANGED <<where, born, draft, update, excuses>>
    BY <1>1 DEF Edit
  <2>2. QED
    BY <2>1 DEF Inv, OwnInv, DraftInv, draft, update, Running, Entry
<1>2. ASSUME NEW c \in Containers, NEW p \in Pids, Start(c, p) PROVE OwnInv' /\ DraftInv'
  <2>1. born \in Nat /\ born' = born + 1 /\ born' \in Cgroups
    BY <1>2, ConstantsAssumption DEF Start, Inv, TypeOK, Cgroups
  <2>2. \A d \in Containers :
          where'[d] = IF d = c THEN [pid |-> p, cgroup |-> born + 1] ELSE where[d]
    BY <1>2 DEF Start, Inv, TypeOK
  <2>3. \A d \in Running' : d # c => d \in Running /\ where'[d] = where[d]
    BY <2>2 DEF Running
  <2>4. UNCHANGED <<containers, old, asking, answers, looking, inodes, excuses>>
    BY <1>2 DEF Start, draft, update
  <2>5. \A d \in Running' : where'[d].cgroup \in 1..born'
    BY <2>1, <2>2, <2>3 DEF Inv, OwnInv, Running
  <2>6. \A d, e \in Running' : where'[d].cgroup = where'[e].cgroup => d = e
    BY <2>1, <2>2, <2>3 DEF Inv, OwnInv, Running
  <2>7. "mixed" \notin excuses =>
          \A e \in containers' \cup old' : e.cgroup \in 1..born' \/ e.cgroup \notin Cgroups
    BY <2>1, <2>4 DEF Inv, OwnInv
  <2>8. ASSUME "mixed" \notin excuses, NEW d \in Running', NEW e \in containers' \cup old',
               e.cgroup = where'[d].cgroup
        PROVE  e = Entry(d)'
    <3>1. CASE d = c
      <4>1. e.cgroup = born + 1
        BY <2>2, <2>8, <3>1 DEF Running
      <4>2. QED
        BY <2>1, <2>4, <2>8, <4>1 DEF Inv, OwnInv
    <3>2. CASE d # c
      BY <2>3, <2>4, <2>8, <3>2 DEF Inv, OwnInv, Entry
    <3>3. QED
      BY <3>1, <3>2
  <2>9. OwnInv'
    BY <2>4, <2>5, <2>6, <2>7, <2>8 DEF OwnInv
  <2>10. ASSUME "mixed" \notin excuses, NEW d \in Running', NEW k \in Containers,
                inodes[k] = where'[d].cgroup
         PROVE  k = d /\ \A a \in answers : a.id = k /\ a.first => a.pid = where'[k].pid
    <3>1. d # c
      <4>1. inodes[k] \in (1..born) \cup {NotRead}
        BY DEF Inv, DraftInv
      <4>2. d = c => inodes[k] = born + 1
        BY <2>2, <2>10
      <4>3. QED
        BY <2>1, <4>1, <4>2 DEF NotRead
    <3>2. d \in Running /\ where'[d] = where[d]
      BY <2>3, <3>1
    <3>3. QED
      BY <2>10, <3>2 DEF Inv, DraftInv
  <2>11. \A k \in Containers : inodes[k] \in (1..born') \cup {NotRead}
    BY <2>1 DEF Inv, DraftInv
  <2>12. DraftInv'
    BY <2>4, <2>10, <2>11 DEF Inv, DraftInv
  <2>13. QED
    BY <2>9, <2>12
<1>3. ASSUME NEW c \in Containers, Stop(c) PROVE OwnInv' /\ DraftInv'
  <2>1. \A d \in Running' : d \in Running /\ where'[d] = where[d]
    BY <1>3 DEF Stop, Running, Inv, TypeOK
  <2>2. UNCHANGED <<born, containers, old, asking, answers, looking, inodes, excuses>>
    BY <1>3 DEF Stop, draft, update
  <2>3. OwnInv'
    BY <2>1, <2>2 DEF Inv, OwnInv, Entry
  <2>4. DraftInv'
    BY <2>1, <2>2 DEF Inv, DraftInv
  <2>5. QED
    BY <2>3, <2>4
<1>4. QED
  BY <1>1, <1>2, <1>3 DEF World

LEMMA ListOwn ==
    ASSUME Inv,
           \/ \E shown \in {Inspections, {}} : List(shown)
           \/ \E i \in asking, answered \in BOOLEAN : Inspect(i, answered)
           \/ \E c \in looking, found \in BOOLEAN : ReadCgroup(c, found)
           \/ ListNothing
           \/ ListContainers
    PROVE  OwnInv' /\ DraftInv'
<1>1. ASSUME NEW shown \in {Inspections, {}}, List(shown) PROVE OwnInv' /\ DraftInv'
  <2>1. /\ UNCHANGED <<where, born, answers, looking, inodes, excuses>>
        /\ containers' = {} /\ old' = containers /\ pc = "idle"
    BY <1>1 DEF List, world
  <2>2. OwnInv'
    BY <2>1 DEF Inv, OwnInv, Running, Entry
  <2>3. answers = {} /\ \A c \in Containers : inodes[c] = NotRead
    BY <2>1 DEF Inv, PhaseInv
  <2>4. \A d \in Running : where[d].cgroup # NotRead
    BY DEF Inv, OwnInv, NotRead
  <2>5. DraftInv'
    BY <2>1, <2>3, <2>4 DEF DraftInv, Running
  <2>6. QED
    BY <2>2, <2>5
<1>2. ASSUME NEW i \in asking, NEW answered \in BOOLEAN, Inspect(i, answered)
      PROVE  OwnInv' /\ DraftInv'
  <2> DEFINE new == [id |-> i[1], pattern |-> i[2], pid |-> where[i[1]].pid,
                     first |-> i[1] \notin looking]
  <2>1. /\ UNCHANGED <<where, born, inodes, containers, old, excuses>>
        /\ answers' = answers \/ answers' = answers \cup {new}
        /\ asking' = asking \ {i}
    BY <1>2 DEF Inspect, world, update
  <2>2. OwnInv'
    BY <2>1 DEF Inv, OwnInv, Running, Entry
  <2>3. \A c \in Containers : inodes[c] = NotRead
    BY DEF Inv, DraftInv
  <2>4. \A d \in Running : where[d].cgroup # NotRead
    BY DEF Inv, OwnInv, NotRead
  <2>5. ASSUME NEW a \in answers' PROVE \E b \in answers' : b.id = a.id /\ b.first
    <3>1. CASE a \in answers
      BY <2>1, <3>1 DEF Inv, DraftInv
    <3>2. CASE a = new /\ i[1] \in looking
      <4>1. PICK b \in answers : b.id = i[1]
        BY <3>2 DEF Inv, TypeOK
      <4>2. PICK d \in answers : d.id = b.id /\ d.first
        BY DEF Inv, DraftInv
      <4>3. QED
        BY <2>1, <3>2, <4>1, <4>2
    <3>3. CASE a = new /\ i[1] \notin looking
      BY <3>3
    <3>4. QED
      BY <2>1, <3>1, <3>2, <3>3
  <2>6. DraftInv'
    BY <2>1, <2>3, <2>4, <2>5 DEF DraftInv, Running
  <2>7. QED
    BY <2>2, <2>6
<1>3. ASSUME NEW c \in looking, NEW found \in BOOLEAN, ReadCgroup(c, found)
      PROVE  OwnInv' /\ DraftInv'
  <2>1. /\ UNCHANGED <<where, born, asking, answers, containers, old>>
        /\ asking = {} /\ excuses \subseteq excuses'
    BY <1>3 DEF ReadCgroup, world, update
  <2>2. OwnInv'
    BY <2>1 DEF Inv, OwnInv, Running, Entry
  <2>3. CASE inodes' = inodes
    <3>1. DraftInv
      BY DEF Inv
    <3>2. QED
      BY <2>1, <2>2, <2>3, <3>1 DEF DraftInv, Running
  <2>4. CASE inodes' # inodes
    <3>1. /\ c \in Running /\ inodes' = [inodes EXCEPT ![c] = where[c].cgroup]
          /\ \/ "mixed" \in excuses'
             \/ \A a \in answers : a.id = c /\ a.first => a.pid = where[c].pid
      BY <1>3, <2>4 DEF ReadCgroup
    <3>2. \A k \in Containers : inodes'[k] = IF k = c THEN where[c].cgroup ELSE inodes[k]
      BY <3>1 DEF Inv, TypeOK
    <3>3. \A k \in Containers : inodes'[k] \in (1..born) \cup {NotRead}
      BY <3>1, <3>2 DEF Inv, DraftInv, OwnInv
    <3>4. ASSUME "mixed" \notin excuses', NEW d \in Running, NEW k \in Containers,
                 inodes'[k] = where[d].cgroup
          PROVE  k = d /\ \A a \in answers : a.id = k /\ a.first => a.pid = where[k].pid
      <4>1. CASE k = c
        BY <3>1, <3>2, <3>4, <4>1 DEF Inv, OwnInv
      <4>2. CASE k # c
        BY <2>1, <3>2, <3>4, <4>2 DEF Inv, DraftInv
      <4>3. QED
        BY <4>1, <4>2
    <3>5. \A k \in Containers : inodes'[k] # NotRead => \E a \in answers : a.id = k
      BY <3>2 DEF Inv, DraftInv, TypeOK
    <3>6. \A a \in answers : \E b \in answers : b.id = a.id /\ b.first
      BY DEF Inv, DraftInv
    <3>7. DraftInv'
      BY <2>1, <3>3, <3>4, <3>5, <3>6 DEF DraftInv, Running
    <3>8. QED
      BY <2>2, <3>7
  <2>5. QED
    BY <2>2, <2>3, <2>4
<1>4. CASE ListNothing
  <2>1. /\ UNCHANGED <<where, born, asking, answers, looking, inodes, containers>>
        /\ old' = {} /\ excuses' \subseteq excuses \cup {"forgotten"}
        /\ excuses \subseteq excuses'
    BY <1>4 DEF ListNothing, world, draft
  <2>2. OwnInv'
    BY <2>1 DEF Inv, OwnInv, Running, Entry
  <2>3. DraftInv'
    BY <2>1 DEF Inv, DraftInv, Running
  <2>4. QED
    BY <2>2, <2>3
<1>5. CASE ListContainers
  <2>1. PICK stray \in [Unset -> Strays] :
          /\ containers' = Listing(stray)
          /\ excuses' = IF \E a \in Unset : stray[a] \in Cgroups
                        THEN excuses \cup {"mixed"} ELSE excuses
    BY <1>5 DEF ListContainers
  <2>2. /\ UNCHANGED <<where, born, old>> /\ asking' = {} /\ answers' = {}
        /\ inodes' = [c \in Containers |-> NotRead]
    BY <1>5 DEF ListContainers, world
  <2>3. \A d \in Running : where[d].cgroup \in 1..born /\ where[d].cgroup # NotRead
    BY DEF Inv, OwnInv, NotRead
  <2>4. DraftInv'
    BY <2>2, <2>3 DEF DraftInv, Running
  <2>5. ASSUME "mixed" \notin excuses', NEW e \in containers'
        PROVE  /\ e.cgroup \in 1..born \/ e.cgroup \notin Cgroups
               /\ \A c \in Running : e.cgroup = where[c].cgroup => e = Entry(c)
    <3>1. PICK a \in answers :
             /\ e = [id |-> a.id, pid |-> a.pid, cgroup |-> e.cgroup]
             /\ \/ a \in Unset /\ e.cgroup = stray[a] /\ stray[a] \in Strays
                \/ a.first /\ inodes[a.id] # NotRead /\ e.cgroup = inodes[a.id]
      BY <2>1, <2>5, ListingEntry
    <3>2. CASE a \in Unset /\ e.cgroup = stray[a]
      <4>1. e.cgroup \notin Cgroups
        BY <2>1, <2>5, <3>2
      <4>2. \A c \in Running : where[c].cgroup \in Cgroups
        BY RunningPlace DEF Inv
      <4>3. QED
        BY <4>1, <4>2
    <3>3. CASE a.first /\ inodes[a.id] # NotRead /\ e.cgroup = inodes[a.id]
      <4>1. a.id \in Containers
        BY DEF Inv, TypeOK, Answers
      <4>2. e.cgroup \in 1..born
        BY <3>3, <4>1 DEF Inv, DraftInv
      <4>3. ASSUME NEW c \in Running, e.cgroup = where[c].cgroup PROVE e = Entry(c)
        <5>1. "mixed" \notin excuses
          BY <2>1, <2>5
        <5>2. \A k \in Containers : inodes[k] = where[c].cgroup =>
                 k = c /\ \A b \in answers : b.id = k /\ b.first => b.pid = where[k].pid
          BY <5>1 DEF Inv, DraftInv
        <5>3. a.id = c /\ a.pid = where[c].pid
          BY <3>3, <4>1, <4>3, <5>2
        <5>4. QED
          BY <3>1, <4>3, <5>3 DEF Entry
      <4>4. QED
        BY <4>2, <4>3
    <3>4. QED
      BY <3>1, <3>2, <3>3
  <2>6. excuses \subseteq excuses'
    BY <2>1
  <2>7. OwnInv'
    BY <2>2, <2>5, <2>6 DEF Inv, OwnInv, Running, Entry
  <2>8. QED
    BY <2>4, <2>7
<1>6. QED
  BY <1>1, <1>2, <1>3, <1>4, <1>5

LEMMA NextOwn == Inv /\ [Next]_vars => OwnInv' /\ DraftInv'
<1> SUFFICES ASSUME Inv, [Next]_vars PROVE OwnInv' /\ DraftInv'
  OBVIOUS
<1>1. CASE Finish \/ \E e \in old : Delete(e)
  <2>1. /\ UNCHANGED <<where, born, asking, answers, looking, inodes, excuses>>
        /\ containers' \cup old' \subseteq containers \cup old
    BY <1>1 DEF Finish, Delete, world, draft
  <2>2. OwnInv'
    BY <2>1 DEF Inv, OwnInv, Running, Entry
  <2>3. DraftInv'
    BY <2>1 DEF Inv, DraftInv, Running
  <2>4. QED
    BY <2>2, <2>3
<1>2. CASE Restart
  <2>1. /\ UNCHANGED <<where, born>> /\ containers' = {} /\ old' = {} /\ asking' = {}
        /\ answers' = {} /\ inodes' = [c \in Containers |-> NotRead]
    BY <1>2 DEF Restart, world
  <2>2. \A d \in Running : where[d].cgroup # NotRead
    BY DEF Inv, OwnInv, NotRead
  <2>3. OwnInv' /\ DraftInv'
    BY <2>1, <2>2 DEF Inv, OwnInv, DraftInv, Running
  <2>4. QED
    BY <2>3
<1>3. CASE \/ (\E e \in todo : AddPid(e)) \/ (\E e \in adding : AddCgroup(e))
           \/ SysEnter \/ UNCHANGED vars
  <2>1. /\ UNCHANGED <<where, born, asking, answers, looking, inodes, containers, old>>
        /\ excuses \subseteq excuses'
    BY <1>3 DEF AddPid, AddCgroup, SysEnter, AskCgroup, AskParent, Learn, world, draft,
       update, vars
  <2>2. OwnInv'
    BY <2>1 DEF Inv, OwnInv, Running, Entry
  <2>3. DraftInv'
    BY <2>1 DEF Inv, DraftInv, Running
  <2>4. QED
    BY <2>2, <2>3
<1>4. QED
  BY <1>1, <1>2, <1>3, WorldOwn, ListOwn DEF Next, Update

LEMMA NextNothingElse == Inv /\ [Next]_vars => NothingElse'
<1> SUFFICES ASSUME Inv, [Next]_vars PROVE NothingElse'
  OBVIOUS
<1> USE DEF NothingElse
<1>1. CASE World \/ UNCHANGED vars
  <2>1. UNCHANGED <<pids, cgroups, containers, old, excuses>>
    BY <1>1 DEF World, Edit, Start, Stop, maps, update, vars
  <2>2. QED
    BY <2>1 DEF Inv
<1>2. ASSUME NEW u \in Cpus, Learn(u) PROVE NothingElse'
  <2>1. UNCHANGED <<pids, containers, old>>
    BY <1>2 DEF Learn, update
  <2>2. \/ cgroups' = cgroups /\ excuses' = excuses
        \/ /\ cgroups' = cgroups \cup {cpu[u].task.cgroup}
           /\ \/ excuses' = excuses
                 /\ \E e \in containers \cup old : e.cgroup = cpu[u].task.cgroup
              \/ excuses' = excuses \cup {"learned"}
    BY <1>2 DEF Learn
  <2>3. QED
    BY <2>1, <2>2 DEF Inv
<1>3. ASSUME NEW u \in Cpus, AskParent(u) \/ \E task : AskCgroup(u, task)
      PROVE  NothingElse'
  BY <1>3 DEF AskParent, AskCgroup, maps, update, Inv
<1>4. CASE ListNothing
  <2>1. containers = {} /\ UNCHANGED <<pids, cgroups, containers>> /\ old' = {}
    BY <1>4 DEF ListNothing, Inv, PhaseInv, maps
  <2>2. excuses' = IF old = {} THEN excuses ELSE excuses \cup {"forgotten"}
    BY <1>4 DEF ListNothing
  <2>3. QED
    BY <2>1, <2>2 DEF Inv
<1>5. CASE \/ \E shown \in {Inspections, {}} : List(shown)
           \/ \E i \in asking, answered \in BOOLEAN : Inspect(i, answered)
           \/ \E c \in looking, found \in BOOLEAN : ReadCgroup(c, found)
           \/ ListContainers
  <2>1. /\ containers \cup old \subseteq containers' \cup old'
        /\ UNCHANGED <<pids, cgroups>>
        /\ excuses \subseteq excuses'
    BY <1>5 DEF List, Inspect, ReadCgroup, ListContainers, Inv, PhaseInv, maps, update
  <2>2. QED
    BY <2>1 DEF Inv
<1>6. ASSUME NEW e \in old, Delete(e) PROVE NothingElse'
  BY <1>6 DEF Delete, Inv
<1>7. ASSUME NEW e \in todo, AddPid(e) PROVE NothingElse'
  BY <1>7 DEF AddPid, Inv, TypeOK
<1>8. ASSUME NEW e \in adding, AddCgroup(e) PROVE NothingElse'
  BY <1>8 DEF AddCgroup, Inv, TypeOK
<1>9. CASE Finish
  <2>1. containers' \cup old' = containers \cup old
    BY <1>9 DEF Finish
  <2>2. QED
    BY <1>9, <2>1 DEF Finish, maps, Inv
<1>10. CASE Restart
  BY <1>10 DEF Restart
<1>11. QED
  BY <1>1, <1>2, <1>3, <1>4, <1>5, <1>6, <1>7, <1>8, <1>9, <1>10 DEF Next, Update, SysEnter

-----------------------------------------------------------------------------
\* The list of an update that could do all it wanted has everybody's own entry.
LEMMA ListingComplete ==
    ASSUME Inv, DraftPlan, asking = {}, looking = {}, NEW stray \in [Unset -> Strays],
           NEW c \in Running, Named(c)
    PROVE  Entry(c) \in Listing(stray)
<1>1. PICK a \in answers : a.id = c
  BY DEF DraftPlan
<1>2. PICK b \in answers : b.id = c /\ b.first
  BY <1>1 DEF Inv, DraftInv
<1>3. b.pid = where[c].pid /\ inodes[c] = where[c].cgroup
  BY <1>2 DEF DraftPlan
<1>4. inodes[c] # NotRead
  BY <1>3 DEF Inv, OwnInv, NotRead
<1>5. b \notin Unset
  BY <1>2, <1>4 DEF Unset
<1>6. QED
  BY <1>2, <1>3, <1>5 DEF Listing, Entry

LEMMA NextDraftPlan == Inv /\ [Next]_vars => DraftPlanInv'
<1> SUFFICES ASSUME Inv, [Next]_vars, pc' = "list", intact' PROVE DraftPlan'
  BY DEF DraftPlanInv
<1>1. ASSUME NEW shown \in {Inspections, {}}, List(shown) PROVE DraftPlan'
  <2>1. /\ asking' = Inspections /\ answers' = {} /\ UNCHANGED <<file, where>>
    BY <1>1 DEF List, Inv, PhaseInv, world
  <2>2. /\ \A i \in Inspections : i[1] \in Running
        /\ \A c \in Running : Named(c) => \E i \in Inspections : i[1] = c
    <3>1. ASSUME NEW c \in Running, NEW pattern \in file, c \in pattern
          PROVE  \E i \in Inspections : i[1] = c
      <4>1. <<c, pattern>> \in Inspections
        BY <3>1 DEF Inspections
      <4>2. QED
        BY <4>1
    <3>2. \A i \in Inspections : i[1] \in Running
      BY DEF Inspections
    <3>3. QED
      BY <3>1, <3>2 DEF Named
  <2>3. QED
    BY <2>1, <2>2 DEF DraftPlan, Running, Named
<1>2. ASSUME NEW i \in asking, NEW answered \in BOOLEAN, Inspect(i, answered) PROVE DraftPlan'
  <2> DEFINE new == [id |-> i[1], pattern |-> i[2], pid |-> where[i[1]].pid,
                     first |-> i[1] \notin looking]
  <2>1. /\ answers' = answers \cup {new} /\ looking' = looking \cup {i[1]}
        /\ asking' = asking \ {i} /\ intact /\ pc = "list"
        /\ UNCHANGED <<file, where, inodes>>
    BY <1>2 DEF Inspect, world
  <2>2. DraftPlan
    BY <2>1 DEF Inv, DraftPlanInv
  <2>3. ASSUME NEW c \in Running, Named(c)
        PROVE  (\E j \in asking' : j[1] = c) \/ (\E a \in answers' : a.id = c)
    <3>1. new.id = i[1] /\ new \in answers'
      BY <2>1
    <3>2. (\E j \in asking : j[1] = c) \/ (\E a \in answers : a.id = c)
      BY <2>2, <2>3 DEF DraftPlan
    <3>3. QED
      BY <2>1, <3>1, <3>2
  <2>4. i[1] \in Running
    BY <2>2 DEF DraftPlan
  <2>5. ASSUME NEW a \in answers'
        PROVE  /\ a.id \in Running /\ a.pid = where[a.id].pid
               /\ a.id \in looking' \/ inodes[a.id] = where[a.id].cgroup
    BY <2>1, <2>2, <2>4, <2>5 DEF DraftPlan
  <2>6. QED
    BY <2>1, <2>2, <2>3, <2>5 DEF DraftPlan, Running, Named
<1>3. ASSUME NEW c \in looking, NEW found \in BOOLEAN, ReadCgroup(c, found) PROVE DraftPlan'
  <2>1. /\ c \in Running /\ inodes' = [inodes EXCEPT ![c] = where[c].cgroup]
        /\ looking' = looking \ {c} /\ intact /\ pc = "list"
        /\ UNCHANGED <<file, where, asking, answers>>
    BY <1>3 DEF ReadCgroup, world
  <2>2. DraftPlan
    BY <2>1 DEF Inv, DraftPlanInv
  <2>3. \A k \in Containers : inodes'[k] = IF k = c THEN where[c].cgroup ELSE inodes[k]
    BY <2>1 DEF Inv, TypeOK
  <2>4. \A a \in answers : a.id \in looking' \/ inodes'[a.id] = where[a.id].cgroup
    BY <2>1, <2>2, <2>3 DEF DraftPlan, Running
  <2>5. QED
    BY <2>1, <2>2, <2>4 DEF DraftPlan, Running, Named
<1>4. CASE World \/ Restart
  BY <1>4 DEF World, Edit, Start, Stop, Restart
<1>5. CASE \/ ListNothing \/ ListContainers
           \/ (\E e \in old : Delete(e)) \/ (\E e \in todo : AddPid(e))
           \/ (\E e \in adding : AddCgroup(e)) \/ Finish
  <2>1. pc' # "list"
    BY <1>5 DEF ListNothing, ListContainers, Delete, AddPid, AddCgroup, Finish
  <2>2. QED
    BY <2>1
<1>6. CASE SysEnter \/ UNCHANGED vars
  <2>1. UNCHANGED <<file, where, asking, answers, looking, inodes, pc, intact>>
    BY <1>6 DEF SysEnter, AskCgroup, AskParent, Learn, world, draft, update, vars
  <2>2. QED
    BY <2>1 DEF Inv, DraftPlanInv, DraftPlan, Running, Named
<1>7. QED
  BY <1>1, <1>2, <1>3, <1>4, <1>5, <1>6 DEF Next, Update

LEMMA NextPlan == Inv /\ [Next]_vars => PlanInv'
<1> SUFFICES ASSUME Inv, [Next]_vars PROVE PlanInv'
  OBVIOUS
<1>1. CASE \/ World \/ ListNothing \/ Finish \/ Restart
           \/ \E shown \in {Inspections, {}} : List(shown)
           \/ \E i \in asking, answered \in BOOLEAN : Inspect(i, answered)
           \/ \E c \in looking, found \in BOOLEAN : ReadCgroup(c, found)
  <2>1. intact' = FALSE \/ pc' \in {"idle", "list"}
    BY <1>1 DEF World, Edit, Start, Stop, List, Inspect, ReadCgroup, ListNothing, Finish,
       Restart, update
  <2>2. QED
    BY <2>1 DEF PlanInv
<1>2. CASE ListContainers
  <2>1. /\ UNCHANGED <<where, file, intact>> /\ adding' = {} /\ todo' = containers'
        /\ asking = {} /\ looking = {} /\ pc = "list"
    BY <1>2 DEF ListContainers, world, Inv, PhaseInv
  <2>2. PICK stray \in [Unset -> Strays] : containers' = Listing(stray)
    BY <1>2 DEF ListContainers
  <2>3. ASSUME intact, NEW c \in Running, Named(c) PROVE Entry(c) \in containers'
    BY <2>1, <2>2, <2>3, ListingComplete DEF Inv, DraftPlanInv
  <2>4. QED
    BY <2>1, <2>3 DEF PlanInv, Plan, Running, Named, Entry
<1>3. ASSUME NEW e \in old, Delete(e) PROVE PlanInv'
  <2>1. containers = todo /\ adding = {}
    BY <1>3 DEF Delete, Inv, OrderInv
  <2>2. UNCHANGED <<world, containers, todo, adding, intact, pc>> /\ pc = "edit"
    BY <1>3 DEF Delete
  <2>3. QED
    BY <2>1, <2>2 DEF Inv, PlanInv, Plan, world, Running, Named, Entry
<1>4. ASSUME NEW e \in todo, AddPid(e) PROVE PlanInv'
  <2>1. CASE HasRoom(pids, e.pid, PidMapSize)
    <3>1. /\ UNCHANGED <<world, cgroups, containers, todo, intact>>
          /\ pids' = pids \cup {e.pid} /\ adding' = {e} /\ pc = "edit"
      BY <1>4, <2>1 DEF AddPid
    <3>2. QED
      BY <3>1 DEF Inv, PlanInv, Plan, world, Running, Named, Entry
  <2>2. CASE ~HasRoom(pids, e.pid, PidMapSize)
    BY <1>4, <2>2 DEF AddPid, PlanInv
  <2>3. QED
    BY <2>1, <2>2
<1>5. ASSUME NEW e \in adding, AddCgroup(e) PROVE PlanInv'
  <2>1. /\ UNCHANGED <<world, containers>>
        /\ todo' = todo \ {e} /\ adding' = {} /\ pc = "cgroup"
    BY <1>5 DEF AddCgroup
  <2>2. CASE HasRoom(cgroups, e.cgroup, CgroupMapSize)
    <3>1. cgroups' = cgroups \cup {e.cgroup} /\ UNCHANGED <<pids, intact>>
      BY <1>5, <2>2 DEF AddCgroup
    <3>2. QED
      BY <2>1, <3>1 DEF Inv, PlanInv, Plan, world, Running, Named, Entry
  <2>3. CASE ~HasRoom(cgroups, e.cgroup, CgroupMapSize)
    BY <1>5, <2>3 DEF AddCgroup, PlanInv
  <2>4. QED
    BY <2>2, <2>3
<1>6. CASE SysEnter \/ UNCHANGED vars
  <2>1. /\ UNCHANGED <<file, where, pids, containers, todo, pc, adding, intact>>
        /\ cgroups \subseteq cgroups'
    BY <1>6 DEF SysEnter, AskCgroup, AskParent, Learn, world, maps, update, vars
  <2>2. QED
    BY <2>1 DEF Inv, PlanInv, Plan, Running, Named, Entry
<1>7. QED
  BY <1>1, <1>2, <1>3, <1>4, <1>5, <1>6 DEF Next, Update

LEMMA NextWatched == Inv /\ [Next]_vars => WatchedWhenSettled'
<1> SUFFICES ASSUME Inv, [Next]_vars PROVE WatchedWhenSettled'
  OBVIOUS
<1> USE DEF WatchedWhenSettled
<1>1. CASE Finish
  <2>1. todo = {} /\ UNCHANGED <<file, where, pids, cgroups, intact>>
    BY <1>1 DEF Finish, world, maps
  <2>2. intact => \A c \in Running :
          Named(c) => Entry(c).pid \in pids /\ Entry(c).cgroup \in cgroups
    BY <1>1, <2>1 DEF Finish, Inv, PlanInv, Plan
  <2>3. QED
    BY <2>1, <2>2 DEF Entry, Running, Named
<1>2. CASE ListNothing
  <2>1. /\ asking = {} /\ answers = {} /\ pc = "list"
        /\ UNCHANGED <<file, where, intact>>
    BY <1>2 DEF ListNothing, world
  <2>2. intact => \A c \in Running : ~Named(c)
    BY <2>1 DEF Inv, DraftPlanInv, DraftPlan
  <2>3. QED
    BY <2>1, <2>2 DEF Running, Named
<1>3. CASE \/ World \/ Restart \/ ListContainers
           \/ \E shown \in {Inspections, {}} : List(shown)
           \/ \E i \in asking, answered \in BOOLEAN : Inspect(i, answered)
           \/ \E c \in looking, found \in BOOLEAN : ReadCgroup(c, found)
           \/ (\E e \in old : Delete(e)) \/ (\E e \in todo : AddPid(e))
           \/ (\E e \in adding : AddCgroup(e))
  <2>1. intact' = FALSE \/ pc' # "idle"
    BY <1>3 DEF World, Edit, Start, Stop, Restart, List, Inspect, ReadCgroup, ListContainers,
       Delete, AddPid, AddCgroup, update
  <2>2. QED
    BY <2>1
<1>4. CASE SysEnter \/ UNCHANGED vars
  <2>1. UNCHANGED <<file, where, pids, pc, intact>> /\ cgroups \subseteq cgroups'
    BY <1>4 DEF SysEnter, AskCgroup, AskParent, Learn, world, maps, update, vars
  <2>2. QED
    BY <2>1 DEF Inv, Running, Named
<1>5. QED
  BY <1>1, <1>2, <1>3, <1>4 DEF Next, Update

LEMMA Invariance == Spec => []Inv
<1>1. Inv /\ [Next]_vars => Inv'
  BY NextTypes, NextPhase, NextOwn, NextNothingElse, NextDraftPlan, NextPlan, NextWatched
     DEF Inv
<1>2. QED
  BY InitInv, <1>1, PTL DEF Spec

-----------------------------------------------------------------------------
\* The types of RawMonitor.
THEOREM TypeCorrect == Spec => []TypeOK
<1>1. Inv => TypeOK
  BY DEF Inv
<1>2. QED
  BY Invariance, <1>1, PTL

\* The maps hold what update_monitoring_map listed and what sys_enter learned, and
\* nothing else unless a list was forgotten.
THEOREM OnlyListedOrLearned == Spec => []NothingElse
<1>1. Inv => NothingElse
  BY DEF Inv
<1>2. QED
  BY Invariance, <1>1, PTL

\* After an update that went well, whom the policy names is watched
\* (update_monitoring_map of raw_tracepoint.cpp).
THEOREM NamedAreWatched == Spec => []WatchedWhenSettled
<1>1. Inv => WatchedWhenSettled
  BY DEF Inv
<1>2. QED
  BY Invariance, <1>1, PTL

LEMMA NextInterrupts ==
    ASSUME Inv, [Next]_vars, NEW c \in Running,
           Entry(c) \in containers \cap containers', where[c].cgroup \in cgroups \ cgroups'
    PROVE  Entry(c) \in todo' /\ "mixed" \in excuses
<1>1. ASSUME NEW e \in old, Delete(e) PROVE Entry(c) \in todo' /\ "mixed" \in excuses
  <2>1. e # Entry(c) /\ e.cgroup = where[c].cgroup
    BY <1>1 DEF Delete
  <2>2. "mixed" \in excuses
    BY <2>1 DEF Inv, OwnInv
  <2>3. containers = todo /\ todo' = todo
    BY <1>1 DEF Delete, Inv, OrderInv
  <2>4. QED
    BY <2>2, <2>3
<1>2. CASE Restart
  BY <1>2 DEF Restart
<1>3. ASSUME NEW e \in adding, AddCgroup(e) PROVE cgroups \subseteq cgroups'
  BY <1>3 DEF AddCgroup
<1>4. CASE \/ World
           \/ \E shown \in {Inspections, {}} : List(shown)
           \/ \E i \in asking, answered \in BOOLEAN : Inspect(i, answered)
           \/ \E k \in looking, found \in BOOLEAN : ReadCgroup(k, found)
           \/ ListNothing \/ ListContainers \/ (\E e \in todo : AddPid(e))
           \/ Finish \/ SysEnter \/ UNCHANGED vars
  <2>1. cgroups \subseteq cgroups'
    BY <1>4 DEF World, Edit, Start, Stop, List, Inspect, ReadCgroup, ListNothing,
       ListContainers, AddPid, Finish, SysEnter, AskCgroup, AskParent, Learn, maps, vars
  <2>2. QED
    BY <2>1
<1>5. QED
  BY <1>1, <1>2, <1>3, <1>4 DEF Next, Update

\* An update interrupts the watch over a container that stays on the list only after
\* an earlier list mixed up its cgroup, and has then still to put the cgroup back
\* (update_monitoring_map of raw_tracepoint.cpp deletes only what the new list lacks,
\* and deletes before it adds).
THEOREM WatchedThroughout == Spec => Uninterrupted
<1>1. Inv /\ [Next]_vars =>
        [\A c \in Running :
           /\ Entry(c) \in containers \cap containers'
           /\ where[c].cgroup \in cgroups \ cgroups'
           => Entry(c) \in todo' /\ "mixed" \in excuses]_vars
  BY NextInterrupts
<1>2. QED
  BY Invariance, <1>1, PTL DEF Spec, Uninterrupted
=============================================================================
