----------------------------- MODULE RawMonitor -----------------------------
(***************************************************************************)
(* Whom the raw_tracepoint daemon watches.  update_monitoring_map asks     *)
(* Docker for the containers the policy names, reads their cgroups from    *)
(* the file system, and edits two BPF maps, the pids of the containers'    *)
(* first processes and the inodes of their cgroups, from the list of the   *)
(* last update to the new one.  Containers start and stop between any two  *)
(* of these readings.  Meanwhile the program sys_enter runs on every       *)
(* system call of the host: it looks for the cgroup of the task, then for  *)
(* its parent, and adds the cgroup of a task it found by its parent.       *)
(*                                                                         *)
(* Updates do not overlap (PolicyUpdate!OneUpdater), so there is one.      *)
(***************************************************************************)
EXTENDS Naturals, FiniteSets

CONSTANTS
    Containers,  \* ids; a container keeps its id and its name for good
    Pids,        \* process numbers, reused once a process has ended
    Policies,    \* the policy files: sets of patterns with raw_tp_policy, each
                 \* pattern the set of containers it matches
    Cpus,
    PidMapSize, CgroupMapSize,   \* entries of the two maps, 1024 in the code
    Strays,      \* what an unset cgroup_id may hold: any number, a cgroup's too
    MaxStarts    \* bound: starts of containers in a behaviour

NoPid == 0       \* the State.Pid of a stopped container, the parent of the first process
Shim == 1        \* the parent of a container's first process
HostCgroup == 0  \* where the host's own processes live
NotRead == 0
Cgroups == 1..MaxStarts   \* inodes of containers' cgroups, never reused

ASSUME ConstantsAssumption ==
    /\ NoPid \notin Pids /\ Shim \notin Pids
    /\ Policies \subseteq SUBSET SUBSET Containers
    /\ PidMapSize \in Nat /\ CgroupMapSize \in Nat
    /\ MaxStarts \in Nat

Nowhere == [pid |-> NoPid, cgroup |-> HostCgroup]
Entries == [id : Containers, pid : Pids \cup {NoPid}, cgroup : Cgroups \cup Strays]

VARIABLES
    file,        \* what policy.yaml says
    where,       \* each container's first process and cgroup
    born,        \* cgroups made so far
    pids,        \* the map container_pids
    cgroups,     \* the map container_cgroup_id
    asking,      \* inspections of the list being made still to be asked for
    answers,     \* what the others said; `first': the first entry with the id
    looking,     \* ids whose cgroup is still to be read
    inodes,      \* the cgroups read
    containers,  \* ContainerManager::containers, once the list is made
    old,         \* temp_containers: what is left of the list before
    todo,        \* entries of the list that are not in the maps yet
    pc,          \* "idle", "list", "edit" or "cgroup"
    adding,      \* the entry whose pid has been added
    cpu,         \* the task whose system call a CPU is looking up
    excuses,     \* history: "forgotten", "learned", "mixed" (a list had a cgroup
                 \* in an entry that is not its own)
    intact       \* history: the last update could do all it wanted, and neither
                 \* file nor containers have changed since it asked for the list

world == <<file, where, born>>
maps == <<pids, cgroups>>
draft == <<asking, answers, looking, inodes>>
update == <<containers, old, todo, pc, adding>>
vars == <<world, maps, draft, update, cpu, excuses, intact>>

Running == {c \in Containers : where[c] # Nowhere}
Entry(c) == [id |-> c, pid |-> where[c].pid, cgroup |-> where[c].cgroup]
Named(c) == \E pattern \in file : c \in pattern

\* A task by what the program asks about it: its parent and its cgroup.
TasksOf(c) == [ppid : {Shim, where[c].pid}, cgroup : {where[c].cgroup}]
HostTasks == [ppid : {NoPid} \cup (Pids \ {where[c].pid : c \in Running}),
              cgroup : {HostCgroup}]
Asleep == [pc |-> "asleep"]

Init ==
    /\ file \in Policies
    /\ where = [c \in Containers |-> Nowhere]
    /\ born = 0
    /\ pids = {}
    /\ cgroups = {}
    /\ asking = {}
    /\ answers = {}
    /\ looking = {}
    /\ inodes = [c \in Containers |-> NotRead]
    /\ containers = {}
    /\ old = {}
    /\ todo = {}
    /\ pc = "idle"
    /\ adding = {}
    /\ cpu = [u \in Cpus |-> Asleep]
    /\ excuses = {}
    /\ intact = FALSE

-----------------------------------------------------------------------------
\* The policy file is rewritten; containers start and stop.  A container that
\* restarts has a new process and a new cgroup.
Edit(policy) ==
    /\ policy # file
    /\ file' = policy
    /\ intact' = FALSE
    /\ UNCHANGED <<where, born, maps, draft, update, cpu, excuses>>

Start(c, p) ==
    /\ c \notin Running
    /\ \A d \in Running : where[d].pid # p
    /\ born < MaxStarts
    /\ born' = born + 1
    /\ where' = [where EXCEPT ![c] = [pid |-> p, cgroup |-> born + 1]]
    /\ intact' = FALSE
    /\ UNCHANGED <<file, maps, draft, update, cpu, excuses>>

\* Its tasks are through with their system calls.
Stop(c) ==
    /\ c \in Running
    /\ \A u \in Cpus : cpu[u] # Asleep => cpu[u].task \notin TasksOf(c)
    /\ where' = [where EXCEPT ![c] = Nowhere]
    /\ intact' = FALSE
    /\ UNCHANGED <<file, born, maps, draft, update, cpu, excuses>>

-----------------------------------------------------------------------------
\* One request for each container and each pattern that matches it.
Inspections == {i \in Running \X file : i[1] \in i[2]}

\* getContainerPIDs asks which containers run, or Docker does not answer, ...
List(shown) ==
    /\ pc = "idle"
    /\ asking' = shown
    /\ old' = containers
    /\ containers' = {}
    /\ intact' = (shown = Inspections)
    /\ pc' = "list"
    /\ UNCHANGED <<world, maps, answers, looking, inodes, todo, adding, cpu, excuses>>

\* ... then one by one for the number of the first process, which is 0 once the
\* container has stopped.  A request may fail; the container then has no entry by it.
Inspect(i, answered) ==
    /\ pc = "list"
    /\ i \in asking
    /\ asking' = asking \ {i}
    /\ IF answered
       THEN /\ answers' = answers \cup
                 {[id |-> i[1], pattern |-> i[2], pid |-> where[i[1]].pid,
                   first |-> i[1] \notin looking]}
            /\ looking' = looking \cup {i[1]}
            /\ UNCHANGED intact
       ELSE /\ intact' = FALSE
            /\ UNCHANGED <<answers, looking>>
    /\ UNCHANGED <<world, maps, inodes, update, cpu, excuses>>

\* getContainerInode, for all entries of an id as one reading: it always writes to
\* the first of them.  If it has restarted since, that entry has the old process
\* and the new cgroup.
ReadCgroup(c, found) ==
    /\ pc = "list" /\ asking = {}
    /\ c \in looking
    /\ looking' = looking \ {c}
    /\ IF found /\ c \in Running
       THEN /\ inodes' = [inodes EXCEPT ![c] = where[c].cgroup]
            /\ excuses' = IF \E a \in answers : a.id = c /\ a.first /\ a.pid # where[c].pid
                          THEN excuses \cup {"mixed"} ELSE excuses
            /\ UNCHANGED intact
       ELSE /\ intact' = FALSE
            /\ UNCHANGED <<inodes, excuses>>
    /\ UNCHANGED <<world, maps, asking, answers, update, cpu>>

\* The list before is lost when Docker names nobody to monitor or does not answer, and
\* its entries stay in the maps; update_policy_with_file ignores the error.
ListNothing ==
    /\ pc = "list" /\ asking = {} /\ answers = {}
    /\ excuses' = IF old = {} THEN excuses ELSE excuses \cup {"forgotten"}
    /\ old' = {}
    /\ pc' = "idle"
    /\ UNCHANGED <<world, maps, draft, containers, todo, adding, cpu, intact>>

\* An entry whose cgroup was not read, and every entry of an id but the first, has
\* whatever its cgroup_id held.
Unset == {a \in answers : ~a.first \/ inodes[a.id] = NotRead}

Listing(stray) ==
    {[id |-> a.id, pid |-> a.pid,
      cgroup |-> IF a \in Unset THEN stray[a] ELSE inodes[a.id]] : a \in answers}

ListContainersAnyTime ==   \* mutant: before all cgroups are read
    /\ pc = "list" /\ asking = {} /\ answers # {}
    /\ \E stray \in [Unset -> Strays] :
         /\ containers' = Listing(stray)
         /\ excuses' = IF \E a \in Unset : stray[a] \in Cgroups
                       THEN excuses \cup {"mixed"} ELSE excuses
    /\ todo' = containers'
    /\ answers' = {}
    /\ inodes' = [c \in Containers |-> NotRead]
    /\ pc' = "edit"
    /\ UNCHANGED <<world, maps, asking, looking, old, adding, cpu, intact>>

ListContainers ==
    /\ pc = "list" /\ asking = {} /\ looking = {} /\ answers # {}
    /\ \E stray \in [Unset -> Strays] :
         /\ containers' = Listing(stray)
         /\ excuses' = IF \E a \in Unset : stray[a] \in Cgroups
                       THEN excuses \cup {"mixed"} ELSE excuses
    /\ todo' = containers'
    /\ answers' = {}
    /\ inodes' = [c \in Containers |-> NotRead]
    /\ pc' = "edit"
    /\ UNCHANGED <<world, maps, asking, looking, old, adding, cpu, intact>>

DeleteAll(e) ==   \* mutant: all of the old list
    /\ pc = "edit"
    /\ e \in old
    /\ pids' = pids \ {e.pid}
    /\ cgroups' = cgroups \ {e.cgroup}
    /\ old' = old \ {e}
    /\ UNCHANGED <<world, draft, containers, todo, pc, adding, cpu, excuses, intact>>

DeletePid(e) ==   \* mutant: the cgroup stays
    /\ pc = "edit"
    /\ e \in old \ containers
    /\ pids' = pids \ {e.pid}
    /\ old' = old \ {e}
    /\ UNCHANGED <<world, cgroups, draft, containers, todo, pc, adding, cpu, excuses, intact>>

\* An entry of the old list that the new one does not have.
Delete(e) ==
    /\ pc = "edit"
    /\ e \in old \ containers
    /\ pids' = pids \ {e.pid}
    /\ cgroups' = cgroups \ {e.cgroup}
    /\ old' = old \ {e}
    /\ UNCHANGED <<world, draft, containers, todo, pc, adding, cpu, excuses, intact>>

HasRoom(map, key, size) == key \in map \/ Cardinality(map) < size

AddPidAnyTime(e) ==   \* mutant: before the old entries are out
    /\ pc = "edit"
    /\ e \in todo
    /\ pids' = pids \cup {e.pid}
    /\ adding' = {e}
    /\ pc' = "cgroup"
    /\ UNCHANGED <<world, cgroups, draft, containers, old, todo, cpu, excuses, intact>>

\* An entry whose pid the map has no room for is left out altogether.
AddPid(e) ==
    /\ pc = "edit" /\ old \subseteq containers
    /\ e \in todo
    /\ IF HasRoom(pids, e.pid, PidMapSize)
       THEN /\ pids' = pids \cup {e.pid}
            /\ adding' = {e}
            /\ pc' = "cgroup"
            /\ UNCHANGED <<todo, intact>>
       ELSE /\ todo' = todo \ {e}
            /\ intact' = FALSE
            /\ UNCHANGED <<pids, adding, pc>>
    /\ UNCHANGED <<world, cgroups, draft, containers, old, cpu, excuses>>

\* A cgroup the map has no room for takes the pid with it.
AddCgroup(e) ==
    /\ pc = "cgroup"
    /\ e \in adding
    /\ IF HasRoom(cgroups, e.cgroup, CgroupMapSize)
       THEN /\ cgroups' = cgroups \cup {e.cgroup}
            /\ UNCHANGED <<pids, intact>>
       ELSE /\ pids' = pids \ {e.pid}
            /\ intact' = FALSE
            /\ UNCHANGED cgroups
    /\ todo' = todo \ {e}
    /\ adding' = {}
    /\ pc' = "edit"
    /\ UNCHANGED <<world, draft, containers, old, cpu, excuses>>

Finish ==
    /\ pc = "edit" /\ old \subseteq containers /\ todo = {}
    /\ old' = {}
    /\ pc' = "idle"
    /\ UNCHANGED <<world, maps, draft, containers, todo, adding, cpu, excuses, intact>>

-----------------------------------------------------------------------------
\* sys_enter: should_monitor asks for the cgroup, ...
AskCgroup(u, task) ==
    /\ cpu[u] = Asleep
    /\ cpu' = [cpu EXCEPT ![u] =
                 [pc |-> IF task.cgroup \in cgroups THEN "found" ELSE "parent", task |-> task]]
    /\ UNCHANGED <<world, maps, draft, update, excuses, intact>>

\* ... then for the parent.
AskParent(u) ==
    /\ cpu[u].pc = "parent"
    /\ cpu' = [cpu EXCEPT ![u] = IF @.task.ppid \in pids THEN [@ EXCEPT !.pc = "found"]
                                 ELSE Asleep]
    /\ UNCHANGED <<world, maps, draft, update, excuses, intact>>

\* The cgroup is added if it is not there.  What follows is RawCounter.
Learn(u) ==
    /\ cpu[u].pc = "found"
    /\ LET new == cpu[u].task.cgroup
       IN IF new \notin cgroups /\ HasRoom(cgroups, new, CgroupMapSize)
          THEN /\ cgroups' = cgroups \cup {new}
               /\ excuses' = IF \E e \in containers \cup old : e.cgroup = new THEN excuses
                             ELSE excuses \cup {"learned"}
          ELSE UNCHANGED <<cgroups, excuses>>
    /\ cpu' = [cpu EXCEPT ![u] = Asleep]
    /\ UNCHANGED <<world, pids, draft, update, intact>>

\* The daemon ends, or is killed, and supervisord starts it again: the maps are new.
Restart ==
    /\ pids' = {}
    /\ cgroups' = {}
    /\ asking' = {}
    /\ answers' = {}
    /\ looking' = {}
    /\ inodes' = [c \in Containers |-> NotRead]
    /\ containers' = {}
    /\ old' = {}
    /\ todo' = {}
    /\ pc' = "idle"
    /\ adding' = {}
    /\ cpu' = [u \in Cpus |-> Asleep]
    /\ excuses' = {}
    /\ intact' = FALSE
    /\ UNCHANGED world

World ==
    \/ \E policy \in Policies : Edit(policy)
    \/ \E c \in Containers : Stop(c) \/ \E p \in Pids : Start(c, p)

Update ==
    \/ \E shown \in {Inspections, {}} : List(shown)
    \/ \E i \in asking, answered \in BOOLEAN : Inspect(i, answered)
    \/ \E c \in looking, found \in BOOLEAN : ReadCgroup(c, found)
    \/ ListNothing
    \/ ListContainers
    \/ \E e \in old : Delete(e)
    \/ \E e \in todo : AddPid(e)
    \/ \E e \in adding : AddCgroup(e)
    \/ Finish

SysEnter ==
    \E u \in Cpus :
        \/ \E task \in HostTasks \cup UNION {TasksOf(c) : c \in Running} : AskCgroup(u, task)
        \/ AskParent(u)
        \/ Learn(u)

Next == World \/ Update \/ SysEnter \/ Restart

Spec == Init /\ [][Next]_vars

-----------------------------------------------------------------------------
Places == [pid : Pids, cgroup : Cgroups] \cup {Nowhere}
Answers == [id : Containers, pattern : SUBSET Containers, pid : Pids \cup {NoPid},
            first : BOOLEAN]
Tasks == [ppid : Pids \cup {NoPid, Shim}, cgroup : Cgroups \cup {HostCgroup}]

TypeOK ==
    /\ file \in Policies
    /\ where \in [Containers -> Places]
    /\ born \in 0..MaxStarts
    /\ pids \subseteq Pids \cup {NoPid}
    /\ cgroups \subseteq Cgroups \cup Strays \cup {HostCgroup}
    /\ asking \subseteq Containers \X SUBSET Containers
    /\ answers \subseteq Answers
    /\ looking \subseteq {a.id : a \in answers}
    /\ inodes \in [Containers -> Cgroups \cup {NotRead}]
    /\ containers \subseteq Entries
    /\ old \subseteq Entries
    /\ todo \subseteq containers
    /\ adding \subseteq todo
    /\ pc \in {"idle", "list", "edit", "cgroup"}
    /\ cpu \in [Cpus -> {Asleep} \cup [pc : {"parent", "found"}, task : Tasks]]
    /\ excuses \subseteq {"forgotten", "learned", "mixed"}
    /\ intact \in BOOLEAN

\* An update interrupts the watch over a running container that stays on the list
\* only if a list before had its cgroup with another process, because it had been
\* restarted between the two readings, or in an entry whose cgroup_id was never set;
\* and what it takes out it still has to put back.  Otherwise the container's system
\* calls are logged throughout, whatever else is listed, gone or listed twice
\* (update_monitoring_map edits the maps in place and does not clear them first).
Uninterrupted ==
    [][\A c \in Running :
         /\ Entry(c) \in containers \cap containers'
         /\ where[c].cgroup \in cgroups \ cgroups'
         => Entry(c) \in todo' /\ "mixed" \in excuses]_vars

\* Every key of the two maps is on the list, or still waits on the old list to be
\* deleted; except after an update that found nothing and so forgot whom it had
\* entered, and for cgroups that sys_enter added by itself, perhaps after they had
\* been deleted.
NothingElse ==
    /\ "forgotten" \notin excuses =>
         pids \subseteq {e.pid : e \in containers \cup old}
    /\ {"forgotten", "learned"} \cap excuses = {} =>
         cgroups \subseteq {e.cgroup : e \in containers \cup old}

\* After an update that could do all it wanted, all tasks of the containers the
\* policy names are watched, whatever process numbers the containers before them had.
WatchedWhenSettled ==
    pc = "idle" /\ intact =>
        \A c \in Running :
            Named(c) => where[c].pid \in pids /\ where[c].cgroup \in cgroups
=============================================================================
