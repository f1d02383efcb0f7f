---------------------------- MODULE TpPolicySync ----------------------------
(***************************************************************************)
(* Which system calls the tracepoint daemon logs, per pid namespace.       *)
(* update_policy_with_file asks Docker for the containers the policy       *)
(* names, reads the namespace of each from /proc, writes its calls into    *)
(* the BPF map syscall_array and then overwrites the namespaces of the     *)
(* update before that it did not meet again.  Entries are never deleted.   *)
(*                                                                         *)
(* Updates do not overlap (PolicyUpdate!OneUpdater), so there is one.      *)
(***************************************************************************)
EXTENDS Naturals, Sequences, FiniteSets

CONSTANTS
    Containers,  \* ids; a container keeps its id and its name for good
    Namespaces,  \* inodes of pid namespaces, reused when a container has ended
    Calls,       \* system calls tracepoints_map knows
    Unknown,     \* any other name
    Policies,    \* the policy files: sequences of items, each the set of containers
                 \* its pattern matches and the calls to log
    Limit,       \* calls of a table, 120 in the code
    MapSize,     \* entries of syscall_array, 10240 in the code
    Strays       \* what an unset ns_id may hold

Failed == 1      \* what get_namespace_id returns when it cannot tell
Nowhere == 0     \* no namespace: the container does not run
Keys == Namespaces \cup Strays \cup {Failed}
Items == [names : SUBSET Containers, calls : Seq(Calls \cup {Unknown})]

ASSUME ConstantsAssumption ==
    /\ Nowhere \notin Namespaces
    /\ Unknown \notin Calls
    /\ \A policy \in Policies : policy \in Seq(Items)
    /\ Limit \in Nat
    /\ MapSize \in Nat

VARIABLES
    file,       \* what policy.yaml says
    where,      \* each container's namespace
    map,        \* syscall_array: what is logged, by namespace
    monitored,  \* current_monitored_namespaces
    listed,     \* ContainerManager::containers while an update is under way
    gone,       \* containers that have stopped since they were listed
    todo,       \* entries of the list that are not written yet
    fresh,      \* new_namespaces
    cleared,    \* namespaces that have been overwritten
    pc,         \* "idle" or "update"
    intact      \* history: the last update could do all it wanted, and
                \* neither file nor containers have changed since

world == <<file, where>>
update == <<listed, todo, fresh, cleared, pc>>
vars == <<world, map, monitored, update, gone, intact>>

Running == {c \in Containers : where[c] # Nowhere}

\* What the daemon makes of an item's calls: those it knows, as many as fit.
Table(calls) ==
    LET known == SelectSeq(calls, LAMBDA call : call # Unknown)
    IN SubSeq(known, 1, IF Len(known) > Limit THEN Limit ELSE Len(known))

\* should_log_event, of both sys_enter and sys_exit.
ShouldLog(ns, call) == ns \in DOMAIN map /\ \E i \in DOMAIN map[ns] : map[ns][i] = call

Init ==
    /\ file \in Policies
    /\ where = [c \in Containers |-> Nowhere]
    /\ map = [ns \in {} |-> <<>>]
    /\ monitored = {}
    /\ listed = {}
    /\ gone = {}
    /\ todo = {}
    /\ fresh = {}
    /\ cleared = {}
    /\ pc = "idle"
    /\ intact = FALSE

-----------------------------------------------------------------------------
Edit(policy) ==
    /\ policy # file
    /\ file' = policy
    /\ intact' = FALSE
    /\ UNCHANGED <<where, map, monitored, update, gone>>

\* A container has a pid namespace of its own, Docker's default.
Start(c, ns) ==
    /\ c \notin Running
    /\ \A d \in Running : where[d] # ns
    /\ where' = [where EXCEPT ![c] = ns]
    /\ intact' = FALSE
    /\ UNCHANGED <<file, map, monitored, update, gone>>

Stop(c) ==
    /\ c \in Running
    /\ where' = [where EXCEPT ![c] = Nowhere]
    /\ gone' = gone \cup {e.id : e \in {d \in listed : d.id = c}}
    /\ intact' = FALSE
    /\ UNCHANGED <<file, map, monitored, update>>

-----------------------------------------------------------------------------
\* getContainerPIDs asks about each container once for each pattern that matches
\* it; the entry takes the calls of the pattern.
Matches == {[id |-> c, item |-> i, calls |-> file[i].calls] :
              c \in Running, i \in DOMAIN file}
Inspections == {e \in Matches : e.id \in file[e.item].names}

\* updateContainerNsId sets the namespace of the first entry of a container only:
\* the others are written under whatever their ns_id held.
IsFirst(e) == \A d \in listed : d.id = e.id => e.item <= d.item

\* The namespace is read by process number, which may be another's by then.
NamespaceOf(e) ==
    CASE ~IsFirst(e) -> Strays
      [] IsFirst(e) /\ e.id \in gone -> Namespaces \cup {Failed}
      [] OTHER -> {where[e.id]}

\* A file without containers: clear_all_policies.
ListNobody ==
    /\ pc = "idle"
    /\ file = <<>>
    /\ pc' = "update"
    /\ intact' = TRUE
    /\ UNCHANGED <<world, map, monitored, listed, todo, fresh, cleared, gone>>

ListNothingMeansNobody ==   \* mutant: the daemon forgets whom it monitored
    /\ pc = "idle"
    /\ file # <<>>
    /\ monitored' = {}
    /\ intact' = FALSE
    /\ UNCHANGED <<world, map, update, gone>>

\* Docker names nobody the policy names, or does not answer: the update failed and
\* the tables stay as they are.  PolicyUpdate has the retry.
ListNothing ==
    /\ pc = "idle"
    /\ file # <<>>
    /\ intact' = FALSE
    /\ UNCHANGED <<world, map, monitored, update, gone>>

ListAndClear ==   \* mutant: tables are cleared before they are written
    /\ pc = "idle"
    /\ \E answered \in SUBSET Inspections \ {{}} :
         /\ listed' = answered
         /\ todo' = answered
         /\ intact' = (answered = Inspections)
    /\ map' = [ns \in DOMAIN map |-> <<>>]
    /\ pc' = "update"
    /\ UNCHANGED <<world, monitored, fresh, cleared, gone>>

\* Requests may fail.
ListContainers ==
    /\ pc = "idle"
    /\ \E answered \in SUBSET Inspections \ {{}} :
         /\ listed' = answered
         /\ todo' = answered
         /\ intact' = (answered = Inspections)
    /\ pc' = "update"
    /\ UNCHANGED <<world, map, monitored, fresh, cleared, gone>>

-----------------------------------------------------------------------------
HasRoom(ns) == ns \in DOMAIN map \/ Cardinality(DOMAIN map) < MapSize
Put(ns, table) == [n \in DOMAIN map \cup {ns} |-> IF n = ns THEN table ELSE map[n]]

\* A namespace is in new_namespaces whether or not the map had room for it.
Write(e) ==
    /\ e \in todo
    /\ \E ns \in NamespaceOf(e) :
         /\ fresh' = fresh \cup {ns}
         /\ map' = IF HasRoom(ns) THEN Put(ns, Table(e.calls)) ELSE map
         /\ intact' = (intact /\ HasRoom(ns) /\ (IsFirst(e) \/ ns \notin Namespaces))
    /\ todo' = todo \ {e}
    /\ UNCHANGED <<world, monitored, listed, cleared, pc, gone>>

\* clear_syscall_array_entry.
Clear(ns) ==
    /\ pc = "update" /\ todo = {}
    /\ ns \in monitored \ (fresh \cup cleared)
    /\ cleared' = cleared \cup {ns}
    /\ map' = IF HasRoom(ns) THEN Put(ns, <<>>) ELSE map
    /\ UNCHANGED <<world, monitored, listed, todo, fresh, pc, gone, intact>>

FinishUncleared ==   \* mutant: what the policy no longer names stays
    /\ pc = "update" /\ todo = {}
    /\ monitored' = monitored \cup fresh
    /\ listed' = {} /\ gone' = {} /\ fresh' = {} /\ cleared' = {}
    /\ pc' = "idle"
    /\ UNCHANGED <<world, map, todo, intact>>

FinishKeepingFresh ==   \* mutant: new_namespaces outlives the update
    /\ pc = "update" /\ todo = {}
    /\ monitored \subseteq fresh \cup cleared
    /\ monitored' = fresh
    /\ listed' = {} /\ gone' = {} /\ cleared' = {}
    /\ pc' = "idle"
    /\ UNCHANGED <<world, map, todo, fresh, intact>>

Finish ==
    /\ pc = "update" /\ todo = {}
    /\ monitored \subseteq fresh \cup cleared
    /\ monitored' = fresh
    /\ listed' = {} /\ gone' = {} /\ fresh' = {} /\ cleared' = {}
    /\ pc' = "idle"
    /\ UNCHANGED <<world, map, todo, intact>>

\* The daemon ends, or is killed, and supervisord starts it again: the map is new.
Restart ==
    /\ map' = [ns \in {} |-> <<>>]
    /\ monitored' = {}
    /\ listed' = {} /\ gone' = {} /\ todo' = {} /\ fresh' = {} /\ cleared' = {}
    /\ pc' = "idle"
    /\ intact' = FALSE
    /\ UNCHANGED world

World ==
    \/ \E policy \in Policies : Edit(policy)
    \/ \E c \in Containers : Stop(c) \/ \E ns \in Namespaces : Start(c, ns)

Update ==
    \/ ListNobody
    \/ ListNothing
    \/ ListContainers
    \/ \E e \in todo : Write(e)
    \/ \E ns \in monitored : Clear(ns)
    \/ Finish

Next == World \/ Update \/ Restart

Spec == Init /\ [][Next]_vars

-----------------------------------------------------------------------------
CallLists == UNION {{policy[i].calls : i \in DOMAIN policy} : policy \in Policies}
Tables == {<<>>} \cup {Table(calls) : calls \in CallLists}

TypeOK ==
    /\ file \in Policies
    /\ where \in [Containers -> Namespaces \cup {Nowhere}]
    /\ DOMAIN map \subseteq Keys
    /\ \A ns \in DOMAIN map : map[ns] \in Tables
    /\ monitored \subseteq Keys
    /\ listed \subseteq [id : Containers, item : Nat, calls : CallLists]
    /\ gone \subseteq Containers
    /\ todo \subseteq listed
    /\ fresh \subseteq Keys
    /\ cleared \subseteq monitored
    /\ pc \in {"idle", "update"}
    /\ pc = "idle" => listed \cup gone \cup fresh \cup cleared = {}
    /\ intact \in BOOLEAN

\* A namespace whose calls are logged is one the daemon will clear when the policy
\* or the container is gone: it monitors it, or is about to.  Nothing else ever
\* clears a table, and namespaces are reused by other containers.
NoOrphan ==
    \A ns \in DOMAIN map : map[ns] # <<>> => ns \in monitored \cup fresh

\* After an update that could do all it wanted, a container's calls are the calls of
\* the first pattern that matches it, and a container no pattern matches is not logged,
\* whatever its namespace was used for before.
TablesWhenSettled ==
    pc = "idle" /\ intact =>
        \A c \in Running, call \in Calls :
            ShouldLog(where[c], call) <=>
                \E i \in DOMAIN file :
                    /\ c \in file[i].names
                    /\ \A j \in 1..(i - 1) : c \notin file[j].names
                    /\ \E k \in DOMAIN Table(file[i].calls) : Table(file[i].calls)[k] = call

\* Entries that may go to a namespace that is not their container's.
Astray == {e \in todo : ~IsFirst(e) \/ e.id \in gone}

\* A call that was asked for before an update and is asked for by it is logged
\* throughout: no step of the update takes it out of the table of a listed container,
\* unless one of the entries still to be written may go astray.
Uninterrupted ==
    [][\A e \in listed', call \in Calls :
          (/\ ShouldLog(where[e.id], call)
           /\ \E k \in DOMAIN Table(e.calls) : Table(e.calls)[k] = call
           /\ where[e.id] \in Namespaces /\ where'[e.id] = where[e.id]
           /\ IsFirst(e)' /\ e.id \notin gone'
           /\ Astray = {})
          => ShouldLog(where[e.id], call)']_vars
=============================================================================
