--------------------------- MODULE LsmEnforcement ---------------------------
(***************************************************************************)
(* The lsm daemon: the policy map, the update that rebuilds it, the hooks  *)
(* that read it, and the ring buffer of their events.                      *)
(*                                                                         *)
(* An update clears the map key by key, asks Docker which containers run,  *)
(* and writes one entry after the other; that only one runs at a time is   *)
(* PolicyUpdate's OneUpdater.  A hook looks into the map twice: is there   *)
(* any rule of its type (should_monitor), and which rule matches           *)
(* (match_policy); updates go on in between.  Containers start and stop,   *)
(* and a namespace number can come back.  An event Kafka refuses ends the  *)
(* daemon, and its hooks with it, until supervisord starts it again.       *)
(***************************************************************************)
EXTENDS LsmRules, FiniteSetsExt, TLC

CONSTANTS Threads,     \* tasks that call the hooks, one call at a time each
          Containers,  \* the containers that may run
          Namespaces,  \* numbers of namespaces: one stands for a pid and a mnt namespace
          Policies,    \* the contents policy.yaml may have
          Requests,    \* what the hooks may be asked
          Room         \* events the ring buffer holds

Nowhere == 0   \* the namespace of a container that does not run

ASSUME PoliciesAssumption ==
  \A policy \in Policies :
    /\ Len(policy) \in Nat /\ DOMAIN policy = 1..Len(policy)
    /\ \A i \in DOMAIN policy : policy[i].names \subseteq Containers
ASSUME RequestsAssumption == \A r \in Requests : r.hook \in Hooks
ASSUME NamespacesAssumption == Nowhere \notin Namespaces
ASSUME RoomAssumption == Room \in Nat \ {0}

VARIABLES
  file,    \* what policy.yaml holds
  where,   \* where[c]: the namespace of the running container c, or Nowhere
  map,     \* map[n]: the table of namespace n, or NoEntry
  update,  \* the update of the map
  hook,    \* hook[t]: the hook t is inside
  events,  \* events in the ring buffer
  daemon   \* "up"; "leaving": main has left its loop; "down": the programs are detached

vars == <<file, where, map, update, hook, events, daemon>>

NoEntry == [file |-> <<>>, network |-> <<>>, process |-> <<>>, absent |-> TRUE]
Running == {c \in Containers : where[c] # Nowhere}
Present == {n \in Namespaces : map[n] # NoEntry}

Entry(policies) == ToTable(policies) @@ [absent |-> FALSE]

\* The items of the policy whose pattern matches a container.
Matching(policy, c) == {i \in DOMAIN policy : c \in policy[i].names}

\* The program points of an update; loaded is the policy it has read, todo the entries
\* still to be written, turn the container of which some are written and some are not.
\* History: changed, the containers that started or stopped since the listing; complete,
\* whether none has, and Docker and the map did all they were asked.  An idle update
\* remembers what it did only as long as that is so.
Quiet == [pc |-> "idle", loaded |-> <<>>, todo |-> {}, turn |-> {}, changed |-> {},
          complete |-> FALSE]

\* A hook between should_monitor and match_policy ("asked"), and one that has answered.
\* History: during, the tables of its namespace since it began; what the answer rests on.
Asleep == [pc |-> "idle"]
AskedHook(n, r) == [pc |-> "asked", ns |-> n, request |-> r, during |-> {map[n]}]
Answered(asked, answer, flags, full, path) ==
  [pc |-> "answered", ns |-> asked.ns, request |-> asked.request, during |-> asked.during,
   answer |-> answer, flags |-> flags, full |-> full, stale |-> path]

Init ==
  /\ file \in Policies
  /\ where \in [Containers -> Namespaces \cup {Nowhere}]
  /\ \A c, d \in Running : where[c] = where[d] => c = d
  /\ map = [n \in Namespaces |-> NoEntry]
  /\ update = Quiet
  /\ hook = [t \in Threads |-> Asleep]
  /\ events = 0
  /\ daemon = "up"

-----------------------------------------------------------------------------
\* Users edit the file, Docker starts and stops containers.
Edit(policy) ==
  /\ policy # file
  /\ file' = policy
  /\ UNCHANGED <<where, map, update, hook, events, daemon>>

Disturb(c) ==   \* history
  update' = CASE update.pc = "idle" -> Quiet
              [] update.pc = "clear" -> update
              [] update.pc = "write" -> [update EXCEPT !.changed = @ \cup {c},
                                                            !.complete = FALSE]

Start(c, n) ==
  /\ c \notin Running
  /\ \A d \in Running : where[d] # n
  /\ where' = [where EXCEPT ![c] = n]
  /\ Disturb(c)
  /\ UNCHANGED <<file, map, hook, events, daemon>>

Stop(c) ==
  /\ c \in Running
  /\ \A t \in Threads : hook[t] # Asleep => hook[t].ns # where[c]
  /\ where' = [where EXCEPT ![c] = Nowhere]
  /\ Disturb(c)
  /\ UNCHANGED <<file, map, hook, events, daemon>>

-----------------------------------------------------------------------------
\* History: the tables of its namespace a hook has run under.
Witnessed(newMap) ==
  hook' = [t \in Threads |->
    IF hook[t].pc = "asked" THEN [hook[t] EXCEPT !.during = @ \cup {newMap[hook[t].ns]}]
    ELSE hook[t]]

\* The file is read; one without containers is refused and nothing is touched.
Load ==
  /\ daemon # "down" /\ update.pc = "idle"
  /\ update' = IF file = <<>> THEN Quiet ELSE [Quiet EXCEPT !.pc = "clear", !.loaded = file]
  /\ UNCHANGED <<file, where, map, hook, events, daemon>>

\* clear_bpf_map, one key.
Clear(n) ==
  /\ update.pc = "clear" /\ n \in Present
  /\ map' = [map EXCEPT ![n] = NoEntry]
  /\ Witnessed(map')
  /\ UNCHANGED <<file, where, update, events, daemon>>

\* getContainerPIDs inspects a running container once for each pattern that matches it;
\* an inspection that fails adds no entry, and with no entry the update fails.
Inspections ==
  UNION {{[container |-> c, item |-> i] : i \in Matching(update.loaded, c)} : c \in Running}

ListContainers(cleared) ==
  /\ update.pc = "clear"
  /\ \E answered \in SUBSET Inspections :
       update' = IF answered = {} THEN Quiet
                 ELSE [update EXCEPT !.pc = "write", !.todo = answered,
                                     !.complete = cleared /\ answered = Inspections]
  /\ UNCHANGED <<file, where, map, hook, events, daemon>>

ListBeforeCleared == ListContainers(TRUE)

\* clear_bpf_map has come to its end, or stops at an entry the kernel does not delete: the
\* update goes on with what is left in the map.
List == ListContainers(Present = {})

\* The list has the containers in any order, and the entries of one in that of the file.
IsNext(e) ==
  \A d \in update.todo :
    /\ d.container \in update.turn => e.container = d.container
    /\ d.container = e.container => e.item <= d.item

\* The namespaces are read by process number: that of a container that is gone has none, or
\* is another process's by now.
NamespaceOf(e) ==
  IF e.container \in update.changed THEN Namespaces \cup {Nowhere} ELSE {where[e.container]}

\* One round of the loop: without namespaces the entry is skipped; a write the kernel
\* refuses is only printed.
Write(e, kept) ==
  /\ update.pc = "write" /\ e \in update.todo /\ IsNext(e)
  /\ \E n \in NamespaceOf(e) :
       map' = IF n # Nowhere /\ kept
              THEN [map EXCEPT ![n] = Entry(update.loaded[e.item].lsm)] ELSE map
  /\ update' = [update EXCEPT !.todo = @ \ {e},
       !.turn = {d.container : d \in update.todo \ {e}} \cap {e.container},
       !.complete = @ /\ kept]
  /\ Witnessed(map')
  /\ UNCHANGED <<file, where, events, daemon>>

Finish ==
  /\ update.pc = "write" /\ update.todo = {}
  /\ update' = IF update.complete THEN [update EXCEPT !.pc = "idle"] ELSE Quiet
  /\ UNCHANGED <<file, where, map, hook, events, daemon>>

-----------------------------------------------------------------------------
\* The first lookup: should_monitor.
AskAnyEntry(t, c, r) ==
  /\ daemon # "down" /\ hook[t] = Asleep /\ c \in Running
  /\ LET asked == AskedHook(where[c], r)
     IN hook' = [hook EXCEPT ![t] =
          IF map[where[c]] # NoEntry THEN asked ELSE Answered(asked, Allowed, {}, FALSE, <<>>)]
  /\ UNCHANGED <<file, where, map, update, events, daemon>>

Ask(t, c, r) ==
  /\ daemon # "down" /\ hook[t] = Asleep /\ c \in Running
  /\ LET asked == AskedHook(where[c], r)
     IN hook' = [hook EXCEPT ![t] =
          IF map[where[c]][Type(r)] # <<>> THEN asked
          ELSE Answered(asked, Allowed, {}, FALSE, <<>>)]
  /\ UNCHANGED <<file, where, map, update, events, daemon>>

\* Paths the memory of the ring buffer may hold.
StalePaths == {<<>>} \cup {r.path : r \in {q \in Requests : Type(q) = "file"}}

DecideWithoutRoom(t) ==
  /\ hook[t].pc = "asked"
  /\ \E path \in IF hook[t].request \in {r \in Requests : Type(r) = "file" /\ r.path = TooLong}
                THEN StalePaths ELSE {<<>>} :
       LET r == hook[t].request
           flags == MatchPolicy(map[hook[t].ns], Type(r), Data(r, path))
           full == FALSE
           answer == IF full THEN Allowed ELSE Answer(r, flags)
       IN /\ hook' = [hook EXCEPT ![t] = Answered(hook[t], answer, flags, full, path)]
          /\ events' = IF answer.reported THEN events + 1 ELSE events
  /\ UNCHANGED <<file, where, map, update, daemon>>

\* The rest of the hook: with no room for an event it allows, else the rule decides.
Decide(t) ==
  /\ hook[t].pc = "asked"
  /\ \E path \in IF hook[t].request \in {r \in Requests : Type(r) = "file" /\ r.path = TooLong}
                THEN StalePaths ELSE {<<>>} :
       LET r == hook[t].request
           flags == MatchPolicy(map[hook[t].ns], Type(r), Data(r, path))
           full == events = Room
           answer == IF full THEN Allowed ELSE Answer(r, flags)
       IN /\ hook' = [hook EXCEPT ![t] = Answered(hook[t], answer, flags, full, path)]
          /\ events' = IF answer.reported THEN events + 1 ELSE events
  /\ UNCHANGED <<file, where, map, update, daemon>>

Return(t) ==
  /\ hook[t].pc = "answered"
  /\ hook' = [hook EXCEPT ![t] = Asleep]
  /\ UNCHANGED <<file, where, map, update, events, daemon>>

-----------------------------------------------------------------------------
\* print_event: an event Kafka refuses makes ring_buffer__poll fail, and main leaves its loop.
Consume(sent) ==
  /\ daemon = "up" /\ events > 0
  /\ events' = events - 1
  /\ daemon' = IF sent THEN "up" ELSE "leaving"
  /\ UNCHANGED <<file, where, map, update, hook>>

\* The skeleton is destroyed, or the process killed: no hook is left, nor any map.
Detach ==
  /\ daemon # "down"
  /\ \A t \in Threads : hook[t] = Asleep
  /\ daemon' = "down"
  /\ map' = [n \in Namespaces |-> NoEntry]
  /\ update' = Quiet
  /\ events' = 0
  /\ UNCHANGED <<file, where, hook>>

Restart ==
  /\ daemon = "down"
  /\ daemon' = "up"
  /\ UNCHANGED <<file, where, map, update, hook, events>>

World ==
  \/ \E policy \in Policies : Edit(policy)
  \/ \E c \in Containers : Stop(c) \/ \E n \in Namespaces : Start(c, n)

Update ==
  \/ Load
  \/ \E n \in Namespaces : Clear(n)
  \/ List
  \/ \E e \in update.todo, kept \in BOOLEAN : Write(e, kept)
  \/ Finish

Hook ==
  \E t \in Threads :
    \/ \E c \in Containers, r \in Requests : Ask(t, c, r)
    \/ Decide(t)
    \/ Return(t)

Daemon == (\E sent \in BOOLEAN : Consume(sent)) \/ Detach \/ Restart

Next == World \/ Update \/ Hook \/ Daemon

Spec == Init /\ [][Next]_vars

-----------------------------------------------------------------------------
\* Every table comes from a policy file.
Tables == {NoEntry} \cup UNION {{Entry(policy[i].lsm) : i \in DOMAIN policy} : policy \in Policies}

TypeOK ==
  /\ file \in Policies
  /\ where \in [Containers -> Namespaces \cup {Nowhere}]
  /\ map \in [Namespaces -> Tables]
  /\ update.pc \in {"idle", "clear", "write"} /\ update.loaded \in Policies \cup {<<>>}
  /\ update.todo \subseteq [container : Containers, item : Nat]
  /\ update.turn \subseteq Containers
  /\ update.changed \subseteq Containers /\ update.complete \in BOOLEAN
  /\ \A t \in Threads : hook[t].pc \in {"idle", "asked", "answered"}
  /\ events \in 0..Room
  /\ daemon \in {"up", "leaving", "down"}

\* What the hook answers under one table.
AnswerUnder(h, table) ==
  IF table[Type(h.request)] = <<>> THEN Allowed
  ELSE Answer(h.request, MatchPolicy(table, Type(h.request), Data(h.request, h.stale)))

\* A hook that looks into the map twice answers what one of the tables it ran under asks
\* for.  Two exceptions: with no room for its event it allows; and when the map changes
\* between the lookups, a white list hook denies what no rule of the new table lists,
\* although that table may hold no file rule at all.
AnswerOfOneTable ==
  \A t \in Threads : hook[t].pc = "answered" =>
    \/ hook[t].full
    \/ \E table \in hook[t].during : hook[t].answer = AnswerUnder(hook[t], table)
    \/ /\ \E old, new \in hook[t].during : old # new
       /\ Answer(hook[t].request, {}) = Denied
       /\ hook[t].answer = Denied

\* POLICY_AUDIT sends an alert and keeps the answer as it is without the rule
\* (enforcement.bpf.c:19).
AuditKeepsAnswer ==
  \A t \in Threads : hook[t].pc = "answered" =>
    (hook[t].answer.reported /\ "AUDIT" \in hook[t].flags
       => hook[t].answer.ret = Answer(hook[t].request, {}).ret)

\* The table of a container: that of the last entry of the policy that matches it.
TableOf(policy, c) ==
  LET items == Matching(policy, c)
  IN IF items = {} THEN NoEntry ELSE Entry(policy[Max(items)].lsm)

\* After an update that could do all it wanted, while file and containers are what it saw,
\* each container has its own table, and nobody else has one.
InForceWhenSettled ==
  update.pc = "idle" /\ update.complete /\ update.loaded = file =>
    \A n \in Namespaces :
      map[n] = IF \E c \in Running : where[c] = n
               THEN TableOf(file, CHOOSE c \in Running : where[c] = n) ELSE NoEntry
=============================================================================
