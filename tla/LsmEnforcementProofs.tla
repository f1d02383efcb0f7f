------------------------ MODULE LsmEnforcementProofs ------------------------
(***************************************************************************)
(* What a hook answers, and what an update leaves in the map, for every    *)
(* policy, every number of containers and threads and every request.       *)
(*                                                                         *)
(* The argument for the hooks: one that has asked knows that one of the    *)
(* tables it ran under has rules of its type, and the map's present table  *)
(* is among those it ran under.  The rest is what the nine hooks answer to *)
(* no flags.  For the map: see Halfway.                                    *)
(***************************************************************************)
EXTENDS LsmEnforcement, TLAPS

\* The variables of the hooks are functions, and a container runs in a namespace.
Shapes ==
  /\ hook = [t \in Threads |-> hook[t]]
  /\ map = [n \in Namespaces |-> map[n]]
  /\ where \in [Containers -> Namespaces \cup {Nowhere}]

\* A hook between its two lookups.
Asked(h) ==
  /\ h = [pc |-> "asked", ns |-> h.ns, request |-> h.request, during |-> h.during]
  /\ h.ns \in Namespaces /\ h.request \in Requests
  /\ map[h.ns] \in h.during
  /\ \E table \in h.during : table[Type(h.request)] # <<>>

\* A hook that has answered.
OneTable(h) ==
  \/ h.full
  \/ \E table \in h.during : h.answer = AnswerUnder(h, table)
  \/ /\ \E old, new \in h.during : old # new
     /\ Answer(h.request, {}) = Denied
     /\ h.answer = Denied
Audited(h) ==
  h.answer.reported /\ "AUDIT" \in h.flags => h.answer.ret = Answer(h.request, {}).ret

Good(h) ==
  /\ h.pc \in {"idle", "asked", "answered"}
  /\ h.pc = "idle" => h = Asleep
  /\ h.pc = "asked" => Asked(h)
  /\ h.pc = "answered" => OneTable(h) /\ Audited(h)

IInv == Shapes /\ \A t \in Threads : Good(hook[t])

-----------------------------------------------------------------------------
\* The type of a request is one of the three match_policy knows.
LEMMA TypeKnown ==
  ASSUME NEW r \in Requests
  PROVE  Type(r) \in {"file", "network", "process"}
<1>1. r.hook \in Hooks BY RequestsAssumption
<1> QED BY <1>1 DEF Hooks, Type

\* A table without rules of a type matches nothing.
LEMMA NoRules ==
  ASSUME NEW table, NEW type, NEW data, table[type] = <<>>
  PROVE  MatchPolicy(table, type, data) = {}
BY DEF MatchPolicy, FirstOf

\* With no flags a hook allows or denies, and reports nothing.
LEMMA DefaultAnswer ==
  ASSUME NEW r \in Requests
  PROVE  Answer(r, {}) \in {Allowed, Denied}
<1>1. r.hook \in Hooks BY RequestsAssumption
<1> QED
  BY <1>1 DEF Hooks, Answer, BprmCheckSecurity, TaskFixSetuid, FileOpen, PathUnlink, PathMkdir,
     PathRename, InodeCreate, SocketConnect, SocketRecvmsg, DenyList, AllowList

\* What is reported under AUDIT is the answer to no flags.
LEMMA AuditAnswer ==
  ASSUME NEW r \in Requests, NEW flags, Answer(r, flags).reported, "AUDIT" \in flags
  PROVE  Answer(r, flags).ret = Answer(r, {}).ret
<1>1. r.hook \in Hooks BY RequestsAssumption
<1>2. Mode({}) = 0 BY DEF Mode
<1>3. CASE r.hook \in {"bprm_check_security", "task_fix_setuid", "file_open"}
  BY <1>2, <1>3 DEF Answer, BprmCheckSecurity, TaskFixSetuid, FileOpen, DenyList, AllowList,
     Allowed, Denied
<1>4. CASE r.hook \in {"path_unlink", "path_mkdir", "path_rename", "inode_create"}
  BY <1>4 DEF Answer, PathUnlink, PathMkdir, PathRename, InodeCreate, DenyList, AllowList,
     Allowed, Denied
<1>5. CASE r.hook \in {"socket_connect", "socket_recvmsg"}
  BY <1>5 DEF Answer, SocketConnect, SocketRecvmsg, DenyList, AllowList, Allowed, Denied
<1> QED BY <1>1, <1>3, <1>4, <1>5 DEF Hooks

-----------------------------------------------------------------------------
LEMMA InitIInv == Init => IInv
BY DEF Init, IInv, Shapes, Good, Asleep

\* What Witnessed adds to a hook that has asked.
LEMMA Widened ==
  ASSUME NEW h, NEW n, NEW r, NEW d, NEW table,
         h = [pc |-> "asked", ns |-> n, request |-> r, during |-> d]
  PROVE  [h EXCEPT !.during = @ \cup {table}]
           = [pc |-> "asked", ns |-> n, request |-> r, during |-> d \cup {table}]
<1>1. h.during = d OBVIOUS
<1> QED OBVIOUS

\* A change of the map is witnessed by every hook that has asked.
LEMMA WitnessedIInv ==
  ASSUME IInv, map' = [n \in Namespaces |-> map'[n]], Witnessed(map'), UNCHANGED where
  PROVE  IInv'
<1>1. Shapes' BY DEF IInv, Shapes, Witnessed
<1> SUFFICES ASSUME NEW t \in Threads PROVE Good(hook[t])'
  BY <1>1 DEF IInv
<1>2. Good(hook[t]) BY DEF IInv
<1>3. CASE hook[t].pc = "asked"
  <2>1. hook'[t] = [hook[t] EXCEPT !.during = @ \cup {map'[hook[t].ns]}]
    BY <1>3 DEF Witnessed
  <2>2. Asked(hook[t]) BY <1>2, <1>3 DEF Good
  <2> DEFINE n == hook[t].ns
             r == hook[t].request
             d == hook[t].during
  <2> HIDE DEF n, r, d
  <2>3. hook[t] = [pc |-> "asked", ns |-> n, request |-> r, during |-> d]
    BY <2>2, Zenon DEF Asked, n, r, d
  <2>4. n = hook[t].ns BY DEF n
  <2>5. hook'[t] = [pc |-> "asked", ns |-> n, request |-> r, during |-> d \cup {map'[n]}]
    <3>1. PICK table : table = map'[n] OBVIOUS
    <3>2. PICK h : h = hook[t] OBVIOUS
    <3>3. hook'[t] = [h EXCEPT !.during = @ \cup {table}] BY <2>1, <2>4, <3>1, <3>2
    <3>4. h = [pc |-> "asked", ns |-> n, request |-> r, during |-> d] BY <2>3, <3>2
    <3>5. [h EXCEPT !.during = @ \cup {table}]
            = [pc |-> "asked", ns |-> n, request |-> r, during |-> d \cup {table}]
      BY <3>4, Widened
    <3> QED BY <3>1, <3>3, <3>5
  <2> USE DEF n, r, d
  <2>6. hook[t].ns \in Namespaces /\ hook[t].request \in Requests BY <2>2 DEF Asked
  <2>7. map'[hook[t].ns] \in hook'[t].during BY <2>5
  <2>8. \E table \in hook'[t].during : table[Type(hook[t].request)] # <<>>
    BY <2>2, <2>5 DEF Asked
  <2>9. /\ hook'[t].pc = "asked" /\ hook'[t].ns = hook[t].ns
        /\ hook'[t].request = hook[t].request
    BY <2>5
  <2>10. hook'[t] = [pc |-> "asked", ns |-> hook'[t].ns, request |-> hook'[t].request,
                    during |-> hook'[t].during]
    BY <2>5
  <2>11. Asked(hook[t])' BY <2>6, <2>7, <2>8, <2>9, <2>10 DEF Asked
  <2> QED BY <2>9, <2>11 DEF Good
<1>4. CASE hook[t].pc # "asked"
  <2>1. hook'[t] = hook[t] BY <1>4 DEF Witnessed
  <2> QED BY <1>2, <1>4, <2>1 DEF Good, OneTable, Audited, AnswerUnder
<1> QED BY <1>3, <1>4

\* The first lookup: the hook knows a table with rules, or answers under one without.
LEMMA AskIInv ==
  ASSUME IInv, NEW t \in Threads, NEW c \in Containers, NEW r \in Requests, Ask(t, c, r)
  PROVE  IInv'
<1> DEFINE n == where[c]
           answered == Answered(AskedHook(n, r), Allowed, {}, FALSE, <<>>)
<1>1. n \in Namespaces BY DEF Ask, Running, IInv, Shapes
<1>2. hook' = [hook EXCEPT ![t] = IF map[n][Type(r)] # <<>> THEN AskedHook(n, r) ELSE answered]
      /\ UNCHANGED <<map, where>>
  BY DEF Ask
<1> HIDE DEF n, answered
<1>3. Shapes' BY <1>2 DEF IInv, Shapes
<1>4. \A u \in Threads \ {t} : hook'[u] = hook[u] BY <1>2 DEF IInv, Shapes
<1>5. \A u \in Threads \ {t} : Good(hook[u])'
  BY <1>2, <1>4 DEF IInv, Good, Asked, OneTable, Audited, AnswerUnder
<1>6. CASE map[n][Type(r)] # <<>>
  <2>1. hook'[t] = [pc |-> "asked", ns |-> n, request |-> r, during |-> {map[n]}]
    BY <1>2, <1>6 DEF AskedHook, IInv, Shapes
  <2>2. Good(hook[t])' BY <1>1, <1>2, <1>6, <2>1 DEF Good, Asked
  <2> QED BY <1>3, <1>5, <2>2 DEF IInv
<1>7. CASE map[n][Type(r)] = <<>>
  <2>1. hook'[t] = [pc |-> "answered", ns |-> n, request |-> r, during |-> {map[n]},
                    answer |-> Allowed, flags |-> {}, full |-> FALSE, stale |-> <<>>]
    BY <1>2, <1>7 DEF AskedHook, answered, Answered, IInv, Shapes
  <2>2. OneTable(hook'[t]) BY <1>7, <2>1 DEF OneTable, AnswerUnder
  <2>3. Audited(hook'[t]) BY <2>1 DEF Audited
  <2>4. Good(hook[t])' BY <1>2, <2>1, <2>2, <2>3 DEF Good
  <2> QED BY <1>3, <1>5, <2>4 DEF IInv
<1> QED BY <1>6, <1>7

\* The second lookup: the table may have changed, and then only a white list shows it.
LEMMA DecideIInv ==
  ASSUME IInv, NEW t \in Threads, Decide(t)
  PROVE  IInv'
<1> DEFINE h == hook[t]
<1>1. Asked(h) BY DEF IInv, Good, Decide
<1>2. PICK path :
        LET flags == MatchPolicy(map[h.ns], Type(h.request), Data(h.request, path))
            full == events = Room
            answer == IF full THEN Allowed ELSE Answer(h.request, flags)
        IN hook' = [hook EXCEPT ![t] = Answered(h, answer, flags, full, path)]
  BY DEF Decide
<1> DEFINE flags == MatchPolicy(map[h.ns], Type(h.request), Data(h.request, path))
           full == events = Room
           answer == IF full THEN Allowed ELSE Answer(h.request, flags)
<1>3. hook' = [hook EXCEPT ![t] = Answered(h, answer, flags, full, path)] BY <1>2
<1>4. UNCHANGED <<map, where>> BY DEF Decide
<1> HIDE DEF flags, full, answer
<1>5. Shapes' BY <1>3, <1>4 DEF IInv, Shapes
<1>6. \A u \in Threads \ {t} : hook'[u] = hook[u] BY <1>3 DEF IInv, Shapes
<1>7. \A u \in Threads \ {t} : Good(hook[u])'
  BY <1>4, <1>6 DEF IInv, Good, Asked, OneTable, Audited, AnswerUnder
<1>8. hook'[t] = [pc |-> "answered", ns |-> h.ns, request |-> h.request, during |-> h.during,
                  answer |-> answer, flags |-> flags, full |-> full, stale |-> path]
  BY <1>3 DEF Answered, IInv, Shapes
<1>9. OneTable(hook'[t])
  <2> DEFINE table == map[h.ns]
  <2>1. table \in h.during BY <1>1 DEF Asked
  <2>2. CASE full BY <2>2, <1>8 DEF OneTable
  <2>3. CASE ~full /\ table[Type(h.request)] # <<>>
    <3>1. answer = AnswerUnder(hook'[t], table)
      BY <2>3, <1>8 DEF answer, AnswerUnder, flags
    <3> QED BY <3>1, <2>1, <1>8 DEF OneTable
  <2>4. CASE ~full /\ table[Type(h.request)] = <<>>
    <3>1. flags = {} BY <2>4, NoRules DEF flags
    <3>2. answer = Answer(h.request, {}) BY <3>1, <2>4 DEF answer
    <3>3. CASE answer = Allowed
      <4>1. answer = AnswerUnder(hook'[t], table) BY <2>4, <3>3, <1>8 DEF AnswerUnder
      <4> QED BY <4>1, <2>1, <1>8 DEF OneTable
    <3>4. CASE answer = Denied
      <4>1. \E old, new \in h.during : old # new BY <1>1, <2>1, <2>4 DEF Asked
      <4> QED BY <4>1, <3>2, <3>4, <1>8 DEF OneTable
    <3> QED BY <3>2, <3>3, <3>4, <1>1, DefaultAnswer DEF Asked
  <2> QED BY <2>2, <2>3, <2>4
<1>10. Audited(hook'[t])
  <2>1. CASE full BY <2>1, <1>8 DEF Audited, answer, Allowed
  <2>2. CASE ~full BY <2>2, <1>1, <1>8, AuditAnswer DEF Audited, answer, Asked
  <2> QED BY <2>1, <2>2
<1>11. Good(hook[t])' BY <1>4, <1>8, <1>9, <1>10 DEF Good, OneTable, Audited, AnswerUnder
<1> QED BY <1>5, <1>7, <1>11 DEF IInv

-----------------------------------------------------------------------------
\* Steps that touch neither the map nor the hooks.
LEMMA OtherIInv ==
  ASSUME IInv, UNCHANGED <<map, hook>>, where' \in [Containers -> Namespaces \cup {Nowhere}]
  PROVE  IInv'
BY DEF IInv, Shapes, Good, Asked, OneTable, Audited, AnswerUnder

LEMMA Inductive == Spec => []IInv
<1>1. Init => IInv BY InitIInv
<1>2. IInv /\ [Next]_vars => IInv'
  <2> SUFFICES ASSUME IInv, [Next]_vars PROVE IInv' OBVIOUS
  <2>1. CASE World
    BY <2>1, OtherIInv DEF World, Edit, Start, Stop, IInv, Shapes
  <2>2. CASE \E n \in Namespaces : Clear(n)
    BY <2>2, WitnessedIInv DEF Clear, IInv, Shapes
  <2>3. CASE \E e \in update.todo, kept \in BOOLEAN : Write(e, kept)
    BY <2>3, WitnessedIInv DEF Write, IInv, Shapes
  <2>4. CASE Load \/ List \/ Finish
    BY <2>4, OtherIInv DEF Load, List, ListContainers, Finish, IInv, Shapes
  <2>5. CASE \E t \in Threads, c \in Containers, r \in Requests : Ask(t, c, r)
    BY <2>5, AskIInv
  <2>6. CASE \E t \in Threads : Decide(t) BY <2>6, DecideIInv
  <2>7. CASE \E t \in Threads : Return(t)
    <3>1. PICK t \in Threads : Return(t) BY <2>7
    <3>2. hook' = [hook EXCEPT ![t] = Asleep] /\ UNCHANGED <<map, where>>
      BY <3>1 DEF Return
    <3>3. Shapes' BY <3>2 DEF IInv, Shapes
    <3>4. hook'[t] = Asleep BY <3>2 DEF IInv, Shapes
    <3>5. Good(hook[t])' BY <3>4 DEF Good, Asleep
    <3>6. \A u \in Threads \ {t} : hook'[u] = hook[u] BY <3>2 DEF IInv, Shapes
    <3>7. \A u \in Threads \ {t} : Good(hook[u])'
      BY <3>2, <3>6 DEF IInv, Good, Asked, OneTable, Audited, AnswerUnder
    <3> QED BY <3>3, <3>5, <3>7 DEF IInv
  <2>8. CASE \E sent \in BOOLEAN : Consume(sent) \/ Restart
    BY <2>8, OtherIInv DEF Consume, Restart, IInv, Shapes
  <2>9. CASE Detach
    BY <2>9 DEF Detach, IInv, Shapes, Good, Asleep
  <2>10. CASE UNCHANGED vars
    BY <2>10, OtherIInv DEF vars, IInv, Shapes
  <2> QED
    BY <2>1, <2>2, <2>3, <2>4, <2>5, <2>6, <2>7, <2>8, <2>9, <2>10
    DEF Next, Update, Hook, Daemon
<1> QED BY <1>1, <1>2, PTL DEF Spec

\* A hook looks into the map twice; what it answers is what one table asks for, unless the
\* ring buffer was full or a white list hook saw the map change.
THEOREM AnswersAreOfOneTable == Spec => []AnswerOfOneTable
<1>1. IInv => AnswerOfOneTable BY DEF IInv, Good, OneTable, AnswerOfOneTable
<1> QED BY <1>1, Inductive, PTL

\* Whatever is reported under AUDIT is answered as if no rule matched.
THEOREM AuditChangesNothing == Spec => []AuditKeepsAnswer
<1>1. IInv => AuditKeepsAnswer BY DEF IInv, Good, Audited, AuditKeepsAnswer
<1> QED BY <1>1, Inductive, PTL

-----------------------------------------------------------------------------
(* The table after an update.  While an update that goes well is under     *)
(* way, a running container has the table of the last of its items that    *)
(* is written, and these are its first items; so when nothing is left it   *)
(* has that of its last.                                                   *)

Updates ==
  [pc : {"idle", "clear", "write"}, loaded : Policies \cup {<<>>},
   todo : SUBSET [container : Containers, item : Nat], turn : SUBSET Containers,
   changed : SUBSET Containers, complete : BOOLEAN]

\* The types, and an entry that waits to be written is one the policy asked for.
Typed ==
  /\ file \in Policies
  /\ where \in [Containers -> Namespaces \cup {Nowhere}]
  /\ map \in [Namespaces -> Tables]
  /\ update \in Updates
  /\ \A e \in update.todo : e.item \in Matching(update.loaded, e.container)
  /\ events \in 0..Room
  /\ daemon \in {"up", "leaving", "down"}

\* No two running containers share a namespace.
Apart == \A c, d \in Running : where[c] = where[d] => c = d

\* What an update remembers at each of its points.
Points ==
  /\ update.pc # "write" => update.todo = {}
  /\ update.pc = "clear" => ~update.complete /\ update.changed = {}
  /\ update.complete => update.changed = {} /\ \A e \in update.todo : e.container \in Running

\* The items of a container that are written.
Done(c) ==
  {i \in Matching(update.loaded, c) : [container |-> c, item |-> i] \notin update.todo}
TableSoFar(c) == IF Done(c) = {} THEN NoEntry ELSE Entry(update.loaded[Max(Done(c))].lsm)

Halfway ==
  update.complete =>
    /\ \A c \in Running :
         /\ \A i \in Matching(update.loaded, c) \ Done(c), j \in Done(c) : j < i
         /\ map[where[c]] = TableSoFar(c)
    /\ \A n \in Namespaces : (\A c \in Running : where[c] # n) => map[n] = NoEntry

Settling == Typed /\ Apart /\ Points /\ Halfway

-----------------------------------------------------------------------------
\* Items are numbers, and a policy without items matches nobody.
LEMMA MatchingType ==
  ASSUME NEW policy \in Policies \cup {<<>>}, NEW c
  PROVE  Matching(policy, c) \subseteq Nat /\ (Matching(policy, c) # {} => policy \in Policies)
<1>1. CASE policy \in Policies BY <1>1, PoliciesAssumption DEF Matching
<1>2. CASE policy = <<>> BY <1>2 DEF Matching
<1> QED BY <1>1, <1>2

\* What is written is a table of the policy.
LEMMA EntryType ==
  ASSUME NEW policy \in Policies \cup {<<>>}, NEW c, NEW i \in Matching(policy, c)
  PROVE  Entry(policy[i].lsm) \in Tables
<1>1. policy \in Policies BY MatchingType
<1> QED BY <1>1 DEF Tables, Matching

\* A bound of a set that is in it is its largest number.
LEMMA MaxIsBound ==
  ASSUME NEW S \in SUBSET Nat, NEW m \in S, \A j \in S : j <= m
  PROVE  Max(S) = m
<1>1. \A x \in S : (\A y \in S : x >= y) => x = m OBVIOUS
<1>2. \A y \in S : m >= y OBVIOUS
<1> QED BY <1>1, <1>2 DEF Max

LEMMA InitSettling == Init => Settling
<1> SUFFICES ASSUME Init PROVE Settling OBVIOUS
<1>1. update = [pc |-> "idle", loaded |-> <<>>, todo |-> {}, turn |-> {}, changed |-> {},
                complete |-> FALSE]
  BY DEF Init, Quiet
<1>2. update \in Updates BY <1>1 DEF Updates
<1>3. map \in [Namespaces -> Tables] BY DEF Init, Tables
<1>4. events \in 0..Room BY RoomAssumption DEF Init
<1>5. Typed BY <1>1, <1>2, <1>3, <1>4 DEF Init, Typed
<1> QED BY <1>1, <1>5 DEF Init, Settling, Apart, Points, Halfway

\* Settling is about these variables only, and not about events and daemon.
LEMMA OtherSettling ==
  ASSUME Settling, UNCHANGED <<where, map, update>>, file' \in Policies,
         events' \in 0..Room, daemon' \in {"up", "leaving", "down"}
  PROVE  Settling'
<1>1. Typed' BY DEF Settling, Typed
<1>2. Apart' /\ Points' BY DEF Settling, Apart, Points, Running
<1>3. Halfway' BY DEF Settling, Halfway, Running, Done, TableSoFar
<1> QED BY <1>1, <1>2, <1>3 DEF Settling

\* An update that is not, or no longer, going well promises nothing of the map.
LEMMA IncompleteSettling ==
  ASSUME Settling, ~update.complete', update' \in Updates, map' \in [Namespaces -> Tables],
         update'.pc # "write" => update'.todo = {},
         update'.pc = "clear" => update'.changed = {},
         \A e \in update'.todo : e.item \in Matching(update'.loaded, e.container),
         where' \in [Containers -> Namespaces \cup {Nowhere}], Apart',
         file' \in Policies, events' \in 0..Room, daemon' \in {"up", "leaving", "down"}
  PROVE  Settling'
BY DEF Settling, Typed, Points, Halfway

LEMMA QuietType ==
  /\ Quiet \in Updates
  /\ Quiet.pc = "idle" /\ Quiet.todo = {} /\ Quiet.changed = {} /\ ~Quiet.complete
BY DEF Quiet, Updates

\* The update that was under way when a container starts or stops does not go well.
LEMMA DisturbSettling ==
  ASSUME Settling, NEW c \in Containers, Disturb(c), Apart',
         where' \in [Containers -> Namespaces \cup {Nowhere}],
         UNCHANGED <<file, map, events, daemon>>
  PROVE  Settling'
<1>0. /\ update \in Updates
      /\ \A e \in update.todo : e.item \in Matching(update.loaded, e.container)
  BY DEF Settling, Typed
<1>1. CASE update.pc = "idle"
  <2>1. update' = Quiet BY <1>1 DEF Disturb
  <2> QED BY <2>1, QuietType, IncompleteSettling DEF Settling, Typed
<1>2. CASE update.pc = "clear"
  <2>1. update' = update BY <1>2 DEF Disturb
  <2>2. ~update.complete /\ update.changed = {} BY <1>2 DEF Settling, Points
  <2>3. update.todo = {} BY <1>2 DEF Settling, Points
  <2> QED BY <1>0, <1>2, <2>1, <2>2, <2>3, IncompleteSettling DEF Settling, Typed
<1>3. CASE update.pc = "write"
  <2>1. update' = [update EXCEPT !.changed = @ \cup {c}, !.complete = FALSE]
    BY <1>3 DEF Disturb
  <2>2. /\ update'.pc = "write" /\ update'.todo = update.todo
        /\ update'.loaded = update.loaded /\ ~update'.complete /\ update' \in Updates
    BY <1>0, <1>3, <2>1 DEF Updates
  <2> QED BY <1>0, <2>2, IncompleteSettling DEF Settling, Typed
<1> QED BY <1>0, <1>1, <1>2, <1>3 DEF Updates

LEMMA WorldSettling == Settling /\ World => Settling'
<1> SUFFICES ASSUME Settling, World PROVE Settling' OBVIOUS
<1>1. CASE \E policy \in Policies : Edit(policy)
  BY <1>1, OtherSettling DEF Edit, Settling, Typed
<1>2. ASSUME NEW c \in Containers, Stop(c) PROVE Settling'
  <2>1. where' \in [Containers -> Namespaces \cup {Nowhere}] BY <1>2 DEF Stop, Settling, Typed
  <2>2. Apart' BY <1>2 DEF Stop, Settling, Typed, Apart, Running, Nowhere
  <2> QED BY <1>2, <2>1, <2>2, DisturbSettling DEF Stop
<1>3. ASSUME NEW c \in Containers, NEW n \in Namespaces, Start(c, n) PROVE Settling'
  <2>1. where' \in [Containers -> Namespaces \cup {Nowhere}] BY <1>3 DEF Start, Settling, Typed
  <2>2. Apart' BY <1>3 DEF Start, Settling, Typed, Apart, Running, Nowhere
  <2> QED BY <1>3, <2>1, <2>2, DisturbSettling DEF Start
<1> QED BY <1>1, <1>2, <1>3 DEF World

-----------------------------------------------------------------------------
LEMMA LoadSettling == Settling /\ Load => Settling'
<1> SUFFICES ASSUME Settling, Load PROVE Settling' OBVIOUS
<1>1. update' \in Updates /\ update'.todo = {} /\ ~update'.complete /\ update'.changed = {}
  BY DEF Load, Quiet, Updates, Settling, Typed
<1>2. Apart' BY DEF Load, Settling, Apart, Running
<1> QED BY <1>1, <1>2, IncompleteSettling DEF Load, Settling, Typed

LEMMA ClearSettling == ASSUME Settling, NEW n \in Namespaces, Clear(n) PROVE Settling'
<1>1. update \in Updates /\ update.todo = {} /\ ~update.complete /\ update.changed = {}
  BY DEF Clear, Settling, Typed, Points
<1>2. map' \in [Namespaces -> Tables] BY DEF Clear, Settling, Typed, Tables
<1>3. Apart' BY DEF Clear, Settling, Apart, Running
<1> QED BY <1>1, <1>2, <1>3, IncompleteSettling DEF Clear, Settling, Typed

\* The list, when nothing failed, has every item of every container, and the map is empty.
LEMMA ListSettling == Settling /\ List => Settling'
<1> SUFFICES ASSUME Settling, List PROVE Settling' OBVIOUS
<1>1. PICK answered \in SUBSET Inspections :
        update' = IF answered = {} THEN Quiet
                  ELSE [update EXCEPT !.pc = "write", !.todo = answered,
                                      !.complete = Present = {} /\ answered = Inspections]
  BY DEF List, ListContainers
<1>2. UNCHANGED <<file, where, map, events, daemon>> BY DEF List, ListContainers
<1>3. Apart' BY <1>2 DEF Settling, Apart, Running
<1>4. CASE answered = {}
  <2>1. update' = Quiet BY <1>1, <1>4
  <2> QED BY <1>2, <1>3, <2>1, QuietType, IncompleteSettling DEF Settling, Typed
<1>5. CASE answered # {}
  <2>0. update \in Updates BY DEF Settling, Typed
  <2>1. \A e \in answered :
          /\ e.container \in Running /\ e.item \in Matching(update.loaded, e.container)
          /\ e = [container |-> e.container, item |-> e.item]
    BY DEF Inspections
  <2>2. \A e \in answered : e \in [container : Containers, item : Nat]
    BY <2>0, <2>1, MatchingType DEF Running, Updates
  <2>3. /\ update'.pc = "write" /\ update'.todo = answered /\ update'.loaded = update.loaded
        /\ update'.changed = update.changed
        /\ update'.complete = (Present = {} /\ answered = Inspections) /\ update' \in Updates
    BY <1>1, <1>5, <2>0, <2>2 DEF Updates
  <2>4. Typed' BY <1>2, <2>1, <2>3 DEF Settling, Typed
  <2>5. CASE ~update'.complete
    BY <1>2, <1>3, <2>1, <2>3, <2>4, <2>5 DEF Settling, Typed, Points, Halfway
  <2>6. CASE update'.complete
    <3>1. Points'
      BY <1>2, <2>1, <2>3 DEF List, ListContainers, Settling, Points, Running
    <3>2. Present = {} /\ answered = Inspections BY <2>3, <2>6
    <3>3. \A c \in Running : \A i \in Matching(update.loaded, c) :
            [container |-> c, item |-> i] \in answered
      BY <3>2 DEF Inspections
    <3>4. \A c \in Running : Done(c)' = {} BY <2>3, <3>3 DEF Done
    <3>5. Running' = Running BY <1>2 DEF Running
    <3>6. \A n \in Namespaces : map'[n] = NoEntry BY <1>2, <3>2 DEF Present
    <3>7. \A c \in Running : where[c] \in Namespaces BY DEF Running, Settling, Typed
    <3>8. Halfway' BY <1>2, <3>4, <3>5, <3>6, <3>7 DEF Halfway, TableSoFar
    <3> QED BY <1>3, <2>4, <3>1, <3>8 DEF Settling
  <2> QED BY <2>0, <2>3, <2>5, <2>6 DEF Updates
<1> QED BY <1>4, <1>5

-----------------------------------------------------------------------------
\* What an entry does when it is the next and all goes well.
LEMMA WriteWell ==
  ASSUME Settling, NEW e \in update.todo, IsNext(e), update.complete,
         update.pc = "write",
         NEW todo, todo = update.todo \ {e},
         UNCHANGED <<file, where, events, daemon>>,
         update'.todo = todo, update'.loaded = update.loaded,
         map' = [map EXCEPT ![where[e.container]] = Entry(update.loaded[e.item].lsm)]
  PROVE  Halfway'
<1> DEFINE k == e.container
<1>1. /\ k \in Running /\ e.item \in Matching(update.loaded, k)
      /\ e = [container |-> k, item |-> e.item]
  BY DEF Settling, Typed, Points, Updates
<1>2. Running' = Running /\ where' = where BY DEF Running
<1>3. where[k] \in Namespaces /\ map \in [Namespaces -> Tables]
  BY <1>1 DEF Settling, Typed, Running
<1>4. \A c \in Running \ {k} : Done(c)' = Done(c)
  <2>1. \A c, i : c # k => [container |-> c, item |-> i] # e BY <1>1
  <2> QED BY <2>1 DEF Done
<1>5. Done(k)' = Done(k) \cup {e.item} BY <1>1 DEF Done
<1>6. Matching(update.loaded, k) \subseteq Nat
  BY MatchingType DEF Settling, Typed, Updates
<1>7. \A j \in Done(k) : j < e.item BY <1>1 DEF Settling, Halfway, Done
<1>8. \A i \in Matching(update.loaded, k) \ Done(k) : e.item <= i
  <2>1. \A i : [container |-> k, item |-> i].container = k
               /\ [container |-> k, item |-> i].item = i
    OBVIOUS
  <2> QED BY <2>1 DEF IsNext, Done
<1>9. Done(k) \subseteq Nat BY <1>6 DEF Done
<1>10. Max(Done(k)') = e.item
  <2>1. Done(k)' \in SUBSET Nat /\ e.item \in Done(k)' BY <1>1, <1>5, <1>6, <1>9
  <2>2. \A j \in Done(k)' : j <= e.item BY <1>1, <1>5, <1>6, <1>7, <1>9
  <2> HIDE DEF k
  <2> QED BY <2>1, <2>2, MaxIsBound
<1>11. ASSUME NEW c \in Running
       PROVE  /\ \A i \in Matching(update.loaded, c) \ Done(c)', j \in Done(c)' : j < i
              /\ map'[where[c]] = TableSoFar(c)'
  <2>1. CASE c = k
    <3>1. map'[where[k]] = Entry(update.loaded[e.item].lsm) BY <1>3
    <3>2. TableSoFar(k)' = Entry(update.loaded[e.item].lsm) BY <1>5, <1>10 DEF TableSoFar
    <3>3. ASSUME NEW i \in Matching(update.loaded, k) \ Done(k)', NEW j \in Done(k)'
          PROVE  j < i
      <4>1. i \in Matching(update.loaded, k) \ Done(k) /\ i # e.item BY <1>5
      <4>2. i \in Nat /\ e.item \in Nat /\ e.item < i BY <1>1, <1>6, <1>8, <4>1
      <4>3. j \in Nat /\ j <= e.item BY <1>1, <1>5, <1>6, <1>7, <1>9
      <4> QED BY <4>2, <4>3
    <3> QED BY <2>1, <3>1, <3>2, <3>3
  <2>2. CASE c # k
    <3>1. where[c] # where[k] BY <1>1, <2>2 DEF Settling, Apart
    <3>2. map'[where[c]] = map[where[c]] BY <1>3, <3>1 DEF Running, Settling, Typed
    <3>3. TableSoFar(c)' = TableSoFar(c) BY <1>4, <2>2 DEF TableSoFar
    <3> QED BY <1>4, <2>2, <3>2, <3>3 DEF Settling, Halfway
  <2> QED BY <2>1, <2>2
<1>12. ASSUME NEW n \in Namespaces, \A c \in Running : where[c] # n
       PROVE  map'[n] = NoEntry
  BY <1>1, <1>3, <1>12 DEF Settling, Halfway
<1> QED BY <1>2, <1>11, <1>12 DEF Halfway

LEMMA WriteSettling ==
  ASSUME Settling, NEW e \in update.todo, NEW kept \in BOOLEAN, Write(e, kept)
  PROVE  Settling'
<1>1. update \in Updates /\ map \in [Namespaces -> Tables] BY DEF Settling, Typed
<1>2. PICK n \in NamespaceOf(e) :
        map' = IF n # Nowhere /\ kept
               THEN [map EXCEPT ![n] = Entry(update.loaded[e.item].lsm)] ELSE map
  BY DEF Write
<1>3. e.item \in Matching(update.loaded, e.container) BY DEF Settling, Typed
<1>4. Entry(update.loaded[e.item].lsm) \in Tables BY <1>1, <1>3, EntryType DEF Updates
<1>5. map' \in [Namespaces -> Tables] BY <1>1, <1>2, <1>4
<1>6. /\ update'.pc = "write" /\ update'.todo = update.todo \ {e}
      /\ update'.loaded = update.loaded /\ update'.changed = update.changed
      /\ update'.complete = (update.complete /\ kept)
      /\ update' \in Updates
  <2> DEFINE turn == {d.container : d \in update.todo \ {e}} \cap {e.container}
  <2>1. e.container \in Containers BY <1>1 DEF Updates
  <2>2. turn \in SUBSET Containers BY <2>1
  <2>3. update' = [update EXCEPT !.todo = @ \ {e}, !.turn = turn, !.complete = @ /\ kept]
    BY DEF Write
  <2>4. update.pc = "write" BY DEF Write
  <2> HIDE DEF turn
  <2> QED BY <1>1, <2>2, <2>3, <2>4 DEF Updates
<1>7. UNCHANGED <<file, where, events, daemon>> BY DEF Write
<1>8. Apart' BY <1>7 DEF Settling, Apart, Running
<1>9. Typed' BY <1>5, <1>6, <1>7 DEF Settling, Typed
<1>10. Points' BY <1>6, <1>7 DEF Settling, Points, Running
<1>11. CASE ~(update.complete /\ kept)
  BY <1>6, <1>8, <1>9, <1>10, <1>11 DEF Settling, Halfway
<1>12. CASE update.complete /\ kept
  <2>1. e.container \in Running /\ e.container \notin update.changed
    BY <1>12 DEF Settling, Points
  <2>2. n = where[e.container] /\ n # Nowhere BY <2>1 DEF NamespaceOf, Running
  <2>3. map' = [map EXCEPT ![where[e.container]] = Entry(update.loaded[e.item].lsm)]
    BY <1>2, <1>12, <2>2
  <2>4. IsNext(e) /\ update.pc = "write" BY DEF Write
  <2>5. Halfway' BY <1>6, <1>7, <1>12, <2>3, <2>4, WriteWell
  <2> QED BY <1>8, <1>9, <1>10, <2>5 DEF Settling
<1> QED BY <1>11, <1>12

LEMMA FinishSettling == Settling /\ Finish => Settling'
<1> SUFFICES ASSUME Settling, Finish PROVE Settling' OBVIOUS
<1>1. UNCHANGED <<file, where, map, events, daemon>> BY DEF Finish
<1>2. Apart' BY <1>1 DEF Settling, Apart, Running
<1>3. CASE ~update.complete
  <2>1. update' = Quiet BY <1>3 DEF Finish
  <2> QED BY <1>1, <1>2, <2>1, QuietType, IncompleteSettling DEF Settling, Typed
<1>4. CASE update.complete
  <2>1. /\ update'.pc = "idle" /\ update'.todo = update.todo /\ update.todo = {}
        /\ update'.loaded = update.loaded /\ update'.changed = update.changed
        /\ update'.complete = update.complete /\ update' \in Updates
    BY <1>4 DEF Finish, Updates, Settling, Typed
  <2>2. Typed' BY <1>1, <2>1 DEF Settling, Typed
  <2>3. Points' BY <1>1, <2>1 DEF Settling, Points
  <2>4. Halfway'
    <3>1. /\ \A c \in Running :
               /\ \A i \in Matching(update.loaded, c) \ Done(c), j \in Done(c) : j < i
               /\ map[where[c]] = TableSoFar(c)
          /\ \A n \in Namespaces : (\A c \in Running : where[c] # n) => map[n] = NoEntry
      BY <1>4 DEF Settling, Halfway
    <3>2. Running' = Running BY <1>1 DEF Running
    <3>3. \A c : Done(c)' = Done(c) BY <2>1 DEF Done
    <3>4. \A c : TableSoFar(c)' = TableSoFar(c) BY <2>1, <3>3 DEF TableSoFar
    <3> QED BY <1>1, <2>1, <3>1, <3>2, <3>3, <3>4 DEF Halfway
  <2> QED BY <1>2, <2>2, <2>3, <2>4 DEF Settling
<1> QED BY <1>3, <1>4

-----------------------------------------------------------------------------
LEMMA HookSettling == Settling /\ Hook => Settling'
<1> SUFFICES ASSUME Settling, Hook PROVE Settling' OBVIOUS
<1>1. CASE \E t \in Threads, c \in Containers, r \in Requests : Ask(t, c, r)
  BY <1>1, OtherSettling DEF Ask, Settling, Typed
<1>2. ASSUME NEW t \in Threads, Decide(t) PROVE Settling'
  <2>1. events' \in {events} \cup (IF events = Room THEN {} ELSE {events + 1})
    BY <1>2 DEF Decide, Allowed
  <2>2. events' \in 0..Room BY <2>1, RoomAssumption DEF Settling, Typed
  <2> QED BY <1>2, <2>2, OtherSettling DEF Decide, Settling, Typed
<1>3. CASE \E t \in Threads : Return(t)
  BY <1>3, OtherSettling DEF Return, Settling, Typed
<1> QED BY <1>1, <1>2, <1>3 DEF Hook

LEMMA DaemonSettling == Settling /\ Daemon => Settling'
<1> SUFFICES ASSUME Settling, Daemon PROVE Settling' OBVIOUS
<1>1. CASE \E sent \in BOOLEAN : Consume(sent)
  <2>1. events' \in 0..Room /\ daemon' \in {"up", "leaving", "down"}
    BY <1>1, RoomAssumption DEF Consume, Settling, Typed
  <2> QED BY <1>1, <2>1, OtherSettling DEF Consume, Settling, Typed
<1>2. CASE Detach
  <2>1. map' \in [Namespaces -> Tables] BY <1>2 DEF Detach, Tables
  <2>2. events' \in 0..Room BY <1>2, RoomAssumption DEF Detach
  <2>3. Apart' BY <1>2 DEF Detach, Settling, Apart, Running
  <2>4. update' = Quiet /\ daemon' = "down" /\ UNCHANGED <<file, where>> BY <1>2 DEF Detach
  <2> QED BY <2>1, <2>2, <2>3, <2>4, QuietType, IncompleteSettling DEF Settling, Typed
<1>3. CASE Restart
  BY <1>3, OtherSettling DEF Restart, Settling, Typed
<1> QED BY <1>1, <1>2, <1>3 DEF Daemon

LEMMA SettlingInductive == Spec => []Settling
<1>1. Settling /\ [Next]_vars => Settling'
  <2>1. Settling /\ UNCHANGED vars => Settling'
    BY OtherSettling DEF vars, Settling, Typed
  <2>2. Settling /\ Update => Settling'
    BY LoadSettling, ClearSettling, ListSettling, WriteSettling, FinishSettling DEF Update
  <2> QED BY <2>1, <2>2, WorldSettling, HookSettling, DaemonSettling DEF Next
<1> QED BY <1>1, InitSettling, PTL DEF Spec

\* The policy, the map, the update, the hooks and the ring buffer have their types: the map
\* holds tables of policy files only, and the hooks never submit past the end of the ring.
THEOREM TypeCorrect == Spec => []TypeOK
<1>1. IInv /\ Settling => TypeOK
  BY DEF IInv, Good, Settling, Typed, TypeOK, Updates
<1> QED BY <1>1, Inductive, SettlingInductive, PTL

\* After an update that could do all it wanted, each running container has the table of the
\* last pattern that matches it and nobody else has one, whatever the namespaces were used
\* for before and in whichever order Docker listed the containers.
THEOREM InForce == Spec => []InForceWhenSettled
<1>1. Settling => InForceWhenSettled
  <2> SUFFICES ASSUME Settling, update.pc = "idle", update.complete, update.loaded = file,
                      NEW n \in Namespaces
               PROVE  map[n] = IF \E c \in Running : where[c] = n
                               THEN TableOf(file, CHOOSE c \in Running : where[c] = n)
                               ELSE NoEntry
    BY DEF InForceWhenSettled
  <2>1. CASE ~\E c \in Running : where[c] = n BY <2>1 DEF Settling, Halfway
  <2>2. CASE \E c \in Running : where[c] = n
    <3>1. PICK c \in Running : c = CHOOSE d \in Running : where[d] = n BY <2>2
    <3>2. where[c] = n BY <2>2, <3>1
    <3>3. update.todo = {} BY DEF Settling, Points
    <3>4. Done(c) = Matching(file, c) BY <3>3 DEF Done
    <3>5. TableSoFar(c) = TableOf(file, c) BY <3>4 DEF TableSoFar, TableOf
    <3>6. map[where[c]] = TableSoFar(c) BY DEF Settling, Halfway
    <3> QED BY <2>2, <3>1, <3>2, <3>5, <3>6
  <2> QED BY <2>1, <2>2
<1> QED BY <1>1, SettlingInductive, PTL
=============================================================================
