------------------------- MODULE TpPolicySyncProofs -------------------------
(***************************************************************************)
(* TpPolicySync for any containers, namespaces and policies: its types, no *)
(* orphans, tables as the policy wants them after an update that went      *)
(* well, and no gap in the logging of a container while it is updated.     *)
(***************************************************************************)
EXTENDS TpPolicySync, TLAPS

\* Containers that run at the same time have namespaces of their own.
Apart == \A c, d \in Running : where[c] = where[d] => c = d

\* What is listed: running unless noticed, once per pattern, and in new_namespaces
\* once it is written under its own namespace.
ListedInv ==
    /\ \A e \in listed : e.id \in gone \cup Running
    /\ \A d, e \in listed : d.id = e.id /\ d.item = e.item => d = e
    /\ \A e \in listed \ todo :
         IsFirst(e) /\ e.id \notin gone => where[e.id] \in fresh

\* Clearing begins when all is written, and what is cleared asks for nothing.
ClearedInv ==
    /\ cleared # {} => todo = {}
    /\ \A ns \in cleared \cap DOMAIN map : map[ns] = <<>>

\* While an update can do all it wants, its list is what Docker and the file say, and
\* new_namespaces is what has been written, as its first pattern says.
Plan ==
    /\ gone = {}
    /\ listed = Inspections
    /\ \A e \in listed \ todo :
         IsFirst(e) => where[e.id] \in DOMAIN map /\ map[where[e.id]] = Table(e.calls)
    /\ \A ns \in fresh \cap Namespaces :
         \E e \in listed \ todo : IsFirst(e) /\ where[e.id] = ns
PlanInv == pc = "update" /\ intact => Plan

Inv ==
    /\ TypeOK
    /\ Apart
    /\ ListedInv
    /\ ClearedInv
    /\ NoOrphan
    /\ PlanInv
    /\ TablesWhenSettled

-----------------------------------------------------------------------------
\* The entries of an inspection are typed.
LEMMA InspectionTypes ==
    ASSUME TypeOK, NEW e \in Inspections
    PROVE  /\ e \in [id : Containers, item : Nat, calls : CallLists]
           /\ e.id \in Running
           /\ e.item \in DOMAIN file
           /\ e.calls = file[e.item].calls
           /\ e.id \in file[e.item].names
<1>1. PICK c \in Running, i \in DOMAIN file :
        e = [id |-> c, item |-> i, calls |-> file[i].calls]
  BY DEF Inspections, Matches
<1>2. file \in Policies /\ file \in Seq(Items)
  BY ConstantsAssumption DEF TypeOK
<1>3. i \in Nat
  BY <1>2
<1>4. file[i].calls \in CallLists
  BY <1>2 DEF CallLists
<1>5. c \in Containers
  BY DEF Running
<1>6. e.id \in file[e.item].names
  BY DEF Inspections
<1>7. QED
  BY <1>1, <1>3, <1>4, <1>5, <1>6

\* An entry is written under a key of the map's.
LEMMA NamespaceOfType ==
    ASSUME TypeOK, ListedInv, NEW e \in listed
    PROVE  NamespaceOf(e) \subseteq Keys
<1>1. e.id \in Containers
  BY DEF TypeOK
<1>2. CASE ~IsFirst(e)
  BY <1>2 DEF NamespaceOf, Keys
<1>3. CASE IsFirst(e) /\ e.id \in gone
  BY <1>3 DEF NamespaceOf, Keys
<1>4. CASE IsFirst(e) /\ e.id \notin gone
  <2>1. where[e.id] \in Namespaces
    BY <1>1, <1>4 DEF ListedInv, Running, TypeOK
  <2>2. QED
    BY <1>4, <2>1 DEF NamespaceOf, Keys
<1>5. QED
  BY <1>2, <1>3, <1>4

\* The entry of a container that still runs goes to its namespace.
LEMMA NamespaceOfFirst ==
    ASSUME NEW e, IsFirst(e), e.id \notin gone
    PROVE  NamespaceOf(e) = {where[e.id]}
BY DEF NamespaceOf

\* Two first entries of a container are the same.
LEMMA FirstIsUnique ==
    ASSUME TypeOK, ListedInv, NEW d \in listed, NEW e \in listed,
           IsFirst(d), IsFirst(e), d.id = e.id
    PROVE  d = e
<1>1. d.item \in Nat /\ e.item \in Nat
  BY DEF TypeOK
<1>2. d.item <= e.item /\ e.item <= d.item
  BY DEF IsFirst
<1>3. QED
  BY <1>1, <1>2 DEF ListedInv

-----------------------------------------------------------------------------
LEMMA InitInv == Init => Inv
<1> SUFFICES ASSUME Init PROVE Inv
  OBVIOUS
<1>1. TypeOK
  BY DEF Init, TypeOK, Keys
<1>2. Apart /\ ListedInv /\ ClearedInv /\ PlanInv /\ NoOrphan /\ TablesWhenSettled
  BY DEF Init, Apart, Running, ListedInv, ClearedInv, PlanInv, NoOrphan, TablesWhenSettled
<1>3. QED
  BY <1>1, <1>2 DEF Inv

LEMMA NextTypes == Inv /\ [Next]_vars => TypeOK'
<1> SUFFICES ASSUME Inv, [Next]_vars PROVE TypeOK'
  OBVIOUS
<1> USE DEF Inv, TypeOK
<1>1. ASSUME NEW policy \in Policies, Edit(policy) PROVE TypeOK'
  BY <1>1 DEF Edit, update
<1>2. ASSUME NEW c \in Containers, NEW ns \in Namespaces, Start(c, ns) PROVE TypeOK'
  BY <1>2 DEF Start, update
<1>3. ASSUME NEW c \in Containers, Stop(c) PROVE TypeOK'
  BY <1>3 DEF Stop, update
<1>4. CASE ListNobody \/ ListNothing
  BY <1>4 DEF ListNobody, ListNothing, update, world
<1>5. CASE ListContainers
  <2>1. PICK answered \in SUBSET Inspections : listed' = answered /\ todo' = answered
    BY <1>5 DEF ListContainers
  <2>2. listed' \subseteq [id : Containers, item : Nat, calls : CallLists]
    BY <2>1, InspectionTypes
  <2>3. intact' \in BOOLEAN
    BY <1>5 DEF ListContainers
  <2>4. QED
    BY <1>5, <2>1, <2>2, <2>3 DEF ListContainers, world
<1>6. ASSUME NEW e \in todo, Write(e) PROVE TypeOK'
  <2>1. PICK ns \in NamespaceOf(e) :
          /\ fresh' = fresh \cup {ns}
          /\ map' = IF HasRoom(ns) THEN Put(ns, Table(e.calls)) ELSE map
    BY <1>6 DEF Write
  <2>2. ns \in Keys
    BY NamespaceOfType
  <2>3. Table(e.calls) \in Tables
    BY DEF Tables
  <2>4. DOMAIN map' \subseteq Keys /\ \A n \in DOMAIN map' : map'[n] \in Tables
    BY <2>1, <2>2, <2>3 DEF Put
  <2>5. intact' \in BOOLEAN
    BY <1>6 DEF Write
  <2>6. QED
    BY <1>6, <2>1, <2>2, <2>4, <2>5 DEF Write, world
<1>7. ASSUME NEW ns \in monitored, Clear(ns) PROVE TypeOK'
  <2>1. DOMAIN map' \subseteq Keys /\ \A n \in DOMAIN map' : map'[n] \in Tables
    BY <1>7 DEF Clear, Put, Tables
  <2>2. QED
    BY <1>7, <2>1 DEF Clear, world
<1>8. CASE Finish
  BY <1>8 DEF Finish, world
<1>9. CASE Restart
  BY <1>9 DEF Restart, world
<1>10. CASE UNCHANGED vars
  BY <1>10 DEF vars, update, world
<1>11. QED
  BY <1>1, <1>2, <1>3, <1>4, <1>5, <1>6, <1>7, <1>8, <1>9, <1>10
     DEF Next, World, Update

LEMMA NextApart == Inv /\ [Next]_vars => Apart'
<1> SUFFICES ASSUME Inv, [Next]_vars PROVE Apart'
  OBVIOUS
<1> USE DEF Inv, TypeOK, Apart, Running
<1>1. ASSUME NEW c \in Containers, NEW ns \in Namespaces, Start(c, ns) PROVE Apart'
  BY <1>1 DEF Start
<1>2. ASSUME NEW c \in Containers, Stop(c) PROVE Apart'
  BY <1>2 DEF Stop
<1>3. CASE where' = where
  BY <1>3
<1>4. Update \/ Restart \/ UNCHANGED vars => where' = where
  BY DEF Update, ListNobody, ListNothing, ListContainers, Write, Clear, Finish, Restart,
     world, vars
<1>5. \A policy \in Policies : Edit(policy) => where' = where
  BY DEF Edit
<1>6. QED
  BY <1>1, <1>2, <1>3, <1>4, <1>5 DEF Next, World

LEMMA NextListed == Inv /\ [Next]_vars => ListedInv'
<1> SUFFICES ASSUME Inv, [Next]_vars PROVE ListedInv'
  OBVIOUS
<1> USE DEF Inv, TypeOK, ListedInv, Running
<1>1. ASSUME NEW policy \in Policies, Edit(policy) PROVE ListedInv'
  BY <1>1 DEF Edit, update, IsFirst
<1>2. ASSUME NEW c \in Containers, NEW ns \in Namespaces, Start(c, ns) PROVE ListedInv'
  <2>1. \A e \in listed : e.id \notin gone => e.id # c
    BY <1>2 DEF Start
  <2>2. \A d \in Containers : where'[d] = IF d = c THEN ns ELSE where[d]
    BY <1>2 DEF Start
  <2>3. ns # Nowhere
    BY ConstantsAssumption
  <2>4. \A e \in listed' : e.id \in gone' \cup Running'
    BY <1>2, <2>2, <2>3 DEF Start, update
  <2>5. QED
    BY <1>2, <2>1, <2>2, <2>4 DEF Start, update, IsFirst
<1>3. ASSUME NEW c \in Containers, Stop(c) PROVE ListedInv'
  <2>1. \A d \in Containers \ {c} : where'[d] = where[d]
    BY <1>3 DEF Stop
  <2>2. \A e \in listed : e.id = c => e.id \in gone'
    BY <1>3 DEF Stop
  <2>3. gone \subseteq gone'
    BY <1>3 DEF Stop
  <2>4. QED
    BY <1>3, <2>1, <2>2, <2>3 DEF Stop, update, IsFirst
<1>4. CASE ListNobody \/ ListNothing \/ UNCHANGED vars
  BY <1>4 DEF ListNobody, ListNothing, world, update, vars, IsFirst
<1>5. CASE ListContainers
  <2>1. PICK answered \in SUBSET Inspections : listed' = answered /\ todo' = answered
    BY <1>5 DEF ListContainers
  <2>2. \A e \in listed' : e.id \in Running'
    BY <1>5, <2>1, InspectionTypes DEF ListContainers, world
  <2>3. ASSUME NEW d \in listed', NEW e \in listed', d.id = e.id, d.item = e.item
        PROVE  d = e
    BY <2>1, <2>3, InspectionTypes
  <2>4. QED
    BY <2>1, <2>2, <2>3
<1>6. ASSUME NEW e \in todo, Write(e) PROVE ListedInv'
  <2>1. PICK ns \in NamespaceOf(e) : fresh' = fresh \cup {ns}
    BY <1>6 DEF Write
  <2>2. IsFirst(e) /\ e.id \notin gone => where[e.id] \in fresh'
    BY <2>1, NamespaceOfFirst
  <2>3. QED
    BY <1>6, <2>1, <2>2 DEF Write, world, IsFirst
<1>7. ASSUME NEW ns \in monitored, Clear(ns) PROVE ListedInv'
  BY <1>7 DEF Clear, world, IsFirst
<1>8. CASE Finish \/ Restart
  BY <1>8 DEF Finish, Restart
<1>9. QED
  BY <1>1, <1>2, <1>3, <1>4, <1>5, <1>6, <1>7, <1>8 DEF Next, World, Update

\* The map's entry for one namespace after a step that puts another.
LEMMA PutElsewhere ==
    ASSUME NEW ns, NEW n, NEW table, n # ns
    PROVE  /\ n \in DOMAIN Put(ns, table) <=> n \in DOMAIN map
           /\ n \in DOMAIN map => Put(ns, table)[n] = map[n]
BY DEF Put

LEMMA PutHere ==
    ASSUME NEW ns, NEW table
    PROVE  ns \in DOMAIN Put(ns, table) /\ Put(ns, table)[ns] = table
BY DEF Put

LEMMA NextCleared == Inv /\ [Next]_vars => ClearedInv' /\ NoOrphan'
<1> SUFFICES ASSUME Inv, [Next]_vars PROVE ClearedInv' /\ NoOrphan'
  OBVIOUS
<1> USE DEF Inv, TypeOK, ClearedInv, NoOrphan
<1>1. CASE World \/ ListNobody \/ ListNothing \/ UNCHANGED vars
  <2>1. UNCHANGED <<map, monitored, todo, fresh, cleared>>
    BY <1>1 DEF World, Edit, Start, Stop, ListNobody, ListNothing, update, vars
  <2>2. QED
    BY <2>1
<1>2. CASE ListContainers
  BY <1>2 DEF ListContainers
<1>3. ASSUME NEW e \in todo, Write(e) PROVE ClearedInv' /\ NoOrphan'
  <2>1. PICK ns \in NamespaceOf(e) :
          /\ fresh' = fresh \cup {ns}
          /\ map' = IF HasRoom(ns) THEN Put(ns, Table(e.calls)) ELSE map
    BY <1>3 DEF Write
  <2>2. cleared' = {} /\ monitored' = monitored
    BY <1>3 DEF Write
  <2>3. \A n \in DOMAIN map' : n # ns => n \in DOMAIN map /\ map'[n] = map[n]
    BY <2>1, PutElsewhere
  <2>4. QED
    BY <2>1, <2>2, <2>3
<1>4. ASSUME NEW ns \in monitored, Clear(ns) PROVE ClearedInv' /\ NoOrphan'
  <2>1. /\ todo' = {} /\ cleared' = cleared \cup {ns}
        /\ UNCHANGED <<monitored, fresh>>
        /\ map' = IF HasRoom(ns) THEN Put(ns, <<>>) ELSE map
    BY <1>4 DEF Clear
  <2>2. \A n \in DOMAIN map' : n # ns => n \in DOMAIN map /\ map'[n] = map[n]
    BY <2>1, PutElsewhere
  <2>3. ns \in DOMAIN map' => map'[ns] = <<>>
    BY <2>1, PutHere DEF HasRoom
  <2>4. QED
    BY <2>1, <2>2, <2>3
<1>5. CASE Finish
  BY <1>5 DEF Finish
<1>6. CASE Restart
  BY <1>6 DEF Restart
<1>7. QED
  BY <1>1, <1>2, <1>3, <1>4, <1>5, <1>6 DEF Next, Update

-----------------------------------------------------------------------------
LEMMA NextPlan == Inv /\ [Next]_vars => PlanInv'
<1> SUFFICES ASSUME Inv, [Next]_vars PROVE PlanInv'
  OBVIOUS
<1>1. CASE World
  BY <1>1 DEF World, Edit, Start, Stop, PlanInv
<1>2. CASE ListNobody
  <2>1. listed' = {} /\ fresh' = {} /\ gone' = {}
    BY <1>2 DEF ListNobody, Inv, TypeOK
  <2>2. Inspections' = {}
    BY <1>2 DEF ListNobody, world, Inspections, Matches
  <2>3. QED
    BY <2>1, <2>2 DEF PlanInv, Plan
<1>3. CASE ListNothing \/ Finish \/ Restart
  BY <1>3 DEF ListNothing, Finish, Restart, PlanInv
<1>4. CASE ListContainers
  <2>1. listed' = todo' /\ fresh' = {} /\ gone' = {}
    BY <1>4 DEF ListContainers, Inv, TypeOK
  <2>2. intact' => listed' = Inspections
    BY <1>4 DEF ListContainers
  <2>3. Inspections' = Inspections
    BY <1>4 DEF ListContainers, world, Inspections, Matches, Running
  <2>4. QED
    BY <2>1, <2>2, <2>3 DEF PlanInv, Plan
<1>5. ASSUME NEW e \in todo, Write(e) PROVE PlanInv'
  <2> SUFFICES ASSUME pc' = "update", intact' PROVE Plan'
    BY DEF PlanInv
  <2>1. PICK ns \in NamespaceOf(e) :
          /\ fresh' = fresh \cup {ns}
          /\ map' = IF HasRoom(ns) THEN Put(ns, Table(e.calls)) ELSE map
          /\ intact' = (intact /\ HasRoom(ns) /\ (IsFirst(e) \/ ns \notin Namespaces))
    BY <1>5 DEF Write
  <2>2. /\ intact /\ HasRoom(ns) /\ (IsFirst(e) \/ ns \notin Namespaces)
        /\ UNCHANGED <<world, listed, pc, gone>>
        /\ todo' = todo \ {e}
    BY <1>5, <2>1 DEF Write
  <2>3. gone = {} /\ listed = Inspections
    BY <2>2 DEF Inv, PlanInv, Plan
  <2>4. Inspections' = Inspections /\ \A d : IsFirst(d)' <=> IsFirst(d)
    BY <2>2 DEF world, Inspections, Matches, Running, IsFirst
  <2>5. map' = Put(ns, Table(e.calls))
    BY <2>1, <2>2
  <2>6. e \in listed /\ \A d \in listed : d.id \in Running /\ d.id \in Containers
    BY <2>3 DEF Inv, TypeOK, ListedInv
  <2>7. IsFirst(e) => ns = where[e.id]
    BY <2>3, NamespaceOfFirst
  <2>8. ASSUME NEW d \in listed \ todo', IsFirst(d)
        PROVE  where[d.id] \in DOMAIN map' /\ map'[where[d.id]] = Table(d.calls)
    <3>1. CASE d = e
      BY <2>5, <2>7, <2>8, <3>1, PutHere
    <3>2. CASE d # e
      <4>1. where[d.id] \in Namespaces
        BY <2>6 DEF Running, Inv, TypeOK
      <4>2. where[d.id] # ns
        <5>1. CASE IsFirst(e)
          BY <2>6, <2>7, <2>8, <3>2, <5>1, FirstIsUnique DEF Inv, Apart
        <5>2. CASE ~IsFirst(e)
          BY <2>2, <4>1, <5>2
        <5>3. QED
          BY <5>1, <5>2
      <4>3. where[d.id] \in DOMAIN map /\ map[where[d.id]] = Table(d.calls)
        BY <2>2, <2>8, <3>2 DEF Inv, PlanInv, Plan
      <4>4. QED
        BY <2>5, <4>2, <4>3, PutElsewhere
    <3>3. QED
      BY <3>1, <3>2
  <2>9. ASSUME NEW n \in fresh' \cap Namespaces
        PROVE  \E d \in listed \ todo' : IsFirst(d) /\ where[d.id] = n
    <3>1. CASE n = ns
      BY <2>2, <2>6, <2>7, <2>9, <3>1
    <3>2. CASE n # ns
      BY <2>1, <2>2, <2>9, <3>2 DEF Inv, PlanInv, Plan
    <3>3. QED
      BY <3>1, <3>2
  <2>10. QED
    BY <2>2, <2>3, <2>4, <2>8, <2>9 DEF Plan, world
<1>6. ASSUME NEW ns \in monitored, Clear(ns) PROVE PlanInv'
  <2>1. /\ UNCHANGED <<world, listed, todo, fresh, pc, gone, intact>>
        /\ map' = IF HasRoom(ns) THEN Put(ns, <<>>) ELSE map
        /\ ns \notin fresh
    BY <1>6 DEF Clear
  <2>2. Inspections' = Inspections /\ \A d : IsFirst(d)' <=> IsFirst(d)
    BY <2>1 DEF world, Inspections, Matches, Running, IsFirst
  <2>3. ASSUME intact, pc = "update", NEW d \in listed \ todo, IsFirst(d)
        PROVE  where[d.id] \in DOMAIN map' /\ map'[where[d.id]] = Table(d.calls)
    <3>1. where[d.id] \in fresh /\ gone = {}
      BY <2>3 DEF Inv, PlanInv, Plan, ListedInv
    <3>2. where[d.id] \in DOMAIN map /\ map[where[d.id]] = Table(d.calls)
      BY <2>3 DEF Inv, PlanInv, Plan
    <3>3. QED
      BY <2>1, <3>1, <3>2, PutElsewhere
  <2>4. QED
    BY <2>1, <2>2, <2>3 DEF Inv, PlanInv, Plan, world
<1>7. CASE UNCHANGED vars
  BY <1>7 DEF vars, world, update, Inv, PlanInv, Plan, Inspections, Matches, Running, IsFirst
<1>8. QED
  BY <1>1, <1>2, <1>3, <1>4, <1>5, <1>6, <1>7 DEF Next, Update

\* The end of an update that could do all it wanted.
LEMMA FinishSettled ==
    ASSUME Inv, Finish, intact, NEW c \in Running, NEW call \in Calls
    PROVE  ShouldLog(where[c], call) <=>
             \E i \in DOMAIN file :
                 /\ c \in file[i].names
                 /\ \A j \in 1..(i - 1) : c \notin file[j].names
                 /\ \E k \in DOMAIN Table(file[i].calls) : Table(file[i].calls)[k] = call
<1> DEFINE First(i) == /\ i \in DOMAIN file
                       /\ c \in file[i].names
                       /\ \A j \in 1..(i - 1) : c \notin file[j].names
           Asks(i) == \E k \in DOMAIN Table(file[i].calls) : Table(file[i].calls)[k] = call
<1>1. todo = {} /\ monitored \subseteq fresh \cup cleared /\ Plan
  BY DEF Finish, Inv, PlanInv
<1>2. file \in Seq(Items) /\ DOMAIN file \subseteq Nat
  BY ConstantsAssumption DEF Inv, TypeOK
<1>3. c \in Containers /\ where[c] \in Namespaces
  BY DEF Running, Inv, TypeOK
<1>4. \A e \in listed : e.item \in DOMAIN file /\ e.id \in file[e.item].names
                         /\ e.calls = file[e.item].calls /\ e.item \in Nat
                         /\ e.id \in Running
  BY <1>1, InspectionTypes DEF Inv, Plan
<1>5. ASSUME NEW i, First(i)
      PROVE  where[c] \in DOMAIN map /\ map[where[c]] = Table(file[i].calls)
  <2> DEFINE e == [id |-> c, item |-> i, calls |-> file[i].calls]
  <2>1. e \in listed
    BY <1>1, <1>5 DEF Plan, Inspections, Matches
  <2>2. IsFirst(e)
    <3> SUFFICES ASSUME NEW d \in listed, d.id = c PROVE i <= d.item
      BY DEF IsFirst
    <3>1. d.item \in DOMAIN file /\ c \in file[d.item].names
      BY <1>4
    <3>2. d.item \in 1..Len(file) /\ i \in 1..Len(file) /\ Len(file) \in Nat
      BY <1>2, <1>5, <3>1
    <3>3. d.item \notin 1..(i - 1)
      BY <1>5, <3>1
    <3>4. QED
      BY <3>2, <3>3
  <2>3. QED
    BY <1>1, <2>1, <2>2 DEF Plan
<1>6. ASSUME ShouldLog(where[c], call) PROVE \E i : First(i) /\ Asks(i)
  <2>1. where[c] \in DOMAIN map /\ map[where[c]] # <<>>
    BY <1>6 DEF ShouldLog
  <2>2. where[c] \in fresh
    BY <1>1, <2>1 DEF Inv, NoOrphan, ClearedInv
  <2>3. PICK e \in listed : IsFirst(e) /\ where[e.id] = where[c]
    BY <1>1, <1>3, <2>2 DEF Plan
  <2>4. e.id = c
    BY <1>4, <2>3 DEF Inv, Apart
  <2>5. map[where[c]] = Table(file[e.item].calls)
    BY <1>1, <1>4, <2>3, <2>4 DEF Plan
  <2>6. ASSUME NEW j \in 1..(e.item - 1), c \in file[j].names PROVE FALSE
    <3>1. j \in DOMAIN file /\ j < e.item /\ j \in Nat
      <4>1. e.item \in 1..Len(file) /\ Len(file) \in Nat /\ DOMAIN file = 1..Len(file)
        BY <1>2, <1>4
      <4>2. QED
        BY <4>1
    <3>2. [id |-> c, item |-> j, calls |-> file[j].calls] \in listed
      BY <1>1, <2>6, <3>1 DEF Plan, Inspections, Matches
    <3>3. e.item <= j
      BY <2>3, <2>4, <3>2 DEF IsFirst
    <3>4. QED
      BY <1>4, <3>1, <3>3
  <2>7. First(e.item)
    BY <1>4, <2>4, <2>6
  <2>8. Asks(e.item)
    BY <1>6, <2>5 DEF ShouldLog
  <2>9. QED
    BY <2>7, <2>8
<1>7. ASSUME NEW i, First(i), Asks(i) PROVE ShouldLog(where[c], call)
  BY <1>5, <1>7 DEF ShouldLog
<1>8. QED
  BY <1>6, <1>7

LEMMA NextSettled == Inv /\ [Next]_vars => TablesWhenSettled'
<1> SUFFICES ASSUME Inv, [Next]_vars PROVE TablesWhenSettled'
  OBVIOUS
<1>1. CASE Finish
  <2>1. UNCHANGED <<world, map, intact>>
    BY <1>1 DEF Finish
  <2>2. QED
    BY <1>1, <2>1, FinishSettled DEF TablesWhenSettled, world, Running, ShouldLog
<1>2. CASE World \/ ListNothing \/ Restart
  BY <1>2 DEF World, Edit, Start, Stop, ListNothing, Restart, TablesWhenSettled
<1>3. CASE ListNobody \/ ListContainers
  BY <1>3 DEF ListNobody, ListContainers, TablesWhenSettled
<1>4. CASE (\E e \in todo : Write(e)) \/ (\E ns \in monitored : Clear(ns))
  BY <1>4 DEF Write, Clear, Inv, TypeOK, TablesWhenSettled
<1>5. CASE UNCHANGED vars
  BY <1>5 DEF vars, world, update, Inv, TablesWhenSettled, Running, ShouldLog
<1>6. QED
  BY <1>1, <1>2, <1>3, <1>4, <1>5 DEF Next, Update

LEMMA Invariance == Spec => []Inv
<1>1. Inv /\ [Next]_vars => Inv'
  BY NextTypes, NextApart, NextListed, NextCleared, NextPlan, NextSettled DEF Inv
<1>2. QED
  BY InitInv, <1>1, PTL DEF Spec

-----------------------------------------------------------------------------
\* The types of TpPolicySync.
THEOREM TypeCorrect == Spec => []TypeOK
<1>1. Inv => TypeOK
  BY DEF Inv
<1>2. QED
  BY Invariance, <1>1, PTL

\* No table is forgotten (current_monitored_namespaces of tracepoint.cpp), whatever
\* requests fail and wherever stray entries go.
THEOREM NothingForgotten == Spec => []NoOrphan
<1>1. Inv => NoOrphan
  BY DEF Inv
<1>2. QED
  BY Invariance, <1>1, PTL

\* After an update that went well, the tables are what policy.yaml says
\* (update_policy_with_file of tracepoint.cpp).
THEOREM SettledTables == Spec => []TablesWhenSettled
<1>1. Inv => TablesWhenSettled
  BY DEF Inv
<1>2. QED
  BY Invariance, <1>1, PTL

-----------------------------------------------------------------------------
\* What Uninterrupted says of one entry and one call.
Kept(e, call) ==
    (/\ ShouldLog(where[e.id], call)
     /\ \E k \in DOMAIN Table(e.calls) : Table(e.calls)[k] = call
     /\ where[e.id] \in Namespaces /\ where'[e.id] = where[e.id]
     /\ IsFirst(e)' /\ e.id \notin gone'
     /\ Astray = {})
    => ShouldLog(where[e.id], call)'

LEMMA WriteKeeps ==
    ASSUME Inv, NEW d \in todo, Write(d), NEW e \in listed', NEW call \in Calls
    PROVE  Kept(e, call)
<1> SUFFICES ASSUME ShouldLog(where[e.id], call),
                    \E k \in DOMAIN Table(e.calls) : Table(e.calls)[k] = call,
                    where[e.id] \in Namespaces, IsFirst(e)', e.id \notin gone',
                    Astray = {}
             PROVE  ShouldLog(where[e.id], call)'
  BY DEF Kept
<1>1. UNCHANGED <<where, listed, gone>>
  BY DEF Write, world
<1>2. IsFirst(d) /\ d.id \notin gone /\ IsFirst(e) /\ d \in listed /\ e \in listed
  BY <1>1 DEF Astray, IsFirst, Inv, TypeOK
<1>3. map' = IF HasRoom(where[d.id]) THEN Put(where[d.id], Table(d.calls)) ELSE map
  BY <1>2, NamespaceOfFirst DEF Write
<1>4. CASE where[e.id] = where[d.id]
  <2>1. d.id \in Running /\ e.id \in Running
    BY <1>1, <1>2 DEF Inv, ListedInv
  <2>2. d = e
    BY <1>2, <1>4, <2>1, FirstIsUnique DEF Inv, Apart
  <2>3. HasRoom(where[e.id])
    BY DEF ShouldLog, HasRoom
  <2>4. map' = Put(where[e.id], Table(e.calls))
    BY <1>3, <2>2, <2>3
  <2>5. where[e.id] \in DOMAIN map' /\ map'[where[e.id]] = Table(e.calls)
    BY <2>4, PutHere
  <2>6. QED
    BY <1>1, <2>5 DEF ShouldLog
<1>5. CASE where[e.id] # where[d.id]
  <2>1. where[e.id] \in DOMAIN map /\ \E k \in DOMAIN map[where[e.id]] : map[where[e.id]][k] = call
    BY DEF ShouldLog
  <2>2. where[e.id] \in DOMAIN map' /\ map'[where[e.id]] = map[where[e.id]]
    BY <1>3, <1>5, <2>1, PutElsewhere
  <2>3. QED
    BY <1>1, <2>1, <2>2 DEF ShouldLog
<1>6. QED
  BY <1>4, <1>5

LEMMA ClearKeeps ==
    ASSUME Inv, NEW ns \in monitored, Clear(ns), NEW e \in listed', NEW call \in Calls
    PROVE  Kept(e, call)
<1> SUFFICES ASSUME ShouldLog(where[e.id], call), IsFirst(e)', e.id \notin gone'
             PROVE  ShouldLog(where[e.id], call)'
  BY DEF Kept
<1>1. UNCHANGED <<where, listed, gone>> /\ todo = {} /\ ns \notin fresh
  BY DEF Clear, world
<1>2. where[e.id] # ns
  BY <1>1 DEF IsFirst, Inv, ListedInv
<1>3. where[e.id] \in DOMAIN map /\ \E k \in DOMAIN map[where[e.id]] : map[where[e.id]][k] = call
  BY DEF ShouldLog
<1>4. where[e.id] \in DOMAIN map' /\ map'[where[e.id]] = map[where[e.id]]
  BY <1>2, <1>3, PutElsewhere DEF Clear
<1>5. QED
  BY <1>1, <1>3, <1>4 DEF ShouldLog

LEMMA NextKeeps ==
    ASSUME Inv, [Next]_vars, NEW e \in listed', NEW call \in Calls
    PROVE  Kept(e, call)
<1>1. CASE Restart \/ Finish
  BY <1>1 DEF Restart, Finish
<1>2. ASSUME NEW d \in todo, Write(d) PROVE Kept(e, call)
  BY <1>2, WriteKeeps
<1>3. ASSUME NEW ns \in monitored, Clear(ns) PROVE Kept(e, call)
  BY <1>3, ClearKeeps
<1>4. CASE World \/ ListNobody \/ ListNothing \/ ListContainers \/ UNCHANGED vars
  <2>1. map' = map
    BY <1>4 DEF World, Edit, Start, Stop, ListNobody, ListNothing, ListContainers, vars
  <2>2. QED
    BY <2>1 DEF Kept, ShouldLog
<1>5. QED
  BY <1>1, <1>2, <1>3, <1>4 DEF Next, Update

\* No update interrupts the logging of a container that stays in the policy
\* (update_policy_with_file of tracepoint.cpp writes before it clears).
THEOREM LoggedThroughout == Spec => Uninterrupted
<1>1. Inv /\ [Next]_vars =>
        [\A e \in listed', call \in Calls :
          (/\ ShouldLog(where[e.id], call)
           /\ \E k \in DOMAIN Table(e.calls) : Table(e.calls)[k] = call
           /\ where[e.id] \in Namespaces /\ where'[e.id] = where[e.id]
           /\ IsFirst(e)' /\ e.id \notin gone'
           /\ Astray = {})
          => ShouldLog(where[e.id], call)']_vars
  BY NextKeeps DEF Kept
<1>2. QED
  BY Invariance, <1>1, PTL DEF Spec, Uninterrupted
=============================================================================
