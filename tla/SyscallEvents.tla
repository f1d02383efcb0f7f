--------------------------- MODULE SyscallEvents ---------------------------
(***************************************************************************)
(* From a system call to the line the tracepoint daemon logs of it.        *)
(*                                                                         *)
(* For every system call it knows the BPF object has a program at the      *)
(* entry and one at the exit.  Each writes an event into the ring buffer,  *)
(* if the policy of the container asks for the call and there is room; the *)
(* event's memory is what an earlier event left there.  Fourteen calls     *)
(* keep user pointers in a map, keyed by the thread, from entry to exit.   *)
(* User space takes the events one by one and prints the slots its handler *)
(* for the call names.                                                     *)
(*                                                                         *)
(* The policy array changes at any time, threads may be inside a call when *)
(* the programs are attached, user memory holds anything.  A program       *)
(* runs to its end on one CPU and touches only its own thread's entries,   *)
(* so it is one step.  Wording is left out; `ret', comm, ids and times are *)
(* written by every program in the same way and are left out too.          *)
(***************************************************************************)
EXTENDS SyscallHandlers, Sequences, FiniteSets

CONSTANTS Threads,   \* keys (pid, tid, pid namespace) of the threads of one container
          Calls,     \* the system calls the threads make
          Policies,  \* the sets of calls the policy may ask for
          Capacity,  \* entries of each map of pointers (1024 in map.h)
          Room       \* events the ring buffer holds

ASSUME ThreadsAssumption == IsFiniteSet(Threads)
ASSUME CallsAssumption == Calls \subseteq DOMAIN Stores /\ "idle" \notin Calls
ASSUME PoliciesAssumption == Policies # {} /\ Policies \subseteq SUBSET Calls
ASSUME SizesAssumption == Capacity \in Nat \ {0} /\ Room \in Nat \ {0}

VARIABLES
  call,     \* call[t]: the system call t is inside, or Idle
  pointers, \* pointers[m][t]: the entry of thread t in the map of call m
  logged,   \* the calls syscall_array asks for
  ring      \* the events submitted and not yet consumed

vars == <<call, pointers, logged, ring>>

Idle == [name |-> "idle", given |-> FALSE, entry |-> "none"]

\* A call that keeps pointers, and its map.
Keeping == Calls \cap DOMAIN Fetches
\* An entry: absent; the pointers of the thread's present call, null or not; or
\* pointers an earlier call of the thread left behind.
Entries == {"absent", "null", "this", "old"}
\* What became of the pointers at the entry: they were kept; the map was full of calls
\* in progress, or of entries nobody needs; the entry was before the attachment.
Fates == {"none", "kept", "busy", "leaked", "unseen"}

InCall(t) == call[t].name # "idle"
Held(m) == {t \in Threads : pointers[m][t] # "absent"}
Inside(m) == {t \in Threads : call[t].name = m}

Init ==
  /\ call \in [Threads -> {Idle} \cup [name : Calls, given : BOOLEAN, entry : {"unseen"}]]
  /\ pointers = [m \in Keeping |-> [t \in Threads |-> "absent"]]
  /\ logged \in Policies
  /\ ring = <<>>

-----------------------------------------------------------------------------
\* The slots written, and the value of is_valid, of an event; `source' is the entry the
\* data was read through, `given', `fate' and `memory' record what a reader of the event
\* would want to know and are not part of it (but the family `memory' is of is a slot).
Event(name, phase, data, valid, null, source, given, fate, memory) ==
  [name |-> name, phase |-> phase, data |-> data, valid |-> valid, null |-> null,
   source |-> source, given |-> given, fate |-> fate, memory |-> memory]

WantedWithoutRoom(name) == name \in logged

\* should_log_event, and bpf_ringbuf_reserve.
Wanted(name) == name \in logged /\ Len(ring) < Room

Submit(events, name) ==
  IF Wanted(name) THEN \E e \in events : ring' = Append(ring, e) ELSE UNCHANGED ring

\* An update replaces the thread's own entry, or takes a free one.
Fits(m, t) == pointers[m][t] # "absent" \/ Cardinality(Held(m)) < Capacity

FateOf(m, t) ==
  CASE m \notin Keeping -> "none"
    [] m \in Keeping /\ Fits(m, t) -> "kept"
    [] m \in Keeping /\ ~Fits(m, t) ->
         IF Cardinality(Inside(m)) >= Capacity THEN "busy" ELSE "leaked"

Keep(m, t, given) ==
  IF m \in Keeping /\ Fits(m, t)
  THEN pointers' = [pointers EXCEPT ![m][t] = IF given THEN "this" ELSE "null"]
  ELSE UNCHANGED pointers

\* The events an enter program may write: is_valid says whether user memory could be read.
EnterEvents(m, memory, fate) ==
  LET row == Stores[m]
      valid == IF memory \notin Unread THEN {TRUE}
               ELSE IF row.flag = "clear" THEN {FALSE} ELSE BOOLEAN
  IN {Event(m, "enter", row.always ++ StoredOf(row.checked, memory), v, FALSE, "this", TRUE,
            fate, memory) : v \in valid}

EnterKeepingWhenLogged(t, m, given, memory) ==
  /\ ~InCall(t)
  /\ call' = [call EXCEPT ![t] = [name |-> m, given |-> given, entry |-> FateOf(m, t)]]
  /\ IF Wanted(m) THEN Keep(m, t, given) ELSE UNCHANGED pointers
  /\ Submit(EnterEvents(m, memory, FateOf(m, t)), m)
  /\ UNCHANGED logged

\* sys_enter: the pointers are kept before the policy is looked at.
Enter(t, m, given, memory) ==
  /\ ~InCall(t)
  /\ call' = [call EXCEPT ![t] = [name |-> m, given |-> given, entry |-> FateOf(m, t)]]
  /\ Keep(m, t, given)
  /\ Submit(EnterEvents(m, memory, FateOf(m, t)), m)
  /\ UNCHANGED logged

\* What an exit program would find in user memory: it looks only if the call succeeded.
ResultOf(m) == IF m \in Keeping THEN Fetches[m].row ELSE Nothing
Results(m, succeeds) == IF succeeds THEN MemoryOf(ResultOf(m)) ELSE {"unreadable"}

\* The events an exit program may write.  A call that keeps nothing stores only `ret', and
\* is_valid keeps what an earlier event left.
ExitEvents(t, m, succeeds, memory) ==
  LET found == IF m \in Keeping THEN pointers[m][t] ELSE "absent"
      reads == found \in {"this", "old"} /\ memory # "unreadable"
      null == succeeds /\ found \in {"absent", "null"}
  IN IF m \in Keeping
     THEN {Event(m, "exit", IF reads THEN StoredOf(ResultOf(m), memory) ELSE Nothing,
                 reads /\ memory \notin Unread, Fetches[m].nulls /\ null,
                 IF reads THEN found ELSE "absent", call[t].given, call[t].entry, memory)}
     ELSE {Event(m, "exit", Nothing, v, FALSE, "absent", call[t].given, call[t].entry,
                 memory) : v \in BOOLEAN}

\* cleanup: one map's entry of the thread is deleted; what the call leaves elsewhere is old.
Cleanup(m, t) ==
  pointers' = [n \in Keeping |-> [u \in Threads |->
    IF u # t \/ pointers[n][u] = "absent" THEN pointers[n][u]
    ELSE IF m \in Keeping /\ Fetches[m].frees = n THEN "absent" ELSE "old"]]

ExitReturningEarly(t, succeeds, memory) ==
  /\ InCall(t)
  /\ call' = [call EXCEPT ![t] = Idle]
  /\ Submit(ExitEvents(t, call[t].name, succeeds, memory), call[t].name)
  /\ IF Wanted(call[t].name) THEN Cleanup(call[t].name, t) ELSE UNCHANGED pointers
  /\ UNCHANGED logged

\* sys_exit: the cleanup is reached whether or not an event was written.
Exit(t, succeeds, memory) ==
  /\ InCall(t)
  /\ call' = [call EXCEPT ![t] = Idle]
  /\ Submit(ExitEvents(t, call[t].name, succeeds, memory), call[t].name)
  /\ Cleanup(call[t].name, t)
  /\ UNCHANGED logged

\* handle_event: the oldest event is handed to its handler (see Printed).
Handle ==
  /\ ring # <<>>
  /\ ring' = Tail(ring)
  /\ UNCHANGED <<call, pointers, logged>>

\* update_policy_with_file replaces the list of the container's namespace.
SetPolicy ==
  /\ logged' \in Policies \ {logged}
  /\ UNCHANGED <<call, pointers, ring>>

Next ==
  \/ \E t \in Threads, m \in Calls, given \in BOOLEAN : \E memory \in MemoryOf(Stores[m].checked) :
        /\ (m \notin Keeping => given)        \* only pointers that are kept may be null
        /\ Enter(t, m, given, memory)
  \/ \E t \in Threads, succeeds \in BOOLEAN : \E memory \in Results(call[t].name, succeeds) :
        Exit(t, succeeds, memory)
  \/ Handle
  \/ SetPolicy

Spec == Init /\ [][Next]_vars

-----------------------------------------------------------------------------
\* What is printed of an event: slot by slot, the argument it is taken for.
Printed(e) ==
  LET handlers == IF e.phase = "enter" THEN EnterHandlers ELSE ExitHandlers
      row == handlers[e.name]
  IN IF e.name \notin DOMAIN handlers THEN Nothing
     ELSE row.always ++ (IF e.valid THEN ShownOf(row.valid, e.memory) ELSE row.invalid)

Events == {ring[i] : i \in 1..Len(ring)}

-----------------------------------------------------------------------------
TypeOK ==
  /\ call \in [Threads -> {Idle} \cup [name : Calls, given : BOOLEAN, entry : Fates]]
  /\ pointers \in [Keeping -> [Threads -> Entries]]
  /\ logged \in Policies
  /\ Len(ring) \in 0..Room
  /\ \A e \in Events : e.name \in Calls /\ e.phase \in {"enter", "exit"}

\* Every value printed was stored by this very event (the ring buffer is not zeroed), and
\* is the argument the handler's comment names; but for the address of an IPv6 peer and the
\* value of a short option.
Misprinted(memory) ==
  CASE memory = "inet6" -> {"ip6"} [] memory = "short" -> {"u0"} [] OTHER -> {}

TrueArguments(e) ==
  \A s \in DOMAIN Printed(e) \ Misprinted(e.memory) :
    s \in DOMAIN e.data /\ e.data[s] = Printed(e)[s]

\* The calls of which an event prints something that is not the argument named: a slot
\* nobody stored (recvmmsg, sendmmsg, openat, renameat2, linkat, unlinkat, statx, access,
\* pwritev2, fanotify_init, umount, setrlimit, mmap, mlock2, delete_module), one that is
\* printed although it may not have been (rmdir, capset), another argument (tkill),
\* a parameter the system call does not have (faccessat, fchmodat), or a variable of the
\* program that it never set (waitid).
Misread == {"recvmmsg", "sendmmsg", "openat", "renameat2", "linkat", "unlinkat", "statx",
            "access", "pwritev2", "fanotify_init", "umount", "setrlimit", "mmap", "mlock2",
            "delete_module", "rmdir", "capset", "tkill", "faccessat", "fchmodat", "waitid"}

\* What is printed of any other call is true.
OthersAreTrue == \A e \in Events : e.name \notin Misread => TrueArguments(e)

\* What an exit program reads, it reads through the pointers of the call that returns,
\* never through those an earlier call of the thread left behind.
PointersOfThisCall == \A e \in Events : e.source # "old"

\* The call whose results no handler adds to the log (see SyscallHandlers).
Unlogged == {"getrlimit"}

\* The result of a call that succeeds is printed, if its pointers were kept and user memory
\* holds something is_valid is set for: a policy that starts to ask for the call while it is
\* in progress finds the pointers kept.
ResultsArrive ==
  \A e \in Events :
    /\ e.phase = "exit" /\ e.name \notin Unlogged
    /\ e.memory \notin Unread /\ e.given /\ e.fate = "kept"
    => e.valid /\ DOMAIN Printed(e) = DOMAIN ShownOf(ResultOf(e.name), e.memory)

\* The calls whose cleanup deletes an entry of another map.
Leaking == {m \in Keeping : Fetches[m].frees # m}

\* Outside those, an entry belongs to a thread that is inside the call, so a map is full
\* only when that many threads are.
EntriesAreInUse == \A m \in Keeping \ Leaking : Held(m) \subseteq Inside(m)
RefusedOnlyWhenBusy == \A t \in Threads : call[t].entry = "leaked" => call[t].name \in Leaking
=============================================================================
