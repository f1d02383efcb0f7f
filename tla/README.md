# Verification of Youmuu

Youmuu watches and restricts Docker containers with eBPF.  Three daemons, started and
restarted by supervisord, read the same policy file `/policy/policy.yaml` and the same
Docker socket:

- **lsm** (`src/src/lsm`) enforces file, network and process rules in LSM hooks and sends
  what it blocked or audited to Kafka;
- **tracepoint** (`src/src/tracepoint`) logs chosen system calls with their decoded
  arguments to Kafka;
- **raw_tracepoint** (`src/src/raw_tracepoint`) logs system call numbers to a gzip file
  that is exchanged every day.

Each daemon is a set of BPF programs and maps in the kernel plus a C++ process with at
least three threads: main, an inotify watcher of the policy file, and a reader of Docker's
event stream.  This directory holds TLA+ models of those parts, the TLC runs that check
them on small instances, and TLAPS proofs for every instance.

Contents: [inventory](#inventory) · [modules](#modules-and-the-code-they-model) ·
[runs](#runs-bounds-and-what-they-show) · [fairness](#fairness) · [proofs](#proofs) ·
[divergences](#where-the-code-does-not-do-what-it-says) ·
[not modelled](#what-is-not-modelled) · [plan](#plan)

## Inventory

### Policy update loop (all three daemons)

*State:* the BPF policy map; `policy_update_running` (atomic), `mtx`, `cv`; the static
lists of `ContainerManager`; `exiting`.  *Operations:* main applies the policy once
(`update_policy_with_file`) and starts two watcher threads; each event ends in
`update_policy_on_event`, which lets one updater in, takes `mtx`, and retries every three
seconds until the update succeeds; signals; join at the end.
*Interactions:* inotify and Docker events in, BPF map out, `cv` between the watchers.
*Hard:* `cv.wait_for` frees `mtx` in the middle of an update while the flag stays set; the
flag is reset after `mtx` is released, so an event in between is skipped; changes before a
watcher is set up; the closed event stream; signals only one of which sets `exiting`.
*Correct when:* one updater at a time, a quiet daemon's map reflects the file and the
containers, a retry catches up, the daemon ends when it is told.

### Enforcement (lsm)

*State:* `policy_map`, keyed by (pid namespace, mount namespace), with up to 64 rules of
each of three types; the ring buffer.  *Operations:* nine attached hooks, each of which asks
`should_monitor`, reserves an event, asks `match_policy`, decides; the update, which clears
the map key by key, lists containers through Docker, and writes one entry after another;
`print_event`, which hands events to Kafka.
*Hard:* the map is looked up twice with updates in between; the ring buffer is full; a
container stops between listing and writing; namespace numbers are reused; several patterns
of the file match one container; a refused event ends the daemon and so the enforcement.
*Correct when:* an answer is one that some table in force during the call asks for, AUDIT
reports without changing the answer, a settled map holds for each running container its own
table and nothing for anybody else.

### System call programs and handlers (tracepoint)

*State:* fourteen hash maps of user pointers keyed by thread, `syscall_array` per namespace,
the ring buffer.  *Operations:* 326 programs at the entry and the exit of system calls
fill numbered slots of an event; about as many handlers in user space print slots.
*Hard:* the slots are an unwritten protocol between two files of four to five thousand lines;
`bpf_ringbuf_reserve` does not clear memory; the policy changes while a thread is inside a
call; a map fills; a cleanup deletes from the wrong map.
*Correct when:* a value printed is a value this event stored under the argument named; an
exit program uses the pointers of its own call; entries leave the map with the call; results
arrive.

### Table of logged calls (tracepoint)

*State:* `syscall_array`, the calls to log per pid namespace; `current_monitored_namespaces`; the
list of `ContainerManager`.  *Operations:* `update_policy_with_file` asks Docker for the
containers of each item of the policy, reads each one's namespace from /proc, writes its calls,
at most 120, and then overwrites with nothing the namespaces of the update before that it did
not meet again; `clear_all_policies`.
*Hard:* the map is never emptied and entries are never deleted, while namespace numbers are
reused; the programs read the tables all the time; a container stops, or its process number
goes to another, between Docker's answer and the look at /proc; a container that two items
match is listed twice and only the first entry gets its namespace; the map fills.
*Correct when:* no table is left that nobody would clear, a settled update gives each container
its own calls, a call wanted before and after is logged throughout.

### Whom the raw daemon watches, and how it numbers (raw_tracepoint)

*State:* two BPF maps, the process numbers and the cgroups of containers; the list of the last
update; `cnt`, `err_cnt`, the ring buffer.  *Operations:* `update_monitoring_map` asks Docker for
the containers and each one's process number, reads their cgroups from the file system, and edits
the maps from the old list to the new one; on every system
call of the host `sys_enter` looks for the task's cgroup, then for its parent, adds a cgroup it
found by the parent, counts, reserves, copies the counters, submits; `handle_event1` writes a
line; `check_missing_events.py` looks for gaps between the numbers.
*Hard:* the maps are edited under the programs that read them, and one of those programs writes
to them; a container restarts between Docker's answer and the look at its cgroup; process numbers
are reused; the old list is lost when Docker names nobody; counting
and copying a counter are separate steps on several CPUs.
*Correct when:* whoever stays on the list is watched without a gap, whoever the policy names is
watched after an update, nobody else is; what the script reports is accounted for.

### Event loggers (tracepoint, raw_tracepoint)

*State:* a pool of buffers, a queue of buffers to flush, a flush thread, and for tracepoint a
pool thread with a queue of tasks.  *Operations:* `addEvent`, flush by size and by age,
production to Kafka or a gzip file, rotation at midnight, the destructor.
*Hard:* the flush thread works on a buffer without the mutex; a wait that frees one of two
mutexes; all buffers full; a lost wake-up at the end; a file that cannot be opened; a process
that is killed and started again, whose first act is to truncate the file of the day.
*Correct when:* events leave at most once and in order, none is forgotten in a buffer, an
event in a buffer that never fills leaves by age, `addEvent` and the destructor return, a kill
costs no more than what is in memory.

### Other parts

The Docker event parser (its filter on actions is in PolicyUpdate), environment reading,
supervision and build files, vendored headers.  They are listed in PROJECT.json with their
reasons.

## Modules and the code they model

| module | models | extends or instantiates |
| --- | --- | --- |
| PolicyUpdate | `update_policy_on_event`, watchers, start and end of the three daemons | |
| PolicyUpdateProofs | seven theorems about it | PolicyUpdate |
| MCPolicyUpdate | what a log message says, as a property | PolicyUpdate |
| LsmRules | `match_policy`, `compare_strings`, `string_to_flags`, the verdict of each hook (no state) | |
| LsmEnforcement | `policy_map`, the update key by key, the two lookups of a hook, the ring buffer, the daemon's end | LsmRules |
| LsmEnforcementProofs | four theorems about it | LsmEnforcement |
| MCLsmEnforcement | policies and requests of the instance | LsmEnforcement |
| TpPolicySync | tracepoint's table of logged calls, entry by entry | |
| TpPolicySyncProofs | four theorems about it | TpPolicySync |
| MCTpPolicySync | policies of the instance | TpPolicySync |
| RawMonitor | the raw daemon's two maps: the update and the lookups of `sys_enter` | |
| RawMonitorProofs | four theorems about it | RawMonitor |
| MCRawMonitor | policies of the instance | RawMonitor |
| RawCounter | the rest of `sys_enter`, `handle_event1` and the script that counts gaps | |
| RawCounterProofs | four theorems about it | RawCounter |
| MCRawCounter | CPUs of the instance and their symmetry | RawCounter |
| SyscallKernel | tables: what each BPF program stores (no state) | |
| SyscallHandlers | tables: what each handler prints (no state) | SyscallKernel |
| SyscallEvents | threads inside calls, pointer maps, policy test, ring buffer | SyscallHandlers |
| SyscallEventsProofs | six theorems about it and its tables | SyscallEvents |
| MCSyscallEvents | sets of calls, and the symmetry of threads | SyscallEvents |
| EventLog | abstract: an ordered log that delivers at most once | |
| TpEventLogger | tracepoint/EventLogger.cpp, and its mapping to EventLog | INSTANCE EventLog |
| TpEventLoggerProofs | five theorems about it, one of them the refinement | TpEventLogger |
| MCTpEventLogger | what leaves and what returns | TpEventLogger |
| DayLog | abstract: a log with one file per day, whose process may be killed | |
| RawEventLogger | raw_tracepoint/EventLogger.cpp, and its mapping to DayLog | INSTANCE DayLog |
| RawEventLoggerProofs | five theorems about it, one of them the refinement | RawEventLogger |

How they fit together: PolicyUpdate says when an update runs and that no two do.
LsmEnforcement, TpPolicySync and RawMonitor take that from it (`OneUpdater`) and say what one
update of each daemon writes, while the programs in the kernel read.  A call that RawMonitor
finds watched goes on in RawCounter, and what RawCounter handles is what RawEventLogger takes;
TpPolicySync decides what SyscallEvents' `SetPolicy` leaves open, and what SyscallEvents handles
is what TpEventLogger takes.

**PolicyUpdate.**  The world is the state of the file and two version counters; `applied` is
the pair of versions the map was built from, `seen` what the update under way has read.
`pc`, `running`, `mtx`, `exiting` are the code's.  One action per stretch of code between two
points at which another thread can be seen: `Claim`/`Skip` are the two outcomes of
`policy_update_running.exchange(true)`; `Lock`, `LoadFile`, `ListContainers`/`ListNothing`,
`WriteMap`, `WaitTimeout`, `Unlock`, `Release` follow the body of the try block and what comes
after it.  The constant `Daemons` picks the differences between the three sources
(what an empty file means, who ignores which error, who tests `exiting`).  `excuses` is
history: the gaps that opened since the file was last read.

**LsmRules and LsmEnforcement.**  A path is a sequence of names and slashes, because a
recursive rule asks whether a pattern that ends in a slash is a prefix; flags are sets of
names; a port is the number its field holds on a little-endian machine, so that the table
holds host order and `socket_connect` compares with network order.  One number stands for
the two namespaces of a container.  `Ask` is `should_monitor`, `Decide` is everything from
`bpf_ringbuf_reserve` on; between them the map may change.  `Clear` is one key of
`clear_bpf_map`, `List` is `getContainerPIDs`: of all pairs of a running container and a pattern
that matches it (`Inspections`), those whose inspection succeeds are to be written.  When the
kernel does not delete a key, `clear_bpf_map` stops and the update goes on with what is left in the
map: `List` may come before the map is empty, and such an update is not `complete`.  `Write` is
one round of the loop that writes entries; the namespaces are read by process number, so the
entry of a container that has stopped may go to whoever has that number now.
`hook[t].during`, `update.changed` and `update.complete` are history.

**SyscallKernel, SyscallHandlers, SyscallEvents.**  Two tables, each translated from its own
source without a look at the other: which slots a program stores and which argument goes
into each, which slots a handler prints and which argument its comment names.  A program
runs to its end on one CPU and touches its own thread's entries only, so it is one action;
`Enter`, `Exit`, `Handle`, `SetPolicy` are all there is.  An entry of a pointer map is
"this" (of the call in progress), "null", or "old" (left behind).  `MemoryOf` says what user memory
may hold where a program reads: nothing it can read, or all of it; a socket address of a family
`read_sockaddr` knows (AF_INET, AF_INET6) or of another; an option of getsockopt of the four bytes of
its slot, of fewer, or of more.  `StoredOf` says what the program then stores: of an IPv6 address zeros,
because the bytes on the program's own stack are read with the helper for user memory; of a short
option only its own bytes, the rest of the slot being an earlier event's; of another family or a
long option nothing, and `is_valid` stays false (`Unread`).  `ShownOf` is `get_ip_str`, which prints the
address by its family.  Six handlers return without `add_event` and have no row.

**TpPolicySync.**  `ListContainers` is `getContainerPIDs` with `updateContainerNsId`: a list of
entries, each with the item that named it.  `Write` reads /proc and writes one entry; a
container that has stopped since it was listed (`gone`) may yield the namespace of whoever has
its process number now, or 1, and an entry that is not the first of its container yields a
stray number.  `Table` is the code's filter: names the daemon does not know are left out and
the rest is cut at the limit.  `Clear` is one round of the loop over the old namespaces.
`ListNobody` and `ListNothing` are the returns before it.  `intact` is history: the last update
could do all it wanted and nothing has changed since.

**RawMonitor, RawCounter.**  A list is made in steps, because the world moves between them: `List` asks
Docker which containers run, `Inspect` asks for one process number (once for each pattern that
matches the container; 0 if it has stopped), `ReadCgroup` finds a container's cgroup in the file
system, and `ListContainers` is the end of it.  A container that restarted in between is listed with its old process
and its new cgroup; an entry whose `cgroup_id` was never set has any number in it, another
container's cgroup too (`Strays`).  `excuses` has "mixed" from then on.  `Delete`, `AddPid`, `AddCgroup` are
the three map writes of `update_monitoring_map` in its order (all deletions first), with what they do when
the map is full: no room for a process number skips the entry, no room for a cgroup takes the
process number out again; `AskCgroup`, `AskParent`, `Learn` are
what `sys_enter` does before it counts, each a step of its own, since the update runs between
them.  A container's cgroup is new at every start; process numbers come from a small set and
are reused.  `excuses` says further that the list was forgotten or that a cgroup came back.  In
RawCounter `Count`, `Reserve` or `Drop`, `CopyErrors`, `CopyCount` and `Submit` are the accesses of
`sys_enter` to shared memory, `Handle` is the daemon, and `Missing` and `Duplicates` are computed
as the script does.

**TpEventLogger, EventLog.**  Each stretch under `mtx_` is an action; `availableBuffersMutex_`
appears as the predicate `Free`.  EventLog keeps a set of accepted events and delivers the oldest
or refuses one; the mapping (`Pending` in TpEventLogger) takes as accepted whatever is in the task
that runs, the queued tasks, the buffer in the flush thread's hands, the queued buffers and the
current one.

**RawEventLogger, DayLog.**  `addEvent` is one action; the flush thread compresses (`Write`), hands on what
zlib holds (`Sync`) and clears, without the mutex, in three actions, because a kill between them
leaves different things in the file.  A push into the buffer it is working on is a data race of
the C++ program, so its outcomes are enumerated: `TornPush` (the push meets `clear()`) and
`Reallocate` (the push outgrows the memory the flush thread is reading).  The destructor is
`Shutdown`, `QueueLast`, `Drain` for each buffer, `Close`.  `Kill` is SIGTERM, which this daemon does
not handle; after it `content` is what died with the process, and nothing moves until `Restart`
opens the file of the day, which truncates it when it is the same day.  `Midnight` is the clock.
DayLog knows a set of events in memory, the files of the days before and the file of the moment; an
event goes from the set to that file, once.  It promises no order: a buffer that is queued may
become current again and take newer events to the file before older ones.  While `excuses` says that
a push met the flush thread or that the disk failed, it promises only that files grow (`Spoil`).

## Runs, bounds and what they show

| run | bounds | properties |
| --- | --- | --- |
| policy | three daemons, 3 changes (writes, deletions, renames; starts, stops, exits), 1 failed request, 1 restart | `TypeOK`, `OneUpdater`, `FreshWhenQuiet`, `LostOnlyAfterUnlock` |
| policy_live | lsm and tracepoint, 2 changes, 1 failed request | `RetryCatchesUp`, `ExitsWhenTold` |
| policy_tp_join | tracepoint, 1 change | violates `JoinReturns` |
| lsm | 2 containers, 2 namespace numbers, 3 policy files, 11 requests, ring of 1, 1 task | `TypeOK`, `AnswerOfOneTable`, `AuditKeepsAnswer`, `InForceWhenSettled` |
| sys_calls | 1 thread, every call, a policy of all calls or none, ring of 1 | `OthersAreTrue`, `ResultsArrive` |
| sys_maps | 3 threads, accept, accept4 and getdents64, maps of 2 entries | `TypeOK`, `PointersOfThisCall`, `EntriesAreInUse`, `RefusedOnlyWhenBusy` |
| tp_log | 3 buffers of 2 events, 6 events | `TypeOK`, `OnePlacePerBuffer`, `ImplementsEventLog`, `WaitsForGood`, `EventsLeave`, `DestructorReturns` |
| tp_log_block | 2 buffers of 2 events, 5 events | violates `AddEventReturns` |
| raw_log | 2 buffers of 2 events, 6 events, 2 days, 1 restart, a disk that may fail | `TypeOK`, `Conserved`, `NoneForgotten`, `OnlyRestartErases`, `ImplementsDayLog`, `EventsLeave` |
| tp_policy | 2 containers, 2 namespaces, 3 policies, tables of 1 call, a map of 3 | `TypeOK`, `NoOrphan`, `TablesWhenSettled`, `Uninterrupted` |
| raw_monitor | 2 containers, 2 starts, 2 process numbers, 2 policies, 1 CPU, two maps of 2, stray numbers that are a cgroup | `TypeOK`, `NothingElse`, `WatchedWhenSettled`, `Uninterrupted` |
| raw_count | 3 CPUs, ring of 2, 6 calls | `TypeOK`, `MissingExplained`, `PlaceInLog`, `LaterIsLarger` |

Why these bounds are enough:

- *policy:* losing an event takes one change that is being applied, one that arrives while
  the updater has already read, and one that could repair it: three.  Two watchers are all
  there are.
- *policy_live:* lsm empties its map before it lists and tracepoint does not; only tracepoint
  tests `exiting` between attempts.  raw_tracepoint is left out: it reports success when Docker names
  nobody, so no update of it waits for Docker.
- *lsm:* a stale entry needs one container that stopped and one that takes its number.  The
  files name no container, both with one entry, and one of them with two entries (the last
  decides).  Every hook occurs, with rules that list it with and without AUDIT, with a path
  that is too long, and with rules of another type only.  A second task would add only hooks
  that read the same map; the theorems cover any number.
- *sys_maps:* two entries and three threads are the least for a full map and a thread that
  finds it so.  accept is a clean call whose entries a leaking one (accept4) deletes; getdents64
  leaks without a map that suffers.  What kind of address is read is sys_calls' question; here
  addresses are unreadable or AF_INET (`OneFamily`).
- *sys_calls:* a row of the tables is used by one event alone, so one thread and one event in
  the ring suffice, and an event is handled before the thread's next call (`HandledAtOnce`): events
  that wait, and rings that are full, are in sys_maps.  The policy changes at any time, also while
  the thread is inside a call.
- *loggers:* tp_log's six events fill its three buffers of two, so an `addEvent` finds none free and a
  buffer comes back and is used again; two triggers of a flush overlap from two buffers on.  In
  raw_log two buffers are enough for one to be queued or written while the other fills: from the
  fifth event on both are full.  One midnight and one restart give a restart on the day of the open
  file and on a later day.
- *tp_policy:* a namespace that is reused takes two containers; a stray number may be one of the
  two namespaces or none; a limit of one cuts a table of two; three entries are one short of all
  the keys there can be.
- *raw_monitor:* a container that starts again under a process number that is reused takes two
  starts and two numbers; overlapping patterns list a container twice.  The one stray number is the
  first cgroup there is, so an unset entry may name another container's, or the container's own.  Two
  entries are one short of all there can be in either map.  Entries of the maps are
  only added by a CPU, so a second one adds order and no new step; the theorems cover any number.
- *raw_count:* the third CPU is what lets a late copy be overtaken by a call that is counted and
  submitted while another is still midway.

`FreshWhenQuiet`, `Conserved`, `NothingElse` and RawMonitor's `Uninterrupted` hold up to named excuses; each excuse is a gap of the code
that its model opens explicitly (an event nobody watched, a rename, a file that does not parse,
a failed first attempt, an event skipped too late, a result that is ignored, a container that
exits by itself; a data race, a disk failure; a list that was forgotten, a cgroup `sys_enter` put
back, a list that mixed one process with another's cgroup).  An excuse is not a check: a hazard that a
property only excuses has no property in PROJECT.json, and its note says so.  `Uninterrupted` does
not end with its excuse: what an update takes out of the watch over a listed container after a mixed list, it
must still have to put back.  `ExitsWhenTold` excepts the one case in which lsm cannot end, when no
attempt can succeed.  `OthersAreTrue` leaves out 21 calls (`Misread`) and two slots (`Misprinted`),
`ResultsArrive` the call whose handler never adds its event (`Unlogged`) and what no program stores (`Unread`).  `AnswerOfOneTable` has two exceptions, both reachable in the run: with no room
for its event a hook allows; and when the table changes between the lookups, a hook that
works as a white list denies what neither the old nor the new policy would deny, because the
first lookup saw file rules and the second saw none.

Numbers that are only compared (namespaces in lsm, process numbers in raw_monitor, threads in
sys_maps, CPUs in raw_count) are model values under a symmetry, in runs that check safety only;
raw_monitor's action property does not tell them apart either.

Five action constraints keep the runs small, and say what they leave out.  `ReturnsAtOnce` (lsm): a hook that has
answered returns before anything else happens; its answer is in the state before, where the
invariants are checked, and nothing reads it any more.  `RefusedAtFirst` (lsm): a key that is not
deleted is the first, while one container runs, no hook is at work and Docker answers everything.
`LessInterleaving` (raw_monitor): no system call is looked up while a list is made, which touches no
map, and the policy file changes between two updates only, since an update reads it at its
start.  `HandledAtOnce` and `OneFamily` are the system call runs', above.  The theorems assume none of them.

Every property of a passing run has a mutant in PROJECT.json: a plausible bug, written as an
operator before the definition it replaces (`ListBeforeCleared`, `EnterKeepingWhenLogged`, ...),
under which TLC finds the property violated.

Deadlock is not checked in the runs of the loggers, whose destructor ends everything, nor in
raw_count, where the bound on calls does; in `PolicyUpdate` the end of the process is the stuttering action `Down`.

## Fairness

`PolicyUpdate!Fairness`: threads are scheduled and requests return (WF on each step of main
and the watchers).  `Lock` and `NotifyWaiter` are strongly fair, since they wait for a mutex
its owner gives up again and again: `wait_for` frees it for three seconds between two attempts.
Restart is weakly fair (supervisord's `autorestart`).  Nothing is assumed of the world,
signals, or errors of the ring buffer.

Loggers: the threads are scheduled.  `Age` is strongly fair: each turn of the flush thread may
find the buffer still young, but a buffer that stays current does become older than
`FLUSH_TIMEOUT`, at a later turn.  `Send` of tracepoint's logger is strongly fair because the
pool thread owns the queue's mutex only for moments.  New events and the end of main's loop
owe nothing.  Of the processes, kills, restarts and midnight owe nothing either; a destructor
that has begun goes on.

The other modules state safety only.

## Proofs

All theorems hold for every value of the constants that satisfies the modules' named
assumptions.  PROJECT.json lists them; each invariant, each action property and each refinement
a run checks has one.

**PolicyUpdateProofs.**  `TypeCorrectness` is inductive together with `BatchInv`: a watcher that
handles an event has that event at the head of its batch.  `SingleUpdater` rests on `Exclusion`:
while main is still before `spawn` no watcher exists (`MainFirst`); a watcher between the
exchange and the store has the flag set (`FlagInv`); there is at most one (`OneWatcher`); and
`mtx` is owned exactly at the points that hold it (`MutexInv`).  The flag and the mutex are both
needed: `mtx` is free during `wait_for`, and the flag alone does not say who may notify.
`BarrierHolds` (an action property) adds what is in flight: a pending event's version is not
larger than the world's (`InFlight`), an attempt begins with nothing read (`ReadSoFar`), and, the
barrier proper, while a watcher stands at `enter` after having notified under `mtx`, an updater
that has not unlocked yet read after the event.
`UpToDate` (`FreshWhenQuiet`) uses that barrier: as long as no excuse holds and the daemon is
not told to exit, every version of the world that an update has not taken in is announced by an
event that is still in a queue or in a batch (`Tracked`), and no update has read a version that
does not exist (`Versions`).  When nothing is left to handle, nothing can be missing.
Three more say what the runs do not list; they are stated beside their proofs.
`MapMovesForward` (an action property, `NeverRollsBack`): the map is never built from an older
file or an older list of containers than before, unless it was emptied.  `Forward` is its
invariant: what an update has read is at least as new as the map, because nobody else writes the
map between its reading and its writing, and an attempt after a wait starts over with a reading.
`UpdatesNeverWaitForEachOther` (`NoLockout`): whoever finds `mtx` taken only wants to notify, and
the owner is inside an update at a step that takes no lock, so no two threads wait for each
other.  `NothingAfterJoin` (`JoinedIsOver`): when main has joined, before it destroys the BPF
maps, no update is under way, the flag is down and `mtx` is free.

**LsmEnforcementProofs.**  `AnswersAreOfOneTable` and `AuditChangesNothing` rest on `Good`: a hook
between its two lookups has run under some table with rules of its type, and the present table
is among those it has run under.  `Witnessed`, the history the map's writers keep, preserves
it.  At the second lookup either the present table has rules of the type, and then the answer
is what it asks for; or it has none, so it is not the table of the first lookup and the hook
answers to no flags, which is to allow (what the table asks for) or, in a white list hook, to
deny.  `AuditAnswer` goes through the nine hooks once.  Only `RequestsAssumption` is used.
`InForce` rests on `Halfway`, about an update that could do all it wanted so far: it listed
every pair of a running container and an item that matches it; of each container the items
before a certain one are written, and its table is that of the last of them; and no namespace
but those of running containers has a table (`Points` and `Apart` say whose namespace is whose).
When nothing is left to write, the last one written is the last that matches.  `InForce` and
`TypeCorrect` add `PoliciesAssumption` and `RoomAssumption`.

**TpPolicySyncProofs.**  Running containers have namespaces of their own (`Apart`); an entry that
is listed belongs to a container that runs or has been noticed to be gone, at most once per
item, and what is written under its own namespace is in the new list (`ListedInv`); clearing
begins when all is written and never touches what asks for something (`ClearedInv`).
`SettledTables` adds `Plan`: in an update that could do all it wanted, nobody is gone and what is
in the new list is what its first item says.  `LoggedThroughout`, an action property, follows
from `ListedInv`: a namespace that is cleared is not in the new list.

**RawMonitorProofs.**  `PhaseInv` says what each phase of an update leaves empty: between two only the
list is left.  A cgroup is made once, so unless a list was mixed up, of all entries only the container's
own has its cgroup (`OwnInv`), and in a list being made a cgroup goes to the first entry of its container
(`DraftInv`).  All that goes is deleted before the first entry is added (`OrderInv`).  The last is what makes a
process number safe that one entry gives up and another takes in the same update, and it is why
a cgroup that is taken out after a mixed list is still to be put back: nothing has been added
yet, so every entry of the new list is still in `todo`.  `DraftPlan` and `Plan` say how far an update is that
could do all it wanted, while it lists and while it edits.

**RawCounterProofs.**  `Balance`: `cnt` is `err_cnt` plus the records plus the calls midway, each
of which is counted and has neither.  A CPU that writes owns its record (`OwnRecord`), what is
set in a record is at most what the counters are now, and number minus errors is at least the
place (`Sound`).  `BeforeInv` keeps for a call midway that the counter has passed what was submitted
before it.  `GapsAccountedFor` is the one theorem that counts: numbers of the log against their
places, with cardinalities.

**SyscallEventsProofs.**  `OwnPointers` needs `NoStalePointer` (inside a call that keeps pointers
the thread's entry in that map is not old: the entry program overwrote it, or the map was full
and there is none) and `Owned` (an entry that is not old belongs to the call the thread is in).
`NoForgottenEntries` needs in addition `CleanNeverOld`: in a map whose cleanup deletes its own
entry nothing is ever old.  From it `OnlyBusyRefuses` follows by counting: a full map has as many
entries as it holds, and each is of a thread inside the call; that is where `ThreadsAssumption`
(a finite set) comes in.  Of the two slot tables these four use no more than that they are
functions, so they survive any change of them.
`PrintedIsTrue` and `ResultsReachTheLog` are about the contents of the tables, all the calls of
them, with any number of threads, maps of any size and any policy.  The invariant
says that an event in the ring was written by one run of one program (`SafeEvents`), and that an
entry that was kept is still there when the call returns (`KeptIsHeld`), whatever the cleanups of other
calls delete meanwhile.  What is left is a comparison of the two tables without state: for
every call that is not in `Misread`, and whatever memory holds, each slot its handler prints is one
its program stores, under the same argument, but for the two of `Misprinted` (`ShownIsStored`).  It is done by the prover row by row, which is why the tables are
written in groups that are joined by `++`, an operator of this project: the library's `@@` is opaque to
the provers.

**TpEventLoggerProofs.**  `BuffersAreNotShared` is inductive as `Pool`, until main is "done": each
place a buffer can be in (current, available, queued, held, a task) excludes the others, and
the flush thread holds one exactly between taking it and returning it.  `KafkaKeepsOrder` is `Line`:
what Kafka has, then the task that runs, the queued tasks, the buffer in the flush thread's
hands, the queued buffers, the current buffer; each older than the next.  `LoggerIsEventLog` maps
each action to a step of EventLog: to accept is to push, to deliver is to produce the oldest of
`Pending`, which `Line` says is the head of the running task; the destructor's `Discard` is `Close`;
everything else moves events between places and is a stutter.
`WaitingIsForGood` makes the finding of tp_log_block independent of its bounds: whoever waits has no
current buffer and an empty queue (`Starved`), so nothing can be old enough to be flushed, and the
only step that would fill the queue needs the mutex the waiting call owns.

**RawEventLoggerProofs.**  `Located` puts every buffer with events in the current place, the queue
or the flush thread's hands.  The buffer `addEvent` takes next is the lowest-numbered other one that
is not full; that there is a lowest is an instance of well-founded induction on the natural
numbers, cited from the library.  `Accounted` says of the events of this process
(`Present`) that, unless an excuse holds, each is somewhere (log or buffer), in one place only, and
once; a buffer between `Sync` and `Clear` is the one whose events are in both.  A kill leaves the
events where they are, in the file or in memory that is lost; `Restart` begins with new numbers,
so that the invariant survives it.
`LoggerIsDayLog` takes each step of the logger to one of DayLog.  `AddEvent` accepts; `Sync` and `Drain`
deliver, and `Kill` may deliver a prefix of what zlib held: that each event is written once and was in
memory until then is `Accounted`, through `WritesPending`.  `Clear` removes from memory only what `Sync` has
put into the file, so it shows nothing; `Close` ends, and by `Located` with nothing pending.  A new
file is `PutAway`, `Restart` is DayLog's.  With an excuse, `Staying` says that any other step appends
to the file of the moment and to nothing else, which is `Spoil`.  The theorem rests on all the
invariants of the module: without `Accounted` an event could be written twice, without `Located` the
end could leave one behind.

*Model-checked only:* liveness (`RetryCatchesUp`, `ExitsWhenTold`, `EventsLeave` of both loggers,
`DestructorReturns`), which is beyond the prover, and the two violated properties.

## Where the code does not do what it says

Two runs end in a counterexample:

- *policy_tp_join:* tracepoint is registered for SIGTERM, the signal supervisord sends, but its
  handler sets `exiting` for SIGINT only; the poll is interrupted, main prints "Exiting..." and
  joins two threads that never end.
- *tp_log_block:* `addEvent` waits for a free buffer holding `availableBuffersMutex_`, which the
  flush thread needs to return one.

Met while modelling and part of the models, without a run of their own:

- *Policy updates.*  The flag `policy_update_running` is reset after `mtx`, so an event in between
  is skipped for good (`excuses` has "skipped").  lsm's retry loop never tests `exiting`
  (enforcement.cpp:627).  A container that exits by itself raises only `die`, which lsm ignores
  (681, "exit"); the Docker stream is not reopened (732).  raw_tracepoint reports success although
  `update_monitoring_map` failed (raw_tracepoint.cpp:145).
- *lsm.*  `POLICY_ALLOW` is bit 29 kept in a `__u8` (enforcement.bpf.c:57): a white list of programs
  denies nothing, although line 56 says "it is denied by default" (`Mode` in LsmRules).  A rule's
  port is stored in host order (enforcement.cpp:584) and compared in network order by
  `socket_connect` and in host order by `socket_recvmsg`; `FMODE_EXEC` is bit 18 of `f_flags`, which
  there is O_NOATIME.
- *System calls.*  21 calls are logged with a value that is not the argument named (`Misread` in
  SyscallEvents).  Six handlers fill in a line and return without `add_event`, so nothing is logged:
  at the entry of clone, getgroups, getrusage, process_vm_writev and munmap and at the exit of
  getrlimit (handler.cpp:2250, 2840, 2940, 3139, 3223, 2908).  sys_exit_getsockopt copies `optlen`
  bytes into a slot of four (tracepoint.bpf.c:303): of a shorter option the rest of what is printed
  is an earlier event's.  The IPv6 address of a peer is read with the helper for user memory from
  the program's own stack (138): zeros are printed.  The cleanups of accept4, getdents, getdents64 and socketpair do not delete the
  entries of their own calls; accept4's deletes accept's.  Their maps fill, and later calls are
  logged as "not requested".
- *tracepoint's table.*  A list of more than 120 calls is cut (tracepoint.cpp:190).  The first
  pattern that matches a container decides here, the last one in lsm.  An update that finds nobody
  returns before it clears: a container the policy no longer names stays logged until one that it
  names starts.
- *raw_tracepoint's list.*  A container that restarts between the request for its process number
  (container_info.cpp:107) and the look at its cgroup (raw_tracepoint.cpp:89) is listed with the old
  process and the new cgroup; the next update finds another entry, deletes the cgroup of the running
  container and adds it again, and in between its calls are not logged (`excuses` has "mixed").  When Docker names nobody the list is forgotten with its entries still in the
  maps, and no later update deletes them (`ListNobody`); `sys_enter` may put back the cgroup an update
  has just deleted (`Learn`).
- *raw_tracepoint's numbers.*  Two calls may copy the same number and skip another; when an event
  was dropped as well, the script may report fewer missing numbers than there were losses: its
  "누락된 cnt 값이 없습니다" (no number missing, everything recorded normally;
  check_missing_events.py:92) does not follow.  `MissingExplained` is the direction that holds.
- *Loggers.*  tracepoint's drops its last buffers: the destructor stops the pool before it hands
  them over (`Discard`); and `stop_` is announced without the pool's mutex, so the pool thread can
  miss it (`FallAsleep`, `StopPool`).  In raw_tracepoint's, "find the next available buffer" may find one
  that is queued or being written, and events pushed into it are cleared unwritten (`TornPush`).
  That daemon handles SIGINT only, so supervisord's SIGTERM kills it, and a restart on the same
  day truncates the day's file (raw_tracepoint/EventLogger.cpp:475).

Met, and outside the models: the raw ring buffer thread ends silently on a poll error
(raw_tracepoint.cpp:404); rules beyond 64 and names beyond their field are copied past the end
of `policy_value` (enforcement.cpp:564, 599); the subnet mask and the user ids of lsm's rules are
never read, and the user ids of network rules are written into file rules (589);
programs without a handler (name_to_handle_at, open_by_handle_at) and handlers without a program
(getsid, sched_setaffinity, sysinfo); `delete_all_monitoring_map` and tracepoint's
`getContainerInode`, which nothing calls.

## What is not modelled

- Wording, JSON, timestamps, the fields of a task that every event carries in the same way.
- The value of `ret` in the events of system calls, and conversions of arguments to text.
- The kernel's map internals: LRU eviction beyond 1000 containers, and the reuse of a deleted
  element under a hook that is still reading it.  `match_policy` reads one table.  What a write
  past the end of `policy_value` does to the next table is not modelled either: it is undefined, and
  a model of every outcome would say nothing of the others.
- Conversion of IP texts, regular expressions of container names (a pattern is the set of
  names it matches; patterns in one file are distinct), YAML.
- Single events of a buffer that the destructor drains: one buffer is one step there
  (RawEventLogger's `Drain`), since nothing else runs; a kill comes before or after a whole buffer.
- The moment between stat and reading of the policy file (enforcement.cpp:975, tracepoint.cpp:594):
  `LoadFile` is one step.  A file that is gone at the reading behaves as one that does not parse.
- Several readings of one container's cgroup, once for each entry of its id, are one
  (RawMonitor's `ReadCgroup`): all write to the first entry, and the last that succeeds decides.
- The text of Docker's event stream: a batch is any prefix of what is pending, which stands for
  lines that arrive whole or in parts.
- lsm's messages to Kafka after an event is taken from the ring: they leave in the order of the
  ring or the daemon ends, and there is no state between.
- The programs in enforcement.bpf.c that are commented out, `shutdown()` of the loggers, which
  nothing calls, and the interactive menu code of lsm, which main no longer enters.
- Environment variables and host information (read once, input without state), configuration of
  supervisord and of the image (the signals and restarts it causes are in the models), and
  vendored headers: reflect-cpp and the generated `vmlinux` headers, which are nearly all the
  lines of the repository.

## Plan

What is left is shallow or out of reach:

1. *DockerEvents*: the buffer of partial lines in the stream reader, in place of "any prefix" in
   PolicyUpdate.  It is sequential code, and what it can get wrong is parsing.
2. *LsmEventPath*: consume, convert, produce, with EventLog as its abstraction.
3. *Composition*: TpPolicySync's table as the `SetPolicy` of SyscallEvents, and RawCounter's `Handle`
   as the `addEvent` of RawEventLogger.  Each pair meets in one action and shares no other state, so
   the properties carry over; a joint model would multiply states and find no new interleaving.
4. Liveness stays with TLC.
