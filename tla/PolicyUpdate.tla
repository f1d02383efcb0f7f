---------------------------- MODULE PolicyUpdate ----------------------------
(***************************************************************************)
(* How one Youmuu daemon keeps the policy in its BPF maps in step with     *)
(* /policy/policy.yaml and with the containers Docker runs.  The three     *)
(* daemons (lsm/enforcement.cpp, raw_tracepoint.cpp, tracepoint.cpp) share *)
(* this skeleton: main applies the policy once and starts two threads, the *)
(* inotify watcher ("file") and the Docker event reader ("docker").  Every *)
(* event ends in update_policy_on_event, which lets one updater in through *)
(* the atomic flag policy_update_running, takes mtx, and retries           *)
(* update_policy_with_file until it returns 0, sleeping on cv in between.  *)
(*                                                                         *)
(* The world (the file and the containers) is a pair of version counters;  *)
(* `applied' is the pair of versions the BPF map was built from.           *)
(***************************************************************************)
EXTENDS Integers, Sequences

CONSTANTS
    Daemons,      \* which programs are considered: "lsm", "raw", "tp"
    FileChanges,  \* what may happen to the policy file: "write", "delete", "move"
    ContainerChanges,  \* what may happen to a container: "start", "stop", "exit"
    MaxChanges,   \* bound: changes of the world in a behaviour
    MaxGlitches,  \* bound: Docker API calls that fail although Docker is up
    MaxRestarts,  \* bound: restarts of the daemon by supervisord
    StreamEnds    \* whether Docker may close the /events stream

ASSUME ConstantsAssumption ==
    /\ Daemons \subseteq {"lsm", "raw", "tp"}
    /\ FileChanges \subseteq {"write", "delete", "move"}
    /\ ContainerChanges \subseteq {"start", "stop", "exit"}
    /\ MaxChanges \in Nat
    /\ MaxGlitches \in Nat
    /\ MaxRestarts \in Nat
    /\ StreamEnds \in BOOLEAN

Watchers == {"file", "docker"}
Threads == Watchers \cup {"main"}
NoThread == "none"

VARIABLES
    daemon,     \* the program that runs; it never changes
    file,       \* what policy.yaml holds: "good", "bad", "empty" or "gone"
    up,         \* Docker lists at least one container the policy names
    ver,        \* versions of the file and of the container population
    glitches,   \* failed Docker API calls so far
    restarts,   \* restarts so far
    queue,      \* events the kernel or Docker holds for each watcher
    batch,      \* events a watcher has read and not yet handled
    pc,         \* where each thread is
    running,    \* policy_update_running
    mtx,        \* owner of mtx
    seen,       \* versions the update a thread performs has read
    applied,    \* versions the BPF map was built from
    exiting,    \* the global of the same name
    excuses     \* history: why the map may be stale, since the last reading

world == <<daemon, file, up, ver>>
process == <<queue, batch, pc, running, mtx, seen, applied, exiting, excuses>>
vars == <<world, glitches, restarts, process>>

Version == [file : Int, docker : Int]
Cleared == [file |-> -1, docker |-> -1]   \* a map nothing was written to
Event == [kind : {"write", "delete", "docker"}, ver : Int]

\* Program points of update_policy_with_file, in order.
UpdateSteps == {"load", "list", "write"}
\* Program points between taking policy_update_running and giving it back.
Claimed == UpdateSteps \cup {"lock", "wait", "relock", "unlock", "release"}
\* Program points at which a watcher owns mtx.
Locked == UpdateSteps \cup {"unlock"}

\* Program points of main and of the two watchers.
MainPoints == UpdateSteps \cup {"spawn", "poll", "join", "done", "dead"}
WatcherPoints ==
    Claimed \cup {"off", "setup", "idle", "event", "enter", "done", "dead"}

ProcessInit ==
    /\ queue = [t \in Watchers |-> <<>>]
    /\ batch = [t \in Watchers |-> <<>>]
    /\ pc = [t \in Threads |-> IF t = "main" THEN "load" ELSE "off"]
    /\ running = FALSE
    /\ mtx = NoThread
    /\ seen = [t \in Threads |-> Cleared]
    /\ applied = Cleared
    /\ exiting = FALSE
    /\ excuses = {}

Init ==
    /\ daemon \in Daemons
    /\ file \in {"good", "bad", "empty", "gone"}
    /\ up \in BOOLEAN
    /\ ver = [file |-> 0, docker |-> 0]
    /\ glitches = 0
    /\ restarts = 0
    /\ ProcessInit

Goto(t, l) == pc' = [pc EXCEPT ![t] = l]

(***************************************************************************)
(* The world: the policy file, the containers, signals.                    *)
(***************************************************************************)
Watching(t) == pc[t] \notin {"off", "setup", "done", "dead"}

\* A change reaches a watcher that is already set up, and nobody otherwise.
Announce(t, kind) ==
    IF Watching(t)
    THEN /\ queue' = [queue EXCEPT ![t] =
                        Append(@, [kind |-> kind, ver |-> ver[t] + 1])]
         /\ UNCHANGED excuses
    ELSE /\ excuses' = excuses \cup {"unwatched"}
         /\ UNCHANGED queue

Changeable == ver.file + ver.docker < MaxChanges

\* The policy file is written in place, deleted, or replaced by rename(2).
\* The watch mask is IN_CLOSE_WRITE | IN_DELETE: a rename is not reported.
FileChange(kind) ==
    /\ Changeable
    /\ kind = "delete" => file # "gone"
    /\ file' \in IF kind = "delete" THEN {"gone"} ELSE {"good", "bad", "empty"}
    /\ ver' = [ver EXCEPT !.file = @ + 1]
    /\ IF kind = "move"
       THEN excuses' = excuses \cup {"move"} /\ UNCHANGED queue
       ELSE Announce("file", kind)
    /\ UNCHANGED <<daemon, up, glitches, restarts, batch, pc, running, mtx, seen,
                   applied, exiting>>

\* A container starts, is stopped or exits by itself; others may still run.  Of the
\* latter Docker only reports `die', which no daemon has among its actions.
ContainerChange(kind) ==
    /\ Changeable
    /\ up' \in {up, kind = "start"}
    /\ ver' = [ver EXCEPT !.docker = @ + 1]
    /\ IF kind = "exit"
       THEN excuses' = excuses \cup {"exit"} /\ UNCHANGED queue
       ELSE Announce("docker", "docker")
    /\ UNCHANGED <<daemon, file, glitches, restarts, batch, pc, running, mtx, seen,
                   applied, exiting>>

Alive == pc["main"] \notin {"done", "dead"}

\* SIGINT: every daemon's handler sets exiting.  raw also wakes the waiters.
Interrupt ==
    /\ Alive
    /\ ~exiting
    /\ exiting' = TRUE
    /\ pc' = IF daemon = "raw"
             THEN [t \in Threads |-> IF pc[t] = "wait" THEN "relock" ELSE pc[t]]
             ELSE pc
    /\ UNCHANGED <<world, glitches, restarts, queue, batch, running, mtx, seen,
                   applied, excuses>>

\* The process dies at once: SIGTERM in lsm and raw, which do not handle it,
\* or SIGKILL.  Its BPF maps go with it.
Kill ==
    /\ Alive
    /\ restarts < MaxRestarts
    /\ pc' = [t \in Threads |-> "dead"]
    /\ queue' = [t \in Watchers |-> <<>>]
    /\ batch' = [t \in Watchers |-> <<>>]
    /\ running' = FALSE
    /\ mtx' = NoThread
    /\ seen' = [t \in Threads |-> Cleared]
    /\ applied' = Cleared
    /\ exiting' = FALSE
    /\ excuses' = {}
    /\ UNCHANGED <<world, glitches, restarts>>

\* supervisord, autorestart=true: a process that ended is started again.
Restart ==
    /\ ~Alive
    /\ restarts < MaxRestarts
    /\ restarts' = restarts + 1
    /\ queue' = [t \in Watchers |-> <<>>]
    /\ batch' = [t \in Watchers |-> <<>>]
    /\ pc' = [t \in Threads |-> IF t = "main" THEN "load" ELSE "off"]
    /\ running' = FALSE
    /\ mtx' = NoThread
    /\ seen' = [t \in Threads |-> Cleared]
    /\ applied' = Cleared
    /\ exiting' = FALSE
    /\ excuses' = {}
    /\ UNCHANGED <<world, glitches>>

(***************************************************************************)
(* update_policy_with_file, performed by main at start-up and by a watcher *)
(* that holds mtx: read the file, ask Docker for the containers, write the *)
(* map.  Success, Failure and Throw are its three ways out.                *)
(***************************************************************************)
SuccessAsWatcher(t) == Goto(t, "unlock")   \* mutant: main unlocks, too
Success(t) == Goto(t, IF t = "main" THEN "spawn" ELSE "unlock")

FailureWithoutRetry(t) ==   \* mutant: a failed attempt is the last one
    /\ Goto(t, IF t = "main" THEN "spawn" ELSE "unlock")
    /\ UNCHANGED mtx

\* The return code is not 0: a watcher sleeps on cv, which frees mtx.
Failure(t) ==
    /\ Goto(t, IF t = "main" THEN "spawn" ELSE "wait")
    /\ mtx' = IF t = "main" THEN mtx ELSE NoThread

\* result.value() of a file that does not parse throws: a watcher gives up,
\* main leaves for its catch block.
Throw(t) ==
    /\ Goto(t, IF t = "main" THEN "join" ELSE "unlock")
    /\ exiting' = (exiting \/ (t = "main" /\ daemon = "lsm"))
    /\ excuses' = {"threw"}

\* main skips the update when the policy file does not exist.
NoFileAtStart ==
    /\ pc["main"] = "load"
    /\ file = "gone"
    /\ Goto("main", "spawn")
    /\ excuses' = {}
    /\ UNCHANGED <<world, glitches, restarts, queue, batch, running, mtx, seen,
                   applied, exiting>>

\* tp looks at exiting before every attempt.
AbortUpdate(t) ==
    /\ daemon = "tp"
    /\ t # "main"
    /\ pc[t] = "load"
    /\ exiting
    /\ Goto(t, "unlock")
    /\ UNCHANGED <<world, glitches, restarts, queue, batch, running, mtx, seen,
                   applied, exiting, excuses>>

LoadFile(t) ==
    /\ pc[t] = "load"
    /\ t = "main" => file # "gone"
    /\ (daemon = "tp" /\ t # "main") => ~exiting
    /\ seen' = [seen EXCEPT ![t] = [file |-> ver.file, docker |-> -1]]
    /\ \/ /\ file = "good"
          /\ Goto(t, "list")
          /\ applied' = IF daemon = "lsm" THEN Cleared ELSE applied
          /\ excuses' = {}
          /\ UNCHANGED <<mtx, exiting>>
       \/ /\ file = "empty"
          /\ UNCHANGED exiting
          /\ \/ /\ daemon = "lsm"   \* "No policy found in the file"
                /\ Failure(t)
                /\ excuses' = IF t = "main" THEN {"initial"} ELSE {}
                /\ UNCHANGED applied
             \/ /\ daemon = "raw"   \* nothing to list, and that is ignored
                /\ Success(t)
                /\ excuses' = {"ignored"}
                /\ UNCHANGED <<mtx, applied>>
             \/ /\ daemon = "tp"    \* clear_all_policies
                /\ Success(t)
                /\ applied' = [file |-> ver.file, docker |-> ver.docker]
                /\ excuses' = {}
                /\ UNCHANGED mtx
       \/ /\ file \in {"bad", "gone"}
          /\ UNCHANGED applied
          /\ \/ daemon = "raw" /\ Failure(t) /\ excuses' = {} /\ UNCHANGED exiting
             \/ daemon # "raw" /\ Throw(t) /\ UNCHANGED mtx
    /\ UNCHANGED <<world, glitches, restarts, queue, batch, running>>

\* getContainerPIDs found something to monitor.
ListContainers(t) ==
    /\ pc[t] = "list"
    /\ up
    /\ seen' = [seen EXCEPT ![t].docker = ver.docker]
    /\ Goto(t, "write")
    /\ UNCHANGED <<world, glitches, restarts, queue, batch, running, mtx,
                   applied, exiting, excuses>>

\* It found nothing, or the request failed.  raw ignores the return code of
\* update_monitoring_map and reports success.
ListNothing(t) ==
    /\ pc[t] = "list"
    /\ \/ ~up /\ UNCHANGED glitches
       \/ up /\ glitches < MaxGlitches /\ glitches' = glitches + 1
    /\ IF daemon = "raw"
       THEN Success(t) /\ excuses' = excuses \cup {"ignored"} /\ UNCHANGED mtx
       ELSE /\ Failure(t)
            /\ excuses' = excuses \cup (IF t = "main" THEN {"initial"} ELSE {})
    /\ UNCHANGED <<world, restarts, queue, batch, running, seen, applied, exiting>>

WriteMap(t) ==
    /\ pc[t] = "write"
    /\ applied' = seen[t]
    /\ Success(t)
    /\ UNCHANGED <<world, glitches, restarts, queue, batch, running, mtx, seen,
                   exiting, excuses>>

(***************************************************************************)
(* A watcher: read events, and for each one notify the waiter under mtx,   *)
(* then call update_policy_on_event.                                       *)
(***************************************************************************)
\* inotify_add_watch, or the request to /events, has gone through.
SetUp(t) ==
    /\ pc[t] = "setup"
    /\ Goto(t, "idle")
    /\ UNCHANGED <<world, glitches, restarts, queue, batch, running, mtx, seen,
                   applied, exiting, excuses>>

\* poll timed out, or curl called progress_callback, and nothing happened.
PollTimeout(t) ==
    /\ pc[t] = "idle"
    /\ ~exiting
    /\ UNCHANGED vars

\* read(2) returns every pending inotify event; curl hands over the lines it
\* has received so far.
ReadEvents(t) ==
    /\ pc[t] = "idle"
    /\ queue[t] # <<>>
    /\ t = "file" => ~exiting
    /\ \E n \in IF t = "file" THEN {Len(queue[t])} ELSE 1..Len(queue[t]) :
          /\ batch' = [batch EXCEPT ![t] = SubSeq(queue[t], 1, n)]
          /\ queue' = [queue EXCEPT ![t] = SubSeq(@, n + 1, Len(@))]
    /\ Goto(t, "event")
    /\ UNCHANGED <<world, glitches, restarts, running, mtx, seen, applied,
                   exiting, excuses>>

NotifyWithoutLock(t) ==   \* mutant: notify_one outside mtx
    /\ pc[t] = "event"
    /\ Head(batch[t]).kind # "delete"
    /\ pc' = [u \in Threads |-> IF u = t THEN "enter"
                                ELSE IF pc[u] = "wait" THEN "relock" ELSE pc[u]]
    /\ UNCHANGED <<world, glitches, restarts, queue, batch, running, mtx, seen,
                   applied, exiting, excuses>>

\* IN_CLOSE_WRITE and Docker events: lock mtx, notify_one, unlock.
NotifyWaiter(t) ==
    /\ pc[t] = "event"
    /\ Head(batch[t]).kind # "delete"
    /\ mtx = NoThread
    /\ pc' = [u \in Threads |-> IF u = t THEN "enter"
                                ELSE IF pc[u] = "wait" THEN "relock" ELSE pc[u]]
    /\ UNCHANGED <<world, glitches, restarts, queue, batch, running, mtx, seen,
                   applied, exiting, excuses>>

\* IN_DELETE does not touch mtx or cv.
SkipNotify(t) ==
    /\ pc[t] = "event"
    /\ Head(batch[t]).kind = "delete"
    /\ Goto(t, "enter")
    /\ UNCHANGED <<world, glitches, restarts, queue, batch, running, mtx, seen,
                   applied, exiting, excuses>>

\* Next event of the batch, or back to waiting for input.
NextEvent(t) ==
    /\ batch' = [batch EXCEPT ![t] = Tail(@)]
    /\ Goto(t, IF Len(batch[t]) > 1 THEN "event" ELSE "idle")

ClaimAlways(t) ==   \* mutant: the flag is stored, not exchanged
    /\ pc[t] = "enter"
    /\ running' = TRUE
    /\ Goto(t, "lock")
    /\ UNCHANGED <<world, glitches, restarts, queue, batch, mtx, seen, applied,
                   exiting, excuses>>

\* policy_update_running.exchange(true) returned false.
Claim(t) ==
    /\ pc[t] = "enter"
    /\ ~running
    /\ running' = TRUE
    /\ Goto(t, "lock")
    /\ UNCHANGED <<world, glitches, restarts, queue, batch, mtx, seen, applied,
                   exiting, excuses>>

\* Thread u, inside update_policy_on_event, has read what event e announces,
\* and read it too early to have seen it.
TooLate(u, e) ==
    IF e.kind = "docker"
    THEN pc[u] \in {"write", "unlock", "release"} /\ seen[u].docker \in 0..(e.ver - 1)
    ELSE pc[u] \in {"list", "write", "unlock", "release"} /\ seen[u].file \in 0..(e.ver - 1)

\* It returned true: "Policy update already in progress, skipping."
Skip(t) ==
    /\ pc[t] = "enter"
    /\ running
    /\ NextEvent(t)
    /\ excuses' = IF \E u \in Watchers \ {t} : TooLate(u, Head(batch[t]))
                  THEN excuses \cup {"skipped"} ELSE excuses
    /\ UNCHANGED <<world, glitches, restarts, queue, running, mtx, seen, applied,
                   exiting>>

Lock(t) ==
    /\ pc[t] \in {"lock", "relock"}
    /\ mtx = NoThread
    /\ mtx' = t
    /\ seen' = [seen EXCEPT ![t] = Cleared]
    /\ Goto(t, "load")
    /\ UNCHANGED <<world, glitches, restarts, queue, batch, running, applied,
                   exiting, excuses>>

WaitForever(t) == FALSE /\ UNCHANGED vars   \* mutant: wait, not wait_for

\* wait_for: three seconds went by.
WaitTimeout(t) ==
    /\ pc[t] = "wait"
    /\ Goto(t, "relock")
    /\ UNCHANGED <<world, glitches, restarts, queue, batch, running, mtx, seen,
                   applied, exiting, excuses>>

\* The lock guard goes out of scope at the end of the try block, ...
Unlock(t) ==
    /\ pc[t] = "unlock"
    /\ mtx' = NoThread
    /\ Goto(t, "release")
    /\ UNCHANGED <<world, glitches, restarts, queue, batch, running, seen,
                   applied, exiting, excuses>>

\* ... and the flag is reset after it.
Release(t) ==
    /\ pc[t] = "release"
    /\ running' = FALSE
    /\ seen' = [seen EXCEPT ![t] = Cleared]
    /\ NextEvent(t)
    /\ UNCHANGED <<world, glitches, restarts, queue, mtx, applied, exiting,
                   excuses>>

LeaveFileOnly(t) ==   \* mutant: progress_callback does not look at exiting
    /\ pc[t] = "idle"
    /\ t = "file" /\ exiting
    /\ Goto(t, "done")
    /\ queue' = [queue EXCEPT ![t] = <<>>]
    /\ UNCHANGED <<world, glitches, restarts, batch, running, mtx, seen, applied,
                   exiting, excuses>>

\* The watcher sees exiting, or Docker closes the stream and nothing reopens it.
Leave(t) ==
    /\ pc[t] = "idle"
    /\ \/ exiting /\ UNCHANGED excuses
       \/ t = "docker" /\ StreamEnds /\ excuses' = excuses \cup {"unwatched"}
    /\ Goto(t, "done")
    /\ queue' = [queue EXCEPT ![t] = <<>>]
    /\ UNCHANGED <<world, glitches, restarts, batch, running, mtx, seen, applied,
                   exiting>>

(***************************************************************************)
(* main: start the watchers, consume the ring buffer, join.                *)
(***************************************************************************)
Spawn ==
    /\ pc["main"] = "spawn"
    /\ pc' = [t \in Threads |-> IF t = "main" THEN "poll" ELSE "setup"]
    /\ seen' = [seen EXCEPT !["main"] = Cleared]
    /\ UNCHANGED <<world, glitches, restarts, queue, batch, running, mtx,
                   applied, exiting, excuses>>

StopPolling ==
    /\ pc["main"] = "poll"
    /\ exiting
    /\ Goto("main", "join")
    /\ UNCHANGED <<world, glitches, restarts, queue, batch, running, mtx, seen,
                   applied, exiting, excuses>>

\* ring_buffer__poll < 0.  lsm: print_event returns -1 when Kafka refuses an
\* event, main throws and sets exiting.  tp: EINTR after a SIGTERM the handler
\* ignores; main breaks out of the loop and exiting stays false.
PollError ==
    /\ pc["main"] = "poll"
    /\ daemon # "raw"
    /\ exiting' = (exiting \/ daemon = "lsm")
    /\ Goto("main", "join")
    /\ UNCHANGED <<world, glitches, restarts, queue, batch, running, mtx, seen,
                   applied, excuses>>

Join ==
    /\ pc["main"] = "join"
    /\ \A t \in Watchers : pc[t] \in {"off", "done"}
    /\ Goto("main", "done")
    /\ UNCHANGED <<world, glitches, restarts, queue, batch, running, mtx, seen,
                   applied, exiting, excuses>>

\* supervisord is not modelled beyond MaxRestarts: the process stays down.
Down ==
    /\ ~Alive
    /\ restarts = MaxRestarts
    /\ UNCHANGED vars

Environment ==
    \/ \E kind \in FileChanges : FileChange(kind)
    \/ \E kind \in ContainerChanges : ContainerChange(kind)
    \/ Interrupt
    \/ Kill

\* The calls of update_policy_with_file.
Update(t) ==
    \/ LoadFile(t)
    \/ ListContainers(t)
    \/ ListNothing(t)
    \/ WriteMap(t)

Watch(t) ==
    \/ SetUp(t)
    \/ PollTimeout(t)
    \/ ReadEvents(t)
    \/ NotifyWaiter(t)
    \/ SkipNotify(t)
    \/ Claim(t)
    \/ Skip(t)
    \/ Lock(t)
    \/ AbortUpdate(t)
    \/ WaitTimeout(t)
    \/ Unlock(t)
    \/ Release(t)
    \/ Leave(t)

Main ==
    \/ NoFileAtStart
    \/ Spawn
    \/ StopPolling
    \/ Join

Next ==
    \/ Environment
    \/ Restart
    \/ Down
    \/ PollError
    \/ Main
    \/ \E t \in Threads : Update(t)
    \/ \E t \in Watchers : Watch(t)

Spec == Init /\ [][Next]_vars

\* Threads are scheduled and requests return, so every step of a thread that
\* stays possible is taken.  Taking mtx is strongly fair: its owner gives it up
\* for three seconds between two attempts.  The world, signals and errors of the
\* ring buffer owe nothing.
Fairness ==
    /\ WF_vars(Main)
    /\ WF_vars(Restart)
    /\ \A t \in Threads : WF_vars(Update(t))
    /\ \A t \in Watchers :
         /\ WF_vars(SetUp(t) \/ SkipNotify(t) \/ Claim(t) \/ Skip(t)
                     \/ AbortUpdate(t) \/ WaitTimeout(t) \/ Unlock(t) \/ Release(t))
         /\ WF_vars(ReadEvents(t))
         /\ WF_vars(Leave(t) /\ exiting)
         /\ SF_vars(NotifyWaiter(t))
         /\ SF_vars(Lock(t))

FairSpec == Spec /\ Fairness

-----------------------------------------------------------------------------
TypeOK ==
    /\ daemon \in Daemons
    /\ file \in {"good", "bad", "empty", "gone"}
    /\ up \in BOOLEAN
    /\ ver \in Version
    /\ glitches \in Nat
    /\ restarts \in Nat
    /\ queue \in [Watchers -> Seq(Event)]
    /\ batch \in [Watchers -> Seq(Event)]
    /\ pc \in [Threads -> MainPoints \cup WatcherPoints]
    /\ pc["main"] \in MainPoints
    /\ \A t \in Watchers : pc[t] \in WatcherPoints
    /\ running \in BOOLEAN
    /\ mtx \in Watchers \cup {NoThread}
    /\ seen \in [Threads -> Version]
    /\ applied \in Version
    /\ exiting \in BOOLEAN
    /\ excuses \subseteq {"unwatched", "move", "exit", "threw", "initial", "ignored",
                          "skipped"}

\* At most one thread is between policy_update_running.exchange(true) and
\* store(false), and update_policy_with_file, which works on the unsynchronised
\* lists of ContainerManager, never runs twice at a time: not even when a
\* watcher that waits on cv has given mtx up, nor during main's first update.
OneUpdater ==
    \A t, u \in Threads :
        (pc[t] \in Claimed /\ pc[u] \in Claimed) => t = u

\* With nothing left to handle, the map matches the file and the containers
\* unless one of the named gaps opened since the last time the file was read:
\* a change nobody watched, a rename, a container that exited by itself, a file that
\* did not parse, a failed first attempt, or an event skipped while the running updater was already past it.
Quiet ==
    /\ pc["main"] = "poll"
    /\ ~exiting
    /\ \A t \in Watchers : pc[t] = "idle" /\ queue[t] = <<>>
Fresh ==
    CASE file = "good"  -> applied = ver
      [] file = "empty" -> applied.file = ver.file
      [] OTHER          -> TRUE
FreshWhenQuiet == (Quiet /\ excuses = {}) => Fresh

\* mtx taken around notify_one is a barrier: an event that was announced under
\* it is only lost when the updater has dropped mtx and not yet reset the flag.
\* While that updater still reads, only a deletion can be lost.
LostOnlyAfterUnlock ==
    [][\A t, u \in Watchers :
         (/\ pc[t] = "enter" /\ pc'[t] \in {"idle", "event"}
          /\ u # t
          /\ Head(batch[t]).kind # "delete"
          /\ TooLate(u, Head(batch[t])))
         => pc[u] = "release"]_vars

\* An update that waits for its next attempt applies the world as it is by
\* then, if the file and Docker let it: what was skipped meanwhile is not lost.
Reaches(f, d) == applied.file >= f /\ applied.docker >= d
RetryCatchesUp ==
    \A f \in 0..MaxChanges : \A d \in 0..(MaxChanges - f) :
        ((\E t \in Watchers : pc[t] = "wait") /\ ver = [file |-> f, docker |-> d])
            ~> (Reaches(f, d) \/ file # "good" \/ ~up \/ exiting \/ ~Alive)

\* SIGINT ends the daemon: both watchers leave and main joins them.  lsm and raw do not
\* look at exiting between two attempts: they end once the file and Docker let one succeed.
ExitsWhenTold ==
    exiting ~> (~Alive \/ (daemon # "tp" /\ (file # "good" \/ ~up)))

=============================================================================
