--------------------------- MODULE RawEventLogger ---------------------------
(***************************************************************************)
(* raw_tracepoint/EventLogger: the ring buffer thread ("main" here: it is  *)
(* joined before main destroys the logger) appends events to one of four   *)
(* buffers; a flush thread writes full or old buffers to a gzip file that  *)
(* is replaced at midnight.  There is no list of free buffers: the next    *)
(* current buffer is the first other one that is not full, whether or not  *)
(* it is queued or being written.                                          *)
(*                                                                         *)
(* addEvent holds mtx_ throughout and is one action.  The flush thread     *)
(* compresses, flushes and clears a buffer without mtx_, in three steps; a *)
(* push into that buffer is a data race, and its outcomes are enumerated.  *)
(*                                                                         *)
(* The daemon handles SIGINT only, so supervisord's SIGTERM kills it where *)
(* it stands.  It is started again, and opening the file of a day          *)
(* truncates it: the events are those of all runs, numbered through.       *)
(***************************************************************************)
EXTENDS Naturals, SequencesExt

CONSTANTS
    BufferCount,   \* 4 in the code
    BufferSize,    \* bufferSize_, 100000 in the code
    MaxEvents,     \* bound: events handed to addEvent in a behaviour
    MaxDays,       \* bound: days a behaviour sees
    MaxRestarts,   \* bound: times supervisord starts the daemon again
    DiskFails      \* whether the log file may fail to open or to be written

ASSUME ConstantsAssumption ==
    /\ BufferCount \in Nat \ {0}
    /\ BufferSize \in Nat \ {0}
    /\ MaxEvents \in Nat
    /\ MaxDays \in Nat \ {0}
    /\ MaxRestarts \in Nat
    /\ DiskFails \in BOOLEAN

Buffers == 1..BufferCount
NoBuffer == 0

VARIABLES
    arrived,     \* events handed to addEvent so far; they are numbered from 1
    content,     \* the events in each buffer
    flushing,    \* flushBuffers_
    current,     \* currentBuffer_
    held,        \* bufferToFlush, local to the flush thread
    unsynced,    \* what gzwrite has compressed and gzflush not passed on yet
    written,     \* events in the last file that was opened
    older,       \* events in the files of earlier days
    day,         \* today
    fileDay,     \* currentDate_: the day of the last file that was opened
    open,        \* gzFile_ is not null
    shutdown,    \* shutdown_
    main,        \* "run", "join", "drain", "done", or "down" when the process was killed
    flusher,     \* where the flush thread is
    first,       \* the first event of the present run
    restarts,    \* how often the daemon was started again
    excuses      \* history of the present run: "raced", "disk"

memory == <<content, flushing, current, held>>
disk == <<unsynced, written, older, fileDay, open>>
run == <<first, restarts>>
vars == <<arrived, memory, disk, day, shutdown, main, flusher, run, excuses>>

Init ==
    /\ arrived = 0
    /\ content = [b \in Buffers |-> <<>>]
    /\ flushing = <<>>
    /\ current = 1
    /\ held = NoBuffer
    /\ unsynced = <<>>
    /\ written = <<>>
    /\ older = <<>>
    /\ day = 1
    /\ fileDay = 1
    /\ open = TRUE
    /\ shutdown = FALSE
    /\ main = "run"
    /\ flusher = "top"
    /\ first = 1
    /\ restarts = 0
    /\ excuses = {}

Midnight ==
    /\ day < MaxDays
    /\ day' = day + 1
    /\ UNCHANGED <<arrived, memory, disk, shutdown, main, flusher, run, excuses>>

\* The buffers the code takes for available, and the one it chooses.
Candidates(c) == {b \in Buffers : b # current /\ Len(c[b]) < BufferSize}
NextInLine(c) == current + 1   \* mutant: the next buffer, with no end to it

NextBuffer(c) ==
    IF Candidates(c) = {} THEN current
    ELSE CHOOSE b \in Candidates(c) : \A a \in Candidates(c) : b <= a

(***************************************************************************)
(* addEvent.                                                               *)
(***************************************************************************)
\* The buffers are c once the event is pushed.  A full buffer is queued and the
\* next one becomes current.  If there is none, the wait on cv_ returns at once
\* (its predicate is that flushBuffers_ is not empty), addEvent reports that it
\* drops the event, and the full buffer stays current.
Pushed(c) ==
    LET full == Len(c[current]) >= BufferSize
    IN  /\ content' = c
        /\ flushing' = IF full THEN Append(flushing, current) ELSE flushing
        /\ current' = IF full THEN NextBuffer(c) ELSE current

AddEvent ==
    /\ main = "run"
    /\ arrived < MaxEvents
    /\ arrived' = arrived + 1
    /\ Pushed([content EXCEPT ![current] = Append(@, arrived + 1)])
    /\ excuses' = IF current = held THEN excuses \cup {"raced"} ELSE excuses
    /\ UNCHANGED <<held, disk, day, shutdown, main, flusher, run>>

\* The push meets the clear() of the flush thread.  Either the size it had read
\* survives, or the cleared size is incremented and the oldest event is back.
TornPush ==
    /\ main = "run"
    /\ arrived < MaxEvents
    /\ flusher = "clear" /\ current = held
    /\ arrived' = arrived + 1
    /\ \E torn \in {Append(content[held], arrived + 1),
                    <<Head(Append(content[held], arrived + 1))>>} :
          Pushed([content EXCEPT ![held] = torn])
    /\ excuses' = excuses \cup {"raced"}
    /\ held' = NoBuffer
    /\ flusher' = "relock"
    /\ UNCHANGED <<disk, day, shutdown, main, run>>

\* The push outgrows the reserved memory while the flush thread iterates over
\* it: it reads freed memory, and the process may die of it.
Reallocate ==
    /\ main = "run"
    /\ arrived < MaxEvents
    /\ flusher = "write" /\ current = held
    /\ Len(content[held]) >= BufferSize
    /\ arrived' = arrived + 1
    /\ main' = "down"
    /\ excuses' = excuses \cup {"raced"}
    /\ UNCHANGED <<memory, disk, day, shutdown, flusher, run>>

(***************************************************************************)
(* The flush thread.                                                       *)
(***************************************************************************)
\* checkAndRotateLogFile with the wait after it.  On a new day the file is closed
\* and the next one opened; a failure throws, and that ends the thread.
NewFile ==
    /\ older' = older \o written
    /\ written' = <<>>
    /\ fileDay' = day
    /\ open' = TRUE

Loop ==
    /\ flusher = "top"
    /\ \/ shutdown /\ flusher' = "done" /\ UNCHANGED <<disk, excuses>>
       \/ /\ ~shutdown /\ fileDay = day
          /\ flusher' = "wait"
          /\ UNCHANGED <<disk, excuses>>
       \/ /\ ~shutdown /\ fileDay # day
          /\ NewFile
          /\ flusher' = "wait"
          /\ UNCHANGED <<unsynced, excuses>>
       \/ /\ ~shutdown /\ fileDay # day /\ DiskFails
          /\ flusher' = "done"
          /\ open' = FALSE
          /\ excuses' = excuses \cup {"disk"}
          /\ UNCHANGED <<unsynced, written, older, fileDay>>
    /\ UNCHANGED <<arrived, memory, day, shutdown, main, run>>

Take ==
    /\ flusher \in {"wait", "relock"}
    /\ flushing # <<>>
    /\ held' = Head(flushing)
    /\ flushing' = Tail(flushing)
    /\ flusher' = "write"
    /\ UNCHANGED <<arrived, content, current, disk, day, shutdown, main, run, excuses>>

Quit ==
    /\ flusher = "wait"
    /\ shutdown
    /\ flushing = <<>>
    /\ flusher' = "done"
    /\ UNCHANGED <<arrived, memory, disk, day, shutdown, main, run, excuses>>

\* The current buffer is younger than FLUSH_TIMEOUT, or empty.
Keep ==
    /\ flusher = "relock" \/ (flusher = "wait" /\ ~shutdown)
    /\ flushing = <<>>
    /\ flusher' = "top"
    /\ UNCHANGED <<arrived, memory, disk, day, shutdown, main, run, excuses>>

NeverAge == FALSE /\ UNCHANGED vars   \* mutant: no timeout

AgeUnqueued ==   \* mutant: an old buffer is exchanged but not queued
    /\ flusher = "relock" \/ (flusher = "wait" /\ ~shutdown)
    /\ flushing = <<>>
    /\ content[current] # <<>>
    /\ current' = NextBuffer(content)
    /\ flusher' = "top"
    /\ UNCHANGED <<arrived, content, flushing, held, disk, day, shutdown, main, run, excuses>>

\* It is older: queue it and take the next one; with no other buffer left it
\* stays current although it is queued.
Age ==
    /\ flusher = "relock" \/ (flusher = "wait" /\ ~shutdown)
    /\ flushing = <<>>
    /\ content[current] # <<>>
    /\ flushing' = <<current>>
    /\ current' = NextBuffer(content)
    /\ flusher' = "top"
    /\ UNCHANGED <<arrived, content, held, disk, day, shutdown, main, run, excuses>>

\* flushToFile: gzwrite compresses the events of the buffer; none when no file is open.
Write ==
    /\ flusher = "write"
    /\ \/ /\ open
          /\ unsynced' = content[held]
          /\ flusher' = "sync"
          /\ UNCHANGED excuses
       \/ /\ ~open \/ DiskFails
          /\ excuses' = excuses \cup {"disk"}
          /\ flusher' = "clear"
          /\ UNCHANGED unsynced
    /\ UNCHANGED <<arrived, memory, written, older, fileDay, day, open, shutdown, main, run>>

SkipSync ==   \* mutant: without gzflush zlib passes the events on when the file is closed
    /\ flusher = "sync"
    /\ flusher' = "clear"
    /\ UNCHANGED <<arrived, memory, disk, day, shutdown, main, run, excuses>>

\* gzflush with Z_SYNC_FLUSH: what was compressed is in the file.
Sync ==
    /\ flusher = "sync"
    /\ \/ written' = written \o unsynced /\ UNCHANGED excuses
       \/ DiskFails /\ excuses' = excuses \cup {"disk"} /\ UNCHANGED written
    /\ unsynced' = <<>>
    /\ flusher' = "clear"
    /\ UNCHANGED <<arrived, memory, older, fileDay, day, open, shutdown, main, run>>

Clear ==
    /\ flusher = "clear"
    /\ content' = [content EXCEPT ![held] = <<>>]
    /\ held' = NoBuffer
    /\ flusher' = "relock"
    /\ UNCHANGED <<arrived, flushing, current, disk, day, shutdown, main, run, excuses>>

(***************************************************************************)
(* The destructor.                                                         *)
(***************************************************************************)
Shutdown ==
    /\ main = "run"
    /\ shutdown' = TRUE
    /\ main' = "join"
    /\ UNCHANGED <<arrived, memory, disk, day, flusher, run, excuses>>

\* The flush thread is joined, and the current buffer is queued unless it is empty.
QueueLast ==
    /\ main = "join"
    /\ flusher = "done"
    /\ flushing' = IF content[current] = <<>> THEN flushing ELSE Append(flushing, current)
    /\ main' = "drain"
    /\ UNCHANGED <<arrived, content, current, held, disk, day, shutdown, flusher, run, excuses>>

\* The queue is written one buffer after another.  A second turn of the same buffer
\* finds it empty.
Drain ==
    /\ main = "drain"
    /\ flushing # <<>>
    /\ flushing' = Tail(flushing)
    /\ content' = [content EXCEPT ![Head(flushing)] = <<>>]
    /\ \/ open /\ written' = written \o content[Head(flushing)] /\ UNCHANGED excuses
       \/ /\ ~open \/ DiskFails
          /\ excuses' = excuses \cup {"disk"}
          /\ UNCHANGED written
    /\ UNCHANGED <<arrived, current, held, unsynced, older, fileDay, day, open, shutdown,
                   main, flusher, run>>

Close ==
    /\ main = "drain"
    /\ flushing = <<>>
    /\ open' = FALSE
    /\ main' = "done"
    /\ UNCHANGED <<arrived, memory, unsynced, written, older, fileDay, day, shutdown,
                   flusher, run, excuses>>

(***************************************************************************)
(* The process.                                                            *)
(***************************************************************************)
\* SIGTERM, or anything else that kills it.  The buffers are lost; of what zlib
\* holds some may have reached the file.
Kill ==
    /\ main \in {"run", "join", "drain"}
    /\ main' = "down"
    /\ \E n \in 0..Len(unsynced) : written' = written \o SubSeq(unsynced, 1, n)
    /\ UNCHANGED <<arrived, memory, unsynced, older, fileDay, day, open, shutdown,
                   flusher, run, excuses>>

RestartSameName ==   \* mutant: the name of the file does not hold the date
    /\ main \in {"down", "done"}
    /\ restarts < MaxRestarts
    /\ restarts' = restarts + 1
    /\ first' = arrived + 1
    /\ content' = [b \in Buffers |-> <<>>]
    /\ flushing' = <<>>
    /\ current' = 1
    /\ held' = NoBuffer
    /\ unsynced' = <<>>
    /\ older' = older
    /\ written' = <<>>
    /\ fileDay' = day
    /\ open' = TRUE
    /\ shutdown' = FALSE
    /\ main' = "run"
    /\ flusher' = "top"
    /\ excuses' = {}
    /\ UNCHANGED <<arrived, day>>

\* supervisord starts it again.  gzopen truncates the file of the day if there is one.
Restart ==
    /\ main \in {"down", "done"}
    /\ restarts < MaxRestarts
    /\ restarts' = restarts + 1
    /\ first' = arrived + 1
    /\ content' = [b \in Buffers |-> <<>>]
    /\ flushing' = <<>>
    /\ current' = 1
    /\ held' = NoBuffer
    /\ unsynced' = <<>>
    /\ older' = IF fileDay = day THEN older ELSE older \o written
    /\ written' = <<>>
    /\ fileDay' = day
    /\ open' = TRUE
    /\ shutdown' = FALSE
    /\ main' = "run"
    /\ flusher' = "top"
    /\ excuses' = {}
    /\ UNCHANGED <<arrived, day>>

Flusher == main # "down" /\ (Loop \/ Take \/ Quit \/ Keep \/ Write \/ Sync \/ Clear)

Old == main # "down" /\ Age

Destructor == QueueLast \/ Drain \/ Close

Next ==
    \/ AddEvent \/ TornPush \/ Reallocate
    \/ Shutdown \/ Destructor
    \/ Flusher \/ Old
    \/ Midnight \/ Kill \/ Restart

Spec == Init /\ [][Next]_vars

\* The flush thread is scheduled, and a buffer that stays current does become
\* older than FLUSH_TIMEOUT.
Fairness ==
    /\ WF_vars(Flusher)
    /\ SF_vars(Old)
    /\ WF_vars(Destructor)

FairSpec == Spec /\ Fairness

-----------------------------------------------------------------------------
Events == 1..MaxEvents

\* The type invariant.
TypeOK ==
    /\ arrived \in 0..MaxEvents
    /\ content \in [Buffers -> Seq(Events)]
    /\ flushing \in Seq(Buffers)
    /\ current \in Buffers
    /\ held \in Buffers \cup {NoBuffer}
    /\ flusher \in {"write", "sync", "clear"} => held # NoBuffer
    /\ unsynced \in Seq(Events)
    /\ written \in Seq(Events)
    /\ older \in Seq(Events)
    /\ day \in 1..MaxDays
    /\ fileDay \in 1..day
    /\ open \in BOOLEAN
    /\ shutdown \in BOOLEAN
    /\ main \in {"run", "join", "drain", "done", "down"}
    /\ flusher \in {"top", "wait", "write", "sync", "clear", "relock", "done"}
    /\ first \in 1..(arrived + 1)
    /\ restarts \in 0..MaxRestarts
    /\ excuses \subseteq {"raced", "disk"}

Files == older \o written

\* Whatever buffer a full, an old or the last buffer was exchanged for, as long
\* as no push met the flush thread and the disk works, an event the present run
\* accepted is in a file or in a buffer, never in two places, and in a file after
\* the end: also when a buffer is queued twice, or queued and current, and also at
\* the moment the process is killed, which costs nothing but what is in buffers.
Conserved ==
    excuses = {} =>
        \A e \in first..arrived :
            /\ \A i, j \in DOMAIN Files : Files[i] = e /\ Files[j] = e => i = j
            /\ \A b \in Buffers \ (IF flusher \in {"sync", "clear"} THEN {held} ELSE {}) :
                  Contains(content[b], e) => ~Contains(Files, e)
            /\ Contains(Files, e)
                 \/ (main # "done" /\ \E b \in Buffers : Contains(content[b], e))

\* An event that has reached a file stays in the log through every midnight, kill and
\* restart but one: a restart on the day of the last file erases that file.
OnlyRestartErases ==
    [][\A e \in Events : Contains(Files, e) =>
          Contains(Files', e) \/ (fileDay = day /\ restarts' # restarts)]_vars

\* A buffer that holds events is current, queued or in the hands of the flush
\* thread: none is forgotten, not even one that a torn push brought back.
NoneForgotten ==
    \A b \in Buffers :
        content[b] # <<>> =>
            b \in {current, held} \/ \E i \in DOMAIN flushing : flushing[i] = b

\* No event stays in memory for ever, as long as the flush thread lives: a buffer
\* that holds some is cleared, full or not.
EventsLeave ==
    \A b \in Buffers :
        content[b] # <<>> ~> (content[b] = <<>> \/ excuses # {} \/ main = "down")
-----------------------------------------------------------------------------
\* The events that are in memory only: a process that was killed has no memory.
Pending ==
    {e \in 1..arrived : /\ main # "down"
                        /\ ~Contains(Files, e)
                        /\ \E b \in Buffers : Contains(content[b], e)}

Log == INSTANCE DayLog WITH
    accepted <- arrived,
    pending <- Pending,
    archive <- older,
    file <- written,
    today <- fileDay = day,
    process <- IF main = "down" THEN "killed" ELSE IF main = "done" THEN "ended" ELSE "up",
    sound <- excuses = {}

\* Buffers that are exchanged in any order, written in three steps without a mutex and
\* drained at the end, over midnights, kills and restarts, are one log with a file per day:
\* an event goes from memory to the file of the moment, once, and none goes elsewhere
\* unless the process is killed, or a data race or the disk spoiled it.
ImplementsDayLog == Log!Spec
=============================================================================
