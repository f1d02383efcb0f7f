---------------------------- MODULE TpEventLogger ----------------------------
(***************************************************************************)
(* tracepoint/EventLogger: the ring buffer's consumer (main) hands events  *)
(* to addEvent, which fills a fixed pool of buffers; a flush thread turns  *)
(* full or old buffers into tasks; one pool thread produces the events of  *)
(* a task to Kafka; the destructor, called by main, stops both threads.    *)
(*                                                                         *)
(* mtx_ protects the buffers.  It is held from a wake-up of the flush      *)
(* thread to the hand-over of one buffer and through the whole of addEvent *)
(* except the wait on cv_, so each such stretch is one action here.  That  *)
(* wait frees mtx_ but not availableBuffersMutex_.                         *)
(***************************************************************************)
EXTENDS Naturals, Sequences, Functions

CONSTANTS
    BufferCount,   \* BUFFER_CNT, at least 1
    BufferSize,    \* bufferSize_, 1000 in the code
    MaxEvents      \* bound: events handed to addEvent in a behaviour

ASSUME ConstantsAssumption ==
    /\ BufferCount \in Nat \ {0}
    /\ BufferSize \in Nat \ {0}
    /\ MaxEvents \in Nat

Buffers == 1..BufferCount
NoBuffer == 0

VARIABLES
    arrived,     \* events handed to addEvent so far; they are numbered from 1
    content,     \* the events in each buffer
    available,   \* availableBuffers_
    flushing,    \* flushBuffers_
    current,     \* currentBuffer_
    held,        \* bufferToFlush, local to the flush thread
    tasks,       \* queue of the pool thread: one sequence of events per task
    batch,       \* what the task that runs has not produced yet
    kafka,       \* events librdkafka has taken
    shutdown,    \* shutdown_
    stop,        \* stop_
    main,        \* where main is: "poll", "add", "waiting", "join", ...
    flusher,     \* where the flush thread is
    worker       \* where the pool thread is

buffers == <<content, available, flushing, current, held>>
pool == <<tasks, batch, kafka>>
flags == <<shutdown, stop>>
vars == <<arrived, buffers, pool, flags, main, flusher, worker>>

Init ==
    /\ arrived = 0
    /\ content = [b \in Buffers |-> <<>>]
    /\ available = [i \in 1..(BufferCount - 1) |-> i + 1]
    /\ flushing = <<>>
    /\ current = 1
    /\ held = NoBuffer
    /\ tasks = <<>>
    /\ batch = <<>>
    /\ kafka = <<>>
    /\ shutdown = FALSE
    /\ stop = FALSE
    /\ main = "poll"
    /\ flusher = "top"
    /\ worker = "top"

(***************************************************************************)
(* main: addEvent.                                                         *)
(***************************************************************************)
Call ==
    /\ main = "poll"
    /\ arrived < MaxEvents
    /\ arrived' = arrived + 1
    /\ main' = "add"
    /\ UNCHANGED <<buffers, pool, flags, flusher, worker>>

\* No buffer is free: wait on cv_, still owning availableBuffersMutex_.
Wait ==
    /\ main = "add"
    /\ current = NoBuffer
    /\ available = <<>>
    /\ main' = "waiting"
    /\ UNCHANGED <<arrived, buffers, pool, flags, flusher, worker>>

FreeForAll == TRUE   \* mutant: the wait frees availableBuffersMutex_ as it frees mtx_
Free == main # "waiting"   \* availableBuffersMutex_ can be taken

PushKeepingFull ==   \* mutant: a full buffer stays the current one, too
    LET b == IF current = NoBuffer THEN Head(available) ELSE current
        filled == Append(content[b], arrived)
    IN  /\ main \in {"add", "waiting"}
        /\ current # NoBuffer \/ available # <<>>
        /\ content' = [content EXCEPT ![b] = filled]
        /\ available' = IF current = NoBuffer THEN Tail(available) ELSE available
        /\ flushing' = IF Len(filled) >= BufferSize THEN Append(flushing, b)
                       ELSE flushing
        /\ current' = b
        /\ main' = "poll"
        /\ UNCHANGED <<arrived, held, pool, flags, flusher, worker>>

\* Push into the current buffer, or into the first free one; a full buffer goes
\* to the flush thread, and there is no current buffer until the next call.
Push ==
    LET b == IF current = NoBuffer THEN Head(available) ELSE current
        filled == Append(content[b], arrived)
        full == Len(filled) >= BufferSize
    IN  /\ main \in {"add", "waiting"}
        /\ current # NoBuffer \/ available # <<>>
        /\ content' = [content EXCEPT ![b] = filled]
        /\ available' = IF current = NoBuffer THEN Tail(available) ELSE available
        /\ flushing' = IF full THEN Append(flushing, b) ELSE flushing
        /\ current' = IF full THEN NoBuffer ELSE b
        /\ main' = "poll"
        /\ UNCHANGED <<arrived, held, pool, flags, flusher, worker>>

(***************************************************************************)
(* The flush thread.                                                       *)
(***************************************************************************)
Loop ==
    /\ flusher = "top"
    /\ flusher' = IF shutdown THEN "done" ELSE "wait"
    /\ UNCHANGED <<arrived, buffers, pool, flags, main, worker>>

\* The wait ends, or mtx_ is taken again, and a buffer is there to be flushed.
Take ==
    /\ flusher \in {"wait", "relock"}
    /\ flushing # <<>>
    /\ held' = Head(flushing)
    /\ flushing' = Tail(flushing)
    /\ flusher' = "send"
    /\ UNCHANGED <<arrived, content, available, current, pool, flags, main, worker>>

QuitWhenEmpty ==   \* mutant: not before the current buffer has left
    /\ flusher = "wait"
    /\ shutdown
    /\ flushing = <<>>
    /\ \A b \in Buffers : b = current => content[b] = <<>>
    /\ flusher' = "done"
    /\ UNCHANGED <<arrived, buffers, pool, flags, main, worker>>

\* shutdown_ is set and nothing is left to flush.
Quit ==
    /\ flusher = "wait"
    /\ shutdown
    /\ flushing = <<>>
    /\ flusher' = "done"
    /\ UNCHANGED <<arrived, buffers, pool, flags, main, worker>>

\* The wait timed out, or the queue is drained: look at the age of the current
\* buffer.  It is younger than FLUSH_TIMEOUT, or empty: leave it.
Keep ==
    /\ flusher = "relock" \/ (flusher = "wait" /\ ~shutdown)
    /\ flushing = <<>>
    /\ flusher' = "top"
    /\ UNCHANGED <<arrived, buffers, pool, flags, main, worker>>

AgeOnlyWhenDrained ==   \* mutant: the timeout of the wait is not looked at
    /\ flusher = "relock"
    /\ flushing = <<>>
    /\ current # NoBuffer /\ content[current] # <<>>
    /\ flushing' = <<current>>
    /\ current' = IF available = <<>> THEN NoBuffer ELSE Head(available)
    /\ available' = IF available = <<>> THEN <<>> ELSE Tail(available)
    /\ flusher' = "top"
    /\ UNCHANGED <<arrived, content, held, pool, flags, main, worker>>

AgeEmpty ==   \* mutant: an empty buffer is queued like any other
    /\ flusher = "relock" \/ (flusher = "wait" /\ ~shutdown)
    /\ flushing = <<>>
    /\ current # NoBuffer
    /\ flushing' = <<current>>
    /\ current' = IF available = <<>> THEN NoBuffer ELSE Head(available)
    /\ available' = IF available = <<>> THEN <<>> ELSE Tail(available)
    /\ flusher' = "top"
    /\ UNCHANGED <<arrived, content, held, pool, flags, main, worker>>

\* It is older, and not empty: queue it and make the next free one current.
Age ==
    /\ flusher = "relock" \/ (flusher = "wait" /\ ~shutdown)
    /\ flushing = <<>>
    /\ current # NoBuffer /\ content[current] # <<>>
    /\ flushing' = <<current>>
    /\ current' = IF available = <<>> THEN NoBuffer ELSE Head(available)
    /\ available' = IF available = <<>> THEN <<>> ELSE Tail(available)
    /\ flusher' = "top"
    /\ UNCHANGED <<arrived, content, held, pool, flags, main, worker>>

SendCopy ==   \* mutant: the buffer is sent but not cleared
    /\ flusher = "send"
    /\ worker # "blocking"
    /\ tasks' = Append(tasks, content[held])
    /\ flusher' = "return"
    /\ worker' = IF worker = "asleep" THEN "check" ELSE worker
    /\ UNCHANGED <<arrived, buffers, batch, kafka, flags, main>>

\* sendEventsToKafka moves the events into a task; enqueueTask takes the queue's
\* mutex, which a pool thread about to block still holds, and notifies.
Send ==
    /\ flusher = "send"
    /\ worker # "blocking"
    /\ tasks' = Append(tasks, content[held])
    /\ content' = [content EXCEPT ![held] = <<>>]
    /\ flusher' = "return"
    /\ worker' = IF worker = "asleep" THEN "check" ELSE worker
    /\ UNCHANGED <<arrived, available, flushing, current, held, batch, kafka,
                   flags, main>>

\* The buffer is free again; needs availableBuffersMutex_.
Return ==
    /\ flusher = "return"
    /\ Free
    /\ available' = Append(available, held)
    /\ held' = NoBuffer
    /\ flusher' = "relock"
    /\ UNCHANGED <<arrived, content, flushing, current, pool, flags, main, worker>>

(***************************************************************************)
(* The pool thread.                                                        *)
(***************************************************************************)
NextTask ==
    /\ worker = "top"
    /\ worker' = IF stop THEN "done" ELSE "check"
    /\ UNCHANGED <<arrived, buffers, pool, flags, main, flusher>>

\* The predicate of the wait holds: take a task, or leave.
Wake ==
    /\ worker = "check"
    /\ \/ /\ tasks # <<>>
          /\ batch' = Head(tasks)
          /\ tasks' = Tail(tasks)
          /\ worker' = "run"
       \/ /\ tasks = <<>> /\ stop
          /\ worker' = "done"
          /\ UNCHANGED <<tasks, batch>>
    /\ UNCHANGED <<arrived, buffers, kafka, flags, main, flusher>>

\* The predicate is false: the thread goes to sleep, in two steps because stop_
\* is set and announced without the mutex of the queue.
FallAsleep ==
    /\ \/ worker = "check" /\ tasks = <<>> /\ ~stop /\ worker' = "blocking"
       \/ worker = "blocking" /\ worker' = "asleep"
    /\ UNCHANGED <<arrived, buffers, pool, flags, main, flusher>>

\* produce() takes the next event of the task, or returns an error (its queue is
\* full), which is printed and not retried.
Produce ==
    /\ worker = "run"
    /\ \/ kafka' = Append(kafka, Head(batch))
       \/ UNCHANGED kafka
    /\ batch' = Tail(batch)
    /\ worker' = IF Len(batch) > 1 THEN "run" ELSE "top"
    /\ UNCHANGED <<arrived, buffers, tasks, flags, main, flusher>>

(***************************************************************************)
(* main: the destructor.                                                   *)
(***************************************************************************)
Shutdown ==
    /\ main = "poll"
    /\ shutdown' = TRUE
    /\ main' = "join"
    /\ UNCHANGED <<arrived, buffers, pool, stop, flusher, worker>>

\* The flush thread is joined; stop_ is set and the pool thread notified.
StopPool ==
    /\ main = "join"
    /\ flusher = "done"
    /\ stop' = TRUE
    /\ main' = "joinPool"
    /\ worker' = IF worker = "asleep" THEN "check" ELSE worker
    /\ UNCHANGED <<arrived, buffers, pool, shutdown, flusher>>

\* The numbers of a set, in ascending order: the order of buffers_.
InOrder(s, S) == Range(s) = S /\ \A i, j \in DOMAIN s : i < j => s[i] < s[j]

\* The pool thread is joined.  The buffers that hold events are queued and
\* handed to enqueueTask, which drops them because stop_ is set.
Discard ==
    /\ main = "joinPool"
    /\ worker = "done"
    /\ content' = [b \in Buffers |-> <<>>]
    /\ \E full \in UNION {[1..n -> Buffers] : n \in 0..BufferCount} :
         /\ InOrder(full, {b \in Buffers : content[b] # <<>>})
         /\ available' = available \o flushing \o full
    /\ flushing' = <<>>
    /\ tasks' = <<>>
    /\ main' = "done"
    /\ UNCHANGED <<arrived, current, held, batch, kafka, flags, flusher, worker>>

Main == Wait \/ Push \/ StopPool \/ Discard

Flusher == Loop \/ Take \/ Quit \/ Keep \/ Send \/ Return

Worker == NextTask \/ Wake \/ FallAsleep \/ Produce

Next == Call \/ Shutdown \/ Main \/ Flusher \/ Age \/ Worker

Spec == Init /\ [][Next]_vars

\* The three threads are scheduled, and a current buffer that stays does become
\* older than FLUSH_TIMEOUT.  New events and the end of main's loop owe nothing.
Fairness ==
    /\ WF_vars(Main)
    /\ WF_vars(Flusher)
    /\ SF_vars(Age)
    /\ SF_vars(Send)
    /\ WF_vars(Worker)

FairSpec == Spec /\ Fairness

-----------------------------------------------------------------------------
Events == 1..MaxEvents

\* The type invariant; besides, the flush thread never sends an empty buffer and
\* the pool thread never runs an empty task.
TypeOK ==
    /\ arrived \in 0..MaxEvents
    /\ content \in [Buffers -> Seq(Events)]
    /\ available \in Seq(Buffers)
    /\ flushing \in Seq(Buffers)
    /\ current \in Buffers \cup {NoBuffer}
    /\ held \in Buffers \cup {NoBuffer}
    /\ tasks \in Seq(Seq(Events))
    /\ batch \in Seq(Events)
    /\ kafka \in Seq(Events)
    /\ shutdown \in BOOLEAN
    /\ stop \in BOOLEAN
    /\ main \in {"poll", "add", "waiting", "join", "joinPool", "done"}
    /\ flusher \in {"top", "wait", "send", "return", "relock", "done"}
    /\ worker \in {"top", "check", "blocking", "asleep", "run", "done"}
    /\ flusher = "send" => held # NoBuffer /\ content[held] # <<>>
    /\ worker = "run" => batch # <<>>

\* Until the destructor empties the pool, a buffer is in one place, and only one:
\* free, current, queued once, or in the hands of the flush thread.  Sharing one
\* would let addEvent write into a vector the flush thread moves from without mtx_;
\* losing one would shrink the pool for good.
Once(s) == \A i, j \in DOMAIN s : s[i] = s[j] => i = j
In(b, s) == \E i \in DOMAIN s : s[i] = b
OnePlacePerBuffer ==
    main # "done" =>
        /\ Once(available) /\ Once(flushing)
        /\ \A b \in Buffers :
             /\ ~(In(b, available) /\ In(b, flushing))
             /\ b \in {current, held} \/ In(b, available) \/ In(b, flushing)
             /\ b \in {current, held} => ~In(b, available) /\ ~In(b, flushing)
             /\ ~(current = b /\ held = b)

\* Once addEvent has to wait for a buffer it waits for ever, whatever the flush thread,
\* the pool thread and the clock do: every buffer is on its way back to a queue whose
\* mutex the waiting thread owns.  No event and no shutdown comes after that.
WaitsForGood == [][main = "waiting" => main' = "waiting"]_vars

-----------------------------------------------------------------------------
\* The events inside the logger: in the task that runs, in queued tasks, in buffers.
Pending ==
    Range(batch) \cup (UNION {Range(t) : t \in Range(tasks)})
                 \cup (UNION {Range(content[b]) : b \in Buffers})

Log == INSTANCE EventLog WITH
    accepted <- IF main \in {"add", "waiting"} THEN arrived - 1 ELSE arrived,
    pending <- Pending,
    sink <- kafka,
    closed <- main = "done"

\* Buffers that are flushed by size or by age, by two threads and a task queue,
\* still reach Kafka as one log: each event at most once and in the order of
\* the calls of addEvent, and none lost but by a refusal or by the destructor.
ImplementsEventLog == Log!Spec

=============================================================================
