------------------------ MODULE TpEventLoggerProofs ------------------------
(***************************************************************************)
(* TpEventLogger for any number of buffers of any size and any number of   *)
(* events: no buffer is ever shared and none is lost, Kafka gets the       *)
(* events in order, the logger implements EventLog, the types, and what    *)
(* becomes of a call that waits.                                           *)
(***************************************************************************)
EXTENDS TpEventLogger, SequenceTheorems, TLAPS

-----------------------------------------------------------------------------
(* What a queue holds, and how often, when it grows and shrinks.           *)

LEMMA OnEmpty == ASSUME NEW S PROVE <<>> \in Seq(S) /\ Once(<<>>) /\ \A y : ~In(y, <<>>)
BY DEF Once, In

LEMMA OnAppend ==
    ASSUME NEW S, NEW s \in Seq(S), NEW x \in S
    PROVE  /\ Append(s, x) \in Seq(S)
           /\ \A y : In(y, Append(s, x)) <=> In(y, s) \/ y = x
           /\ Once(s) /\ ~In(x, s) => Once(Append(s, x))
<1> DEFINE t == Append(s, x)
<1>1. /\ t \in Seq(S)
      /\ Len(s) \in Nat
      /\ DOMAIN s = 1..Len(s)
      /\ DOMAIN t = 1..(Len(s) + 1)
      /\ \A i \in 1..Len(s) : t[i] = s[i]
      /\ t[Len(s) + 1] = x
  BY AppendProperties, LenProperties
<1> HIDE DEF t
<1>2. \A y : In(y, t) <=> In(y, s) \/ y = x
  <2>1. \A i \in 1..(Len(s) + 1) : i \in 1..Len(s) \/ i = Len(s) + 1
    BY <1>1
  <2>2. ASSUME NEW y, In(y, t) PROVE In(y, s) \/ y = x
    BY <1>1, <2>1, <2>2 DEF In
  <2>3. ASSUME NEW y, In(y, s) PROVE In(y, t)
    BY <1>1, <2>3 DEF In
  <2>4. In(x, t)
    BY <1>1 DEF In
  <2>5. QED
    BY <2>2, <2>3, <2>4
<1>3. ASSUME Once(s), ~In(x, s) PROVE Once(t)
  BY <1>1, <1>3 DEF Once, In
<1>4. QED
  BY <1>1, <1>2, <1>3 DEF t

LEMMA OnTail ==
    ASSUME NEW S, NEW s \in Seq(S), s # <<>>
    PROVE  /\ Head(s) \in S /\ Tail(s) \in Seq(S)
           /\ \A y : In(y, s) <=> In(y, Tail(s)) \/ y = Head(s)
           /\ Once(s) => Once(Tail(s)) /\ ~In(Head(s), Tail(s))
<1> DEFINE t == Tail(s)
<1>1. /\ t \in Seq(S)
      /\ Len(s) \in Nat \ {0}
      /\ Head(s) = s[1]
      /\ s[1] \in S
      /\ DOMAIN s = 1..Len(s)
      /\ DOMAIN t = 1..(Len(s) - 1)
      /\ \A i \in 1..(Len(s) - 1) : t[i] = s[i + 1]
  BY HeadTailProperties, LenProperties, EmptySeq, ElementOfSeq
<1> HIDE DEF t
<1>2. ASSUME NEW y, In(y, s), y # Head(s) PROVE In(y, t)
  <2>1. PICK i \in 1..Len(s) : s[i] = y
    BY <1>1, <1>2 DEF In
  <2>2. i - 1 \in 1..(Len(s) - 1) /\ t[i - 1] = y
    BY <1>1, <1>2, <2>1
  <2>3. QED
    BY <1>1, <2>2 DEF In
<1>3. ASSUME NEW y, In(y, t) PROVE In(y, s)
  <2>1. PICK i \in 1..(Len(s) - 1) : t[i] = y
    BY <1>1, <1>3 DEF In
  <2>2. i + 1 \in 1..Len(s) /\ s[i + 1] = y
    BY <1>1, <2>1
  <2>3. QED
    BY <1>1, <2>2 DEF In
<1>4. In(Head(s), s)
  BY <1>1 DEF In
<1>5. ASSUME Once(s) PROVE Once(t) /\ ~In(Head(s), t)
  <2>1. \A i \in 1..(Len(s) - 1) : i + 1 \in 1..Len(s) /\ i + 1 # 1
    BY <1>1
  <2>2. \A i, j \in 1..(Len(s) - 1) : t[i] = t[j] => i + 1 = j + 1
    BY <1>1, <1>5, <2>1 DEF Once
  <2>3. \A i \in 1..(Len(s) - 1) : t[i] # s[1]
    BY <1>1, <1>5, <2>1 DEF Once
  <2>4. QED
    BY <1>1, <2>2, <2>3 DEF Once, In
<1>6. QED
  BY <1>1, <1>2, <1>3, <1>4, <1>5 DEF t

LEMMA OnOne ==
    ASSUME NEW S, NEW x \in S
    PROVE  <<x>> \in Seq(S) /\ Once(<<x>>) /\ \A y : In(y, <<x>>) <=> y = x
BY DEF Once, In

-----------------------------------------------------------------------------
(* The invariant, until the destructor empties the pool.                   *)

PoolType ==
    /\ available \in Seq(Buffers)
    /\ flushing \in Seq(Buffers)
    /\ current \in Buffers \cup {NoBuffer}
    /\ held \in Buffers \cup {NoBuffer}

\* The flush thread has a buffer in hand from Take to Return.
HeldInv == held \in Buffers <=> flusher \in {"send", "return"}

Places ==
    /\ Once(available) /\ Once(flushing)
    /\ \A b \in Buffers :
         /\ b \in {current, held} \/ In(b, available) \/ In(b, flushing)
         /\ ~(In(b, available) /\ In(b, flushing))
         /\ b \in {current, held} => ~In(b, available) /\ ~In(b, flushing)
         /\ ~(current = b /\ held = b)

Pool == PoolType /\ HeldInv /\ Places
Inv == main # "done" => Pool

LEMMA NoBufferIsNone == NoBuffer \notin Buffers
BY ConstantsAssumption DEF NoBuffer, Buffers

LEMMA PoolInit == Init => Pool
<1> SUFFICES ASSUME Init PROVE Pool
  OBVIOUS
<1>1. /\ available = [i \in 1..(BufferCount - 1) |-> i + 1]
      /\ flushing = <<>> /\ current = 1 /\ held = NoBuffer /\ flusher = "top"
  BY DEF Init
<1>2. BufferCount - 1 \in Nat /\ 1 \in Buffers
  BY ConstantsAssumption DEF Buffers
<1>3. \A i \in 1..(BufferCount - 1) : i + 1 \in Buffers
  BY ConstantsAssumption DEF Buffers
<1>4. available \in Seq(Buffers) /\ DOMAIN available = 1..(BufferCount - 1)
  BY <1>1, <1>2, <1>3, IsASeq
<1>5. \A b : In(b, available) <=> b \in Buffers \ {1}
  <2>1. ASSUME NEW b, In(b, available) PROVE b \in Buffers \ {1}
    BY <1>1, <1>2, <1>3, <1>4, <2>1 DEF In
  <2>2. ASSUME NEW b \in Buffers \ {1} PROVE In(b, available)
    <3>1. b - 1 \in 1..(BufferCount - 1)
      BY ConstantsAssumption DEF Buffers
    <3>2. available[b - 1] = b
      BY <1>1, <3>1 DEF Buffers
    <3>3. QED
      BY <1>4, <3>1, <3>2 DEF In
  <2>3. QED
    BY <2>1, <2>2
<1>6. Once(available)
  BY <1>1, <1>4 DEF Once
<1>7. Once(flushing) /\ (\A b : ~In(b, flushing)) /\ flushing \in Seq(Buffers)
  BY <1>1, OnEmpty
<1>8. PoolType /\ HeldInv
  BY <1>1, <1>2, <1>4, <1>7, NoBufferIsNone DEF PoolType, HeldInv
<1>9. Places
  BY <1>1, <1>2, <1>5, <1>6, <1>7, NoBufferIsNone DEF Places
<1>10. QED
  BY <1>8, <1>9 DEF Pool

\* addEvent fills the current buffer, or the first free one, and queues it when full.
LEMMA PushKeepsPool == ASSUME Pool, Push PROVE Pool'
<1> DEFINE b == IF current = NoBuffer THEN Head(available) ELSE current
           full == Len(Append(content[b], arrived)) >= BufferSize
<1>1. /\ current # NoBuffer \/ available # <<>>
      /\ available' = IF current = NoBuffer THEN Tail(available) ELSE available
      /\ flushing' = IF full THEN Append(flushing, b) ELSE flushing
      /\ current' = IF full THEN NoBuffer ELSE b
      /\ held' = held /\ flusher' = flusher
  BY DEF Push
<1> HIDE DEF full
<1>2. PoolType /\ HeldInv /\ Places
  BY DEF Pool
<1>3. b \in Buffers
  BY <1>1, <1>2, OnTail DEF PoolType
<1>4. /\ available' \in Seq(Buffers) /\ Once(available')
      /\ \A y \in Buffers : In(y, available') <=> In(y, available) /\ y # b
  BY <1>1, <1>2, <1>3, OnTail, NoBufferIsNone DEF PoolType, Places
<1>5. ~In(b, flushing) /\ b # held
  BY <1>1, <1>2, <1>3, OnTail DEF PoolType, Places
<1>6. /\ flushing' \in Seq(Buffers) /\ Once(flushing')
      /\ \A y \in Buffers : In(y, flushing') <=> In(y, flushing) \/ (full /\ y = b)
  BY <1>1, <1>2, <1>3, <1>5, OnAppend DEF PoolType, Places
<1>7. current \in {b, NoBuffer} /\ current' \in {b, NoBuffer}
  BY <1>1
<1> HIDE DEF b
<1>8. PoolType' /\ HeldInv'
  BY <1>1, <1>2, <1>3, <1>4, <1>6 DEF PoolType, HeldInv
<1>9. Places'
  <2>1. Once(available') /\ Once(flushing')
    BY <1>4, <1>6
  <2>2. ASSUME NEW y \in Buffers, y # b
        PROVE  /\ y \in {current', held'} <=> y \in {current, held}
               /\ In(y, available') <=> In(y, available)
               /\ In(y, flushing') <=> In(y, flushing)
               /\ ~(current' = y /\ held' = y)
    BY <1>1, <1>4, <1>6, <1>7, <2>2, NoBufferIsNone
  <2>3. /\ b = current' <=> ~full
        /\ b # held' /\ ~In(b, available') /\ (In(b, flushing') <=> full)
    BY <1>1, <1>3, <1>4, <1>5, <1>6, NoBufferIsNone
  <2>4. QED
    BY <1>2, <2>1, <2>2, <2>3 DEF Places
<1>10. QED
  BY <1>8, <1>9 DEF Pool

\* The flush thread takes the first buffer of the queue.
LEMMA TakeKeepsPool == ASSUME Pool, Take PROVE Pool'
<1> DEFINE b == Head(flushing)
<1>1. /\ flushing # <<>>
      /\ held' = b
      /\ flushing' = Tail(flushing)
      /\ flusher \notin {"send", "return"} /\ flusher' = "send"
      /\ current' = current /\ available' = available
  BY DEF Take
<1>2. PoolType /\ HeldInv /\ Places
  BY DEF Pool
<1>3. /\ b \in Buffers
      /\ flushing' \in Seq(Buffers)
      /\ \A y : In(y, flushing) <=> In(y, flushing') \/ y = b
      /\ Once(flushing') /\ ~In(b, flushing')
  BY <1>1, <1>2, OnTail DEF PoolType, Places
<1> HIDE DEF b
<1>4. held \notin Buffers
  BY <1>1, <1>2 DEF HeldInv
<1>5. PoolType' /\ HeldInv'
  BY <1>1, <1>2, <1>3 DEF PoolType, HeldInv
<1>6. Places'
  BY <1>1, <1>2, <1>3, <1>4 DEF Places
<1>7. QED
  BY <1>5, <1>6 DEF Pool

\* It gives it back.
LEMMA ReturnKeepsPool == ASSUME Pool, Return PROVE Pool'
<1>1. /\ flusher = "return" /\ flusher' = "relock"
      /\ available' = Append(available, held)
      /\ held' = NoBuffer
      /\ current' = current /\ flushing' = flushing
  BY DEF Return
<1>2. PoolType /\ HeldInv /\ Places
  BY DEF Pool
<1>3. held \in Buffers
  BY <1>1, <1>2 DEF HeldInv
<1>4. ~In(held, available)
  BY <1>2, <1>3 DEF Places
<1>5. /\ available' \in Seq(Buffers)
      /\ \A y : In(y, available') <=> In(y, available) \/ y = held
      /\ Once(available')
  BY <1>1, <1>2, <1>3, <1>4, OnAppend DEF PoolType, Places
<1>6. PoolType' /\ HeldInv'
  BY <1>1, <1>2, <1>5, NoBufferIsNone DEF PoolType, HeldInv
<1>7. Places'
  BY <1>1, <1>2, <1>3, <1>5, NoBufferIsNone DEF Places
<1>8. QED
  BY <1>6, <1>7 DEF Pool

\* It queues an old buffer and makes the first free one current, if there is one.
LEMMA AgeKeepsPool == ASSUME Pool, Age PROVE Pool'
<1>1. /\ flushing = <<>> /\ flushing' = <<current>>
      /\ current # NoBuffer
      /\ current' = IF available = <<>> THEN NoBuffer ELSE Head(available)
      /\ available' = IF available = <<>> THEN <<>> ELSE Tail(available)
      /\ flusher \notin {"send", "return"} /\ flusher' \notin {"send", "return"}
      /\ held' = held
  BY DEF Age
<1>2. PoolType /\ HeldInv /\ Places
  BY DEF Pool
<1>3. current \in Buffers /\ held \notin Buffers
  BY <1>1, <1>2 DEF PoolType, HeldInv
<1>4. /\ \A y : ~In(y, flushing)
      /\ flushing' \in Seq(Buffers) /\ Once(flushing')
      /\ \A y : In(y, flushing') <=> y = current
  BY <1>1, <1>3, OnEmpty, OnOne
<1>5. /\ available' \in Seq(Buffers) /\ Once(available')
      /\ current' \in Buffers \cup {NoBuffer}
      /\ \A y \in Buffers : In(y, available) <=> In(y, available') \/ y = current'
      /\ ~In(current', available')
  <2>1. CASE available = <<>>
    BY <1>1, <2>1, OnEmpty, NoBufferIsNone
  <2>2. CASE available # <<>>
    BY <1>1, <1>2, <2>2, OnTail DEF PoolType, Places
  <2>3. QED
    BY <2>1, <2>2
<1>6. PoolType' /\ HeldInv'
  BY <1>1, <1>2, <1>4, <1>5 DEF PoolType, HeldInv
<1>7. Places'
  BY <1>1, <1>2, <1>3, <1>4, <1>5 DEF Places
<1>8. QED
  BY <1>6, <1>7 DEF Pool

\* The other steps leave the pool alone.
LEMMA OthersKeepPool ==
    ASSUME Pool,
           \/ Call \/ Shutdown \/ Wait \/ StopPool \/ Worker
           \/ Loop \/ Quit \/ Keep \/ Send
           \/ UNCHANGED vars
    PROVE  Pool'
<1>1. /\ available' = available /\ flushing' = flushing
      /\ current' = current /\ held' = held
  BY DEF Call, Shutdown, Wait, StopPool, Worker, NextTask, Wake, FallAsleep, Produce,
         Loop, Quit, Keep, Send, vars, buffers
<1>2. flusher' \in {"send", "return"} <=> flusher \in {"send", "return"}
  BY DEF Call, Shutdown, Wait, StopPool, Worker, NextTask, Wake, FallAsleep, Produce,
         Loop, Quit, Keep, Send, vars
<1>3. QED
  BY <1>1, <1>2 DEF Pool, PoolType, HeldInv, Places, In, Once

LEMMA StepKeepsInv == Inv /\ [Next]_vars => Inv'
<1> SUFFICES ASSUME Inv, [Next]_vars, main' # "done" PROVE Pool'
  BY DEF Inv
<1>1. CASE Push
  <2>1. main # "done"
    BY <1>1 DEF Push
  <2>2. QED
    BY <1>1, <2>1, PushKeepsPool DEF Inv
<1>2. CASE Take
  BY <1>2, TakeKeepsPool DEF Inv, Take
<1>3. CASE Return
  BY <1>3, ReturnKeepsPool DEF Inv, Return
<1>4. CASE Age
  BY <1>4, AgeKeepsPool DEF Inv, Age
<1>5. CASE Discard
  BY <1>5 DEF Discard
<1>6. CASE \/ Call \/ Shutdown \/ Wait \/ StopPool \/ Worker
           \/ Loop \/ Quit \/ Keep \/ Send
           \/ UNCHANGED vars
  <2>1. main # "done"
    BY <1>6 DEF Call, Shutdown, Wait, StopPool, Worker, NextTask, Wake, FallAsleep,
                Produce, Loop, Quit, Keep, Send, vars
  <2>2. QED
    BY <1>6, <2>1, OthersKeepPool DEF Inv
<1>7. QED
  BY <1>1, <1>2, <1>3, <1>4, <1>5, <1>6 DEF Next, Main, Flusher

\* Whatever flushes overlap, a buffer of tracepoint's logger is free, current, queued or
\* in the hands of the flush thread, and never two of these, until the destructor
\* empties the pool: addEvent never writes into the vector that sendEventsToKafka
\* moves from without mtx_, and the pool keeps its size.
THEOREM BuffersAreNotShared == Spec => []OnePlacePerBuffer
<1>1. Init => Inv
  BY PoolInit DEF Inv
<1>2. Inv => OnePlacePerBuffer
  BY DEF Inv, Pool, Places, OnePlacePerBuffer
<1>3. QED
  BY <1>1, <1>2, StepKeepsInv, PTL DEF Spec

-----------------------------------------------------------------------------
(* The order of the events.  A stage is earlier than another if all its    *)
(* events are: Kafka, the task that runs, the queued tasks, the buffer in  *)
(* hand, the queued buffers, and the current one come in this order.       *)

Inc(s) == \A i, j \in DOMAIN s : i < j => s[i] < s[j]
Earlier(s, t) == \A i \in DOMAIN s, j \in DOMAIN t : s[i] < t[j]
Below(s, n) == \A i \in DOMAIN s : s[i] < n

\* The first event that has not been pushed.
Coming == IF main \in {"add", "waiting"} THEN arrived ELSE arrived + 1

EventType ==
    /\ arrived \in Nat
    /\ content \in [Buffers -> Seq(Nat)]
    /\ tasks \in Seq(Seq(Nat))
    /\ batch \in Seq(Nat)
    /\ kafka \in Seq(Nat)

\* Both threads have ended when the destructor goes on.
Ended ==
    /\ main \in {"joinPool", "done"} => flusher = "done"
    /\ main = "done" => worker = "done"

NotEmpty ==
    /\ main # "done" => \A i \in DOMAIN flushing : content[flushing[i]] # <<>>
    /\ flusher = "send" => content[held] # <<>>
    /\ \A i \in DOMAIN tasks : tasks[i] # <<>>
    /\ worker = "run" => batch # <<>>

Bounds ==
    /\ Below(kafka, Coming) /\ Below(batch, Coming)
    /\ \A i \in DOMAIN tasks : Below(tasks[i], Coming)
    /\ \A b \in Buffers : Below(content[b], Coming)

TaskOrder ==
    /\ Inc(kafka) /\ Inc(batch) /\ Earlier(kafka, batch)
    /\ \A i \in DOMAIN tasks :
         Inc(tasks[i]) /\ Earlier(kafka, tasks[i]) /\ Earlier(batch, tasks[i])
    /\ \A i, j \in DOMAIN tasks : i < j => Earlier(tasks[i], tasks[j])
    /\ \A b \in Buffers :
         /\ Inc(content[b]) /\ Earlier(kafka, content[b]) /\ Earlier(batch, content[b])
         /\ \A i \in DOMAIN tasks : Earlier(tasks[i], content[b])

BufferOrder ==
    /\ \A b \in Buffers : In(b, available) => content[b] = <<>>
    /\ flusher = "return" => content[held] = <<>>
    /\ held \in Buffers => \A b \in Buffers \ {held} : Earlier(content[held], content[b])
    /\ \A i, j \in DOMAIN flushing :
         i < j => Earlier(content[flushing[i]], content[flushing[j]])
    /\ current \in Buffers =>
         \A b \in Buffers \ {current} : Earlier(content[b], content[current])

Line ==
    /\ EventType /\ Ended /\ NotEmpty /\ Bounds /\ TaskOrder
    /\ main # "done" => BufferOrder

LEMMA OrderedEmpty ==
    ASSUME NEW s \in Seq(Nat), NEW n \in Nat
    PROVE  Inc(<<>>) /\ Earlier(<<>>, s) /\ Earlier(s, <<>>) /\ Below(<<>>, n)
BY DEF Inc, Earlier, Below

LEMMA OrderedAppend ==
    ASSUME NEW t \in Seq(Nat), NEW x \in Nat, Below(t, x), Inc(t)
    PROVE  /\ Append(t, x) \in Seq(Nat)
           /\ Append(t, x) # <<>>
           /\ Inc(Append(t, x))
           /\ Below(Append(t, x), x + 1)
           /\ \A s \in Seq(Nat) : Earlier(s, t) /\ Below(s, x) => Earlier(s, Append(t, x))
           /\ \A s \in Seq(Nat) : Earlier(t, s) /\ Earlier(<<x>>, s) => Earlier(Append(t, x), s)
<1> DEFINE u == Append(t, x)
<1>1. /\ u \in Seq(Nat)
      /\ Len(t) \in Nat
      /\ DOMAIN t = 1..Len(t)
      /\ DOMAIN u = 1..(Len(t) + 1)
      /\ \A i \in 1..Len(t) : u[i] = t[i] /\ t[i] \in Nat
      /\ u[Len(t) + 1] = x
      /\ u # <<>>
  <2>1. Len(t) \in Nat /\ DOMAIN t = 1..Len(t)
    BY LenProperties
  <2>2. u \in Seq(Nat) /\ Len(u) = Len(t) + 1 /\ u[Len(t) + 1] = x /\ u # <<>>
    BY <2>1, AppendProperties
  <2>3. \A i \in 1..Len(t) : u[i] = t[i]
    BY AppendProperties
  <2>4. \A i \in 1..Len(t) : t[i] \in Nat
    BY ElementOfSeq
  <2> HIDE DEF u
  <2>5. DOMAIN u = 1..(Len(t) + 1)
    BY <2>2, LenProperties
  <2>6. QED
    BY <2>1, <2>2, <2>3, <2>4, <2>5
<1> HIDE DEF u
<1>2. \A i \in DOMAIN u : i \in DOMAIN t \/ i = Len(t) + 1
  BY <1>1
<1>3. Inc(u)
  BY SMTT(30), <1>1, <1>2 DEF Inc, Below
<1>4. Below(u, x + 1)
  BY <1>1, <1>2 DEF Below
<1>5. ASSUME NEW s \in Seq(Nat), Earlier(s, t), Below(s, x) PROVE Earlier(s, u)
  BY <1>1, <1>2, <1>5 DEF Earlier, Below
<1>6. ASSUME NEW s \in Seq(Nat), Earlier(t, s), Earlier(<<x>>, s) PROVE Earlier(u, s)
  <2>1. \A j \in DOMAIN s : x < s[j]
    BY <1>6 DEF Earlier
  <2>2. QED
    BY <1>1, <1>2, <1>6, <2>1 DEF Earlier
<1>7. QED
  BY <1>1, <1>3, <1>4, <1>5, <1>6 DEF u

LEMMA OrderedTail ==
    ASSUME NEW t \in Seq(Nat), t # <<>>, Inc(t)
    PROVE  /\ Tail(t) \in Seq(Nat) /\ Head(t) \in Nat
           /\ Inc(Tail(t))
           /\ Earlier(<<Head(t)>>, Tail(t))
           /\ \A n \in Nat : Below(t, n) => Below(Tail(t), n) /\ Head(t) < n
           /\ \A s \in Seq(Nat) : Earlier(s, t) => Earlier(s, Tail(t)) /\ Below(s, Head(t))
           /\ \A s \in Seq(Nat) : Earlier(t, s) => Earlier(Tail(t), s) /\ Earlier(<<Head(t)>>, s)
<1> DEFINE u == Tail(t)
<1>1. /\ u \in Seq(Nat)
      /\ Len(t) \in Nat \ {0}
      /\ Head(t) = t[1]
      /\ DOMAIN t = 1..Len(t)
      /\ DOMAIN u = 1..(Len(t) - 1)
      /\ \A i \in DOMAIN u : u[i] = t[i + 1] /\ i + 1 \in DOMAIN t
      /\ \A i \in DOMAIN t : t[i] \in Nat
      /\ 1 \in DOMAIN t
  BY HeadTailProperties, LenProperties, EmptySeq, ElementOfSeq
<1> HIDE DEF u
<1>2. Inc(u)
  BY <1>1 DEF Inc
<1>3. \A i \in DOMAIN u : t[1] < u[i]
  <2> SUFFICES ASSUME NEW i \in DOMAIN u PROVE t[1] < u[i]
    OBVIOUS
  <2>1. i + 1 \in DOMAIN t /\ 1 \in DOMAIN t /\ 1 < i + 1 /\ u[i] = t[i + 1]
    BY <1>1
  <2>2. QED
    BY <2>1 DEF Inc
<1>4. Earlier(<<t[1]>>, u)
  BY <1>3 DEF Earlier
<1>5. ASSUME NEW n \in Nat, Below(t, n) PROVE Below(u, n) /\ t[1] < n
  BY <1>1, <1>5 DEF Below
<1>6. ASSUME NEW s \in Seq(Nat), Earlier(s, t) PROVE Earlier(s, u) /\ Below(s, t[1])
  BY <1>1, <1>6 DEF Earlier, Below
<1>7. ASSUME NEW s \in Seq(Nat), Earlier(t, s) PROVE Earlier(u, s) /\ Earlier(<<t[1]>>, s)
  <2>1. Earlier(u, s) /\ \A j \in DOMAIN s : t[1] < s[j]
    BY <1>1, <1>7 DEF Earlier
  <2>2. QED
    BY <2>1 DEF Earlier
<1>8. QED
  BY <1>1, <1>2, <1>4, <1>5, <1>6, <1>7 DEF u

LEMMA LineTypes ==
    ASSUME EventType
    PROVE  /\ \A b \in Buffers : content[b] \in Seq(Nat)
           /\ \A i \in DOMAIN tasks : tasks[i] \in Seq(Nat)
           /\ Coming \in Nat
           /\ DOMAIN tasks = 1..Len(tasks) /\ Len(tasks) \in Nat
BY ElementOfSeq, LenProperties DEF EventType, Coming

LEMMA LineInit == Init => Line
<1> SUFFICES ASSUME Init PROVE Line
  OBVIOUS
<1>1. /\ arrived = 0 /\ flushing = <<>> /\ current = 1 /\ held = NoBuffer
      /\ tasks = <<>> /\ batch = <<>> /\ kafka = <<>>
      /\ main = "poll" /\ flusher = "top" /\ worker = "top"
      /\ content \in [Buffers -> Seq(Nat)] /\ \A b \in Buffers : content[b] = <<>>
  BY DEF Init
<1>2. Coming \in Nat
  BY <1>1 DEF Coming
<1>3. EventType
  BY <1>1 DEF EventType
<1>4. Ended /\ NotEmpty
  BY <1>1 DEF Ended, NotEmpty
<1>5. Bounds /\ TaskOrder
  <2>1. /\ Inc(<<>>) /\ Earlier(<<>>, <<>>) /\ Below(<<>>, Coming)
        /\ DOMAIN <<>> = {}
    BY DEF Inc, Earlier, Below
  <2>2. Bounds
    BY <1>1, <2>1 DEF Bounds
  <2>3. TaskOrder
    BY <1>1, <2>1 DEF TaskOrder
  <2>4. QED
    BY <2>2, <2>3
<1>6. BufferOrder
  BY <1>1, NoBufferIsNone, OrderedEmpty DEF BufferOrder
<1>7. QED
  BY <1>3, <1>4, <1>5, <1>6 DEF Line

\* The event that is pushed is later than all the others, and the buffer it is pushed
\* into is the last of the line.
LEMMA PushKeepsLine == ASSUME Pool, Line, Push PROVE Line'
<1> DEFINE b == IF current = NoBuffer THEN Head(available) ELSE current
           filled == Append(content[b], arrived)
           full == Len(filled) >= BufferSize
<1>1. /\ main \in {"add", "waiting"} /\ main' = "poll"
      /\ current # NoBuffer \/ available # <<>>
      /\ content' = [content EXCEPT ![b] = filled]
      /\ available' = IF current = NoBuffer THEN Tail(available) ELSE available
      /\ flushing' = IF full THEN Append(flushing, b) ELSE flushing
      /\ current' = IF full THEN NoBuffer ELSE b
      /\ UNCHANGED <<arrived, held, tasks, batch, kafka, flusher, worker>>
  BY DEF Push, pool
<1>2. PoolType /\ HeldInv /\ Places
  BY DEF Pool
<1>3. /\ EventType /\ Ended /\ NotEmpty /\ Bounds /\ TaskOrder /\ BufferOrder
      /\ Coming = arrived /\ Coming' = arrived + 1 /\ arrived \in Nat
  BY <1>1 DEF Line, Coming, EventType
<1>4. \A y \in Buffers : In(y, available') => In(y, available) /\ y # b
  BY <1>1, <1>2, OnTail, NoBufferIsNone DEF PoolType, Places
<1>5. b \in Buffers /\ b # held /\ ~In(b, flushing)
  BY <1>1, <1>2, OnTail DEF PoolType, Places
<1>6. \A c \in Buffers \ {b} : Earlier(content[c], content[b])
  <2>1. CASE current = NoBuffer
    <3>1. content[b] = <<>>
      BY <1>1, <1>2, <1>3, <1>5, <2>1, OnTail DEF PoolType, BufferOrder
    <3>2. QED
      BY <1>3, <3>1, LineTypes, OrderedEmpty
  <2>2. CASE current # NoBuffer
    BY <1>3, <1>5, <2>2 DEF BufferOrder
  <2>3. QED
    BY <2>1, <2>2
<1>7. /\ filled \in Seq(Nat) /\ filled # <<>> /\ Inc(filled) /\ Below(filled, arrived + 1)
      /\ \A q \in Seq(Nat) : Earlier(q, content[b]) /\ Below(q, arrived) => Earlier(q, filled)
  BY <1>3, <1>5, LineTypes, OrderedAppend DEF Bounds, TaskOrder
<1> HIDE DEF full, filled
<1>8. /\ content'[b] = filled /\ content' \in [Buffers -> Seq(Nat)]
      /\ \A c \in Buffers \ {b} : content'[c] = content[c]
      /\ \A c \in Buffers : content[c] \in Seq(Nat)
  BY <1>1, <1>3, <1>5, <1>7, LineTypes DEF EventType
<1>9. \A q \in Seq(Nat) : Below(q, arrived) => Below(q, arrived + 1)
  BY <1>3, ElementOfSeq, LenProperties DEF Below
<1>10. /\ \A i \in DOMAIN flushing' :
             (i \in DOMAIN flushing /\ flushing'[i] = flushing[i])
                \/ (full /\ flushing'[i] = b /\ \A j \in DOMAIN flushing' : j <= i)
       /\ flushing \in Seq(Buffers) /\ flushing' \in Seq(Buffers)
       /\ \A i \in DOMAIN flushing : flushing[i] # b /\ flushing[i] \in Buffers
       /\ DOMAIN flushing' \subseteq Nat
  BY <1>1, <1>2, <1>5, AppendProperties, ElementOfSeq, LenProperties DEF PoolType, In
<1> HIDE DEF b
<1>11. EventType' /\ Ended'
  BY <1>1, <1>3, <1>8 DEF EventType, Ended
<1>12. NotEmpty'
  <2>1. \A i \in DOMAIN flushing' : content'[flushing'[i]] # <<>>
    BY <1>1, <1>3, <1>7, <1>8, <1>10 DEF NotEmpty
  <2>2. flusher = "send" => content'[held] # <<>>
    BY <1>2, <1>3, <1>5, <1>8 DEF NotEmpty, HeldInv
  <2>3. QED
    BY <1>1, <1>3, <2>1, <2>2 DEF NotEmpty
<1>13. Bounds'
  BY <1>1, <1>3, <1>7, <1>8, <1>9, LineTypes DEF Bounds, EventType
<1>14. TaskOrder'
  <2>1. /\ Earlier(kafka, filled) /\ Earlier(batch, filled)
        /\ \A i \in DOMAIN tasks : Earlier(tasks[i], filled)
    BY <1>3, <1>5, <1>7, LineTypes DEF Bounds, TaskOrder, EventType
  <2>2. QED
    BY <1>1, <1>3, <1>7, <1>8, <2>1 DEF TaskOrder
<1>15. BufferOrder'
  <2>1. \A c \in Buffers \ {b} : Earlier(content[c], filled)
    BY <1>3, <1>6, <1>7, <1>8 DEF Bounds
  <2>2. \A c \in Buffers : In(c, available') => content'[c] = <<>>
    BY <1>3, <1>4, <1>8 DEF BufferOrder
  <2>3. flusher = "return" => content'[held] = <<>>
    BY <1>2, <1>3, <1>5, <1>8 DEF BufferOrder, HeldInv
  <2>4. held \in Buffers => \A c \in Buffers \ {held} : Earlier(content'[held], content'[c])
    BY <1>3, <1>5, <1>8, <2>1 DEF BufferOrder
  <2>5. ASSUME NEW i \in DOMAIN flushing', NEW j \in DOMAIN flushing', i < j
        PROVE  Earlier(content'[flushing'[i]], content'[flushing'[j]])
    <3>1. i \in DOMAIN flushing /\ flushing'[i] = flushing[i]
      BY <1>10, <2>5
    <3>2. content'[flushing'[i]] = content[flushing[i]] /\ flushing[i] \in Buffers \ {b}
      BY <1>8, <1>10, <3>1
    <3>3. CASE flushing'[j] = b
      BY <1>8, <2>1, <3>2, <3>3
    <3>4. CASE j \in DOMAIN flushing /\ flushing'[j] = flushing[j]
      BY <1>3, <1>8, <1>10, <2>5, <3>1, <3>2, <3>4 DEF BufferOrder
    <3>5. QED
      BY <1>10, <2>5, <3>3, <3>4
  <2>6. current' \in Buffers => \A c \in Buffers \ {current'} : Earlier(content'[c], content'[current'])
    BY <1>1, <1>8, <2>1, NoBufferIsNone
  <2>7. QED
    BY <1>1, <2>2, <2>3, <2>4, <2>5, <2>6 DEF BufferOrder
<1>16. QED
  BY <1>11, <1>12, <1>13, <1>14, <1>15 DEF Line

\* The first queued buffer becomes the one in hand.
LEMMA TakeKeepsLine == ASSUME Pool, Line, Take, main # "done" PROVE Line'
<1> DEFINE b == Head(flushing)
<1>1. /\ flushing # <<>> /\ flushing' = Tail(flushing) /\ held' = b
      /\ flusher \in {"wait", "relock"} /\ flusher' = "send"
      /\ UNCHANGED <<arrived, content, available, current, tasks, batch, kafka, main, worker>>
  BY DEF Take, pool
<1>2. PoolType /\ HeldInv /\ Places
  BY DEF Pool
<1>3. EventType /\ Ended /\ NotEmpty /\ Bounds /\ TaskOrder /\ BufferOrder
  BY <1>1 DEF Line
<1>4. /\ b = flushing[1] /\ 1 \in DOMAIN flushing /\ b \in Buffers
      /\ \A i \in DOMAIN flushing' :
           /\ i + 1 \in DOMAIN flushing /\ flushing'[i] = flushing[i + 1] /\ 1 < i + 1
           /\ \A j \in DOMAIN flushing' : i < j => i + 1 < j + 1
  BY <1>1, <1>2, HeadTailProperties, LenProperties, ElementOfSeq, EmptySeq DEF PoolType
<1>5. /\ \A y : In(y, flushing) <=> In(y, flushing') \/ y = b
  BY <1>1, <1>2, OnTail DEF PoolType
<1> HIDE DEF b
<1>6. EventType' /\ Ended'
  BY <1>1, <1>3 DEF EventType, Ended
<1>7. NotEmpty'
  BY <1>1, <1>3, <1>4 DEF NotEmpty
<1>8. Coming' = Coming
  BY <1>1 DEF Coming
<1>9. Bounds' /\ TaskOrder'
  BY <1>1, <1>3, <1>8 DEF Bounds, TaskOrder
<1>10. BufferOrder'
  <2>1. ASSUME NEW c \in Buffers, c # b PROVE Earlier(content[b], content[c])
    <3>1. CASE In(c, flushing')
      <4>1. PICK i \in DOMAIN flushing' : flushing'[i] = c
        BY <3>1 DEF In
      <4>2. QED
        BY <1>3, <1>4, <4>1 DEF BufferOrder
    <3>2. CASE c = current
      BY <1>3, <1>4, <2>1, <3>2 DEF BufferOrder
    <3>3. CASE In(c, available)
      BY <1>3, <1>4, <3>3, LineTypes, OrderedEmpty DEF BufferOrder
    <3>4. c # held
      BY <1>1, <1>2, <2>1 DEF HeldInv
    <3>5. QED
      BY <1>2, <1>5, <2>1, <3>1, <3>2, <3>3, <3>4 DEF Places
  <2>2. \A i, j \in DOMAIN flushing' :
          i < j => Earlier(content[flushing'[i]], content[flushing'[j]])
    BY <1>3, <1>4 DEF BufferOrder
  <2>3. QED
    BY <1>1, <1>3, <2>1, <2>2 DEF BufferOrder
<1>11. QED
  BY <1>6, <1>7, <1>9, <1>10 DEF Line

\* The events of the buffer in hand, earlier than those of the other buffers, become
\* the last task.
LEMMA SendKeepsLine == ASSUME Pool, Line, Send, main # "done" PROVE Line'
<1> DEFINE n == Len(tasks) + 1
<1>1. /\ flusher = "send" /\ flusher' = "return"
      /\ tasks' = Append(tasks, content[held])
      /\ content' = [content EXCEPT ![held] = <<>>]
      /\ worker' = IF worker = "asleep" THEN "check" ELSE worker
      /\ UNCHANGED <<arrived, available, flushing, current, held, batch, kafka, main>>
  BY DEF Send
<1>2. PoolType /\ HeldInv /\ Places
  BY DEF Pool
<1>3. EventType /\ Ended /\ NotEmpty /\ Bounds /\ TaskOrder /\ BufferOrder
  BY DEF Line
<1>4. held \in Buffers
  BY <1>1, <1>2 DEF HeldInv
<1>5. /\ content[held] \in Seq(Nat) /\ content[held] # <<>>
      /\ content' \in [Buffers -> Seq(Nat)]
      /\ content'[held] = <<>> /\ <<>> \in Seq(Nat)
      /\ \A c \in Buffers \ {held} : content'[c] = content[c]
      /\ \A c \in Buffers : content[c] \in Seq(Nat)
  BY <1>1, <1>3, <1>4, LineTypes DEF EventType, NotEmpty
<1>6. /\ tasks' \in Seq(Seq(Nat)) /\ tasks'[n] = content[held]
      /\ DOMAIN tasks' = DOMAIN tasks \cup {n}
      /\ \A i \in DOMAIN tasks : tasks'[i] = tasks[i] /\ i < n /\ tasks[i] \in Seq(Nat)
      /\ n \notin DOMAIN tasks /\ n \in Nat /\ DOMAIN tasks \subseteq Nat
  BY SMTT(30), <1>1, <1>3, <1>5, AppendProperties, LenProperties, ElementOfSeq DEF EventType
<1> HIDE DEF n
<1>7. EventType' /\ Ended'
  BY <1>1, <1>3, <1>5, <1>6 DEF EventType, Ended
<1>8. NotEmpty'
  <2>1. ASSUME NEW i \in DOMAIN flushing PROVE content'[flushing[i]] # <<>>
    <3>1. flushing[i] \in Buffers /\ flushing[i] # held
      BY <1>2, <1>4, ElementOfSeq, LenProperties DEF PoolType, Places, In
    <3>2. QED
      BY <1>1, <1>3, <1>5, <3>1 DEF NotEmpty
  <2>2. QED
    BY <1>1, <1>3, <1>5, <1>6, <2>1 DEF NotEmpty
<1>9. Coming' = Coming /\ Coming \in Nat
  BY <1>1, <1>3 DEF Coming, EventType
<1>10. Bounds'
  BY <1>1, <1>3, <1>4, <1>5, <1>6, <1>9, OrderedEmpty DEF Bounds
<1>11. TaskOrder'
  <2>1. ASSUME NEW c \in Buffers PROVE Earlier(content[held], content'[c])
    <3>1. CASE c = held
      BY <1>5, <3>1, OrderedEmpty
    <3>2. CASE c # held
      BY <1>3, <1>4, <1>5, <3>2 DEF BufferOrder
    <3>3. QED
      BY <3>1, <3>2
  <2>2. \A c \in Buffers : \A q \in Seq(Nat) :
          Earlier(q, content[c]) => Earlier(q, content'[c])
    BY <1>5, OrderedEmpty
  <2>3. \A c \in Buffers : Inc(content'[c])
    BY <1>3, <1>5, OrderedEmpty DEF TaskOrder
  <2>4. /\ Inc(tasks'[n]) /\ Earlier(kafka, tasks'[n]) /\ Earlier(batch, tasks'[n])
        /\ \A i \in DOMAIN tasks : Earlier(tasks[i], tasks'[n])
    BY <1>3, <1>4, <1>6 DEF TaskOrder
  <2>5. \A i \in DOMAIN tasks' :
          Inc(tasks'[i]) /\ Earlier(kafka, tasks'[i]) /\ Earlier(batch, tasks'[i])
    BY <1>3, <1>6, <2>4 DEF TaskOrder
  <2>6. \A i, j \in DOMAIN tasks' : i < j => Earlier(tasks'[i], tasks'[j])
    BY <1>3, <1>6, <2>4 DEF TaskOrder
  <2>7. \A c \in Buffers :
          /\ Earlier(kafka, content'[c]) /\ Earlier(batch, content'[c])
          /\ \A i \in DOMAIN tasks' : Earlier(tasks'[i], content'[c])
    BY <1>3, <1>6, <2>1, <2>2 DEF TaskOrder, EventType
  <2>8. QED
    BY <1>1, <1>3, <2>3, <2>5, <2>6, <2>7 DEF TaskOrder
<1>12. BufferOrder'
  <2>1. ASSUME NEW c \in Buffers, NEW d \in Buffers, Earlier(content[c], content[d])
        PROVE  Earlier(content'[c], content'[d])
    BY <1>5, <2>1, OrderedEmpty
  <2>2. \A i \in DOMAIN flushing : flushing[i] \in Buffers
    BY <1>2, ElementOfSeq, LenProperties DEF PoolType
  <2>3. QED
    BY <1>1, <1>3, <1>5, <2>1, <2>2 DEF BufferOrder
<1>13. QED
  BY <1>7, <1>8, <1>10, <1>11, <1>12 DEF Line

\* A buffer is free again when it is empty.
LEMMA ReturnKeepsLine == ASSUME Pool, Line, Return, main # "done" PROVE Line'
<1>1. /\ flusher = "return" /\ flusher' = "relock"
      /\ available' = Append(available, held) /\ held' = NoBuffer
      /\ UNCHANGED <<arrived, content, flushing, current, tasks, batch, kafka, main, worker>>
  BY DEF Return, pool
<1>2. PoolType /\ HeldInv /\ Places
  BY DEF Pool
<1>3. EventType /\ Ended /\ NotEmpty /\ Bounds /\ TaskOrder /\ BufferOrder
  BY DEF Line
<1>4. \A y : In(y, available') <=> In(y, available) \/ y = held
  BY <1>1, <1>2, OnAppend DEF PoolType, HeldInv
<1>5. EventType' /\ Ended' /\ NotEmpty'
  BY <1>1, <1>3 DEF EventType, Ended, NotEmpty
<1>6. Coming' = Coming
  BY <1>1 DEF Coming
<1>7. Bounds' /\ TaskOrder'
  BY <1>1, <1>3, <1>6 DEF Bounds, TaskOrder
<1>8. BufferOrder'
  BY <1>1, <1>3, <1>4, NoBufferIsNone DEF BufferOrder
<1>9. QED
  BY <1>5, <1>7, <1>8 DEF Line

\* An old buffer is queued alone, and an empty one follows it.
LEMMA AgeKeepsLine == ASSUME Pool, Line, Age, main # "done" PROVE Line'
<1>1. /\ flushing = <<>> /\ flushing' = <<current>>
      /\ current # NoBuffer /\ content[current] # <<>>
      /\ current' = IF available = <<>> THEN NoBuffer ELSE Head(available)
      /\ available' = IF available = <<>> THEN <<>> ELSE Tail(available)
      /\ flusher \in {"wait", "relock"} /\ flusher' = "top"
      /\ UNCHANGED <<arrived, content, held, tasks, batch, kafka, main, worker>>
  BY DEF Age, pool
<1>2. PoolType /\ HeldInv /\ Places
  BY DEF Pool
<1>3. EventType /\ Ended /\ NotEmpty /\ Bounds /\ TaskOrder /\ BufferOrder
  BY DEF Line
<1>4. /\ \A y : In(y, available') => In(y, available)
      /\ current' \in Buffers => In(current', available)
  BY <1>1, <1>2, OnTail, OnEmpty, NoBufferIsNone DEF PoolType
<1>5. DOMAIN flushing' = {1} /\ flushing'[1] = current
  BY <1>1
<1>6. EventType' /\ Ended'
  BY <1>1, <1>3 DEF EventType, Ended
<1>7. NotEmpty'
  BY <1>1, <1>3, <1>5 DEF NotEmpty
<1>8. Coming' = Coming
  BY <1>1 DEF Coming
<1>9. Bounds' /\ TaskOrder'
  BY <1>1, <1>3, <1>8 DEF Bounds, TaskOrder
<1>10. BufferOrder'
  <2>1. ASSUME current' \in Buffers, NEW c \in Buffers
        PROVE  Earlier(content[c], content[current'])
    <3>1. content[current'] = <<>>
      BY <1>3, <1>4, <2>1 DEF BufferOrder
    <3>2. content[c] \in Seq(Nat)
      BY <1>3, LineTypes
    <3>3. QED
      BY <3>1, <3>2, OrderedEmpty
  <2>2. \A i, j \in DOMAIN flushing' : ~(i < j)
    BY <1>5
  <2>3. \A b \in Buffers : In(b, available') => content[b] = <<>>
    BY <1>3, <1>4 DEF BufferOrder
  <2>4. held \in Buffers => \A b \in Buffers \ {held} : Earlier(content[held], content[b])
    BY <1>3 DEF BufferOrder
  <2>5. QED
    BY <1>1, <2>1, <2>2, <2>3, <2>4 DEF BufferOrder
<1>11. QED
  BY <1>6, <1>7, <1>9, <1>10 DEF Line

\* The first task becomes the one that runs.
LEMMA WakeKeepsLine == ASSUME Line, Wake, main # "done" PROVE Line'
<1>1. /\ worker = "check"
      /\ UNCHANGED <<arrived, buffers, kafka, main, flusher>>
  BY DEF Wake
<1>2. EventType /\ Ended /\ NotEmpty /\ Bounds /\ TaskOrder /\ BufferOrder
  BY DEF Line
<1>3. BufferOrder' /\ Coming' = Coming
  BY <1>1, <1>2 DEF BufferOrder, Coming, buffers, In
<1>4. CASE tasks # <<>> /\ batch' = Head(tasks) /\ tasks' = Tail(tasks) /\ worker' = "run"
  <2>1. /\ batch' = tasks[1] /\ 1 \in DOMAIN tasks /\ batch' \in Seq(Nat)
        /\ tasks' \in Seq(Seq(Nat))
        /\ \A i \in DOMAIN tasks' :
             /\ i + 1 \in DOMAIN tasks /\ tasks'[i] = tasks[i + 1] /\ 1 < i + 1
             /\ \A j \in DOMAIN tasks' : i < j => i + 1 < j + 1
    BY <1>2, <1>4, HeadTailProperties, LenProperties, ElementOfSeq, EmptySeq DEF EventType
  <2>2. EventType' /\ Ended'
    BY <1>1, <1>2, <2>1 DEF EventType, Ended, buffers
  <2>3. NotEmpty'
    BY <1>1, <1>2, <1>4, <2>1 DEF NotEmpty, buffers
  <2>4. Bounds'
    BY <1>1, <1>2, <1>3, <2>1 DEF Bounds, buffers
  <2>5. TaskOrder'
    BY <1>1, <1>2, <2>1 DEF TaskOrder, buffers
  <2>6. QED
    BY <1>3, <2>2, <2>3, <2>4, <2>5 DEF Line
<1>5. CASE worker' = "done" /\ UNCHANGED <<tasks, batch>>
  <2>1. EventType' /\ Ended' /\ NotEmpty'
    BY <1>1, <1>2, <1>5 DEF EventType, Ended, NotEmpty, buffers
  <2>2. Bounds' /\ TaskOrder'
    BY <1>1, <1>2, <1>3, <1>5 DEF Bounds, TaskOrder, buffers
  <2>3. QED
    BY <1>3, <2>1, <2>2 DEF Line
<1>6. QED
  BY <1>4, <1>5 DEF Wake

\* Its first event goes to Kafka, or is refused.
LEMMA ProduceKeepsLine == ASSUME Line, Produce, main # "done" PROVE Line'
<1>1. /\ worker = "run"
      /\ kafka' = Append(kafka, Head(batch)) \/ kafka' = kafka
      /\ batch' = Tail(batch)
      /\ worker' = IF Len(batch) > 1 THEN "run" ELSE "top"
      /\ UNCHANGED <<arrived, buffers, tasks, main, flusher>>
  BY DEF Produce
<1>2. EventType /\ Ended /\ NotEmpty /\ Bounds /\ TaskOrder /\ BufferOrder
  BY DEF Line
<1>3. /\ Coming' = Coming /\ Coming \in Nat
      /\ content' = content /\ BufferOrder'
  BY <1>1, <1>2 DEF BufferOrder, Coming, buffers, EventType, In
<1>4. /\ batch # <<>> /\ batch \in Seq(Nat) /\ kafka \in Seq(Nat)
      /\ Inc(batch) /\ Inc(kafka) /\ Earlier(kafka, batch)
      /\ \A c \in Buffers : content[c] \in Seq(Nat)
      /\ \A i \in DOMAIN tasks : tasks[i] \in Seq(Nat)
  BY <1>1, <1>2, LineTypes DEF NotEmpty, TaskOrder, EventType
<1>5. /\ Tail(batch) \in Seq(Nat) /\ Head(batch) \in Nat /\ Inc(Tail(batch))
      /\ Earlier(<<Head(batch)>>, Tail(batch))
      /\ \A n \in Nat : Below(batch, n) => Below(Tail(batch), n) /\ Head(batch) < n
      /\ Earlier(kafka, Tail(batch)) /\ Below(kafka, Head(batch))
      /\ \A s \in Seq(Nat) : Earlier(batch, s)
            => Earlier(Tail(batch), s) /\ Earlier(<<Head(batch)>>, s)
  BY <1>4, OrderedTail
<1>6. /\ kafka' \in Seq(Nat) /\ Inc(kafka')
      /\ \A s \in Seq(Nat) : Earlier(kafka, s) /\ Earlier(<<Head(batch)>>, s) => Earlier(kafka', s)
      /\ Below(kafka', Coming)
  <2>1. Head(batch) < Coming /\ Below(kafka, Coming)
    BY <1>2, <1>3, <1>5 DEF Bounds
  <2>2. CASE kafka' = Append(kafka, Head(batch))
    <3>1. /\ kafka' \in Seq(Nat) /\ Inc(kafka') /\ Below(kafka', Head(batch) + 1)
          /\ \A s \in Seq(Nat) :
               Earlier(kafka, s) /\ Earlier(<<Head(batch)>>, s) => Earlier(kafka', s)
      BY <1>4, <1>5, <2>2, OrderedAppend
    <3>2. \A i \in DOMAIN kafka' : kafka'[i] \in Nat
      BY <3>1, ElementOfSeq, LenProperties
    <3>3. Below(kafka', Coming)
      BY <1>3, <1>5, <2>1, <3>1, <3>2 DEF Below
    <3>4. QED
      BY <3>1, <3>3
  <2>3. CASE kafka' = kafka
    BY <1>4, <2>1, <2>3
  <2>4. QED
    BY <1>1, <2>2, <2>3
<1>7. EventType' /\ Ended'
  BY <1>1, <1>2, <1>3, <1>5, <1>6 DEF EventType, Ended
<1>8. NotEmpty'
  <2>1. Len(batch) > 1 => Tail(batch) # <<>>
    <3>1. Len(Tail(batch)) = Len(batch) - 1 /\ Len(batch) \in Nat
      BY <1>4, HeadTailProperties, LenProperties
    <3>2. Len(<<>>) = 0
      BY EmptySeq
    <3>3. ASSUME NEW q, NEW n \in Nat, n > 1, Len(q) = n - 1 PROVE q # <<>>
      <4>1. Len(q) # 0
        BY <3>3
      <4>2. QED
        BY <3>2, <4>1, Zenon
    <3>4. QED
      BY <3>1, <3>3
  <2>2. QED
    BY <1>1, <1>2, <1>3, <2>1 DEF NotEmpty, buffers
<1>9. Bounds'
  BY <1>1, <1>2, <1>3, <1>5, <1>6 DEF Bounds
<1>10. TaskOrder'
  BY <1>1, <1>2, <1>3, <1>4, <1>5, <1>6 DEF TaskOrder
<1>11. QED
  BY <1>3, <1>7, <1>8, <1>9, <1>10 DEF Line

\* The destructor drops what is left.
LEMMA DiscardKeepsLine == ASSUME Line, Discard PROVE Line'
<1>1. /\ main = "joinPool" /\ worker = "done" /\ main' = "done"
      /\ content' = [b \in Buffers |-> <<>>] /\ tasks' = <<>>
      /\ UNCHANGED <<arrived, held, batch, kafka, flusher, worker>>
  BY DEF Discard
<1>2. EventType /\ Ended /\ NotEmpty /\ Bounds /\ TaskOrder
  BY DEF Line
<1>3. EventType' /\ Ended' /\ NotEmpty'
  BY <1>1, <1>2 DEF EventType, Ended, NotEmpty
<1>4. Coming' = Coming /\ Coming \in Nat
  BY <1>1, <1>2 DEF Coming, EventType
<1>5. /\ Below(<<>>, Coming) /\ Inc(<<>>)
      /\ Earlier(kafka, <<>>) /\ Earlier(batch, <<>>)
      /\ \A b \in Buffers : content'[b] = <<>>
      /\ DOMAIN tasks' = {}
  BY <1>1, <1>2, <1>4, OrderedEmpty DEF EventType
<1>6. Bounds' /\ TaskOrder'
  BY <1>1, <1>2, <1>4, <1>5 DEF Bounds, TaskOrder
<1>7. QED
  BY <1>1, <1>3, <1>6 DEF Line

\* The other steps move no event.  A new one comes after all that have come.
LEMMA OthersKeepLine ==
    ASSUME Line,
           \/ Call \/ Shutdown \/ Wait \/ StopPool \/ NextTask \/ FallAsleep
           \/ Loop \/ Quit \/ Keep
           \/ UNCHANGED vars
    PROVE  Line'
<1>1. /\ UNCHANGED <<buffers, pool>>
      /\ \/ Call
         \/ arrived' = arrived /\ (main' \in {"add", "waiting"} <=> main \in {"add", "waiting"})
  BY DEF Call, Shutdown, Wait, StopPool, NextTask, FallAsleep, Loop, Quit, Keep, vars
<1>2. EventType /\ Ended /\ NotEmpty /\ Bounds /\ TaskOrder
  BY DEF Line
<1>3. arrived \in Nat /\ arrived' \in Nat /\ Coming' = Coming
  BY <1>1, <1>2 DEF Call, Coming, EventType
<1>4. main' = "done" <=> main = "done"
  BY DEF Call, Shutdown, Wait, StopPool, NextTask, FallAsleep, Loop, Quit, Keep, vars
<1>5. EventType'
  BY <1>1, <1>2, <1>3 DEF EventType, buffers, pool
<1>6. Ended'
  BY <1>2 DEF Ended, Call, Shutdown, Wait, StopPool, NextTask, FallAsleep, Loop, Quit,
              Keep, vars, flags
<1>7. NotEmpty'
  <2>1. flusher' = "send" => flusher = "send"
    BY DEF Call, Shutdown, Wait, StopPool, NextTask, FallAsleep, Loop, Quit, Keep, vars
  <2>2. worker' = "run" => worker = "run"
    BY DEF Call, Shutdown, Wait, StopPool, NextTask, FallAsleep, Loop, Quit, Keep, vars
  <2>3. QED
    BY <1>1, <1>2, <1>4, <2>1, <2>2 DEF NotEmpty, buffers, pool
<1>8. Bounds' /\ TaskOrder'
  BY <1>1, <1>2, <1>3 DEF Bounds, TaskOrder, buffers, pool
<1>9. ASSUME main' # "done" PROVE BufferOrder'
  <2>1. flusher' = "return" => flusher = "return"
    BY DEF Call, Shutdown, Wait, StopPool, NextTask, FallAsleep, Loop, Quit, Keep, vars
  <2>2. BufferOrder
    BY <1>4, <1>9 DEF Line
  <2>3. QED
    BY <1>1, <2>1, <2>2 DEF BufferOrder, buffers, In
<1>10. QED
  BY <1>5, <1>6, <1>7, <1>8, <1>9 DEF Line

LEMMA StepKeepsLine == Inv /\ Line /\ [Next]_vars => Line'
<1> SUFFICES ASSUME Inv, Line, [Next]_vars PROVE Line'
  OBVIOUS
<1>1. CASE main = "done"
  <2>1. flusher = "done" /\ worker = "done"
    BY <1>1 DEF Line, Ended
  <2>2. UNCHANGED vars
    BY <1>1, <2>1 DEF Next, Main, Flusher, Worker, Call, Shutdown, Wait, Push, StopPool,
           Discard, Loop, Take, Quit, Keep, Send, Return, Age, NextTask, Wake,
           FallAsleep, Produce
  <2>3. QED
    BY <2>2, OthersKeepLine
<1>2. CASE main # "done"
  <2>1. Pool
    BY <1>2 DEF Inv
  <2>2. CASE Push
    BY <2>1, <2>2, PushKeepsLine
  <2>3. CASE Take
    BY <1>2, <2>1, <2>3, TakeKeepsLine
  <2>4. CASE Send
    BY <1>2, <2>1, <2>4, SendKeepsLine
  <2>5. CASE Return
    BY <1>2, <2>1, <2>5, ReturnKeepsLine
  <2>6. CASE Age
    BY <1>2, <2>1, <2>6, AgeKeepsLine
  <2>7. CASE Wake
    BY <1>2, <2>7, WakeKeepsLine
  <2>8. CASE Produce
    BY <1>2, <2>8, ProduceKeepsLine
  <2>9. CASE Discard
    BY <2>9, DiscardKeepsLine
  <2>10. CASE \/ Call \/ Shutdown \/ Wait \/ StopPool \/ NextTask \/ FallAsleep
              \/ Loop \/ Quit \/ Keep
              \/ UNCHANGED vars
    BY <2>10, OthersKeepLine
  <2>11. QED
    BY <2>2, <2>3, <2>4, <2>5, <2>6, <2>7, <2>8, <2>9, <2>10
    DEF Next, Main, Flusher, Worker
<1>3. QED
  BY <1>1, <1>2

DeliveredInOrder == \A i, j \in DOMAIN kafka : i < j => kafka[i] < kafka[j]

\* Kafka gets the events in the order of the calls of addEvent and each at most once,
\* for any number of buffers of any size and however flushes by size, by age and by the
\* task queue overlap.
THEOREM KafkaKeepsOrder == Spec => []DeliveredInOrder
<1>1. Init => Inv /\ Line
  BY PoolInit, LineInit DEF Inv
<1>2. Inv /\ Line => DeliveredInOrder
  BY DEF Line, TaskOrder, Inc, DeliveredInOrder
<1>3. QED
  BY <1>1, <1>2, StepKeepsInv, StepKeepsLine, PTL DEF Spec

-----------------------------------------------------------------------------
(* The logger implements the event log.                                    *)

\* Between two tasks the pool thread has nothing left to produce.
Idle == worker # "run" => batch = <<>>

LEMMA IdleKept == Line /\ Idle /\ [Next]_vars => Idle'
<1> SUFFICES ASSUME Line, Idle, [Next]_vars PROVE Idle'
  OBVIOUS
<1>1. CASE Produce
  <2>1. batch \in Seq(Nat) /\ batch # <<>>
    BY <1>1 DEF Produce, Line, EventType, NotEmpty
  <2>2. Tail(batch) \in Seq(Nat) /\ Len(Tail(batch)) = Len(batch) - 1 /\ Len(batch) \in Nat \ {0}
    BY <2>1, HeadTailProperties, LenProperties, EmptySeq
  <2>3. ~(Len(batch) > 1) => Tail(batch) = <<>>
    <3>1. ~(Len(batch) > 1) => Len(Tail(batch)) = 0
      BY <2>2
    <3>2. QED
      BY <2>2, <3>1, EmptySeq
  <2>4. QED
    BY <1>1, <2>3 DEF Produce, Idle
<1>2. CASE Wake
  BY <1>2 DEF Wake, Idle
<1>3. CASE ~Produce /\ ~Wake
  <2>1. batch' = batch /\ (worker' = "run" <=> worker = "run")
    BY <1>3 DEF Next, Main, Flusher, Worker, Call, Shutdown, Wait, Push, StopPool, Discard,
       Loop, Take, Quit, Keep, Send, Return, Age, NextTask, FallAsleep, pool, vars
  <2>2. QED
    BY <2>1 DEF Idle
<1>4. QED
  BY <1>1, <1>2, <1>3

LEMMA InPending ==
    ASSUME NEW e
    PROVE  e \in Pending <=> \/ In(e, batch)
                             \/ \E t : In(t, tasks) /\ In(e, t)
                             \/ \E b \in Buffers : In(e, content[b])
<1>1. \A s, x : x \in Range(s) <=> In(x, s)
  BY DEF Range, In
<1>2. e \in UNION {Range(t) : t \in Range(tasks)} <=> \E t : In(t, tasks) /\ In(e, t)
  BY <1>1
<1>3. e \in UNION {Range(content[b]) : b \in Buffers}
        <=> \E b \in Buffers : In(e, content[b])
  BY <1>1
<1>4. QED
  BY <1>1, <1>2, <1>3 DEF Pending

LEMMA InPendingNext ==
    ASSUME NEW e
    PROVE  e \in Pending' <=> \/ In(e, batch')
                              \/ \E t : In(t, tasks') /\ In(e, t)
                              \/ \E b \in Buffers : In(e, content'[b])
<1>1. \A s, x : x \in Range(s) <=> In(x, s)
  BY DEF Range, In
<1>2. e \in UNION {Range(t) : t \in Range(tasks')} <=> \E t : In(t, tasks') /\ In(e, t)
  BY <1>1
<1>3. e \in UNION {Range(content'[b]) : b \in Buffers}
        <=> \E b \in Buffers : In(e, content'[b])
  BY <1>1
<1>4. QED
  BY <1>1, <1>2, <1>3 DEF Pending

\* addEvent is Accept.
LEMMA PushAccepts ==
    ASSUME Pool, Line, Push, arrived \in 1..MaxEvents PROVE Log!Accept
<1> DEFINE b == IF current = NoBuffer THEN Head(available) ELSE current
<1>1. /\ content' = [content EXCEPT ![b] = Append(content[b], arrived)]
      /\ main \in {"add", "waiting"} /\ main' = "poll"
      /\ UNCHANGED <<arrived, tasks, batch, kafka>>
  BY DEF Push, pool
<1>2. b \in Buffers
  BY OnTail DEF Push, Pool, PoolType
<1>3. content[b] \in Seq(Nat) /\ arrived \in Nat /\ content \in [Buffers -> Seq(Nat)]
  BY <1>2 DEF Line, EventType
<1>4. /\ \A e : In(e, Append(content[b], arrived)) <=> In(e, content[b]) \/ e = arrived
      /\ content'[b] = Append(content[b], arrived)
      /\ \A c \in Buffers \ {b} : content'[c] = content[c]
  BY <1>1, <1>2, <1>3, OnAppend
<1> HIDE DEF b
<1>5. \A e : (\E c \in Buffers : In(e, content'[c]))
               <=> (\E c \in Buffers : In(e, content[c])) \/ e = arrived
  BY <1>2, <1>4
<1>6. \A e : e \in Pending' <=> e \in Pending \/ e = arrived
  BY <1>1, <1>5, InPending, InPendingNext
<1>7. Pending' = Pending \cup {arrived - 1 + 1}
  <2>1. arrived - 1 + 1 = arrived
    BY <1>3
  <2>2. Pending' = Pending \cup {arrived}
    BY <1>6
  <2>3. QED
    BY <2>1, <2>2
<1>8. arrived - 1 < MaxEvents /\ arrived = arrived - 1 + 1
  BY ConstantsAssumption
<1>9. QED
  BY <1>1, <1>7, <1>8 DEF Log!Accept

\* A buffer becomes a task, and a task the one that runs: the same events are inside.
LEMMA SendMovesNothing == ASSUME Pool, Line, Send PROVE Pending' = Pending
<1>1. /\ held \in Buffers /\ content[held] \in Seq(Nat)
      /\ content \in [Buffers -> Seq(Nat)] /\ tasks \in Seq(Seq(Nat))
  BY DEF Send, Pool, HeldInv, Line, EventType
<1>2. /\ tasks' = Append(tasks, content[held]) /\ batch' = batch
      /\ content'[held] = <<>>
      /\ \A c \in Buffers \ {held} : content'[c] = content[c]
  BY <1>1 DEF Send
<1>3. \A t : In(t, tasks') <=> In(t, tasks) \/ t = content[held]
  BY <1>1, <1>2, OnAppend
<1>4. \A e : (\E c \in Buffers : In(e, content[c]))
               <=> (\E c \in Buffers : In(e, content'[c])) \/ In(e, content[held])
  BY <1>1, <1>2, OnEmpty
<1>5. \A e : (\E t : In(t, tasks') /\ In(e, t))
               <=> (\E t : In(t, tasks) /\ In(e, t)) \/ In(e, content[held])
  BY <1>3
<1>6. \A e : e \in Pending' <=> e \in Pending
  BY <1>2, <1>4, <1>5, InPending, InPendingNext
<1>7. QED
  BY <1>6

LEMMA WakeMovesNothing == ASSUME Line, Idle, Wake PROVE Pending' = Pending
<1>1. tasks \in Seq(Seq(Nat)) /\ batch = <<>> /\ content' = content
  BY DEF Line, EventType, Idle, Wake, buffers
<1>2. CASE tasks # <<>> /\ batch' = Head(tasks) /\ tasks' = Tail(tasks)
  <2>1. \A t : In(t, tasks) <=> In(t, tasks') \/ t = batch'
    BY <1>1, <1>2, OnTail
  <2>2. \A e : (\E t : In(t, tasks) /\ In(e, t))
                 <=> (\E t : In(t, tasks') /\ In(e, t)) \/ In(e, batch')
    BY <2>1
  <2>3. \A e : ~In(e, batch)
    BY <1>1, OnEmpty
  <2>4. \A e : e \in Pending' <=> e \in Pending
    BY <1>1, <2>2, <2>3, InPending, InPendingNext
  <2>5. QED
    BY <2>4
<1>3. CASE UNCHANGED <<tasks, batch>>
  BY <1>1, <1>3 DEF Pending
<1>4. QED
  BY <1>2, <1>3 DEF Wake

\* The first event of the task that runs is the oldest one inside, and nowhere else.
LEMMA ProduceDelivers ==
    ASSUME Line, Produce, main # "done"
    PROVE  \E e \in Pending : Log!Deliver(e) \/ Log!Refuse(e)
<1> DEFINE x == Head(batch)
<1>1. /\ worker = "run"
      /\ kafka' = Append(kafka, x) \/ kafka' = kafka
      /\ batch' = Tail(batch)
      /\ UNCHANGED <<arrived, content, tasks, main>>
  BY DEF Produce, buffers
<1>2. /\ EventType /\ TaskOrder
      /\ batch # <<>> /\ batch \in Seq(Nat) /\ Inc(batch)
      /\ \A c \in Buffers : content[c] \in Seq(Nat) /\ Earlier(batch, content[c])
      /\ \A t : In(t, tasks) => t \in Seq(Nat) /\ Earlier(batch, t)
  BY <1>1, LineTypes DEF Line, NotEmpty, TaskOrder, EventType, In
<1>3. /\ x \in Nat /\ Tail(batch) \in Seq(Nat)
      /\ Earlier(<<x>>, Tail(batch))
      /\ \A s \in Seq(Nat) : Earlier(batch, s) => Earlier(<<x>>, s)
      /\ \A e : In(e, batch) <=> In(e, Tail(batch)) \/ e = x
  BY <1>2, OrderedTail, OnTail
<1> HIDE DEF x
<1>4. ASSUME NEW s \in Seq(Nat), Earlier(<<x>>, s), NEW e, In(e, s) PROVE e \in Nat /\ x < e
  BY <1>4, ElementOfSeq, LenProperties DEF Earlier, In
<1>5. /\ \A e : In(e, batch') => e \in Nat /\ x < e
      /\ \A e : (\E t : In(t, tasks) /\ In(e, t)) => e \in Nat /\ x < e
      /\ \A e : (\E c \in Buffers : In(e, content[c])) => e \in Nat /\ x < e
  BY <1>1, <1>2, <1>3, <1>4
<1>6. \A e : e \in Pending <=> e \in Pending' \/ e = x
  BY <1>1, <1>3, InPending, InPendingNext
<1>7. \A e \in Pending' : e \in Nat /\ x < e
  BY <1>1, <1>5, InPendingNext
<1>8. x \notin Pending'
  <2>1. ~(x < x)
    BY <1>3
  <2>2. QED
    BY <1>7, <2>1
<1>9. Pending' = Pending \ {x} /\ x \in Pending
  BY <1>6, <1>8
<1>10. \A e \in Pending : x <= e
  BY <1>3, <1>6, <1>7
<1>11. Log!Oldest(x)
  BY <1>9, <1>10 DEF Log!Oldest
<1>12. Log!Deliver(x) \/ Log!Refuse(x)
  BY <1>1, <1>9, <1>11 DEF Log!Deliver, Log!Refuse
<1>13. QED
  BY <1>9, <1>12

\* The destructor is Close.
LEMMA DiscardCloses == ASSUME Line, Idle, Discard PROVE Log!Close
<1>1. /\ main = "joinPool" /\ main' = "done" /\ batch = <<>> /\ batch' = <<>>
      /\ tasks' = <<>> /\ \A b \in Buffers : content'[b] = <<>>
      /\ UNCHANGED <<arrived, kafka>>
  BY DEF Discard, Idle
<1>2. \A e : e \notin Pending'
  BY <1>1, InPendingNext, OnEmpty
<1>3. QED
  BY <1>1, <1>2 DEF Log!Close

\* The other steps move no event in or out.
LEMMA OthersMoveNothing ==
    ASSUME \/ Call \/ Shutdown \/ Wait \/ StopPool \/ NextTask \/ FallAsleep
           \/ Loop \/ Take \/ Quit \/ Keep \/ Return \/ Age
           \/ UNCHANGED vars
    PROVE  Pending' = Pending
<1>1. UNCHANGED <<content, tasks, batch>>
  BY DEF Call, Shutdown, Wait, StopPool, NextTask, FallAsleep, Loop, Take, Quit, Keep,
         Return, Age, vars, buffers, pool
<1>2. QED
  BY <1>1 DEF Pending

\* addEvent pushes an event that has arrived.
ArrivedInv == arrived \in 0..MaxEvents /\ (main \in {"add", "waiting"} => arrived # 0)

LEMMA ArrivedKept == ArrivedInv /\ [Next]_vars => ArrivedInv'
<1> SUFFICES ASSUME ArrivedInv, [Next]_vars PROVE ArrivedInv'
  OBVIOUS
<1>1. CASE Call
  BY <1>1, ConstantsAssumption DEF Call, ArrivedInv
<1>2. CASE ~Call
  <2>1. arrived' = arrived /\ (main' \in {"add", "waiting"} => main \in {"add", "waiting"})
    BY <1>2 DEF Next, Main, Flusher, Worker, Shutdown, Wait, Push, StopPool, Discard,
       Loop, Take, Quit, Keep, Send, Return, Age, NextTask, Wake, FallAsleep, Produce, vars
  <2>2. QED
    BY <2>1 DEF ArrivedInv
<1>3. QED
  BY <1>1, <1>2

LEMMA LogInit == Init => Log!Init
<1> SUFFICES ASSUME Init PROVE Log!Init
  OBVIOUS
<1>1. \A e : e \notin Pending
  <2>1. batch = <<>> /\ tasks = <<>> /\ \A b \in Buffers : content[b] = <<>>
    BY DEF Init
  <2>2. QED
    BY <2>1, InPending, OnEmpty
<1>2. QED
  BY <1>1 DEF Init, Log!Init

\* A step of the logger is a step of the event log, or moves no event.
LEMMA StepOfLog ==
    ASSUME Inv, Line, Idle, ArrivedInv, [Next]_vars PROVE [Log!Next]_(Log!vars)
<1> DEFINE taken == IF main \in {"add", "waiting"} THEN arrived - 1 ELSE arrived
<1>1. CASE main = "done"
  <2>1. flusher = "done" /\ worker = "done"
    BY <1>1 DEF Line, Ended
  <2>2. UNCHANGED vars
    BY <1>1, <2>1 DEF Next, Main, Flusher, Worker, Call, Shutdown, Wait, Push, StopPool,
           Discard, Loop, Take, Quit, Keep, Send, Return, Age, NextTask, Wake,
           FallAsleep, Produce
  <2>3. Pending' = Pending
    BY <2>2, OthersMoveNothing
  <2>4. QED
    BY <2>2, <2>3 DEF Log!vars, vars, pool
<1>2. CASE main # "done"
  <2>1. Pool
    BY <1>2 DEF Inv
  <2>2. CASE Push
    <3>1. arrived \in 1..MaxEvents
      BY <2>2, ConstantsAssumption DEF Push, ArrivedInv
    <3>2. QED
      BY <2>1, <2>2, <3>1, PushAccepts DEF Log!Next
  <2>3. CASE Produce
    BY <1>2, <2>3, ProduceDelivers DEF Log!Next
  <2>4. CASE Discard
    BY <2>4, DiscardCloses DEF Log!Next
  <2>5. CASE ~Push /\ ~Produce /\ ~Discard
    <3>1. Pending' = Pending
      BY <2>1, <2>5, SendMovesNothing, WakeMovesNothing, OthersMoveNothing
      DEF Next, Main, Flusher, Worker
    <3>2. kafka' = kafka /\ main' # "done"
      BY <1>2, <2>5 DEF Next, Main, Flusher, Worker, Call, Shutdown, Wait, StopPool,
           Loop, Take, Quit, Keep, Send, Return, Age, NextTask, Wake, FallAsleep, vars, pool
    <3>3. taken' = taken
      <4>1. CASE Call
        BY <4>1 DEF Call, ArrivedInv
      <4>2. CASE ~Call
        BY <2>5, <4>2 DEF Next, Main, Flusher, Worker, Shutdown, Wait, StopPool,
           Loop, Take, Quit, Keep, Send, Return, Age, NextTask, Wake, FallAsleep, vars
      <4>3. QED
        BY <4>1, <4>2
    <3>4. QED
      BY <1>2, <3>1, <3>2, <3>3 DEF Log!vars
  <2>6. QED
    BY <2>2, <2>3, <2>4, <2>5
<1>3. QED
  BY <1>1, <1>2

\* The logger with its pool of buffers, its two flush triggers, two threads and two queues
\* implements the event log: addEvent accepts, the task that runs delivers or is refused,
\* always the oldest event that is left, and only the destructor drops any.
THEOREM LoggerIsEventLog == Spec => ImplementsEventLog
<1>1. Init => Inv /\ Line /\ Idle /\ ArrivedInv
  <2>1. Init => Idle /\ ArrivedInv
    BY ConstantsAssumption DEF Init, Idle, ArrivedInv
  <2>2. QED
    BY <2>1, PoolInit, LineInit DEF Inv
<1>2. Inv /\ Line /\ Idle /\ ArrivedInv /\ [Next]_vars => [Log!Next]_(Log!vars)
  BY StepOfLog
<1>3. Spec => Log!Spec
  BY <1>1, <1>2, LogInit, StepKeepsInv, StepKeepsLine, IdleKept, ArrivedKept, PTL
  DEF Spec, Log!Spec
<1>4. QED
  BY <1>3 DEF ImplementsEventLog

-----------------------------------------------------------------------------
(* Types.                                                                  *)

Types ==
    /\ arrived \in 0..MaxEvents
    /\ content \in [Buffers -> Seq(Events)]
    /\ available \in Seq(Buffers)
    /\ flushing \in Seq(Buffers)
    /\ current \in Buffers \cup {NoBuffer}
    /\ held \in Buffers \cup {NoBuffer}
    /\ tasks \in Seq(Seq(Events))
    /\ batch \in Seq(Events)
    /\ kafka \in Seq(Events)
    /\ shutdown \in BOOLEAN
    /\ stop \in BOOLEAN
    /\ main \in {"poll", "add", "waiting", "join", "joinPool", "done"}
    /\ flusher \in {"top", "wait", "send", "return", "relock", "done"}
    /\ worker \in {"top", "check", "blocking", "asleep", "run", "done"}

LEMMA InitTypes == Init => Types
<1> SUFFICES ASSUME Init PROVE Types
  OBVIOUS
<1>1. Pool
  BY PoolInit
<1>2. <<>> \in Seq(Events) /\ <<>> \in Seq(Seq(Events))
  BY EmptySeq
<1>3. arrived \in 0..MaxEvents
  BY ConstantsAssumption DEF Init
<1>4. QED
  BY <1>1, <1>2, <1>3 DEF Init, Types, Pool, PoolType

LEMMA PushTypes == ASSUME Types, ArrivedInv, Push PROVE Types'
<1> DEFINE b == IF current = NoBuffer THEN Head(available) ELSE current
           filled == Append(content[b], arrived)
<1>1. /\ main \in {"add", "waiting"} /\ main' = "poll"
      /\ current # NoBuffer \/ available # <<>>
      /\ content' = [content EXCEPT ![b] = filled]
      /\ available' = IF current = NoBuffer THEN Tail(available) ELSE available
      /\ flushing' \in {flushing, Append(flushing, b)}
      /\ current' \in {NoBuffer, b}
      /\ UNCHANGED <<arrived, held, tasks, batch, kafka, shutdown, stop, flusher, worker>>
  BY DEF Push, pool, flags
<1>2. b \in Buffers /\ available' \in Seq(Buffers)
  BY <1>1, OnTail DEF Types
<1>3. arrived \in Events
  BY <1>1 DEF ArrivedInv, Events
<1> HIDE DEF b
<1>4. filled \in Seq(Events)
  BY <1>2, <1>3, OnAppend DEF Types
<1> HIDE DEF filled
<1>5. content' \in [Buffers -> Seq(Events)] /\ flushing' \in Seq(Buffers)
  <2>1. content' \in [Buffers -> Seq(Events)]
    BY <1>1, <1>4 DEF Types
  <2>2. Append(flushing, b) \in Seq(Buffers)
    BY <1>2, OnAppend DEF Types
  <2>3. QED
    BY <1>1, <2>1, <2>2 DEF Types
<1>6. QED
  BY <1>1, <1>2, <1>5 DEF Types

LEMMA FlusherTypes == ASSUME Types, HeldInv, Flusher \/ Age PROVE Types'
<1>1. CASE Loop \/ Quit \/ Keep
  BY <1>1 DEF Loop, Quit, Keep, Types, buffers, pool, flags
<1>2. CASE Take
  BY <1>2, OnTail DEF Take, Types, pool, flags
<1>3. CASE Send
  <2>1. held \in Buffers
    BY <1>3 DEF HeldInv, Send
  <2>2. tasks' \in Seq(Seq(Events))
    BY <1>3, <2>1, OnAppend DEF Send, Types
  <2>3. content' \in [Buffers -> Seq(Events)]
    BY <1>3, EmptySeq DEF Send, Types
  <2>4. QED
    BY <1>3, <2>2, <2>3 DEF Send, Types, flags
<1>4. CASE Return
  <2>1. available' \in Seq(Buffers)
    BY <1>4, OnAppend DEF Return, HeldInv, Types
  <2>2. QED
    BY <1>4, <2>1 DEF Return, Types, pool, flags
<1>5. CASE Age
  <2>1. /\ flushing' \in Seq(Buffers) /\ available' \in Seq(Buffers)
        /\ current' \in Buffers \cup {NoBuffer}
    BY <1>5, OnTail, OnOne, EmptySeq DEF Age, Types
  <2>2. QED
    BY <1>5, <2>1 DEF Age, Types, pool, flags
<1>6. QED
  BY <1>1, <1>2, <1>3, <1>4, <1>5 DEF Flusher

LEMMA WorkerTypes == ASSUME Types, NotEmpty, Worker PROVE Types'
<1>1. CASE NextTask \/ FallAsleep
  BY <1>1 DEF NextTask, FallAsleep, Types, buffers, pool, flags
<1>2. CASE Wake
  <2>1. tasks # <<>> => Head(tasks) \in Seq(Events) /\ Tail(tasks) \in Seq(Seq(Events))
    BY OnTail DEF Types
  <2>2. tasks' \in Seq(Seq(Events)) /\ batch' \in Seq(Events) /\ worker' \in {"run", "done"}
    BY <1>2, <2>1 DEF Wake, Types
  <2>3. QED
    BY <1>2, <2>2 DEF Wake, Types, buffers, flags
<1>3. CASE Produce
  <2>1. batch # <<>>
    BY <1>3 DEF Produce, NotEmpty
  <2>2. Head(batch) \in Events /\ Tail(batch) \in Seq(Events)
    BY <2>1, OnTail DEF Types
  <2>3. kafka' \in Seq(Events)
    <3>1. Append(kafka, Head(batch)) \in Seq(Events)
      BY <2>2, OnAppend DEF Types
    <3>2. QED
      BY <1>3, <3>1 DEF Produce, Types
  <2>4. QED
    BY <1>3, <2>2, <2>3 DEF Produce, Types, buffers, flags
<1>4. QED
  BY <1>1, <1>2, <1>3 DEF Worker

LEMMA MainTypes == ASSUME Types, Call \/ Shutdown \/ Wait \/ StopPool \/ Discard PROVE Types'
<1>1. CASE Call
  BY <1>1, ConstantsAssumption DEF Call, Types, buffers, pool, flags
<1>2. CASE Shutdown \/ Wait \/ StopPool
  BY ZenonT(60), <1>2 DEF Shutdown, Wait, StopPool, Types, buffers, pool, flags
<1>3. CASE Discard
  <2>1. PICK full \in UNION {[1..n -> Buffers] : n \in 0..BufferCount} :
          available' = available \o flushing \o full
    BY <1>3 DEF Discard
  <2>2. full \in Seq(Buffers)
    BY <2>1, SeqDef
  <2>3. available \o flushing \in Seq(Buffers)
    BY ConcatProperties DEF Types
  <2>4. available' \in Seq(Buffers)
    BY <2>1, <2>2, <2>3, ConcatProperties
  <2>5. content' \in [Buffers -> Seq(Events)] /\ tasks' \in Seq(Seq(Events))
        /\ flushing' \in Seq(Buffers)
    BY <1>3, EmptySeq DEF Discard
  <2>6. QED
    BY <1>3, <2>4, <2>5 DEF Discard, Types, flags
<1>4. QED
  BY <1>1, <1>2, <1>3

LEMMA StepKeepsTypes == Inv /\ Line /\ ArrivedInv /\ Types /\ [Next]_vars => Types'
<1> SUFFICES ASSUME Inv, Line, ArrivedInv, Types, [Next]_vars PROVE Types'
  OBVIOUS
<1>1. CASE UNCHANGED vars
  BY <1>1 DEF vars, Types, buffers, pool, flags
<1>2. CASE Flusher \/ Age
  <2>1. main # "done"
    BY <1>2 DEF Line, Ended, Flusher, Age, Loop, Take, Quit, Keep, Send, Return
  <2>2. QED
    BY <1>2, <2>1, FlusherTypes DEF Inv, Pool
<1>3. CASE Worker
  BY <1>3, WorkerTypes DEF Line
<1>4. QED
  BY <1>1, <1>2, <1>3, PushTypes, MainTypes DEF Next, Main

\* The variables have their types at every step of every thread and in the destructor; the
\* flush thread never hands over an empty buffer, and the pool thread runs no empty task.
THEOREM TypeCorrect == Spec => []TypeOK
<1>1. Init => Inv /\ Line /\ ArrivedInv /\ Types
  <2>1. Init => ArrivedInv
    BY ConstantsAssumption DEF Init, ArrivedInv
  <2>2. QED
    BY <2>1, PoolInit, LineInit, InitTypes DEF Inv
<1>2. Inv /\ Line /\ Types => TypeOK
  <2> SUFFICES ASSUME Inv, Line, Types PROVE TypeOK
    OBVIOUS
  <2>1. ASSUME flusher = "send" PROVE held # NoBuffer /\ content[held] # <<>>
    <3>1. main # "done"
      BY <2>1 DEF Line, Ended
    <3>2. QED
      BY <2>1, <3>1, NoBufferIsNone DEF Inv, Pool, HeldInv, Line, NotEmpty
  <2>2. worker = "run" => batch # <<>>
    BY DEF Line, NotEmpty
  <2>3. QED
    BY <2>1, <2>2 DEF Types, TypeOK
<1>3. QED
  BY <1>1, <1>2, StepKeepsInv, StepKeepsLine, ArrivedKept, StepKeepsTypes, PTL DEF Spec

-----------------------------------------------------------------------------
(* A call that waits.                                                      *)

Starved == main = "waiting" => current = NoBuffer /\ available = <<>>

LEMMA StepKeepsStarved ==
    Starved /\ [Next]_vars => Starved' /\ (main = "waiting" => main' = "waiting")
<1> SUFFICES ASSUME Starved, [Next]_vars
             PROVE  Starved' /\ (main = "waiting" => main' = "waiting")
  OBVIOUS
<1>1. CASE Call \/ Wait \/ Shutdown \/ StopPool \/ Discard
  BY <1>1 DEF Starved, Call, Wait, Shutdown, StopPool, Discard, buffers
<1>2. CASE Push
  BY <1>2 DEF Starved, Push
<1>3. CASE Age
  BY <1>3 DEF Starved, Age
<1>4. CASE Return
  BY <1>4 DEF Starved, Return, Free
<1>5. CASE \/ Loop \/ Take \/ Quit \/ Keep \/ Send
           \/ Worker \/ UNCHANGED vars
  BY <1>5 DEF Starved, Loop, Take, Quit, Keep, Send, Worker, NextTask, Wake, FallAsleep,
     Produce, buffers, vars
<1>6. QED
  BY <1>1, <1>2, <1>3, <1>4, <1>5 DEF Next, Main, Flusher

\* With any pool of buffers: a call of addEvent that waits for a buffer never returns.  It
\* owns the mutex of the queue a buffer has to come back to, and without a current buffer
\* neither the size nor the age of one can help.
THEOREM WaitingIsForGood == Spec => WaitsForGood
<1>1. Init => Starved
  BY DEF Init, Starved
<1>2. Starved /\ [Next]_vars => [main = "waiting" => main' = "waiting"]_vars
  BY StepKeepsStarved
<1>3. QED
  BY <1>1, <1>2, StepKeepsStarved, PTL DEF Spec, WaitsForGood

=============================================================================
