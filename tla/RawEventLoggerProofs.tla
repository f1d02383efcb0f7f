------------------------ MODULE RawEventLoggerProofs ------------------------
(***************************************************************************)
(* RawEventLogger for any number of buffers of any size, any number of     *)
(* events, days and restarts: types, where the events are, what the files  *)
(* keep, and that the logger implements DayLog.                            *)
(***************************************************************************)
EXTENDS RawEventLogger, SequenceTheorems, WellFoundedInduction, TLAPS

-----------------------------------------------------------------------------
(* What a sequence holds, and whether an event of O occurs twice in it.    *)

In(e, s) == \E i \in DOMAIN s : s[i] = e
Uniq(s, O) == \A i, j \in DOMAIN s : s[i] = s[j] /\ s[i] \in O => i = j
Apart(s, t) == \A e : ~(In(e, s) /\ In(e, t))

LEMMA InIsContains ==
    ASSUME NEW S, NEW s \in Seq(S), NEW e
    PROVE  Contains(s, e) <=> In(e, s)
BY LenProperties DEF Contains, In

LEMMA OnEmpty == ASSUME NEW O PROVE (\A e : ~In(e, <<>>)) /\ Uniq(<<>>, O)
BY DEF In, Uniq

LEMMA OnNonEmpty ==
    ASSUME NEW S, NEW s \in Seq(S)
    PROVE  s # <<>> <=> \E e \in S : In(e, s)
<1>1. CASE s = <<>>
  BY <1>1, OnEmpty
<1>2. CASE s # <<>>
  <2>1. 1 \in DOMAIN s /\ s[1] \in S
    BY <1>2, LenProperties, EmptySeq, ElementOfSeq
  <2>2. QED
    BY <1>2, <2>1 DEF In
<1>3. QED
  BY <1>1, <1>2

LEMMA OnAppend ==
    ASSUME NEW S, NEW s \in Seq(S), NEW x \in S, NEW O
    PROVE  /\ Append(s, x) \in Seq(S)
           /\ Len(Append(s, x)) > 0
           /\ \A e : In(e, Append(s, x)) <=> In(e, s) \/ e = x
           /\ Uniq(s, O) /\ ~In(x, s) => Uniq(Append(s, x), O)
<1> DEFINE t == Append(s, x)
<1>1. /\ t \in Seq(S)
      /\ Len(s) \in Nat
      /\ DOMAIN s = 1..Len(s)
      /\ DOMAIN t = 1..(Len(s) + 1) /\ Len(t) = Len(s) + 1
      /\ \A i \in 1..Len(s) : t[i] = s[i]
      /\ t[Len(s) + 1] = x
  BY AppendProperties, LenProperties
<1> HIDE DEF t
<1>2. \A i \in DOMAIN t : i \in DOMAIN s \/ i = Len(s) + 1
  BY <1>1
<1>3. \A e : In(e, t) <=> In(e, s) \/ e = x
  <2>1. ASSUME NEW e, In(e, t) PROVE In(e, s) \/ e = x
    BY <1>1, <1>2, <2>1 DEF In
  <2>2. ASSUME NEW e, In(e, s) PROVE In(e, t)
    BY <1>1, <2>2 DEF In
  <2>3. In(x, t)
    BY <1>1 DEF In
  <2>4. QED
    BY <2>1, <2>2, <2>3
<1>4. ASSUME Uniq(s, O), ~In(x, s) PROVE Uniq(t, O)
  BY <1>1, <1>2, <1>4 DEF Uniq, In
<1>5. QED
  BY <1>1, <1>3, <1>4 DEF t

LEMMA OnConcat ==
    ASSUME NEW S, NEW s \in Seq(S), NEW t \in Seq(S), NEW O
    PROVE  /\ s \o t \in Seq(S)
           /\ \A e : In(e, s \o t) <=> In(e, s) \/ In(e, t)
           /\ Uniq(s, O) /\ Uniq(t, O) /\ Apart(s, t) => Uniq(s \o t, O)
<1> DEFINE u == s \o t
<1>1. /\ u \in Seq(S)
      /\ Len(s) \in Nat /\ Len(t) \in Nat
      /\ DOMAIN s = 1..Len(s) /\ DOMAIN t = 1..Len(t)
      /\ DOMAIN u = 1..(Len(s) + Len(t))
      /\ \A i \in 1..(Len(s) + Len(t)) : u[i] = IF i <= Len(s) THEN s[i] ELSE t[i - Len(s)]
  BY ConcatProperties, LenProperties
<1> HIDE DEF u
<1>2. \A i \in DOMAIN s : i \in DOMAIN u /\ u[i] = s[i]
  BY <1>1
<1>3. \A i \in DOMAIN t : i + Len(s) \in DOMAIN u /\ u[i + Len(s)] = t[i]
  BY <1>1
<1>4. \A i \in DOMAIN u : \/ i \in DOMAIN s /\ u[i] = s[i]
                          \/ i - Len(s) \in DOMAIN t /\ u[i] = t[i - Len(s)]
  BY <1>1
<1>5. \A e : In(e, u) <=> In(e, s) \/ In(e, t)
  <2>1. ASSUME NEW e, In(e, u) PROVE In(e, s) \/ In(e, t)
    BY <1>4, <2>1 DEF In
  <2>2. ASSUME NEW e, In(e, s) PROVE In(e, u)
    BY <1>2, <2>2 DEF In
  <2>3. ASSUME NEW e, In(e, t) PROVE In(e, u)
    BY <1>3, <2>3 DEF In
  <2>4. QED
    BY <2>1, <2>2, <2>3
<1>6. ASSUME Uniq(s, O), Uniq(t, O), Apart(s, t) PROVE Uniq(u, O)
  <2> SUFFICES ASSUME NEW i \in DOMAIN u, NEW j \in DOMAIN u, u[i] = u[j], u[i] \in O
               PROVE  i = j
    BY DEF Uniq
  <2>1. i \in Nat /\ j \in Nat
    BY <1>1
  <2>2. CASE i \in DOMAIN s /\ u[i] = s[i] /\ j \in DOMAIN s /\ u[j] = s[j]
    BY <1>6, <2>2 DEF Uniq
  <2>3. CASE i - Len(s) \in DOMAIN t /\ u[i] = t[i - Len(s)]
               /\ j - Len(s) \in DOMAIN t /\ u[j] = t[j - Len(s)]
    <3>1. i - Len(s) = j - Len(s)
      BY <1>6, <2>3 DEF Uniq
    <3>2. QED
      BY <1>1, <2>1, <3>1
  <2>4. ~(u[i] = s[i] /\ i \in DOMAIN s /\ u[j] = t[j - Len(s)] /\ j - Len(s) \in DOMAIN t)
    BY <1>6 DEF Apart, In
  <2>5. ~(u[j] = s[j] /\ j \in DOMAIN s /\ u[i] = t[i - Len(s)] /\ i - Len(s) \in DOMAIN t)
    BY <1>6 DEF Apart, In
  <2>6. QED
    BY <1>4, <2>2, <2>3, <2>4, <2>5
<1>7. QED
  BY <1>1, <1>5, <1>6 DEF u

LEMMA OnPrefix ==
    ASSUME NEW S, NEW s \in Seq(S), NEW n \in 0..Len(s), NEW O
    PROVE  /\ SubSeq(s, 1, n) \in Seq(S)
           /\ \A e : In(e, SubSeq(s, 1, n)) => In(e, s)
           /\ Uniq(s, O) => Uniq(SubSeq(s, 1, n), O)
<1> DEFINE u == SubSeq(s, 1, n)
<1>1. Len(s) \in Nat /\ DOMAIN s = 1..Len(s) /\ \A i \in 1..n : s[i] \in S
  BY LenProperties, ElementOfSeq
<1>2. u \in Seq(S) /\ DOMAIN u = 1..n /\ \A i \in 1..n : u[i] = s[i]
  BY <1>1, SubSeqProperties
<1> HIDE DEF u
<1>3. \A i \in DOMAIN u : i \in DOMAIN s /\ u[i] = s[i]
  BY <1>1, <1>2
<1>4. QED
  BY <1>2, <1>3 DEF u, In, Uniq

LEMMA OnTail ==
    ASSUME NEW S, NEW s \in Seq(S), s # <<>>
    PROVE  /\ Head(s) \in S /\ Tail(s) \in Seq(S)
           /\ \A y : In(y, s) <=> In(y, Tail(s)) \/ y = Head(s)
<1> DEFINE t == Tail(s)
<1>1. /\ t \in Seq(S)
      /\ Len(s) \in Nat \ {0}
      /\ Head(s) = s[1]
      /\ s[1] \in S
      /\ DOMAIN s = 1..Len(s)
      /\ DOMAIN t = 1..(Len(s) - 1)
      /\ \A i \in 1..(Len(s) - 1) : t[i] = s[i + 1]
  BY HeadTailProperties, LenProperties, EmptySeq, ElementOfSeq
<1> HIDE DEF t
<1>2. ASSUME NEW y, In(y, s), y # Head(s) PROVE In(y, t)
  <2>1. PICK i \in 1..Len(s) : s[i] = y
    BY <1>1, <1>2 DEF In
  <2>2. i - 1 \in 1..(Len(s) - 1) /\ t[i - 1] = y
    BY <1>1, <1>2, <2>1
  <2>3. QED
    BY <1>1, <2>2 DEF In
<1>3. ASSUME NEW y, In(y, t) PROVE In(y, s)
  <2>1. PICK i \in 1..(Len(s) - 1) : t[i] = y
    BY <1>1, <1>3 DEF In
  <2>2. i + 1 \in 1..Len(s) /\ s[i + 1] = y
    BY <1>1, <2>1
  <2>3. QED
    BY <1>1, <2>2 DEF In
<1>4. In(Head(s), s)
  BY <1>1 DEF In
<1>5. QED
  BY <1>1, <1>2, <1>3, <1>4 DEF t

\* The next buffer is one of the four.
LEMMA NextBufferType ==
    ASSUME NEW c, current \in Buffers PROVE NextBuffer(c) \in Buffers
<1>1. CASE Candidates(c) = {}
  BY <1>1 DEF NextBuffer
<1>2. CASE Candidates(c) # {}
  <2>1. Candidates(c) \subseteq Buffers /\ Candidates(c) \subseteq Nat
    BY ConstantsAssumption DEF Candidates, Buffers
  <2> DEFINE less == OpToRel(<, Nat)
  <2>2. IsWellFoundedOn(less, Nat)
    BY NatLessThanWellFounded
  <2>3. \A x, y \in Nat : x < y => <<x, y>> \in less
    BY DEF OpToRel
  <2> HIDE DEF less
  <2>4. PICK b \in Candidates(c) : \A a \in Candidates(c) : ~(<<a, b>> \in less)
    BY <1>2, <2>1, <2>2, WFMin
  <2>5. ASSUME NEW a \in Candidates(c) PROVE b <= a
    <3>1. a \in Nat /\ b \in Nat
      BY <2>1
    <3>2. ~(a < b)
      BY <2>3, <2>4, <3>1
    <3>3. QED
      BY <3>1, <3>2
  <2>6. QED
    BY <1>2, <2>1, <2>5 DEF NextBuffer
<1>3. QED
  BY <1>1, <1>2

-----------------------------------------------------------------------------
(* Types, and what the two threads can be doing together.                  *)

\* The flush thread has a buffer in hand from Take to Clear.
HeldInv == held # NoBuffer <=> flusher \in {"write", "sync", "clear"}

\* The destructor goes on when the flush thread has ended.
Ended == main \in {"drain", "done"} => flusher = "done"

\* zlib holds events from gzwrite to gzflush only.
ZlibInv == flusher # "sync" => unsynced = <<>>

Base == TypeOK /\ HeldInv /\ Ended /\ ZlibInv

LEMMA BufferTypes == 1 \in Buffers /\ NoBuffer \notin Buffers
BY ConstantsAssumption DEF Buffers, NoBuffer

LEMMA BaseInit == Init => Base
<1> SUFFICES ASSUME Init PROVE Base
  OBVIOUS
<1>1. /\ content \in [Buffers -> Seq(Events)] /\ flushing \in Seq(Buffers)
      /\ unsynced \in Seq(Events) /\ written \in Seq(Events) /\ older \in Seq(Events)
  BY DEF Init
<1>2. TypeOK
  <2>1. /\ arrived \in 0..MaxEvents /\ first \in 1..(arrived + 1)
        /\ restarts \in 0..MaxRestarts
        /\ day \in 1..MaxDays /\ fileDay \in 1..day
    BY ConstantsAssumption DEF Init
  <2>2. QED
    BY <1>1, <2>1, BufferTypes DEF Init, TypeOK
<1>3. HeldInv /\ Ended /\ ZlibInv
  BY DEF Init, HeldInv, Ended, ZlibInv
<1>4. QED
  BY <1>2, <1>3 DEF Base

LEMMA PushedTypes ==
    ASSUME Base, NEW c \in [Buffers -> Seq(Events)], Pushed(c)
    PROVE  /\ content' \in [Buffers -> Seq(Events)]
           /\ flushing' \in Seq(Buffers)
           /\ current' \in Buffers
<1>1. flushing \in Seq(Buffers) /\ current \in Buffers
  BY DEF Base, TypeOK
<1>2. Append(flushing, current) \in Seq(Buffers) /\ NextBuffer(c) \in Buffers
  BY <1>1, OnAppend, NextBufferType
<1>3. QED
  BY <1>1, <1>2 DEF Pushed

\* The event that is pushed, whatever becomes of it.
LEMMA PushesKeepBase == ASSUME Base, AddEvent \/ TornPush PROVE Base'
<1>1. TypeOK /\ HeldInv /\ Ended /\ ZlibInv
  BY DEF Base
<1>2. /\ arrived + 1 \in Events /\ arrived' = arrived + 1 /\ arrived' \in 0..MaxEvents
      /\ first \in 1..(arrived' + 1)
  <2>1. arrived' = arrived + 1 /\ arrived < MaxEvents
    BY DEF AddEvent, TornPush
  <2>2. arrived \in 0..MaxEvents /\ first \in 1..(arrived + 1) /\ MaxEvents \in Nat
    BY <1>1, ConstantsAssumption DEF TypeOK
  <2>3. QED
    BY <2>1, <2>2 DEF Events
<1>3. CASE AddEvent
  <2> DEFINE c == [content EXCEPT ![current] = Append(@, arrived + 1)]
  <2>1. Pushed(c)
    BY <1>3 DEF AddEvent
  <2>2. Append(content[current], arrived + 1) \in Seq(Events)
    BY <1>1, <1>2, OnAppend DEF TypeOK
  <2>3. c \in [Buffers -> Seq(Events)]
    BY <1>1, <2>2 DEF TypeOK
  <2> HIDE DEF c
  <2>4. /\ content' \in [Buffers -> Seq(Events)]
        /\ flushing' \in Seq(Buffers)
        /\ current' \in Buffers
    BY <2>1, <2>3, PushedTypes
  <2>5. /\ UNCHANGED <<held, disk, day, shutdown, main, flusher, run>>
        /\ excuses' \subseteq {"raced", "disk"}
    BY <1>1, <1>3 DEF AddEvent, TypeOK
  <2>6. TypeOK'
    BY <1>1, <1>2, <2>4, <2>5 DEF TypeOK, disk, run
  <2>7. HeldInv' /\ Ended' /\ ZlibInv'
    BY <1>1, <2>5 DEF HeldInv, Ended, ZlibInv, disk
  <2>8. QED
    BY <2>6, <2>7 DEF Base
<1>4. CASE TornPush
  <2>1. held \in Buffers /\ held = current /\ content[held] \in Seq(Events)
    BY <1>1, <1>4 DEF TornPush, TypeOK
  <2> DEFINE whole == Append(content[held], arrived + 1)
  <2>2. PICK torn \in {whole, <<Head(whole)>>} : Pushed([content EXCEPT ![held] = torn])
    BY <1>4 DEF TornPush
  <2>3. whole \in Seq(Events) /\ Head(whole) \in Events
    <3>1. whole \in Seq(Events) /\ whole # <<>>
      BY <1>2, <2>1, AppendProperties
    <3>2. QED
      BY <3>1, OnTail
  <2>4. torn \in Seq(Events)
    <3>1. <<Head(whole)>> \in Seq(Events)
      BY <2>3
    <3>2. QED
      BY <2>3, <3>1
  <2>5. [content EXCEPT ![held] = torn] \in [Buffers -> Seq(Events)]
    BY <1>1, <2>1, <2>4 DEF TypeOK
  <2>6. /\ content' \in [Buffers -> Seq(Events)]
        /\ flushing' \in Seq(Buffers)
        /\ current' \in Buffers
    BY <2>2, <2>5, PushedTypes
  <2>7. /\ UNCHANGED <<disk, day, shutdown, main, run>>
        /\ excuses' = excuses \cup {"raced"}
        /\ held' = NoBuffer /\ flusher = "clear" /\ flusher' = "relock"
        /\ main = "run"
    BY <1>4 DEF TornPush
  <2>8. TypeOK'
    BY <1>1, <1>2, <2>6, <2>7 DEF TypeOK, disk, run
  <2>9. HeldInv' /\ Ended' /\ ZlibInv'
    BY <1>1, <2>7 DEF HeldInv, Ended, ZlibInv, disk
  <2>10. QED
    BY <2>8, <2>9 DEF Base
<1>5. QED
  BY <1>3, <1>4

\* The flush thread.
LEMMA FlusherKeepsBase == ASSUME Base, Flusher \/ Old PROVE Base'
<1>1. /\ TypeOK /\ HeldInv /\ Ended /\ ZlibInv
      /\ day \in Nat /\ MaxDays \in Nat /\ older \o written \in Seq(Events)
      /\ written \o unsynced \in Seq(Events)
  BY ConstantsAssumption, OnConcat DEF Base, TypeOK
<1>2. CASE Loop
  <2>1. TypeOK'
    <3>1. CASE UNCHANGED disk /\ flusher' \in {"wait", "done"} /\ UNCHANGED excuses
      BY <1>1, <1>2, <3>1 DEF Loop, TypeOK, memory, disk, run
    <3>2. CASE NewFile /\ flusher' = "wait" /\ UNCHANGED <<unsynced, excuses>>
      BY <1>1, <1>2, <3>2 DEF Loop, NewFile, TypeOK, memory, run
    <3>3. CASE /\ flusher' = "done" /\ open' = FALSE /\ excuses' = excuses \cup {"disk"}
               /\ UNCHANGED <<unsynced, written, older, fileDay>>
      BY <1>1, <1>2, <3>3 DEF Loop, TypeOK, memory, run
    <3>4. QED
      BY <1>2, <3>1, <3>2, <3>3 DEF Loop
  <2>2. HeldInv' /\ Ended' /\ ZlibInv'
    BY <1>1, <1>2 DEF Loop, HeldInv, Ended, ZlibInv, memory, disk, run
  <2>3. QED
    BY <2>1, <2>2 DEF Base
<1>3. CASE Take
  <2>1. Head(flushing) \in Buffers /\ Tail(flushing) \in Seq(Buffers)
    BY <1>1, <1>3, OnTail DEF Take, TypeOK
  <2>2. TypeOK'
    BY <1>1, <1>3, <2>1, BufferTypes DEF Take, TypeOK, disk, run
  <2>3. HeldInv' /\ Ended' /\ ZlibInv'
    BY <1>1, <1>3, <2>1, BufferTypes DEF Take, HeldInv, Ended, ZlibInv, disk
  <2>4. QED
    BY <2>2, <2>3 DEF Base
<1>4. CASE Quit \/ Keep
  <2>1. TypeOK'
    BY <1>1, <1>4 DEF Quit, Keep, TypeOK, memory, disk, run
  <2>2. HeldInv' /\ Ended' /\ ZlibInv'
    BY <1>1, <1>4 DEF Quit, Keep, HeldInv, Ended, ZlibInv, memory, disk
  <2>3. QED
    BY <2>1, <2>2 DEF Base
<1>5. CASE Write
  <2>1. content[held] \in Seq(Events)
    BY <1>1, <1>5 DEF Write, TypeOK
  <2>2. TypeOK'
    BY <1>1, <1>5, <2>1 DEF Write, TypeOK, memory, run
  <2>3. HeldInv' /\ Ended' /\ ZlibInv'
    BY <1>1, <1>5 DEF Write, HeldInv, Ended, ZlibInv, memory
  <2>4. QED
    BY <2>2, <2>3 DEF Base
<1>6. CASE Sync
  <2>1. /\ written' \in Seq(Events) /\ unsynced' = <<>> /\ flusher' = "clear"
        /\ excuses' \subseteq {"raced", "disk"}
        /\ held # NoBuffer
        /\ UNCHANGED <<arrived, memory, older, fileDay, day, open, shutdown, main, run>>
    BY <1>1, <1>6 DEF Sync, TypeOK
  <2>3. TypeOK'
    BY <1>1, <2>1 DEF TypeOK, memory, run
  <2>2. HeldInv' /\ Ended' /\ ZlibInv'
    BY <1>1, <1>6 DEF Sync, HeldInv, Ended, ZlibInv, memory
  <2>4. QED
    BY <2>2, <2>3 DEF Base
<1>7. CASE Clear
  <2>1. content' \in [Buffers -> Seq(Events)]
    BY <1>1, <1>7 DEF Clear, TypeOK
  <2>2. TypeOK'
    BY <1>1, <1>7, <2>1 DEF Clear, TypeOK, disk, run
  <2>3. HeldInv' /\ Ended' /\ ZlibInv'
    BY <1>1, <1>7 DEF Clear, HeldInv, Ended, ZlibInv, disk
  <2>4. QED
    BY <2>2, <2>3 DEF Base
<1>8. CASE Age
  <2>1. <<current>> \in Seq(Buffers) /\ NextBuffer(content) \in Buffers
    BY <1>1, NextBufferType DEF TypeOK
  <2>2. TypeOK'
    BY <1>1, <1>8, <2>1 DEF Age, TypeOK, disk, run
  <2>3. HeldInv' /\ Ended' /\ ZlibInv'
    BY <1>1, <1>8 DEF Age, HeldInv, Ended, ZlibInv, disk
  <2>4. QED
    BY <2>2, <2>3 DEF Base
<1>9. QED
  BY <1>2, <1>3, <1>4, <1>5, <1>6, <1>7, <1>8 DEF Flusher, Old

\* The destructor, the process and the days.
LEMMA ProcessKeepsBase ==
    ASSUME Base,
           Reallocate \/ Shutdown \/ Destructor \/ Midnight \/ Kill \/ Restart \/ UNCHANGED vars
    PROVE  Base'
<1>1. /\ TypeOK /\ HeldInv /\ Ended /\ ZlibInv
      /\ older \o written \in Seq(Events)
      /\ day \in Nat /\ arrived \in Nat /\ restarts \in Nat
      /\ MaxEvents \in Nat /\ MaxDays \in Nat /\ MaxRestarts \in Nat
  BY ConstantsAssumption, OnConcat DEF Base, TypeOK
<1>2. CASE Reallocate
  <2>1. /\ arrived' = arrived + 1 /\ arrived < MaxEvents /\ main' = "down"
        /\ excuses' = excuses \cup {"raced"}
        /\ UNCHANGED <<memory, disk, day, shutdown, flusher, run>>
    BY <1>2 DEF Reallocate
  <2>2. arrived' \in 0..MaxEvents /\ first \in 1..(arrived' + 1)
    BY <1>1, <2>1 DEF TypeOK
  <2>3. TypeOK'
    BY <1>1, <2>1, <2>2 DEF TypeOK, memory, disk, run
  <2>4. HeldInv' /\ Ended' /\ ZlibInv'
    BY <1>1, <2>1 DEF HeldInv, Ended, ZlibInv, memory, disk
  <2>5. QED
    BY <2>3, <2>4 DEF Base
<1>3. CASE Shutdown
  <2>1. TypeOK'
    BY <1>1, <1>3 DEF Shutdown, TypeOK, memory, disk, run
  <2>2. HeldInv' /\ Ended' /\ ZlibInv'
    BY <1>1, <1>3 DEF Shutdown, HeldInv, Ended, ZlibInv, memory, disk
  <2>3. QED
    BY <2>1, <2>2 DEF Base
<1>4. CASE QueueLast
  <2>1. Append(flushing, current) \in Seq(Buffers)
    BY <1>1, OnAppend DEF TypeOK
  <2>2. TypeOK'
    BY <1>1, <1>4, <2>1 DEF QueueLast, TypeOK, disk, run
  <2>3. HeldInv' /\ Ended' /\ ZlibInv'
    BY <1>1, <1>4 DEF QueueLast, HeldInv, Ended, ZlibInv, disk
  <2>4. QED
    BY <2>2, <2>3 DEF Base
<1>5. CASE Drain
  <2>1. Head(flushing) \in Buffers /\ Tail(flushing) \in Seq(Buffers)
    BY <1>1, <1>5, OnTail DEF Drain, TypeOK
  <2>2. /\ written \o content[Head(flushing)] \in Seq(Events)
        /\ content' \in [Buffers -> Seq(Events)]
    BY <1>1, <1>5, <2>1, OnConcat DEF Drain, TypeOK
  <2>3. TypeOK'
    BY <1>1, <1>5, <2>1, <2>2 DEF Drain, TypeOK, run
  <2>4. HeldInv' /\ Ended' /\ ZlibInv'
    BY <1>1, <1>5 DEF Drain, HeldInv, Ended, ZlibInv
  <2>5. QED
    BY <2>3, <2>4 DEF Base
<1>6. CASE Close
  <2>1. TypeOK'
    BY <1>1, <1>6 DEF Close, TypeOK, memory, run
  <2>2. HeldInv' /\ Ended' /\ ZlibInv'
    BY <1>1, <1>6 DEF Close, HeldInv, Ended, ZlibInv, memory
  <2>3. QED
    BY <2>1, <2>2 DEF Base
<1>7. CASE Midnight
  <2>1. day' \in 1..MaxDays /\ fileDay \in 1..day'
    BY <1>1, <1>7 DEF Midnight, TypeOK
  <2>2. TypeOK'
    BY <1>1, <1>7, <2>1 DEF Midnight, TypeOK, memory, disk, run
  <2>3. HeldInv' /\ Ended' /\ ZlibInv'
    BY <1>1, <1>7 DEF Midnight, HeldInv, Ended, ZlibInv, memory, disk
  <2>4. QED
    BY <2>2, <2>3 DEF Base
<1>8. CASE Kill
  <2>1. PICK n \in 0..Len(unsynced) : written' = written \o SubSeq(unsynced, 1, n)
    BY <1>8 DEF Kill
  <2>2. written' \in Seq(Events)
    BY <1>1, <2>1, OnPrefix, OnConcat DEF TypeOK
  <2>3. TypeOK'
    BY <1>1, <1>8, <2>2 DEF Kill, TypeOK, memory, run
  <2>4. HeldInv' /\ Ended' /\ ZlibInv'
    BY <1>1, <1>8 DEF Kill, HeldInv, Ended, ZlibInv, memory
  <2>5. QED
    BY <2>3, <2>4 DEF Base
<1>9. CASE Restart
  <2>1. /\ content' \in [Buffers -> Seq(Events)] /\ flushing' \in Seq(Buffers)
        /\ unsynced' \in Seq(Events) /\ written' \in Seq(Events)
        /\ older' \in Seq(Events)
        /\ first' \in 1..(arrived + 1) /\ restarts' \in 0..MaxRestarts
        /\ fileDay' \in 1..day
    BY <1>1, <1>9 DEF Restart, TypeOK
  <2>2. TypeOK'
    BY <1>1, <1>9, <2>1, BufferTypes DEF Restart, TypeOK
  <2>3. HeldInv' /\ Ended' /\ ZlibInv'
    BY <1>9 DEF Restart, HeldInv, Ended, ZlibInv
  <2>4. QED
    BY <2>2, <2>3 DEF Base
<1>10. CASE UNCHANGED vars
  <2>1. TypeOK'
    BY <1>1, <1>10 DEF TypeOK, vars, memory, disk, run
  <2>2. HeldInv' /\ Ended' /\ ZlibInv'
    BY <1>1, <1>10 DEF HeldInv, Ended, ZlibInv, vars, memory, disk
  <2>3. QED
    BY <2>1, <2>2 DEF Base
<1>11. QED
  BY <1>2, <1>3, <1>4, <1>5, <1>6, <1>7, <1>8, <1>9, <1>10 DEF Destructor

LEMMA StepKeepsBase == Base /\ [Next]_vars => Base'
BY PushesKeepBase, FlusherKeepsBase, ProcessKeepsBase DEF Next

\* Every variable has its type, and the flush thread that writes has a buffer.
THEOREM TypeCorrect == Spec => []TypeOK
<1>1. Base => TypeOK
  BY DEF Base
<1>2. QED
  BY <1>1, BaseInit, StepKeepsBase, PTL DEF Spec

-----------------------------------------------------------------------------
(* Where a buffer with events in it is.                                    *)

Located ==
    /\ NoneForgotten
    /\ main = "drain" => \A b \in Buffers : content[b] # <<>> => In(b, flushing)
    /\ main = "done" => \A b \in Buffers : content[b] = <<>>

LEMMA PushedLocated ==
    ASSUME Base, Located, NEW c \in [Buffers -> Seq(Events)], Pushed(c),
           \A b \in Buffers \ {current} : c[b] = content[b],
           held' = held \/ held = current
    PROVE  NoneForgotten'
<1>1. /\ flushing \in Seq(Buffers) /\ current \in Buffers /\ NoneForgotten
  BY DEF Base, TypeOK, Located
<1>2. /\ content' = c
      /\ \/ flushing' = Append(flushing, current)
         \/ flushing' = flushing /\ current' = current
  BY DEF Pushed
<1>3. \A b : In(b, Append(flushing, current)) <=> In(b, flushing) \/ b = current
  BY <1>1, OnAppend
<1>4. ASSUME NEW b \in Buffers, content'[b] # <<>>
      PROVE  b \in {current', held'} \/ In(b, flushing')
  <2>1. CASE b = current
    BY <1>2, <1>3, <2>1
  <2>2. CASE b # current
    <3>1. b = held \/ In(b, flushing)
      BY <1>1, <1>2, <1>4, <2>2 DEF NoneForgotten, In
    <3>2. QED
      BY <1>2, <1>3, <2>2, <3>1
  <2>3. QED
    BY <2>1, <2>2
<1>5. QED
  BY <1>4 DEF NoneForgotten, In

LEMMA StepKeepsLocated == Base /\ Located /\ [Next]_vars => Located'
<1> SUFFICES ASSUME Base, Located, [Next]_vars PROVE Located'
  OBVIOUS
<1>1. /\ TypeOK /\ HeldInv /\ Ended
      /\ content \in [Buffers -> Seq(Events)] /\ flushing \in Seq(Buffers)
      /\ current \in Buffers /\ held \in Buffers \cup {NoBuffer}
  BY DEF Base, TypeOK
<1>2. CASE AddEvent
  <2> DEFINE c == [content EXCEPT ![current] = Append(@, arrived + 1)]
  <2>1. Pushed(c) /\ held' = held /\ main = "run" /\ main' = "run"
    BY <1>2 DEF AddEvent
  <2>2. Append(content[current], arrived + 1) \in Seq(Events)
    BY <1>1, <1>2, OnAppend, ConstantsAssumption DEF TypeOK, Events, AddEvent
  <2>3. c \in [Buffers -> Seq(Events)] /\ \A b \in Buffers \ {current} : c[b] = content[b]
    BY <1>1, <2>2
  <2> HIDE DEF c
  <2>4. NoneForgotten'
    BY <2>1, <2>3, PushedLocated
  <2>5. QED
    BY <2>1, <2>4 DEF Located
<1>3. CASE TornPush
  <2>1. PICK torn : Pushed([content EXCEPT ![held] = torn])
    BY <1>3 DEF TornPush
  <2> DEFINE c == [content EXCEPT ![held] = torn]
  <2>2. content' = c /\ held = current /\ main = "run" /\ main' = "run"
    BY <1>3, <2>1 DEF TornPush, Pushed
  <2>3. content' \in [Buffers -> Seq(Events)]
    BY <1>3, PushesKeepBase DEF Base, TypeOK
  <2>4. c \in [Buffers -> Seq(Events)] /\ \A b \in Buffers \ {current} : c[b] = content[b]
    BY <1>1, <2>2, <2>3
  <2>5. Pushed(c)
    BY <2>1
  <2> HIDE DEF c
  <2>6. NoneForgotten'
    BY <2>2, <2>4, <2>5, PushedLocated
  <2>7. QED
    BY <2>2, <2>6 DEF Located
<1>4. CASE Take
  <2>1. \A b : In(b, flushing) <=> In(b, flushing') \/ b = held'
    BY <1>1, <1>4, OnTail DEF Take
  <2>2. held = NoBuffer /\ content' = content /\ current' = current /\ main' = main
        /\ main \notin {"drain", "done"}
    BY <1>1, <1>4 DEF Take, HeldInv, Ended
  <2>3. NoneForgotten'
    BY <2>1, <2>2, BufferTypes DEF Located, NoneForgotten, In
  <2>4. QED
    BY <2>2, <2>3 DEF Located
<1>5. CASE Clear
  <2>1. /\ held \in Buffers /\ content'[held] = <<>>
        /\ \A b \in Buffers \ {held} : content'[b] = content[b]
        /\ UNCHANGED <<flushing, current, main>>
        /\ main \notin {"drain", "done"}
    BY <1>1, <1>5 DEF Clear, HeldInv, Ended
  <2>2. NoneForgotten'
    BY <2>1 DEF Located, NoneForgotten
  <2>3. QED
    BY <2>1, <2>2 DEF Located
<1>6. CASE Age
  <2>1. /\ flushing = <<>> /\ flushing' = <<current>>
        /\ UNCHANGED <<content, held, main>>
        /\ main \notin {"drain", "done"}
    BY <1>1, <1>6 DEF Age, Ended
  <2>2. 1 \in DOMAIN flushing' /\ flushing'[1] = current
    BY <2>1
  <2>3. \A b \in Buffers : content[b] # <<>> => b \in {current, held}
    BY <2>1 DEF Located, NoneForgotten
  <2>4. NoneForgotten'
    BY <2>1, <2>2, <2>3 DEF NoneForgotten
  <2>5. QED
    BY <2>1, <2>4 DEF Located
<1>7. CASE QueueLast
  <2>1. /\ UNCHANGED <<content, current, held>> /\ main' = "drain"
        /\ held = NoBuffer
        /\ flushing' = IF content[current] = <<>> THEN flushing ELSE Append(flushing, current)
    BY <1>1, <1>7 DEF QueueLast, HeldInv
  <2>2. \A b : In(b, Append(flushing, current)) <=> In(b, flushing) \/ b = current
    BY <1>1, OnAppend
  <2>3. \A b \in Buffers : content[b] # <<>> => b = current \/ In(b, flushing)
    BY <2>1, BufferTypes DEF Located, NoneForgotten, In
  <2>4. \A b \in Buffers : content'[b] # <<>> => In(b, flushing')
    BY <2>1, <2>2, <2>3
  <2>5. QED
    BY <2>1, <2>4 DEF Located, NoneForgotten, In
<1>8. CASE Drain
  <2>1. /\ Head(flushing) \in Buffers
        /\ \A b : In(b, flushing) <=> In(b, flushing') \/ b = Head(flushing)
    BY <1>1, <1>8, OnTail DEF Drain
  <2>2. /\ main = "drain" /\ main' = "drain"
        /\ content'[Head(flushing)] = <<>>
        /\ \A b \in Buffers \ {Head(flushing)} : content'[b] = content[b]
    BY <1>1, <1>8, <2>1 DEF Drain
  <2>3. \A b \in Buffers : content'[b] # <<>> => In(b, flushing')
    BY <2>1, <2>2 DEF Located
  <2>4. QED
    BY <2>2, <2>3 DEF Located, NoneForgotten, In
<1>9. CASE Close
  <2>1. /\ main = "drain" /\ main' = "done" /\ flushing = <<>> /\ UNCHANGED memory
    BY <1>9 DEF Close
  <2>2. \A b \in Buffers : content[b] = <<>>
    BY <2>1, OnEmpty DEF Located
  <2>3. QED
    BY <2>1, <2>2 DEF Located, NoneForgotten, memory
<1>10. CASE Restart
  BY <1>10 DEF Restart, Located, NoneForgotten
<1>11. CASE \/ Reallocate \/ Shutdown \/ Midnight \/ Kill \/ UNCHANGED vars
            \/ Loop \/ Quit \/ Keep \/ Write \/ Sync
  <2>1. UNCHANGED memory /\ (main' = main \/ main' \in {"join", "down"})
    BY <1>11 DEF Reallocate, Shutdown, Midnight, Kill, vars, Loop, Quit, Keep, Write, Sync
  <2>2. QED
    BY <2>1 DEF Located, NoneForgotten, memory, In
<1>12. QED
  BY <1>2, <1>3, <1>4, <1>5, <1>6, <1>7, <1>8, <1>9, <1>10, <1>11
  DEF Next, Flusher, Old, Destructor

LEMMA LocatedInit == Init => Located
BY BufferTypes DEF Init, Located, NoneForgotten

\* A buffer with events in it is current, queued or in hand, also when the next buffer was
\* taken although it was queued or being written, when a push met the clear of the flush
\* thread, and at the moment the process is killed.
THEOREM NoBufferForgotten == Spec => []NoneForgotten
<1>1. Base /\ Located => NoneForgotten
  BY DEF Located
<1>2. QED
  BY <1>1, BaseInit, LocatedInit, StepKeepsBase, StepKeepsLocated, PTL DEF Spec

-----------------------------------------------------------------------------
(* What the files keep.                                                    *)

Logged(e) == In(e, older) \/ In(e, written)

LEMMA LoggedIsInFiles ==
    ASSUME Base, NEW e
    PROVE  Contains(Files, e) <=> Logged(e)
<1>1. older \in Seq(Events) /\ written \in Seq(Events)
  BY DEF Base, TypeOK
<1>2. Files \in Seq(Events) /\ (In(e, Files) <=> In(e, older) \/ In(e, written))
  BY <1>1, OnConcat DEF Files
<1>3. QED
  BY <1>2, InIsContains DEF Logged

\* What a step does to the files: a file grows, it is put away, or a restart on the day of
\* the last file erases it.
LEMMA StepOnFiles ==
    ASSUME Base, [Next]_vars, NEW e, Logged(e)
    PROVE  Logged(e)' \/ (fileDay = day /\ restarts' # restarts)
<1>1. /\ TypeOK /\ ZlibInv /\ restarts \in Nat
      /\ older \in Seq(Events) /\ written \in Seq(Events) /\ unsynced \in Seq(Events)
  BY ConstantsAssumption DEF Base, TypeOK
<1> DEFINE put == older \o written
<1>2. In(e, put)
  BY <1>1, OnConcat DEF Logged
<1>3. CASE Sync
  <2>1. written' = written \/ \A x : In(x, written) => In(x, written')
    <3>1. \A x : In(x, written) => In(x, written \o unsynced)
      BY <1>1, OnConcat
    <3>2. QED
      BY <1>3, <3>1 DEF Sync
  <2>2. QED
    BY <1>3, <2>1 DEF Sync, Logged
<1>4. CASE Drain
  <2>1. content[Head(flushing)] \in Seq(Events)
    BY <1>1, <1>4, OnTail DEF Drain, TypeOK
  <2>2. \A x : In(x, written) => In(x, written \o content[Head(flushing)])
    BY <1>1, <2>1, OnConcat
  <2>3. QED
    BY <1>4, <2>2 DEF Drain, Logged
<1>5. CASE Kill
  <2>1. PICK n \in 0..Len(unsynced) : written' = written \o SubSeq(unsynced, 1, n)
    BY <1>5 DEF Kill
  <2>2. SubSeq(unsynced, 1, n) \in Seq(Events)
    BY <1>1, OnPrefix
  <2>3. \A x : In(x, written) => In(x, written')
    BY <1>1, <2>1, <2>2, OnConcat
  <2>4. QED
    BY <1>5, <2>3 DEF Kill, Logged
<1>6. CASE Restart
  <2>1. restarts' # restarts
    BY <1>1, <1>6 DEF Restart
  <2>2. fileDay # day => older' = put
    BY <1>6 DEF Restart
  <2>3. QED
    BY <1>2, <2>1, <2>2 DEF Logged
<1>7. CASE Loop
  <2>1. (older' = older /\ written' = written) \/ older' = put
    BY <1>7 DEF Loop, NewFile, disk
  <2>2. QED
    BY <1>2, <2>1 DEF Logged
<1>8. CASE \/ AddEvent \/ TornPush \/ Reallocate \/ Shutdown \/ QueueLast \/ Close \/ Midnight
           \/ Take \/ Quit \/ Keep \/ Write \/ Clear \/ Age \/ UNCHANGED vars
  <2>1. older' = older /\ written' = written
    BY <1>8 DEF AddEvent, TornPush, Reallocate, Shutdown, QueueLast, Close, Midnight,
                Take, Quit, Keep, Write, Clear, Age, vars, disk
  <2>2. QED
    BY <2>1 DEF Logged
<1>9. QED
  BY <1>3, <1>4, <1>5, <1>6, <1>7, <1>8 DEF Next, Flusher, Old, Destructor

\* An event that reached a file is there after every step, midnights and kills included,
\* unless the daemon is started again on the day of that file.
THEOREM FilesKeep == Spec => OnlyRestartErases
<1> DEFINE A == \A e \in Events : Contains(Files, e) =>
                   Contains(Files', e) \/ (fileDay = day /\ restarts' # restarts)
<1>1. Base /\ [Next]_vars => A
  <2> SUFFICES ASSUME Base, [Next]_vars, NEW e \in Events, Contains(Files, e)
               PROVE  Contains(Files', e) \/ (fileDay = day /\ restarts' # restarts)
    OBVIOUS
  <2>1. Logged(e)
    BY LoggedIsInFiles
  <2>2. Base'
    BY StepKeepsBase
  <2>3. Logged(e)' => Contains(Files', e)
    <3>1. older' \in Seq(Events) /\ written' \in Seq(Events)
      BY <2>2 DEF Base, TypeOK
    <3>2. Files' \in Seq(Events)
          /\ (In(e, Files') <=> In(e, older') \/ In(e, written'))
      BY <3>1, OnConcat DEF Files
    <3>3. QED
      BY <3>2, InIsContains DEF Logged
  <2>4. QED
    BY <2>1, <2>3, StepOnFiles
<1> HIDE DEF A
<1>2. Spec => [][A]_vars
  BY <1>1, BaseInit, StepKeepsBase, PTL DEF Spec
<1>3. QED
  BY <1>2 DEF OnlyRestartErases, A

-----------------------------------------------------------------------------
(* An event of the present run is in one place.                            *)

Present == first..arrived

\* The buffer in hand is in the file as well before it is cleared, and when the process was
\* killed as gzflush wrote it.
Copied(b) == b = held /\ (flusher = "clear" \/ (flusher = "sync" /\ main = "down"))

\* No event is anywhere before it has arrived: a restart begins with new numbers.
Numbered ==
    \A e : Logged(e) \/ In(e, unsynced) \/ (\E b \in Buffers : In(e, content[b]))
             => e \in 1..arrived

Once ==
    /\ Uniq(Files, Present)
    /\ \A b \in Buffers : Uniq(content[b], Present)
    /\ \A b, c \in Buffers : b # c => Apart(content[b], content[c])

Somewhere ==
    /\ \A b \in Buffers : \A e : In(e, content[b]) => e \in Present
    /\ \A e \in Present : Logged(e) \/ \E b \in Buffers : In(e, content[b])

Separate ==
    /\ \A b \in Buffers : ~Copied(b) => \A e : ~(In(e, content[b]) /\ Logged(e))
    /\ flusher = "sync" => unsynced = content[held]
    /\ flusher = "clear" => \A e : In(e, content[held]) => Logged(e)

Accounted == excuses = {} => Once /\ Somewhere /\ Separate

LEMMA AccountInit == Init => Numbered /\ Accounted
<1> SUFFICES ASSUME Init PROVE Numbered /\ Accounted
  OBVIOUS
<1>1. /\ older = <<>> /\ written = <<>> /\ unsynced = <<>>
      /\ \A b \in Buffers : content[b] = <<>>
      /\ first = 1 /\ arrived = 0 /\ flusher = "top"
  BY DEF Init
<1>2. Files = <<>>
  BY <1>1, ConcatEmptySeq DEF Files
<1>3. \A e : ~Logged(e)
  BY <1>1, OnEmpty DEF Logged
<1>4. Numbered
  BY <1>1, <1>3, OnEmpty DEF Numbered
<1>5. Once
  BY <1>1, <1>2, OnEmpty DEF Once, Apart
<1>6. Somewhere
  <2>1. Present = {}
    BY <1>1 DEF Present
  <2>2. QED
    BY <1>1, <2>1, OnEmpty DEF Somewhere
<1>7. Separate
  BY <1>1, <1>3 DEF Separate
<1>8. QED
  BY <1>4, <1>5, <1>6, <1>7 DEF Accounted

\* Steps that move no event: they only change who has a buffer and where the threads are.
LEMMA Unmoved ==
    ASSUME UNCHANGED <<arrived, first, content, unsynced, Files>>,
           \A e : Logged(e)' <=> Logged(e),
           excuses' = {} => excuses = {},
           flusher' \in {"sync", "clear"} => flusher' = flusher /\ held' = held,
           flusher = "clear" => flusher' = "clear" /\ held' = held,
           flusher = "sync" /\ main = "down" => UNCHANGED <<flusher, held, main>>,
           Numbered, Accounted
    PROVE  Numbered' /\ Accounted'
<1>1. Numbered'
  BY DEF Numbered
<1>2. ASSUME excuses' = {} PROVE (Once /\ Somewhere /\ Separate)'
  <2>1. Once /\ Somewhere /\ Separate
    BY <1>2 DEF Accounted
  <2>2. Present' = Present
    BY DEF Present
  <2>3. Once' /\ Somewhere'
    BY <2>1, <2>2 DEF Once, Somewhere
  <2>4. \A b : Copied(b) => Copied(b)'
    BY DEF Copied
  <2>5. Separate'
    BY <2>1, <2>4 DEF Separate
  <2>6. QED
    BY <2>3, <2>5
<1>3. QED
  BY <1>1, <1>2 DEF Accounted

LEMMA FilesGrow ==
    ASSUME Base, NEW x \in Seq(Events), older' = older, written' = written \o x
    PROVE  /\ \A e : Logged(e)' <=> Logged(e) \/ In(e, x)
           /\ \A O : Uniq(Files, O) /\ Uniq(x, O) /\ (\A e : ~(In(e, x) /\ Logged(e)))
                       => Uniq(Files', O)
<1>1. older \in Seq(Events) /\ written \in Seq(Events)
  BY DEF Base, TypeOK
<1>2. /\ Files \in Seq(Events)
      /\ \A e : In(e, Files) <=> Logged(e)
  BY <1>1, OnConcat DEF Files, Logged
<1>3. Files' = Files \o x
  <2>1. (older \o written) \o x = older \o (written \o x)
    BY SMTT(30), <1>1, ConcatAssociative
  <2>2. QED
    BY <2>1 DEF Files
<1>4. \A e : In(e, written \o x) <=> In(e, written) \/ In(e, x)
  BY <1>1, OnConcat
<1>5. ASSUME NEW O, Uniq(Files, O), Uniq(x, O), \A e : ~(In(e, x) /\ Logged(e))
      PROVE  Uniq(Files', O)
  <2>1. Apart(Files, x)
    BY <1>2, <1>5 DEF Apart
  <2>2. Uniq(Files \o x, O)
    BY <1>2, <1>5, <2>1, OnConcat
  <2>3. QED
    BY <1>3, <2>2
<1>6. QED
  BY <1>4, <1>5 DEF Logged

\* A file that is put away is still a file.
LEMMA FilesPutAway ==
    ASSUME Base, older' = older \o written, written' = <<>>
    PROVE  Files' = Files /\ \A e : Logged(e)' <=> Logged(e)
<1>1. older \in Seq(Events) /\ written \in Seq(Events)
  BY DEF Base, TypeOK
<1>2. Files \in Seq(Events) /\ \A e : In(e, older \o written) <=> Logged(e)
  BY <1>1, OnConcat DEF Files, Logged
<1>3. Files' = Files
  BY <1>2, ConcatEmptySeq DEF Files
<1>4. \A e : Logged(e)' <=> Logged(e)
  BY <1>2, OnEmpty DEF Logged
<1>5. QED
  BY <1>3, <1>4

\* The steps that move no event.
LEMMA OthersKeepAccount ==
    ASSUME Base, Numbered, Accounted,
           \/ Loop /\ main # "down"
           \/ (Take \/ Quit \/ Keep \/ Age) /\ main # "down"
           \/ Shutdown \/ QueueLast \/ Close \/ Midnight \/ UNCHANGED vars
    PROVE  Numbered' /\ Accounted'
<1>1. HeldInv /\ Ended
  BY DEF Base
<1>2. CASE Loop /\ main # "down"
  <2>1. Files' = Files /\ \A e : Logged(e)' <=> Logged(e)
    <3>1. CASE NewFile
      BY <3>1, FilesPutAway DEF NewFile
    <3>2. CASE older' = older /\ written' = written
      BY <3>2 DEF Files, Logged
    <3>3. QED
      BY <1>2, <3>1, <3>2 DEF Loop, disk
  <2>2. /\ UNCHANGED <<arrived, first, content, unsynced>>
        /\ excuses' = {} => excuses = {}
        /\ flusher = "top" /\ flusher' \in {"done", "wait"}
    BY <1>2 DEF Loop, memory, disk, run
  <2>3. QED
    BY <2>1, <2>2, Unmoved
<1>3. CASE /\ (Take \/ Quit \/ Keep \/ Age) /\ main # "down"
  <2>1. /\ UNCHANGED <<arrived, first, content, unsynced, older, written, excuses>>
        /\ flusher \in {"wait", "relock"} /\ flusher' \notin {"sync", "clear"}
    BY <1>3 DEF Take, Quit, Keep, Age, memory, disk, run
  <2>2. Files' = Files /\ \A e : Logged(e)' <=> Logged(e)
    BY <2>1 DEF Files, Logged
  <2>3. QED
    BY <2>1, <2>2, Unmoved
<1>4. CASE Shutdown \/ QueueLast \/ Close \/ Midnight \/ UNCHANGED vars
  <2>1. /\ UNCHANGED <<arrived, first, content, unsynced, older, written, excuses, flusher, held>>
        /\ main = "down" => main' = "down"
    BY <1>4 DEF Shutdown, QueueLast, Close, Midnight, vars, memory, disk, run
  <2>2. Files' = Files /\ \A e : Logged(e)' <=> Logged(e)
    BY <2>1 DEF Files, Logged
  <2>3. QED
    BY <2>1, <2>2, Unmoved
<1>5. QED
  BY <1>2, <1>3, <1>4

\* The event that is pushed.
LEMMA PushesKeepAccount ==
    ASSUME Base, Numbered, Accounted, AddEvent \/ TornPush \/ Reallocate
    PROVE  Numbered' /\ Accounted'
<1> DEFINE new == arrived + 1
<1>1. /\ TypeOK /\ HeldInv
      /\ new \in Events /\ arrived \in Nat /\ first \in 1..new
      /\ arrived' = new
      /\ older' = older /\ written' = written /\ unsynced' = unsynced
      /\ first' = first
  <2>1. TypeOK /\ HeldInv
    BY DEF Base
  <2>2. /\ arrived < MaxEvents /\ arrived' = new
        /\ older' = older /\ written' = written /\ unsynced' = unsynced
        /\ first' = first
    BY DEF AddEvent, TornPush, Reallocate, disk, run
  <2>3. arrived \in Nat /\ first \in 1..(arrived + 1)
    BY <2>1 DEF TypeOK
  <2>4. new \in Events
    BY <2>2, <2>3, ConstantsAssumption DEF Events
  <2>5. QED
    BY <2>1, <2>2, <2>3, <2>4
<1>2. /\ Files' = Files /\ (\A e : Logged(e)' <=> Logged(e))
      /\ \A e \in 1..arrived : e \in 1..arrived' /\ e # new
  BY <1>1 DEF Files, Logged
<1>3. CASE AddEvent
  <2> DEFINE b0 == current
  <2>1. b0 \in Buffers /\ content[b0] \in Seq(Events)
    BY <1>1 DEF TypeOK
  <2>2. /\ content' = [content EXCEPT ![b0] = Append(@, new)]
        /\ UNCHANGED <<held, flusher, main>> /\ main = "run"
        /\ excuses' = {} => excuses = {} /\ b0 # held
    BY <1>3 DEF AddEvent, Pushed
  <2> HIDE DEF b0
  <2>3. /\ \A e : In(e, Append(content[b0], new)) <=> In(e, content[b0]) \/ e = new
        /\ \A O : Uniq(content[b0], O) /\ ~In(new, content[b0])
                    => Uniq(Append(content[b0], new), O)
    BY <1>1, <2>1, OnAppend
  <2>4. /\ content'[b0] = Append(content[b0], new)
        /\ \A b \in Buffers \ {b0} : content'[b] = content[b]
    BY <1>1, <2>1, <2>2 DEF TypeOK
  <2>5. \A b \in Buffers : \A e : In(e, content'[b]) <=> In(e, content[b]) \/ (b = b0 /\ e = new)
    BY <2>3, <2>4
  <2>6. Numbered'
    BY <1>1, <1>2, <2>5 DEF Numbered
  <2>7. /\ \A b \in Buffers : ~In(new, content[b])
        /\ ~Logged(new)
    BY <1>2 DEF Numbered
  <2>8. ASSUME excuses' = {} PROVE (Once /\ Somewhere /\ Separate)'
    <3>1. Once /\ Somewhere /\ Separate /\ b0 # held
      BY <2>2, <2>8 DEF Accounted
    <3>2. Present' = Present \cup {new} /\ new \notin Present
      BY <1>1 DEF Present
    <3>3. Uniq(Files, Present')
      <4>1. \A i \in DOMAIN Files : Files[i] # new
        <5>1. older \in Seq(Events) /\ written \in Seq(Events)
          BY <1>1 DEF TypeOK
        <5>2. In(new, Files) <=> Logged(new)
          BY <5>1, OnConcat DEF Files, Logged
        <5>3. QED
          BY <2>7, <5>2 DEF In
      <4>2. QED
        BY <3>1, <3>2, <4>1 DEF Once, Uniq
    <3>4. \A b \in Buffers : Uniq(content[b], Present')
      BY <2>7, <3>1, <3>2 DEF Once, Uniq, In
    <3>5. \A b \in Buffers : Uniq(content'[b], Present')
      BY <2>1, <2>3, <2>4, <2>7, <3>4
    <3>6. \A b, c \in Buffers : b # c => Apart(content'[b], content'[c])
      BY ZenonT(60), <2>5, <2>7, <3>1 DEF Once, Apart
    <3>7. Once'
      BY <1>2, <3>3, <3>5, <3>6 DEF Once
    <3>8. Somewhere'
      BY <1>2, <2>1, <2>5, <3>1, <3>2 DEF Somewhere
    <3>9. Separate'
      <4>1. \A b : Copied(b)' <=> Copied(b)
        BY <2>2 DEF Copied
      <4>2. \A b \in Buffers : ~Copied(b)' => \A e : ~(In(e, content'[b]) /\ Logged(e)')
        BY <1>2, <2>5, <2>7, <3>1, <4>1 DEF Separate
      <4>3. flusher' \in {"sync", "clear"} => held \in Buffers /\ content'[held] = content[held]
        BY <1>1, <2>2, <2>4, <3>1 DEF TypeOK
      <4>4. QED
        BY <1>1, <1>2, <2>2, <3>1, <4>2, <4>3 DEF Separate
    <3>10. QED
      BY <3>7, <3>8, <3>9
  <2>9. QED
    BY <2>6, <2>8 DEF Accounted
<1>4. CASE TornPush
  <2> DEFINE whole == Append(content[held], new)
  <2>1. held \in Buffers /\ content[held] \in Seq(Events)
    BY <1>1, <1>4 DEF TornPush, TypeOK
  <2>2. PICK torn \in {whole, <<Head(whole)>>} : content' = [content EXCEPT ![held] = torn]
    BY <1>4 DEF TornPush, Pushed
  <2>3. /\ \A e : In(e, whole) <=> In(e, content[held]) \/ e = new
        /\ In(Head(whole), whole)
    <3>1. /\ whole \in Seq(Events) /\ Len(whole) > 0
          /\ \A e : In(e, whole) <=> In(e, content[held]) \/ e = new
      BY <1>1, <2>1, OnAppend
    <3>2. whole # <<>>
      BY <1>1, <2>1, AppendProperties
    <3>3. QED
      BY <3>1, <3>2, OnTail
  <2>4. \A e : In(e, torn) => In(e, content[held]) \/ e = new
    <3>1. \A e : In(e, <<Head(whole)>>) => e = Head(whole)
      BY DEF In
    <3>2. QED
      BY <2>2, <2>3, <3>1
  <2>5. /\ content'[held] = torn
        /\ \A b \in Buffers \ {held} : content'[b] = content[b]
    BY <1>1, <2>1, <2>2 DEF TypeOK
  <2>6. Numbered'
    <3>1. \A b \in Buffers : \A e : In(e, content'[b]) => In(e, content[b]) \/ e = new
      BY <2>1, <2>4, <2>5
    <3>2. new \in 1..arrived'
      BY <1>1
    <3> HIDE DEF new
    <3>3. QED
      BY <1>1, <1>2, <3>1, <3>2 DEF Numbered
  <2>7. excuses' # {}
    BY <1>4 DEF TornPush
  <2>8. QED
    BY <2>6, <2>7 DEF Accounted
<1>5. CASE Reallocate
  <2>1. content' = content /\ excuses' # {}
    BY <1>5 DEF Reallocate, memory
  <2>2. Numbered'
    BY <1>1, <1>2, <2>1 DEF Numbered
  <2>3. QED
    BY <2>1, <2>2 DEF Accounted
<1>6. QED
  BY <1>3, <1>4, <1>5

\* gzflush, or as much of it as a kill leaves: the events x, of the buffer in hand.
LEMMA Passed ==
    ASSUME Base, Numbered, Accounted, NEW x \in Seq(Events),
           \A e : In(e, x) => In(e, unsynced),
           \A O : Uniq(unsynced, O) => Uniq(x, O),
           older' = older, written' = written \o x,
           UNCHANGED <<arrived, first, content, held>>,
           main # "down",
           excuses' = {} => excuses = {},
           \/ flusher = "sync" /\ flusher' = "clear" /\ unsynced' = <<>>
                /\ (excuses' = {} => x = unsynced)
           \/ main' = "down" /\ flusher' = flusher /\ unsynced' = unsynced
    PROVE  Numbered' /\ Accounted'
<1>1. /\ HeldInv /\ ZlibInv /\ Present' = Present
      /\ held \in Buffers \cup {NoBuffer}
      /\ \A e : Logged(e)' <=> Logged(e) \/ In(e, x)
      /\ \A O : Uniq(Files, O) /\ Uniq(x, O) /\ (\A e : ~(In(e, x) /\ Logged(e)))
                  => Uniq(Files', O)
  BY FilesGrow DEF Base, TypeOK, Present
<1>2. Numbered'
  <2>1. \A e : In(e, unsynced') => In(e, unsynced)
    BY OnEmpty
  <2>2. QED
    BY <1>1, <2>1 DEF Numbered
<1>3. ASSUME excuses' = {} PROVE (Once /\ Somewhere /\ Separate)'
  <2>1. Once /\ Somewhere /\ Separate
    BY <1>3 DEF Accounted
  <2>2. ASSUME NEW e, In(e, x)
        PROVE  flusher = "sync" /\ held \in Buffers /\ In(e, content[held]) /\ ~Logged(e)
    <3>1. flusher = "sync" /\ held \in Buffers
      BY <1>1, <2>2, OnEmpty DEF ZlibInv, HeldInv
    <3>2. ~Copied(held) /\ unsynced = content[held]
      BY <2>1, <3>1 DEF Copied, Separate
    <3>3. QED
      BY <2>1, <2>2, <3>1, <3>2 DEF Separate
  <2>3. Uniq(x, Present)
    <3>1. CASE flusher = "sync"
      <4>1. Uniq(unsynced, Present)
        BY <1>1, <2>1, <3>1 DEF HeldInv, Once, Separate
      <4>2. QED
        BY <4>1
    <3>2. CASE flusher # "sync"
      BY <1>1, <3>2, OnEmpty DEF ZlibInv
    <3>3. QED
      BY <3>1, <3>2
  <2>4. Once'
    <3>1. Uniq(Files', Present)
      BY <1>1, <2>1, <2>2, <2>3 DEF Once
    <3>2. QED
      BY <1>1, <2>1, <3>1 DEF Once
  <2>5. Somewhere'
    BY <1>1, <2>1 DEF Somewhere
  <2>6. ASSUME NEW b \in Buffers, ~Copied(b)', NEW e, In(e, content[b])
        PROVE  ~Logged(e)'
    <3>1. ~Logged(e)
      BY <2>1, <2>6 DEF Separate, Copied
    <3>2. In(e, x) => b = held
      BY <2>1, <2>2, <2>6 DEF Once, Apart
    <3>3. ~In(e, x)
      BY <2>2, <2>6, <3>2 DEF Copied
    <3>4. QED
      BY <1>1, <3>1, <3>3
  <2>7. flusher' = "sync" => unsynced' = content'[held']
    BY <2>1 DEF Separate
  <2>8. flusher' = "clear" => \A e : In(e, content'[held']) => Logged(e)'
    BY <1>1, <1>3, <2>1 DEF Separate
  <2>9. Separate'
    BY <2>6, <2>7, <2>8 DEF Separate
  <2>10. QED
    BY <2>4, <2>5, <2>9
<1>4. QED
  BY <1>2, <1>3 DEF Accounted

\* The flush thread with a buffer in hand.
LEMMA FlushKeepsAccount ==
    ASSUME Base, Numbered, Accounted, Write \/ Sync \/ Clear, main # "down"
    PROVE  Numbered' /\ Accounted'
<1>1. /\ TypeOK /\ HeldInv /\ ZlibInv
      /\ unsynced \in Seq(Events) /\ written \in Seq(Events)
      /\ flusher \in {"write", "sync", "clear"} => held \in Buffers
  BY DEF Base, TypeOK, HeldInv
<1>2. CASE Write
  <2>1. /\ UNCHANGED <<arrived, first, content, held, older, written>>
        /\ flusher = "write" /\ held \in Buffers
        /\ \/ /\ unsynced' = content[held] /\ flusher' = "sync" /\ main' = main
              /\ excuses' = excuses
           \/ excuses' # {} /\ unsynced' = unsynced
    BY <1>1, <1>2 DEF Write, memory, run
  <2>2. /\ Files' = Files /\ (\A e : Logged(e)' <=> Logged(e)) /\ Present' = Present
    BY <2>1 DEF Files, Logged, Present
  <2>3. Numbered'
    BY <2>1, <2>2 DEF Numbered
  <2>4. ASSUME excuses' = {} PROVE (Once /\ Somewhere /\ Separate)'
    <3>1. Once /\ Somewhere /\ Separate
      BY <2>1, <2>4 DEF Accounted
    <3>2. Once' /\ Somewhere'
      BY <2>1, <2>2, <3>1 DEF Once, Somewhere
    <3>3. \A b : ~Copied(b)
      BY <2>1 DEF Copied
    <3>4. Separate'
      BY <2>1, <2>2, <2>4, <3>1, <3>3 DEF Separate
    <3>5. QED
      BY <3>2, <3>4
  <2>5. QED
    BY <2>3, <2>4 DEF Accounted
<1>3. CASE Sync
  <2>1. /\ UNCHANGED <<arrived, first, content, held, older>>
        /\ flusher = "sync" /\ flusher' = "clear" /\ unsynced' = <<>>
        /\ \/ written' = written \o unsynced /\ excuses' = excuses
           \/ written' = written \o <<>> /\ excuses' # {}
    <3>1. written = written \o <<>>
      BY <1>1, ConcatEmptySeq
    <3>2. QED
      BY <1>3, <3>1 DEF Sync, memory, run
  <2>2. CASE written' = written \o unsynced /\ excuses' = excuses
    BY <1>1, <2>1, <2>2, Passed
  <2>3. CASE written' = written \o <<>> /\ excuses' # {}
    <3>1. <<>> \in Seq(Events) /\ (\A e : ~In(e, <<>>)) /\ \A O : Uniq(<<>>, O)
      BY OnEmpty
    <3>2. QED
      BY <2>1, <2>3, <3>1, Passed
  <2>4. QED
    BY <2>1, <2>2, <2>3
<1>4. CASE Clear
  <2>1. /\ UNCHANGED <<arrived, first, older, written, unsynced, excuses>>
        /\ flusher = "clear" /\ flusher' = "relock" /\ held \in Buffers
        /\ content'[held] = <<>>
        /\ \A b \in Buffers \ {held} : content'[b] = content[b]
    BY <1>1, <1>4 DEF Clear, TypeOK, disk, run
  <2>2. /\ Files' = Files /\ (\A e : Logged(e)' <=> Logged(e)) /\ Present' = Present
        /\ \A b \in Buffers : \A e : In(e, content'[b]) <=> b # held /\ In(e, content[b])
    BY <2>1, OnEmpty DEF Files, Logged, Present
  <2>3. Numbered'
    BY <2>1, <2>2 DEF Numbered
  <2>4. ASSUME excuses' = {} PROVE (Once /\ Somewhere /\ Separate)'
    <3>1. Once /\ Somewhere /\ Separate
      BY <2>1, <2>4 DEF Accounted
    <3>2. \A b \in Buffers : Uniq(content'[b], Present)
      BY <2>1, <3>1, OnEmpty DEF Once
    <3>3. \A b, c \in Buffers : b # c => Apart(content'[b], content'[c])
      BY <2>2, <3>1 DEF Once, Apart
    <3>4. Once'
      BY <2>2, <3>1, <3>2, <3>3 DEF Once
    <3>5. Somewhere'
      BY <2>1, <2>2, <3>1 DEF Somewhere, Separate
    <3>6. Separate'
      BY <2>1, <2>2, <3>1 DEF Separate, Copied
    <3>7. QED
      BY <3>4, <3>5, <3>6
  <2>5. QED
    BY <2>3, <2>4 DEF Accounted
<1>5. QED
  BY <1>2, <1>3, <1>4

\* The destructor's writing.
LEMMA DrainKeepsAccount ==
    ASSUME Base, Numbered, Accounted, Drain PROVE Numbered' /\ Accounted'
<1> DEFINE h == Head(flushing)
<1>1. /\ TypeOK /\ Ended /\ h \in Buffers /\ flusher = "done" /\ flusher' = "done"
      /\ content[h] \in Seq(Events) /\ written \in Seq(Events)
      /\ UNCHANGED <<arrived, first, held, older, unsynced>>
      /\ Present' = Present
  BY OnTail DEF Base, TypeOK, Ended, Drain, run, Present
<1>2. /\ content'[h] = <<>>
      /\ \A b \in Buffers \ {h} : content'[b] = content[b]
      /\ \/ written' = written \o content[h] /\ excuses' = excuses
         \/ written' = written /\ excuses' # {}
  BY <1>1 DEF Drain, TypeOK
<1> HIDE DEF h
<1>3. \A b \in Buffers : \A e : In(e, content'[b]) <=> b # h /\ In(e, content[b])
  BY <1>2, OnEmpty
<1>4. CASE written' = written \o content[h] /\ excuses' = excuses
  <2>1. /\ \A e : Logged(e)' <=> Logged(e) \/ In(e, content[h])
        /\ \A O : Uniq(Files, O) /\ Uniq(content[h], O)
                    /\ (\A e : ~(In(e, content[h]) /\ Logged(e))) => Uniq(Files', O)
    BY <1>1, <1>4, FilesGrow
  <2>2. Numbered'
    BY <1>1, <1>3, <2>1 DEF Numbered
  <2>3. ASSUME excuses' = {} PROVE (Once /\ Somewhere /\ Separate)'
    <3>1. Once /\ Somewhere /\ Separate
      BY <1>4, <2>3 DEF Accounted
    <3>2. \A b \in Buffers : \A e : ~(In(e, content[b]) /\ Logged(e))
      BY <1>1, <3>1 DEF Separate, Copied
    <3>3. Uniq(Files', Present)
      BY <1>1, <2>1, <3>1, <3>2 DEF Once
    <3>4. \A b \in Buffers : Uniq(content'[b], Present)
      BY <1>2, <3>1, OnEmpty DEF Once
    <3>5. \A b, c \in Buffers : b # c => Apart(content'[b], content'[c])
      BY <1>3, <3>1 DEF Once, Apart
    <3>6. Once'
      BY <1>1, <3>3, <3>4, <3>5 DEF Once
    <3>7. Somewhere'
      BY <1>1, <1>3, <2>1, <3>1 DEF Somewhere
    <3>8. \A b \in Buffers \ {h} : Apart(content[b], content[h])
      BY <1>1, <3>1 DEF Once
    <3>9. \A b \in Buffers : \A e : ~(In(e, content'[b]) /\ Logged(e)')
      BY <1>3, <2>1, <3>2, <3>8 DEF Apart
    <3>10. Separate'
      BY <1>1, <3>9 DEF Separate
    <3>11. QED
      BY <3>6, <3>7, <3>10
  <2>4. QED
    BY <2>2, <2>3 DEF Accounted
<1>5. CASE written' = written /\ excuses' # {}
  <2>1. \A e : Logged(e)' <=> Logged(e)
    BY <1>1, <1>5 DEF Logged
  <2>2. Numbered'
    BY <1>1, <1>3, <2>1 DEF Numbered
  <2>3. QED
    BY <1>5, <2>2 DEF Accounted
<1>6. QED
  BY <1>2, <1>4, <1>5

LEMMA KillKeepsAccount ==
    ASSUME Base, Numbered, Accounted, Kill PROVE Numbered' /\ Accounted'
<1>1. PICK n \in 0..Len(unsynced) : written' = written \o SubSeq(unsynced, 1, n)
  BY DEF Kill
<1>2. unsynced \in Seq(Events)
  BY DEF Base, TypeOK
<1>3. /\ SubSeq(unsynced, 1, n) \in Seq(Events)
      /\ \A e : In(e, SubSeq(unsynced, 1, n)) => In(e, unsynced)
      /\ \A O : Uniq(unsynced, O) => Uniq(SubSeq(unsynced, 1, n), O)
  BY <1>2, OnPrefix
<1>4. /\ UNCHANGED <<arrived, first, content, held, older, unsynced, flusher, excuses>>
      /\ main # "down" /\ main' = "down"
  BY DEF Kill, memory, run
<1>5. QED
  BY <1>1, <1>3, <1>4, Passed

\* The next run has no events yet, and the files none of its numbers.
LEMMA RestartKeepsAccount ==
    ASSUME Base, Numbered, Accounted, Restart PROVE Numbered' /\ Accounted'
<1>1. /\ older \in Seq(Events) /\ written \in Seq(Events) /\ arrived \in Nat
      /\ older' \in {older, older \o written} /\ written' = <<>> /\ unsynced' = <<>>
      /\ arrived' = arrived /\ first' = arrived + 1 /\ flusher' = "top"
      /\ \A b \in Buffers : content'[b] = <<>>
  BY DEF Base, TypeOK, Restart
<1>2. \A e : In(e, older') => Logged(e)
  <2>1. \A e : In(e, older \o written) <=> In(e, older) \/ In(e, written)
    BY <1>1, OnConcat
  <2>2. older' = older \/ older' = older \o written
    BY <1>1
  <2>3. QED
    BY <2>1, <2>2 DEF Logged
<1>3. \A e : Logged(e)' => Logged(e)
  BY <1>1, <1>2, OnEmpty DEF Logged
<1>4. Numbered'
  BY <1>1, <1>3, OnEmpty DEF Numbered
<1>5. Present' = {}
  BY <1>1 DEF Present
<1>6. Once' /\ Somewhere' /\ Separate'
  <2>1. \A b \in Buffers : \A e : ~In(e, content'[b])
    BY <1>1, OnEmpty
  <2>2. \A s : Uniq(s, Present')
    BY <1>5 DEF Uniq
  <2>3. Once'
    BY <2>1, <2>2 DEF Once, Apart
  <2>4. Somewhere'
    BY <1>5, <2>1 DEF Somewhere
  <2>5. Separate'
    BY <1>1, <2>1 DEF Separate
  <2>6. QED
    BY <2>3, <2>4, <2>5
<1>7. QED
  BY <1>4, <1>6 DEF Accounted

LEMMA StepKeepsAccount ==
    Base /\ Numbered /\ Accounted /\ [Next]_vars => Numbered' /\ Accounted'
<1> SUFFICES ASSUME Base, Numbered, Accounted, [Next]_vars PROVE Numbered' /\ Accounted'
  OBVIOUS
<1>1. CASE AddEvent \/ TornPush \/ Reallocate
  BY <1>1, PushesKeepAccount
<1>2. CASE Flusher \/ Old
  BY <1>2, OthersKeepAccount, FlushKeepsAccount DEF Flusher, Old
<1>3. CASE Drain
  BY <1>3, DrainKeepsAccount
<1>4. CASE Kill
  BY <1>4, KillKeepsAccount
<1>5. CASE Restart
  BY <1>5, RestartKeepsAccount
<1>6. CASE Shutdown \/ QueueLast \/ Close \/ Midnight \/ UNCHANGED vars
  BY <1>6, OthersKeepAccount
<1>7. QED
  BY <1>1, <1>2, <1>3, <1>4, <1>5, <1>6 DEF Next, Destructor

\* As long as no push met the flush thread and the disk works, an event the present run
\* accepted is once in the files or once in the buffers, also at the moment the process
\* is killed, and it is in a file after the destructor has returned.
THEOREM EventsConserved == Spec => []Conserved
<1>1. Base /\ Located /\ Accounted => Conserved
  <2> SUFFICES ASSUME Base, Located, Accounted, excuses = {}, NEW e \in first..arrived
      PROVE  /\ \A i, j \in DOMAIN Files : Files[i] = e /\ Files[j] = e => i = j
             /\ \A b \in Buffers \ (IF flusher \in {"sync", "clear"} THEN {held} ELSE {}) :
                   Contains(content[b], e) => ~Contains(Files, e)
             /\ Contains(Files, e)
                  \/ (main # "done" /\ \E b \in Buffers : Contains(content[b], e))
    BY DEF Conserved
  <2>1. /\ Once /\ Somewhere /\ Separate /\ e \in Present
        /\ Contains(Files, e) <=> Logged(e)
        /\ \A b \in Buffers : content[b] \in Seq(Events)
    BY LoggedIsInFiles DEF Accounted, Base, TypeOK, Present
  <2>2. \A b \in Buffers : Contains(content[b], e) <=> In(e, content[b])
    BY <2>1, InIsContains
  <2>3. \A i, j \in DOMAIN Files : Files[i] = e /\ Files[j] = e => i = j
    BY <2>1 DEF Once, Uniq
  <2>4. ASSUME NEW b \in Buffers \ (IF flusher \in {"sync", "clear"} THEN {held} ELSE {})
        PROVE  Contains(content[b], e) => ~Contains(Files, e)
    <3>1. ~Copied(b)
      BY <2>4 DEF Copied
    <3>2. QED
      BY <2>1, <2>2, <3>1 DEF Separate
  <2>5. main = "done" => \A b \in Buffers : ~In(e, content[b])
    BY OnEmpty DEF Located
  <2>6. Contains(Files, e) \/ (main # "done" /\ \E b \in Buffers : Contains(content[b], e))
    BY <2>1, <2>2, <2>5 DEF Somewhere
  <2>7. QED
    BY <2>3, <2>4, <2>6
<1>2. QED
  BY <1>1, BaseInit, LocatedInit, AccountInit, StepKeepsBase, StepKeepsLocated,
     StepKeepsAccount, PTL DEF Spec

-----------------------------------------------------------------------------
(* The logger implements DayLog: which of its steps write, and what.       *)

LEMMA OnSuffix ==
    ASSUME NEW S, NEW s \in Seq(S), NEW t \in Seq(S)
    PROVE  SubSeq(s \o t, Len(s) + 1, Len(s \o t)) = t
<1> DEFINE u == s \o t
           v == SubSeq(u, Len(s) + 1, Len(u))
<1>1. /\ u \in Seq(S) /\ Len(s) \in Nat /\ Len(t) \in Nat
      /\ Len(u) = Len(s) + Len(t)
      /\ \A i \in 1..(Len(s) + Len(t)) : u[i] = IF i <= Len(s) THEN s[i] ELSE t[i - Len(s)]
  BY ConcatProperties, LenProperties
<1> HIDE DEF u
<1>2. \A i \in (Len(s) + 1)..Len(u) : u[i] \in S
  BY <1>1, ElementOfSeq
<1>3. /\ v \in Seq(S)
      /\ Len(v) = IF Len(s) + 1 <= Len(u) THEN Len(u) - (Len(s) + 1) + 1 ELSE 0
      /\ \A i \in 1..(Len(u) - (Len(s) + 1) + 1) : v[i] = u[(Len(s) + 1) + i - 1]
  BY <1>1, <1>2, SubSeqProperties
<1> HIDE DEF v
<1>4. Len(v) = Len(t)
  BY <1>1, <1>3
<1>5. ASSUME NEW i \in 1..Len(t) PROVE v[i] = t[i]
  <2> DEFINE k == (Len(s) + 1) + i - 1
  <2>1. /\ i \in 1..(Len(u) - (Len(s) + 1) + 1)
        /\ k \in 1..(Len(s) + Len(t)) /\ ~(k <= Len(s)) /\ k - Len(s) = i
    BY <1>1
  <2>2. v[i] = u[k]
    BY <1>3, <2>1
  <2> HIDE DEF k
  <2>3. u[k] = t[k - Len(s)]
    BY <1>1, <2>1
  <2>4. QED
    BY <2>1, <2>2, <2>3
<1>6. v = t
  BY <1>3, <1>4, <1>5, SeqEqual
<1>7. QED
  BY <1>6 DEF u, v

\* What the file grows by is what DayLog takes it to be.
LEMMA FileGrows ==
    ASSUME Base, NEW x \in Seq(Events), written' = written \o x
    PROVE  Log!Added = x /\ Log!Grows
<1>1. written \in Seq(Events)
  BY DEF Base, TypeOK
<1>2. Log!Added = x
  BY <1>1, OnSuffix DEF Log!Added
<1>3. QED
  BY <1>2 DEF Log!Grows

Kept(e) == \E b \in Buffers : In(e, content[b])

LEMMA ContainsIsIn ==
    ASSUME NEW c \in [Buffers -> Seq(Events)], NEW o \in Seq(Events), NEW w \in Seq(Events), NEW e
    PROVE  /\ Contains(o \o w, e) <=> In(e, o) \/ In(e, w)
           /\ \A b \in Buffers : Contains(c[b], e) <=> In(e, c[b])
<1>1. o \o w \in Seq(Events) /\ (In(e, o \o w) <=> In(e, o) \/ In(e, w))
  BY OnConcat
<1>2. QED
  BY <1>1, InIsContains

LEMMA PendingIs ==
    ASSUME Base, NEW e
    PROVE  e \in Pending <=> e \in 1..arrived /\ main # "down" /\ ~Logged(e) /\ Kept(e)
<1>1. content \in [Buffers -> Seq(Events)] /\ older \in Seq(Events) /\ written \in Seq(Events)
  BY DEF Base, TypeOK
<1>2. QED
  BY <1>1, ContainsIsIn DEF Pending, Files, Logged, Kept

LEMMA PendingIsNext ==
    ASSUME Base', NEW e
    PROVE  e \in Pending' <=> e \in 1..arrived' /\ main' # "down" /\ ~Logged(e)' /\ Kept(e)'
<1>1. content' \in [Buffers -> Seq(Events)] /\ older' \in Seq(Events) /\ written' \in Seq(Events)
  BY DEF Base, TypeOK
<1>2. QED
  BY <1>1, ContainsIsIn DEF Pending, Files, Logged, Kept

\* A step that leaves the files and the memory alone.
LEMMA PendingKept ==
    ASSUME Base, Base', UNCHANGED arrived,
           main = "down" <=> main' = "down",
           \A e : Logged(e)' <=> Logged(e),
           \A e : Kept(e)' \/ Logged(e) <=> Kept(e) \/ Logged(e)
    PROVE  Pending' = Pending
<1>1. \A e : e \in Pending' <=> e \in Pending
  BY PendingIs, PendingIsNext
<1>2. QED
  BY <1>1

Up == main \notin {"down", "done"}

\* Of a sound process, x may go to the file if its events are in one buffer and in no file.
LEMMA WritesPending ==
    ASSUME Base, Numbered, Once, Somewhere, Up,
           NEW x \in Seq(Events), written' = written \o x, UNCHANGED older,
           Uniq(x, Present),
           \A e : In(e, x) => Kept(e) /\ ~Logged(e)
    PROVE  /\ Log!Writes
           /\ Log!Added = x
           /\ \A e : e \in Log!Range(x) <=> In(e, x)
           /\ \A e : Logged(e)' <=> Logged(e) \/ In(e, x)
<1>1. Log!Added = x /\ Log!Grows
  BY FileGrows
<1>2. \A e : e \in Log!Range(x) <=> In(e, x)
  BY DEF Log!Range, In
<1>3. \A e : Logged(e)' <=> Logged(e) \/ In(e, x)
  BY FilesGrow
<1>4. \A e : In(e, x) => e \in Pending
  BY PendingIs DEF Up, Numbered, Kept
<1>5. Log!IsInjective(x)
  <2>1. \A i \in DOMAIN x : x[i] \in Present
    BY DEF Somewhere, Kept, In
  <2>2. QED
    BY <2>1 DEF Uniq, Log!IsInjective
<1>6. Log!Range(x) \subseteq Pending
  BY <1>2, <1>4
<1>7. Log!Writes
  BY <1>1, <1>5, <1>6 DEF Log!Writes
<1>8. QED
  BY <1>1, <1>2, <1>3, <1>7


\* After a race or a failure of the disk: files grow.
LEMMA SpoiltStep ==
    ASSUME Base, Base', Up, excuses' # {},
           arrived' \in {arrived, arrived + 1},
           UNCHANGED <<older, day, fileDay>>,
           NEW x \in Seq(Events), written' = written \o x
    PROVE  Log!Spoil
<1>1. Log!Grows
  BY FileGrows
<1>2. arrived \in Nat /\ arrived' \in Nat /\ arrived' <= MaxEvents
  BY ConstantsAssumption DEF Base, TypeOK
<1>3. arrived' \in arrived..MaxEvents
  BY <1>2, ConstantsAssumption
<1>4. Pending' \subseteq 1..arrived'
  BY DEF Pending
<1>5. QED
  BY <1>1, <1>3, <1>4 DEF Log!Spoil, Up

\* The steps that leave the file of the moment in its place.
Staying ==
    \/ AddEvent \/ TornPush \/ Reallocate \/ Shutdown \/ Destructor \/ Kill
    \/ /\ main # "down"
       /\ \/ Take \/ Quit \/ Keep \/ Write \/ Sync \/ Clear \/ Age
          \/ Loop /\ UNCHANGED <<written, older, fileDay>>

LEMMA StayingAppends ==
    ASSUME Base, Staying
    PROVE  /\ Up
           /\ arrived' \in {arrived, arrived + 1}
           /\ UNCHANGED <<older, day, fileDay>>
           /\ \E x \in Seq(Events) : written' = written \o x
<1>1. TypeOK /\ Ended /\ written \in Seq(Events) /\ unsynced \in Seq(Events)
  BY DEF Base, TypeOK
<1>2. <<>> \in Seq(Events) /\ written = written \o <<>>
  BY <1>1, ConcatEmptySeq, EmptySeq
<1>3. CASE Sync /\ main # "down"
  BY <1>1, <1>2, <1>3 DEF Sync, Ended, Up, memory, run
<1>4. CASE Drain
  <2>1. content[Head(flushing)] \in Seq(Events)
    BY <1>1, <1>4, OnTail DEF Drain, TypeOK
  <2>2. QED
    BY <1>1, <1>2, <1>4, <2>1 DEF Drain, Up
<1>5. CASE Kill
  <2>1. PICK n \in 0..Len(unsynced) : written' = written \o SubSeq(unsynced, 1, n)
    BY <1>5 DEF Kill
  <2>2. SubSeq(unsynced, 1, n) \in Seq(Events)
    BY <1>1, OnPrefix
  <2>3. QED
    BY <1>5, <2>1, <2>2 DEF Kill, Up
<1>6. CASE AddEvent \/ TornPush \/ Reallocate \/ Shutdown \/ QueueLast \/ Close
  BY <1>2, <1>6 DEF AddEvent, TornPush, Reallocate, Shutdown, QueueLast, Close, disk, Up
<1>7. CASE /\ main # "down"
           /\ \/ Take \/ Quit \/ Keep \/ Write \/ Clear \/ Age
              \/ Loop /\ UNCHANGED <<written, older, fileDay>>
  <2>1. UNCHANGED <<written, older, fileDay, day, arrived, main>> /\ flusher # "done"
    BY <1>7 DEF Take, Quit, Keep, Write, Clear, Age, Loop, disk
  <2>2. QED
    BY <1>1, <1>2, <1>7, <2>1 DEF Ended, Up
<1>8. QED
  BY <1>3, <1>4, <1>5, <1>6, <1>7 DEF Staying, Destructor

\* A step moves no event between memory and files, or it is one of DayLog.
LEMMA SoundStep ==
    ASSUME Base, Base', Located, Numbered, Accounted, Staying, excuses = {}, excuses' = {}
    PROVE  [Log!Next]_(Log!vars)
<1>1. /\ Once /\ Somewhere /\ Separate /\ Up
      /\ TypeOK /\ HeldInv /\ ZlibInv /\ Ended
      /\ content \in [Buffers -> Seq(Events)] /\ unsynced \in Seq(Events)
      /\ UNCHANGED <<older, day, fileDay>>
  BY StayingAppends DEF Accounted, Base, TypeOK
<1>2. CASE AddEvent
  <2> DEFINE new == arrived + 1
  <2>1. /\ current \in Buffers /\ content[current] \in Seq(Events)
        /\ new \in Events /\ arrived \in Nat
    BY <1>1, <1>2, ConstantsAssumption DEF AddEvent, TypeOK, Events
  <2>2. /\ content'[current] = Append(content[current], new)
        /\ \A b \in Buffers \ {current} : content'[b] = content[b]
        /\ arrived' = new /\ arrived < MaxEvents /\ main' = "run" /\ main = "run"
        /\ UNCHANGED <<written, older>>
    BY <1>1, <1>2, <2>1 DEF AddEvent, Pushed, disk
  <2>3. \A e : In(e, Append(content[current], new)) <=> In(e, content[current]) \/ e = new
    BY <2>1, OnAppend
  <2>4. \A e : Kept(e)' <=> Kept(e) \/ e = new
    BY <2>1, <2>2, <2>3 DEF Kept
  <2>5. ~Logged(new) /\ \A e : Logged(e)' <=> Logged(e)
    BY <2>1, <2>2 DEF Numbered, Logged
  <2>6. \A e : e \in 1..new <=> e \in 1..arrived \/ e = new
    BY <2>1
  <2>7. Pending' = Pending \cup {new}
    <3>1. \A e : e \in Pending' <=> e \in Pending \/ e = new
      BY <2>2, <2>4, <2>5, <2>6, PendingIs, PendingIsNext
    <3>2. QED
      BY <3>1
  <2>8. Log!Accept
    BY <1>1, <2>2, <2>7 DEF Log!Accept, Log!log
  <2>9. QED
    BY <2>8 DEF Log!Next
<1>3. CASE Sync /\ main # "down"
  <2>1. /\ flusher = "sync" /\ held \in Buffers /\ unsynced = content[held]
        /\ UNCHANGED <<arrived, content, main>>
        /\ written' = written \o unsynced
    BY <1>1, <1>3 DEF Sync, HeldInv, TypeOK, Separate, memory, run
  <2>2. \A e : In(e, unsynced) => Kept(e) /\ ~Logged(e)
    BY <1>1, <1>3, <2>1 DEF Separate, Copied, Kept
  <2>3. Uniq(unsynced, Present)
    BY <1>1, <2>1 DEF Once
  <2>4. /\ Log!Writes /\ Log!Added = unsynced
        /\ \A e : e \in Log!Range(unsynced) <=> In(e, unsynced)
        /\ \A e : Logged(e)' <=> Logged(e) \/ In(e, unsynced)
    BY <1>1, <2>1, <2>2, <2>3, WritesPending
  <2>5. Pending' = Pending \ Log!Range(unsynced)
    <3>1. \A e : Kept(e)' <=> Kept(e)
      BY <2>1 DEF Kept
    <3>2. \A e : e \in Pending' <=> e \in Pending /\ ~In(e, unsynced)
      BY <2>1, <2>4, <3>1, PendingIs, PendingIsNext
    <3>3. QED
      BY <2>4, <3>2
  <2>6. Log!Deliver
    BY <1>1, <2>1, <2>4, <2>5 DEF Log!Deliver, Up
  <2>7. QED
    BY <2>6 DEF Log!Next
<1>4. CASE Drain
  <2> DEFINE h == Head(flushing)
  <2>1. h \in Buffers /\ content[h] \in Seq(Events)
    BY <1>1, <1>4, OnTail DEF Drain, TypeOK
  <2>2. /\ content'[h] = <<>>
        /\ \A b \in Buffers \ {h} : content'[b] = content[b]
        /\ written' = written \o content[h]
        /\ UNCHANGED <<arrived, main>> /\ flusher = "done"
    BY <1>1, <1>4, <2>1 DEF Drain, Ended, run
  <2> HIDE DEF h
  <2>3. \A e : In(e, content[h]) => Kept(e) /\ ~Logged(e)
    BY <1>1, <2>1, <2>2 DEF Separate, Copied, Kept
  <2>4. Uniq(content[h], Present)
    BY <1>1, <2>1 DEF Once
  <2>5. /\ Log!Writes /\ Log!Added = content[h]
        /\ \A e : e \in Log!Range(content[h]) <=> In(e, content[h])
        /\ \A e : Logged(e)' <=> Logged(e) \/ In(e, content[h])
    BY <1>1, <2>1, <2>2, <2>3, <2>4, WritesPending
  <2>6. Pending' = Pending \ Log!Range(content[h])
    <3>1. \A e : Kept(e)' \/ In(e, content[h]) <=> Kept(e)
      BY <2>1, <2>2, OnEmpty DEF Kept
    <3>2. \A e : e \in Pending' <=> e \in Pending /\ ~In(e, content[h])
      BY <2>2, <2>5, <3>1, PendingIs, PendingIsNext
    <3>3. QED
      BY <2>5, <3>2
  <2>7. Log!Deliver
    BY <1>1, <2>2, <2>5, <2>6 DEF Log!Deliver, Up
  <2>8. QED
    BY <2>7 DEF Log!Next
<1>5. CASE Close
  <2>1. /\ main = "drain" /\ main' = "done" /\ flushing = <<>>
        /\ UNCHANGED <<arrived, content, written>>
    BY <1>5 DEF Close, memory
  <2>2. \A e : ~Kept(e)
    BY <2>1, OnEmpty DEF Located, Kept
  <2>3. Pending = {} /\ Pending' = Pending
    <3>1. \A e : ~Kept(e)'
      BY <2>1, <2>2 DEF Kept
    <3>2. (\A e : e \notin Pending) /\ \A e : e \notin Pending'
      BY <2>2, <3>1, PendingIs, PendingIsNext
    <3>3. QED
      BY <3>2
  <2>4. Log!End
    BY <1>1, <2>1, <2>3 DEF Log!End, Log!log
  <2>5. QED
    BY <2>4 DEF Log!Next
<1>6. CASE Kill
  <2>1. PICK n \in 0..Len(unsynced) : written' = written \o SubSeq(unsynced, 1, n)
    BY <1>6 DEF Kill
  <2> DEFINE x == SubSeq(unsynced, 1, n)
  <2>2. /\ x \in Seq(Events)
        /\ \A e : In(e, x) => In(e, unsynced)
        /\ Uniq(unsynced, Present) => Uniq(x, Present)
    BY <1>1, OnPrefix
  <2> HIDE DEF x
  <2>3. written' = written \o x /\ main # "down" /\ main' = "down" /\ UNCHANGED arrived
    BY <1>6, <2>1 DEF Kill, x
  <2>4. (\A e : In(e, unsynced) => Kept(e) /\ ~Logged(e)) /\ Uniq(unsynced, Present)
    <3>1. CASE flusher = "sync"
      <4>1. held \in Buffers /\ unsynced = content[held]
        BY <1>1, <3>1 DEF HeldInv, TypeOK, Separate
      <4>2. QED
        BY <1>1, <2>3, <3>1, <4>1 DEF Separate, Copied, Kept, Once
    <3>2. CASE flusher # "sync"
      BY <1>1, <3>2, OnEmpty DEF ZlibInv
    <3>3. QED
      BY <3>1, <3>2
  <2>5. Log!Writes
    BY <1>1, <2>2, <2>3, <2>4, WritesPending
  <2>6. Pending' = {}
    BY <2>3 DEF Pending
  <2>7. Log!Kill
    BY <1>1, <2>3, <2>5, <2>6 DEF Log!Kill, Up
  <2>8. QED
    BY <2>7 DEF Log!Next
<1>7. CASE Clear /\ main # "down"
  <2>1. /\ held \in Buffers /\ content'[held] = <<>> /\ flusher = "clear"
        /\ \A b \in Buffers \ {held} : content'[b] = content[b]
        /\ UNCHANGED <<arrived, main, written>>
    BY <1>1, <1>7 DEF Clear, HeldInv, TypeOK, disk
  <2>2. \A e : Logged(e)' <=> Logged(e)
    BY <1>1, <2>1 DEF Logged
  <2>3. \A e : Kept(e)' \/ Logged(e) <=> Kept(e) \/ Logged(e)
    BY <1>1, <2>1, OnEmpty DEF Separate, Kept
  <2>4. Pending' = Pending
    BY <2>1, <2>2, <2>3, PendingKept
  <2>5. QED
    BY <1>1, <2>1, <2>4 DEF Log!vars, Log!log
<1>8. CASE \/ Shutdown \/ QueueLast
           \/ /\ main # "down"
              /\ \/ Take \/ Quit \/ Keep \/ Write \/ Age
                 \/ Loop /\ UNCHANGED <<written, older, fileDay>>
  <2>1. /\ UNCHANGED <<arrived, content, written>>
        /\ main' \notin {"down", "done"}
    BY <1>1, <1>8 DEF Shutdown, QueueLast, Take, Quit, Keep, Write, Age, Loop, memory, disk, Up
  <2>2. (\A e : Logged(e)' <=> Logged(e)) /\ \A e : Kept(e)' <=> Kept(e)
    BY <1>1, <2>1 DEF Logged, Kept
  <2>3. Pending' = Pending
    BY <1>1, <2>1, <2>2, PendingKept DEF Up
  <2>4. QED
    BY <1>1, <2>1, <2>3 DEF Log!vars, Log!log, Up
<1>9. excuses' # {} \/ ~(TornPush \/ Reallocate)
  BY DEF TornPush, Reallocate
<1>10. QED
  BY <1>2, <1>3, <1>4, <1>5, <1>6, <1>7, <1>8, <1>9 DEF Staying, Destructor

LEMMA StayingStep ==
    ASSUME Base, Base', Located, Numbered, Accounted, Staying
    PROVE  [Log!Next]_(Log!vars)
<1>1. CASE excuses' = {}
  <2>1. excuses = {}
    BY <1>1 DEF Staying, AddEvent, TornPush, Reallocate, Shutdown, Destructor, QueueLast, Drain,
       Close, Kill, Take, Quit, Keep, Write, Sync, Clear, Age, Loop
  <2>2. QED
    BY <1>1, <2>1, SoundStep
<1>2. CASE excuses' # {}
  BY <1>2, StayingAppends, SpoiltStep DEF Log!Next
<1>3. QED
  BY <1>1, <1>2

LEMMA NewDayStep ==
    ASSUME Base, Base', main # "down", Loop, ~UNCHANGED <<written, older, fileDay>>
    PROVE  Log!NewDay
<1>1. /\ flusher = "top" /\ fileDay # day /\ NewFile
      /\ UNCHANGED <<arrived, content, day, main, excuses>>
  BY DEF Loop, disk, memory
<1>2. Up /\ fileDay' = day'
  BY <1>1 DEF Up, Base, Ended, NewFile
<1>3. \A e : (Logged(e)' <=> Logged(e)) /\ (Kept(e)' <=> Kept(e))
  BY <1>1, FilesPutAway DEF NewFile, Kept
<1>4. Pending' = Pending
  BY <1>1, <1>3, PendingKept
<1>5. QED
  BY <1>1, <1>2, <1>4 DEF Log!NewDay, Log!PutAway, NewFile, Up

LEMMA MidnightStep ==
    ASSUME Base, Base', Midnight
    PROVE  Log!Midnight
<1>1. /\ UNCHANGED <<arrived, content, written, older, main, excuses>>
      /\ fileDay' # day'
  BY DEF Midnight, memory, disk, Base, TypeOK
<1>2. \A e : (Logged(e)' <=> Logged(e)) /\ (Kept(e)' <=> Kept(e))
  BY <1>1 DEF Logged, Kept
<1>3. Pending' = Pending
  BY <1>1, <1>2, PendingKept
<1>4. QED
  BY <1>1, <1>3 DEF Log!Midnight

LEMMA RestartStep ==
    ASSUME Base, Base', Restart
    PROVE  Log!Restart
<1>1. /\ main \in {"down", "done"} /\ main' = "run" /\ excuses' = {}
      /\ older' = IF fileDay = day THEN older ELSE older \o written
      /\ written' = <<>>
      /\ fileDay' = day /\ day' = day /\ arrived' = arrived
      /\ \A b \in Buffers : content'[b] = <<>>
  BY DEF Restart
<1>2. \A e : ~Kept(e)'
  BY <1>1, OnEmpty DEF Kept
<1>3. Pending' = {}
  <2>1. \A e : e \notin Pending'
    BY <1>2, PendingIsNext
  <2>2. QED
    BY <2>1
<1>4. IF fileDay = day THEN written' = <<>> /\ older' = older /\ (fileDay' = day') = (fileDay = day)
                       ELSE Log!PutAway
  BY <1>1 DEF Log!PutAway
<1>5. QED
  BY <1>1, <1>3, <1>4 DEF Log!Restart

LEMMA StepOfDayLog ==
    Base /\ Base' /\ Located /\ Numbered /\ Accounted /\ [Next]_vars => [Log!Next]_(Log!vars)
<1> SUFFICES ASSUME Base, Base', Located, Numbered, Accounted, [Next]_vars
             PROVE  [Log!Next]_(Log!vars)
  OBVIOUS
<1>1. CASE Staying
  BY <1>1, StayingStep
<1>2. CASE main # "down" /\ Loop /\ ~UNCHANGED <<written, older, fileDay>>
  BY <1>2, NewDayStep DEF Log!Next
<1>3. CASE Midnight
  BY <1>3, MidnightStep DEF Log!Next
<1>4. CASE Restart
  BY <1>4, RestartStep DEF Log!Next
<1>5. CASE UNCHANGED vars
  <2>1. /\ UNCHANGED <<arrived, content, written, older, day, fileDay, main, excuses>>
    BY <1>5 DEF vars, memory, disk
  <2>2. \A e : (Logged(e)' <=> Logged(e)) /\ (Kept(e)' <=> Kept(e))
    BY <2>1 DEF Logged, Kept
  <2>3. Pending' = Pending
    BY <2>1, <2>2, PendingKept
  <2>4. QED
    BY <2>1, <2>3 DEF Log!vars, Log!log
<1>6. QED
  BY <1>1, <1>2, <1>3, <1>4, <1>5 DEF Next, Flusher, Old, Staying

LEMMA DayLogInit == Init => Log!Init
<1> SUFFICES ASSUME Init PROVE Log!Init
  OBVIOUS
<1>1. Pending = {}
  <2>1. \A e : ~Kept(e)
    BY OnEmpty DEF Init, Kept
  <2>2. \A e : e \notin Pending
    BY <2>1, BaseInit, PendingIs
  <2>3. QED
    BY <2>2
<1>2. QED
  BY <1>1 DEF Init, Log!Init

\* Four buffers that overtake each other, two threads, a mutex that is released while a
\* buffer is written, midnights, kills and restarts: the logger is one log with a file a
\* day, an event goes from memory to the file of the moment once and nowhere else, unless
\* the process is killed before or a data race or the disk spoiled it.
THEOREM LoggerIsDayLog == Spec => ImplementsDayLog
<1>1. Base /\ Base' /\ Located /\ Numbered /\ Accounted /\ [Next]_vars => [Log!Next]_(Log!vars)
  BY StepOfDayLog
<1>2. Spec => Log!Spec
  BY <1>1, DayLogInit, BaseInit, LocatedInit, AccountInit, StepKeepsBase, StepKeepsLocated,
     StepKeepsAccount, PTL DEF Spec, Log!Spec
<1>3. QED
  BY <1>2 DEF ImplementsDayLog

=============================================================================
