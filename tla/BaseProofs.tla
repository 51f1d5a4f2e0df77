----------------------------- MODULE BaseProofs -----------------------------
(***************************************************************************)
(* Theorems about the parts everything else is built on: about Logger, for *)
(* any number of callers, events and calls of Init, and about Config, for  *)
(* any files, keys, subscribers and depth of callbacks that call Reload.   *)
(***************************************************************************)
EXTENDS Logger, Config, SequenceTheorems, FiniteSetTheorems, TLAPS

USE LoggerAssumption

-----------------------------------------------------------------------------
(* The logger.                                                             *)

Increasing(q) == \A i, j \in DOMAIN q : i < j => q[i] < q[j]
Before(q, e) == \A i \in DOMAIN q : q[i] < e

\* The events in the order they leave the logger: the written ones, then the
\* one in hand, then those that wait.
Ordered ==
    /\ Increasing(written) /\ Increasing(queue)
    /\ \A j \in DOMAIN queue : Before(written, queue[j])
    /\ inHand # 0 =>
          /\ Before(written, inHand)
          /\ \A j \in DOMAIN queue : inHand < queue[j]

\* What Shutdown threw away is nowhere else.
LostIsLost == lost \cap (EventsOf(queue) \cup EventsOf(written) \cup {inHand}) = {}

\* The log thread holds an event exactly while it writes, and the mutex from
\* the predicate to the wait and from the drained queue to the end of the turn;
\* outside the time between the start and the join there is no log thread, and
\* until the stop it does not leave its loop.
Control ==
    /\ inHand # 0 <=> lpc = "write"
    /\ lpc \in {"test", "block", "drain", "flush", "last"} => mutex = LogThread
    /\ lpc \in {"flush", "last"} => queue = <<>>
    /\ opc \in {"down", "adding", "clear"} => lpc = "none"
    /\ opc \in {"adding", "up"} => running
    /\ opc = "up" => lpc \notin {"none", "exited"}

\* An owed event still in the queue has the log thread between the head of its
\* loop and the drained queue.
Owing ==
    /\ owed \subseteq 1 .. pushed
    /\ OwedWritten
    /\ lpc \in {"none", "top", "flush", "last", "exited"} => owed \cap EventsOf(queue) = {}

Data == Ordered /\ LostIsLost /\ NothingVanishes

IInv == TypeOK /\ Control /\ Data /\ Owing

-----------------------------------------------------------------------------
(* The events of a queue.                                                  *)

LEMMA EventsOfAppend ==
    ASSUME NEW S, NEW q \in Seq(S), NEW e \in S
    PROVE  EventsOf(Append(q, e)) = EventsOf(q) \cup {e}
<1>1. /\ Append(q, e) \in Seq(S) /\ Len(Append(q, e)) = Len(q) + 1 /\ Len(q) \in Nat
      /\ \A i \in 1 .. Len(q) : Append(q, e)[i] = q[i]
      /\ Append(q, e)[Len(q) + 1] = e
  BY AppendProperties, LenProperties
<1>2. DOMAIN Append(q, e) = 1 .. Len(q) + 1 /\ DOMAIN q = 1 .. Len(q)
  BY <1>1, LenProperties
<1>3. ASSUME NEW x \in EventsOf(q) PROVE x \in EventsOf(Append(q, e))
  <2>1. PICK i \in 1 .. Len(q) : x = q[i]
    BY <1>2 DEF EventsOf
  <2>2. i \in 1 .. Len(q) + 1 /\ Append(q, e)[i] = x
    BY <1>1, <2>1
  <2> QED BY <1>2, <2>2 DEF EventsOf
<1>4. e \in EventsOf(Append(q, e))
  <2>1. Len(q) + 1 \in 1 .. Len(q) + 1
    BY <1>1
  <2> QED BY <1>1, <1>2, <2>1 DEF EventsOf
<1>5. ASSUME NEW x \in EventsOf(Append(q, e)) PROVE x \in EventsOf(q) \cup {e}
  <2>1. PICK i \in 1 .. Len(q) + 1 : x = Append(q, e)[i]
    BY <1>2 DEF EventsOf
  <2>2. i = Len(q) + 1 \/ i \in 1 .. Len(q)
    BY <1>1
  <2> QED BY <1>1, <1>2, <2>1, <2>2 DEF EventsOf
<1> QED BY <1>3, <1>4, <1>5

LEMMA EventsOfTail ==
    ASSUME NEW S, NEW q \in Seq(S), q # <<>>
    PROVE  EventsOf(q) = {Head(q)} \cup EventsOf(Tail(q))
<1>1. /\ Head(q) = q[1] /\ Tail(q) \in Seq(S) /\ Len(q) \in Nat \ {0}
      /\ Len(Tail(q)) = Len(q) - 1
      /\ \A i \in 1 .. Len(Tail(q)) : Tail(q)[i] = q[i + 1]
  BY HeadTailProperties, LenProperties, EmptySeq
<1>2. DOMAIN q = 1 .. Len(q) /\ DOMAIN Tail(q) = 1 .. Len(q) - 1
  BY <1>1, LenProperties
<1>3. ASSUME NEW x \in EventsOf(q) PROVE x = Head(q) \/ x \in EventsOf(Tail(q))
  <2>1. PICK i \in 1 .. Len(q) : x = q[i]
    BY <1>2 DEF EventsOf
  <2>2. CASE i = 1
    BY <1>1, <2>1, <2>2
  <2>3. CASE i # 1
    <3>1. i - 1 \in 1 .. Len(q) - 1 /\ (i - 1) + 1 = i
      BY <1>1, <2>3
    <3>2. Tail(q)[i - 1] = x
      BY <1>1, <2>1, <3>1
    <3> QED BY <1>2, <3>1, <3>2 DEF EventsOf
  <2> QED BY <2>2, <2>3
<1>4. Head(q) \in EventsOf(q)
  <2>1. 1 \in 1 .. Len(q)
    BY <1>1
  <2> QED BY <1>1, <1>2, <2>1 DEF EventsOf
<1>5. ASSUME NEW x \in EventsOf(Tail(q)) PROVE x \in EventsOf(q)
  <2>1. PICK i \in 1 .. Len(q) - 1 : x = Tail(q)[i]
    BY <1>2 DEF EventsOf
  <2>2. i + 1 \in 1 .. Len(q) /\ q[i + 1] = x
    BY <1>1, <2>1
  <2> QED BY <1>2, <2>2 DEF EventsOf
<1> QED BY <1>3, <1>4, <1>5

\* In an increasing sequence no event comes twice.
LEMMA EventsOfCount ==
    ASSUME NEW q \in Seq(Nat), Increasing(q)
    PROVE  IsFiniteSet(EventsOf(q)) /\ Cardinality(EventsOf(q)) = Len(q)
<1>1. Len(q) \in Nat /\ DOMAIN q = 1 .. Len(q) /\ q \in [1 .. Len(q) -> Nat]
  BY LenProperties
<1>2. EventsOf(q) = {q[i] : i \in 1 .. Len(q)}
  BY <1>1 DEF EventsOf
<1>3. \A i, j \in 1 .. Len(q) : q[i] = q[j] => i = j
  <2> SUFFICES ASSUME NEW i \in 1 .. Len(q), NEW j \in 1 .. Len(q), i # j
               PROVE  q[i] # q[j]
    OBVIOUS
  <2>1. q[i] \in Nat /\ q[j] \in Nat
    BY <1>1
  <2>2. i < j \/ j < i
    BY <1>1
  <2>3. q[i] < q[j] \/ q[j] < q[i]
    BY <1>1, <2>2 DEF Increasing
  <2> QED BY <2>1, <2>3
<1>4. q \in Bijection(1 .. Len(q), EventsOf(q))
  BY <1>1, <1>2, <1>3 DEF Bijection, Injection, Surjection, IsInjective
<1>5. IsFiniteSet(1 .. Len(q)) /\ Cardinality(1 .. Len(q)) = Len(q)
  <2> DEFINE n == Len(q)
  <2>1. n \in Nat
    BY <1>1
  <2> HIDE DEF n
  <2>2. IsFiniteSet(1 .. n) /\ Cardinality(1 .. n) = IF 1 > n THEN 0 ELSE n - 1 + 1
    BY <2>1, FS_Interval
  <2>3. IsFiniteSet(1 .. n) /\ Cardinality(1 .. n) = n
    BY <2>1, <2>2
  <2> QED BY <2>3 DEF n
<1> QED BY <1>4, <1>5, FS_Bijection DEF ExistsBijection

-----------------------------------------------------------------------------
(* The steps.                                                              *)

\* Most steps move a thread on, and some change the flags: the events stay
\* where they are.
Moves ==
    UNCHANGED <<queue, inHand, written, lost, pushed>>

LEMMA EventsMove ==
    ASSUME [Next]_vars
    PROVE  \/ Moves
           \/ \E c \in Callers : Push(c)
           \/ Take \/ Write \/ Clear
BY DEF Next, vars, Moves, Log, Notify, LogStep, Top, Lock, Test, Block, Drained, Flush, Last,
       SpuriousWakeup, BeginInit, Shutdown, OwnerStep, AddAppender, StartThread, NotifyStop,
       Join, Goes, others, outside, logThread

LEMMA TypeStep ==
    ASSUME TypeOK, Control, [Next]_vars
    PROVE  TypeOK'
<1> USE DEF TypeOK
<1>1. ASSUME NEW c \in Callers, Log(c) PROVE TypeOK'
  BY <1>1 DEF Log, others
<1>2. ASSUME NEW c \in Callers, Push(c) PROVE TypeOK'
  <2>1. pushed + 1 \in 1 .. MaxEvents
    BY <1>2 DEF Push
  <2>2. queue' \in Seq(1 .. MaxEvents)
    BY <1>2, <2>1, AppendProperties DEF Push
  <2> QED BY <1>2, <2>1, <2>2 DEF Push, others
<1>3. ASSUME NEW c \in Callers, Notify(c) PROVE TypeOK'
  BY <1>3 DEF Notify, others, Woken, LogPCs
<1>4. CASE Take
  <2>1. Head(queue) \in 1 .. MaxEvents /\ Tail(queue) \in Seq(1 .. MaxEvents)
    BY <1>4, HeadTailProperties DEF Take
  <2> QED BY <1>4, <2>1 DEF Take, Goes, Oldest, outside, LogPCs
<1>5. CASE Write
  <2>1. written' \in Seq(1 .. MaxEvents) /\ unflushed' \subseteq 1 .. MaxEvents
    <3>1. inHand \in 1 .. MaxEvents
      BY <1>5 DEF Control, Write, Goes
    <3> QED BY <1>5, <3>1, AppendProperties DEF Write
  <2> QED BY <1>5, <2>1 DEF Write, Goes, AfterWrite, outside, LogPCs
<1>6. CASE Top \/ Lock \/ Test \/ Block \/ Drained \/ Flush \/ Last \/ SpuriousWakeup
  BY <1>6 DEF Top, Lock, Test, Block, Drained, Flush, Last, SpuriousWakeup, Goes, AfterFlush,
              outside, LogPCs
<1>7. CASE BeginInit \/ AddAppender \/ StartThread \/ NotifyStop
  <2>1. CASE BeginInit
    BY <2>1 DEF BeginInit, logThread, OwnerPCs
  <2>2. CASE AddAppender
    BY <2>2 DEF AddAppender, Enough, Appenders, logThread
  <2>3. CASE StartThread
    BY <2>3 DEF StartThread, logThread, OwnerPCs, LogPCs
  <2>4. CASE NotifyStop
    BY <2>4 DEF NotifyStop, Woken, logThread, OwnerPCs, LogPCs
  <2> QED BY <1>7, <2>1, <2>2, <2>3, <2>4
<1>8. CASE Shutdown \/ Join \/ Clear
  <2>1. EventsOf(queue) \subseteq 1 .. MaxEvents
    BY ElementOfSeq, LenProperties DEF EventsOf
  <2>2. unflushed \subseteq 1 .. MaxEvents /\ owed \subseteq 1 .. MaxEvents
          /\ lost \subseteq 1 .. MaxEvents
    OBVIOUS
  <2>3. unflushed' \subseteq 1 .. MaxEvents /\ owed' \subseteq 1 .. MaxEvents
          /\ lost' \subseteq 1 .. MaxEvents
    BY <1>8, <2>1, <2>2 DEF Shutdown, Join, Clear
  <2>4. queue' \in Seq(1 .. MaxEvents)
    BY <1>8, EmptySeq DEF Shutdown, Join, Clear
  <2>5. opc' \in OwnerPCs /\ lpc' \in LogPCs /\ appenders' \in 0 .. Appenders
    BY <1>8 DEF Shutdown, Join, Clear, Appenders, OwnerPCs, LogPCs
  <2>6. running' \in BOOLEAN /\ UNCHANGED <<mutex, inHand, written, cpc, inits, pushed>>
    BY <1>8 DEF Shutdown, Join, Clear, logThread
  <2> QED BY <2>3, <2>4, <2>5, <2>6
<1>9. CASE UNCHANGED vars
  BY <1>9 DEF vars
<1> QED BY <1>1, <1>2, <1>3, <1>4, <1>5, <1>6, <1>7, <1>8, <1>9 DEF Next, LogStep, OwnerStep

LEMMA ControlStep ==
    ASSUME TypeOK, Control, [Next]_vars
    PROVE  Control'
<1> USE DEF Control, TypeOK
<1>1. ASSUME NEW c \in Callers, Log(c) \/ Notify(c) PROVE Control'
  BY <1>1 DEF Log, Notify, others, Woken
<1>2. ASSUME NEW c \in Callers, Push(c) PROVE Control'
  BY <1>2 DEF Push, others, Nobody, LogThread
<1>3. CASE Take
  <2>1. Head(queue) \in 1 .. MaxEvents
    BY <1>3, HeadTailProperties DEF Take
  <2> QED BY <1>3, <2>1 DEF Take, Goes, Oldest, outside
<1>4. CASE Write
  BY <1>4 DEF Write, Goes, AfterWrite, outside
<1>5. CASE Top \/ Lock \/ Test \/ Block \/ Drained \/ Flush \/ Last \/ SpuriousWakeup
  BY <1>5 DEF Top, Lock, Test, Block, Drained, Flush, Last, SpuriousWakeup, Goes, outside
<1>6. CASE BeginInit \/ Shutdown \/ AddAppender \/ StartThread \/ NotifyStop \/ Join \/ Clear
  BY <1>6 DEF BeginInit, Shutdown, AddAppender, StartThread, NotifyStop, Join, Clear, Woken,
              logThread
<1>7. CASE UNCHANGED vars
  BY <1>7 DEF vars
<1> QED BY <1>1, <1>2, <1>3, <1>4, <1>5, <1>6, <1>7 DEF Next, LogStep, OwnerStep

\* Only events that were pushed are anywhere.
LEMMA Within ==
    ASSUME TypeOK, NothingVanishes
    PROVE  /\ \A j \in DOMAIN queue : queue[j] \in 1 .. pushed
           /\ \A i \in DOMAIN written : written[i] \in 1 .. pushed
           /\ inHand \in 0 .. pushed
           /\ lost \subseteq 1 .. pushed
<1>1. /\ EventsOf(queue) \subseteq 1 .. pushed /\ EventsOf(written) \subseteq 1 .. pushed
      /\ inHand = 0 \/ inHand \in 1 .. pushed
      /\ lost \subseteq 1 .. pushed
  BY DEF NothingVanishes
<1>2. pushed \in Nat
  BY DEF TypeOK
<1> QED BY <1>1, <1>2 DEF EventsOf

LEMMA IncreasingAppend ==
    ASSUME NEW q \in Seq(Nat), NEW e \in Nat, Increasing(q), Before(q, e)
    PROVE  Increasing(Append(q, e))
<1>1. /\ Len(q) \in Nat /\ DOMAIN q = 1 .. Len(q) /\ DOMAIN Append(q, e) = 1 .. Len(q) + 1
      /\ \A i \in 1 .. Len(q) : Append(q, e)[i] = q[i]
      /\ Append(q, e)[Len(q) + 1] = e
  BY AppendProperties, LenProperties
<1> SUFFICES ASSUME NEW i \in 1 .. Len(q) + 1, NEW j \in 1 .. Len(q) + 1, i < j
             PROVE  Append(q, e)[i] < Append(q, e)[j]
  BY <1>1 DEF Increasing
<1>2. i \in 1 .. Len(q)
  BY <1>1
<1>3. CASE j = Len(q) + 1
  BY <1>1, <1>2, <1>3 DEF Before
<1>4. CASE j \in 1 .. Len(q)
  BY <1>1, <1>2, <1>4 DEF Increasing
<1> QED BY <1>1, <1>3, <1>4

\* The events go on leaving in the order of the pushes.
LEMMA OrderedStep ==
    ASSUME TypeOK, Control, Data, [Next]_vars
    PROVE  Ordered'
<1>1. /\ queue \in Seq(Nat) /\ written \in Seq(Nat)
      /\ Len(queue) \in Nat /\ DOMAIN queue = 1 .. Len(queue)
      /\ Len(written) \in Nat /\ DOMAIN written = 1 .. Len(written)
      /\ pushed \in Nat /\ inHand \in Nat
  <2>1. queue \in Seq(1 .. MaxEvents) /\ written \in Seq(1 .. MaxEvents)
          /\ pushed \in Nat /\ inHand \in Nat
    BY DEF TypeOK
  <2> QED BY <2>1, LenProperties
<1>2. CASE Moves
  BY <1>2 DEF Moves, Data, Ordered, Increasing, Before
<1>3. ASSUME NEW c \in Callers, Push(c) PROVE Ordered'
  <2>1. queue' = Append(queue, pushed + 1) /\ UNCHANGED <<written, inHand>>
    BY <1>3 DEF Push, others
  <2>2. /\ DOMAIN queue' = 1 .. Len(queue) + 1
        /\ \A j \in 1 .. Len(queue) : queue'[j] = queue[j]
        /\ queue'[Len(queue) + 1] = pushed + 1
    BY <1>1, <2>1, AppendProperties, LenProperties
  <2>3. Before(queue, pushed + 1) /\ Before(written, pushed + 1) /\ inHand < pushed + 1
    BY <1>1, Within DEF Data, Before
  <2>4. Increasing(queue')
    BY <1>1, <2>1, <2>3, IncreasingAppend DEF Data, Ordered
  <2>5. \A j \in DOMAIN queue' : j \in DOMAIN queue \/ j = Len(queue) + 1
    BY <1>1, <2>2
  <2>6. \A j \in DOMAIN queue' : Before(written, queue'[j])
    BY <1>1, <2>2, <2>3, <2>5 DEF Data, Ordered
  <2>7. inHand # 0 => \A j \in DOMAIN queue' : inHand < queue'[j]
    BY <1>1, <2>2, <2>3, <2>5 DEF Data, Ordered
  <2> QED BY <2>1, <2>4, <2>6, <2>7 DEF Data, Ordered, Increasing, Before
<1>4. CASE Take
  <2>1. /\ queue # <<>> /\ queue' = Tail(queue) /\ inHand' = Head(queue)
        /\ UNCHANGED written
    BY <1>4 DEF Take, Oldest, outside
  <2>2. /\ Len(queue) >= 1 /\ inHand' = queue[1]
        /\ DOMAIN queue' = 1 .. Len(queue) - 1
        /\ \A j \in 1 .. Len(queue) - 1 : queue'[j] = queue[j + 1]
    BY <1>1, <2>1, HeadTailProperties, LenProperties, EmptySeq
  <2>3. 1 \in DOMAIN queue /\ \A j \in DOMAIN queue' : j + 1 \in DOMAIN queue /\ 1 < j + 1
    BY <1>1, <2>2
  <2>4. Increasing(queue')
    <3> SUFFICES ASSUME NEW i \in DOMAIN queue', NEW j \in DOMAIN queue', i < j
                 PROVE  queue'[i] < queue'[j]
      BY DEF Increasing
    <3>1. i + 1 < j + 1
      BY <1>1, <2>2
    <3> QED BY <2>2, <2>3, <3>1 DEF Data, Ordered, Increasing
  <2>5. \A j \in DOMAIN queue' : Before(written, queue'[j]) /\ inHand' < queue'[j]
    BY <2>2, <2>3 DEF Data, Ordered, Increasing
  <2>6. Before(written, inHand')
    BY <2>2, <2>3 DEF Data, Ordered
  <2> QED BY <2>1, <2>4, <2>5, <2>6 DEF Data, Ordered, Increasing, Before
<1>5. CASE Write
  <2>1. /\ written' = Append(written, inHand) /\ inHand' = 0 /\ inHand # 0
        /\ UNCHANGED queue
    BY <1>5 DEF Write, Goes, Control
  <2>2. Increasing(written')
    BY <1>1, <2>1, IncreasingAppend DEF Data, Ordered
  <2>3. /\ DOMAIN written' = 1 .. Len(written) + 1
        /\ \A i \in 1 .. Len(written) : written'[i] = written[i]
        /\ written'[Len(written) + 1] = inHand
    BY <1>1, <2>1, AppendProperties, LenProperties
  <2>4. \A i \in DOMAIN written' : i \in DOMAIN written \/ i = Len(written) + 1
    BY <1>1, <2>3
  <2>5. ASSUME NEW j \in DOMAIN queue, NEW i \in DOMAIN written'
        PROVE  written'[i] < queue[j]
    BY <1>1, <2>1, <2>3, <2>4 DEF Data, Ordered, Before
  <2> QED BY <2>1, <2>2, <2>5 DEF Data, Ordered, Increasing, Before
<1>6. CASE Clear
  <2>1. queue' = <<>> /\ inHand = 0 /\ UNCHANGED <<written, inHand>>
    BY <1>6 DEF Clear, logThread, Control
  <2>2. DOMAIN queue' = {}
    BY <2>1
  <2> QED BY <2>1, <2>2 DEF Data, Ordered, Increasing, Before
<1> QED BY <1>2, <1>3, <1>4, <1>5, <1>6, EventsMove

\* Each event stays in one place of the books.
LEMMA AccountedStep ==
    ASSUME TypeOK, Control, Data, [Next]_vars
    PROVE  LostIsLost' /\ NothingVanishes'
<1> DEFINE Q == EventsOf(queue)
           W == EventsOf(written)
           H == {inHand} \ {0}
<1>1. /\ queue \in Seq(Nat) /\ written \in Seq(Nat)
      /\ Len(queue) \in Nat /\ Len(written) \in Nat
      /\ pushed \in Nat /\ inHand \in Nat
  <2>1. queue \in Seq(1 .. MaxEvents) /\ written \in Seq(1 .. MaxEvents)
          /\ pushed \in Nat /\ inHand \in Nat
    BY DEF TypeOK
  <2> QED BY <2>1, LenProperties
<1>2. /\ Q \cup H \cup W \cup lost = 1 .. pushed
      /\ Len(queue) + Cardinality(H) + Len(written) + Cardinality(lost) = pushed
      /\ lost \cap (Q \cup W \cup {inHand}) = {}
  BY DEF Data, NothingVanishes, LostIsLost
<1>3. lost \subseteq 1 .. pushed /\ IsFiniteSet(lost) /\ Cardinality(lost) \in Nat
  <2>1. IsFiniteSet(1 .. pushed)
    BY <1>1, FS_Interval
  <2>2. lost \subseteq 1 .. pushed
    BY <1>2
  <2> QED BY <2>1, <2>2, FS_Subset, FS_CardinalityType
<1>4. \A e : /\ {e} \ {0} = IF e = 0 THEN {} ELSE {e}
             /\ Cardinality({e} \ {0}) = IF e = 0 THEN 0 ELSE 1
  <2> SUFFICES ASSUME NEW e
               PROVE  /\ {e} \ {0} = IF e = 0 THEN {} ELSE {e}
                      /\ Cardinality({e} \ {0}) = IF e = 0 THEN 0 ELSE 1
    OBVIOUS
  <2>1. CASE e = 0
    <3>1. {e} \ {0} = {}
      BY <2>1
    <3> QED BY <2>1, <3>1, FS_EmptySet
  <2>2. CASE e # 0
    <3>1. {e} \ {0} = {e}
      BY <2>2
    <3> QED BY <2>2, <3>1, FS_Singleton
  <2> QED BY <2>1, <2>2
<1>5. CASE Moves
  BY <1>5 DEF Moves, Data, LostIsLost, NothingVanishes, EventsOf
<1>6. ASSUME NEW c \in Callers, Push(c) PROVE LostIsLost' /\ NothingVanishes'
  <2>1. /\ queue' = Append(queue, pushed + 1) /\ pushed' = pushed + 1
        /\ UNCHANGED <<written, inHand, lost>>
    BY <1>6 DEF Push, others
  <2>2. EventsOf(queue') = Q \cup {pushed + 1} /\ Len(queue') = Len(queue) + 1
    BY <1>1, <2>1, EventsOfAppend, AppendProperties
  <2>3. EventsOf(written)' = W /\ EventsOf(queue)' = EventsOf(queue')
    BY <2>1 DEF EventsOf
  <2>4. pushed + 1 \notin lost /\ 1 .. pushed + 1 = (1 .. pushed) \cup {pushed + 1}
    BY <1>1, <1>3
  <2>5. LostIsLost'
    BY <1>2, <2>1, <2>2, <2>3, <2>4 DEF LostIsLost
  <2>6. Q \cup {pushed + 1} \cup H \cup W \cup lost = 1 .. pushed + 1
    BY <1>2, <2>4
  <2>7. Len(queue) + 1 + Cardinality(H) + Len(written) + Cardinality(lost) = pushed + 1
    <3>1. Cardinality(H) \in Nat
      BY <1>4
    <3> HIDE DEF H
    <3> QED BY <1>1, <1>2, <1>3, <3>1
  <2> QED BY <2>1, <2>2, <2>3, <2>5, <2>6, <2>7 DEF NothingVanishes
<1>7. CASE Take
  <2>1. /\ queue # <<>> /\ queue' = Tail(queue) /\ inHand' = Head(queue) /\ inHand = 0
        /\ UNCHANGED <<written, lost, pushed>>
    BY <1>7 DEF Take, Goes, Oldest, outside, Control
  <2>2. Q = {inHand'} \cup EventsOf(queue') /\ Len(queue') = Len(queue) - 1
    BY <1>1, <2>1, EventsOfTail, HeadTailProperties
  <2>3. EventsOf(written)' = W /\ EventsOf(queue)' = EventsOf(queue')
    BY <2>1 DEF EventsOf
  <2>4. inHand' # 0
    BY <1>1, <1>2, <2>2
  <2>5. LostIsLost'
    BY <1>2, <2>1, <2>2, <2>3 DEF LostIsLost
  <2>6. H = {} /\ {inHand'} \ {0} = {inHand'}
    BY <2>1, <2>4
  <2>7. EventsOf(queue') \cup {inHand'} \cup W \cup lost = 1 .. pushed
    BY <1>2, <2>2, <2>6
  <2>8. Len(queue') + 1 + Len(written) + Cardinality(lost) = pushed
    <3>1. Cardinality(H) = 0
      BY <1>4, <2>1
    <3> QED BY <1>1, <1>2, <1>3, <2>2, <3>1
  <2>9. Cardinality({inHand'} \ {0}) = 1
    BY <1>4, <2>4
  <2> QED BY <2>1, <2>3, <2>5, <2>6, <2>7, <2>8, <2>9 DEF NothingVanishes
<1>8. CASE Write
  <2>1. /\ written' = Append(written, inHand) /\ inHand' = 0 /\ inHand # 0
        /\ UNCHANGED <<queue, lost, pushed>>
    BY <1>8 DEF Write, Goes, outside, Control
  <2>2. EventsOf(written') = W \cup {inHand} /\ Len(written') = Len(written) + 1
    <3>1. EventsOf(Append(written, inHand)) = W \cup {inHand}
      BY <1>1, EventsOfAppend
    <3>2. Len(Append(written, inHand)) = Len(written) + 1
      BY <1>1, AppendProperties
    <3> QED BY <2>1, <3>1, <3>2
  <2>3. EventsOf(queue)' = Q /\ EventsOf(written)' = EventsOf(written')
    BY <2>1 DEF EventsOf
  <2>4. 0 \notin lost
    BY <1>3
  <2>5. LostIsLost'
    BY <1>2, <2>1, <2>2, <2>3, <2>4 DEF LostIsLost
  <2>6. H = {inHand} /\ {inHand'} \ {0} = {}
    BY <2>1
  <2>7. Q \cup EventsOf(written') \cup lost = 1 .. pushed
    BY <1>2, <2>2, <2>6
  <2>8. Len(queue) + Len(written') + Cardinality(lost) = pushed
    <3>1. Cardinality(H) = 1
      BY <1>4, <2>1
    <3> QED BY <1>1, <1>2, <1>3, <2>2, <3>1
  <2>9. Cardinality({inHand'} \ {0}) = 0
    BY <1>4, <2>1
  <2>10. Len(written') \in Nat
    BY <1>1, <2>2
  <2> QED BY <1>1, <1>3, <2>1, <2>3, <2>5, <2>6, <2>7, <2>8, <2>9, <2>10 DEF NothingVanishes
<1>9. CASE Clear
  <2>1. /\ queue' = <<>> /\ lost' = lost \cup Q /\ inHand = 0
        /\ UNCHANGED <<written, inHand, pushed>>
    BY <1>9 DEF Clear, logThread, Control
  <2>2. EventsOf(queue)' = {} /\ EventsOf(written)' = W /\ Len(queue') = 0
    BY <2>1 DEF EventsOf
  <2>3. Q \cap W = {}
    <3> SUFFICES ASSUME NEW j \in DOMAIN queue, NEW i \in DOMAIN written
                 PROVE  queue[j] # written[i]
      BY DEF EventsOf
    <3>1. queue[j] \in Nat /\ written[i] \in Nat /\ written[i] < queue[j]
      BY <1>1, ElementOfSeq, LenProperties DEF Data, Ordered, Before
    <3> QED BY <3>1
  <2>4. 0 \notin Q /\ 0 \notin lost
    BY <1>2
  <2>5. LostIsLost'
    BY <1>2, <2>1, <2>2, <2>3, <2>4 DEF LostIsLost
  <2>6. H = {} /\ H' = {}
    BY <2>1
  <2>7. W \cup (lost \cup Q) = 1 .. pushed
    BY <1>2, <2>6
  <2>8. Cardinality(lost \cup Q) = Cardinality(lost) + Len(queue)
    <3>1. IsFiniteSet(Q) /\ Cardinality(Q) = Len(queue)
      BY <1>1, EventsOfCount DEF Data, Ordered
    <3>2. lost \cap Q = {}
      BY <1>2
    <3>3. Cardinality(lost \cup Q)
            = Cardinality(lost) + Cardinality(Q) - Cardinality(lost \cap Q)
      BY <1>3, <3>1, FS_Union
    <3>4. Cardinality(lost \cap Q) = 0
      BY <3>2, FS_EmptySet
    <3> HIDE DEF Q
    <3> QED BY <1>1, <1>3, <3>1, <3>3, <3>4
  <2>9. Len(written) + Cardinality(lost \cup Q) = pushed
    <3>1. Cardinality(H) = 0
      BY <1>4, <2>1
    <3> QED BY <1>1, <1>2, <1>3, <2>8, <3>1
  <2>10. Cardinality({}) = 0 /\ Cardinality(lost \cup Q) \in Nat
    BY <1>1, <1>3, <2>8, FS_EmptySet
  <2>11. /\ {} \cup {} \cup W \cup (lost \cup Q) = 1 .. pushed
         /\ 0 + 0 + Len(written) + Cardinality(lost \cup Q) = pushed
    BY <1>1, <2>7, <2>9, <2>10
  <2>12. NothingVanishes'
    BY <2>1, <2>2, <2>6, <2>10, <2>11 DEF NothingVanishes
  <2> QED BY <2>5, <2>12
<1> QED BY <1>5, <1>6, <1>7, <1>8, <1>9, EventsMove

\* What a stop owes is written before the thread can leave its loop.
LEMMA OwingStep ==
    ASSUME TypeOK, Control, Data, Owing, [Next]_vars
    PROVE  Owing'
<1>1. /\ pushed \in Nat /\ owed \subseteq 1 .. pushed /\ lost \cap owed = {}
      /\ EventsOf(queue) \subseteq 1 .. pushed /\ lost \cap EventsOf(queue) = {}
  BY DEF TypeOK, Owing, OwedWritten, Data, LostIsLost, NothingVanishes
<1>2. ASSUME NEW c \in Callers, Log(c) \/ Notify(c) PROVE Owing'
  BY <1>2 DEF Log, Notify, others, Woken, Owing, OwedWritten, EventsOf
<1>3. ASSUME NEW c \in Callers, Push(c) PROVE Owing'
  <2>1. /\ queue' = Append(queue, pushed + 1) /\ pushed' = pushed + 1
        /\ UNCHANGED <<owed, lost, lpc>>
    BY <1>3 DEF Push, others
  <2>2. queue \in Seq(Nat)
    BY DEF TypeOK
  <2>3. EventsOf(queue)' = EventsOf(queue) \cup {pushed + 1}
    <3>1. EventsOf(queue') = EventsOf(queue) \cup {pushed + 1}
      BY <1>1, <2>1, <2>2, EventsOfAppend
    <3> QED BY <3>1 DEF EventsOf
  <2>4. pushed + 1 \notin owed /\ owed \subseteq 1 .. pushed + 1
    BY <1>1
  <2> QED BY <2>1, <2>3, <2>4 DEF Owing, OwedWritten
<1>4. CASE Take
  BY <1>4 DEF Take, Goes, outside, Owing, OwedWritten
<1>5. CASE Write
  BY <1>5 DEF Write, Goes, AfterWrite, outside, Owing, OwedWritten
<1>6. CASE Drained
  <2>1. EventsOf(queue) = {}
    BY <1>6 DEF Drained, EventsOf
  <2> QED BY <1>6, <2>1 DEF Drained, Goes, outside, Owing, OwedWritten, EventsOf
<1>7. CASE Top \/ Lock \/ Test \/ Block \/ Flush \/ Last \/ SpuriousWakeup
  BY <1>7 DEF Top, Lock, Test, Block, Flush, Last, SpuriousWakeup, Goes, outside, Owing,
              OwedWritten, EventsOf
<1>8. CASE BeginInit \/ AddAppender \/ StartThread \/ NotifyStop \/ Join
  BY <1>8 DEF BeginInit, AddAppender, StartThread, NotifyStop, Join, Woken, logThread, Control,
              Owing, OwedWritten, EventsOf
<1>9. CASE Shutdown
  <2>1. /\ owed' = IF lpc = "top" THEN owed ELSE owed \cup EventsOf(queue)
        /\ opc = "up" /\ UNCHANGED <<queue, lpc, lost, pushed>>
    BY <1>9 DEF Shutdown
  <2>2. owed' \subseteq 1 .. pushed' /\ OwedWritten'
    BY <1>1, <2>1 DEF OwedWritten
  <2>3. CASE lpc \in {"flush", "last"}
    BY <2>1, <2>2, <2>3 DEF Control, Owing, EventsOf
  <2>4. CASE lpc \notin {"flush", "last"}
    <3>1. lpc \notin {"none", "exited"}
      BY <2>1 DEF Control
    <3>2. lpc = "top" => owed' \cap EventsOf(queue)' = {}
      BY <2>1 DEF Owing, EventsOf
    <3> QED BY <2>1, <2>2, <2>4, <3>1, <3>2 DEF Owing
  <2> QED BY <2>3, <2>4
<1>10. CASE Clear
  <2>1. /\ lpc = "none" /\ lost' = lost \cup EventsOf(queue) /\ queue' = <<>>
        /\ UNCHANGED <<owed, pushed>>
    BY <1>10 DEF Clear, Control
  <2>2. owed \cap EventsOf(queue) = {} /\ EventsOf(queue)' = {}
    BY <2>1 DEF Owing, EventsOf
  <2> QED BY <1>1, <2>1, <2>2 DEF Owing, OwedWritten
<1>11. CASE UNCHANGED vars
  BY <1>11 DEF vars, Owing, OwedWritten, EventsOf
<1> QED BY <1>2, <1>3, <1>4, <1>5, <1>6, <1>7, <1>8, <1>9, <1>10, <1>11
        DEF Next, LogStep, OwnerStep

-----------------------------------------------------------------------------
(* The theorems.                                                           *)

LEMMA InitInv == Init => IInv
<1> SUFFICES ASSUME Init PROVE IInv
  OBVIOUS
<1>1. TypeOK
  <2>1. queue \in Seq(1 .. MaxEvents) /\ written \in Seq(1 .. MaxEvents)
    BY EmptySeq DEF Init
  <2>2. inits \in 0 .. MaxInits /\ pushed \in 0 .. MaxEvents /\ inHand \in 0 .. MaxEvents
    BY DEF Init
  <2>3. \A s \in {unflushed, owed, lost} : s \subseteq 1 .. MaxEvents
    BY DEF Init
  <2>4. cpc \in [Callers -> {"idle", "push", "notify"}]
    BY DEF Init
  <2>5. /\ running \in BOOLEAN /\ appenders \in 0 .. Appenders
        /\ mutex \in {Nobody, LogThread} /\ lpc \in LogPCs /\ opc \in OwnerPCs
    <3>1. running \in BOOLEAN /\ mutex \in {Nobody, LogThread}
      BY DEF Init
    <3>2. appenders \in 0 .. Appenders
      BY DEF Init, Appenders
    <3>3. lpc \in LogPCs /\ opc \in OwnerPCs
      BY DEF Init, LogPCs, OwnerPCs
    <3> QED BY <3>1, <3>2, <3>3
  <2> QED BY <2>1, <2>2, <2>3, <2>4, <2>5 DEF TypeOK
<1>2. Control
  BY DEF Init, Control
<1>3. EventsOf(queue) = {} /\ EventsOf(written) = {} /\ {inHand} \ {0} = {}
  BY DEF Init, EventsOf
<1>4. Ordered /\ LostIsLost /\ Owing
  BY <1>3 DEF Init, Ordered, Increasing, Before, LostIsLost, Owing, OwedWritten
<1>5. NothingVanishes
  <2>1. 1 .. 0 = {} /\ Cardinality({}) = 0
    BY FS_EmptySet
  <2>2. Len(queue) = 0 /\ Len(written) = 0 /\ lost = {} /\ pushed = 0
    BY DEF Init
  <2>3. Cardinality({inHand} \ {0}) = 0 /\ Cardinality(lost) = 0
    BY <1>3, <2>1, <2>2
  <2>4. Len(queue) + Cardinality({inHand} \ {0}) + Len(written) + Cardinality(lost) = pushed
    BY <2>2, <2>3
  <2> QED BY <1>3, <2>1, <2>2, <2>4 DEF NothingVanishes
<1> QED BY <1>1, <1>2, <1>4, <1>5 DEF IInv, Data

LEMMA NextInv == IInv /\ [Next]_vars => IInv'
BY TypeStep, ControlStep, OrderedStep, AccountedStep, OwingStep DEF IInv, Data

LEMMA Invariance == Spec => []IInv
BY InitInv, NextInv, PTL DEF Spec

\* Every state that Init, Log, Shutdown and LogLoop can reach is well typed.
THEOREM TypeCorrect == Spec => []TypeOK
<1>1. IInv => TypeOK
  BY DEF IInv
<1> QED BY <1>1, Invariance, PTL

\* The appenders see the events in the order in which Log pushed them, each at
\* most once, through any number of stops and new starts.
THEOREM WrittenInOrderCorrect == Spec => []WrittenInOrder
<1>1. IInv => WrittenInOrder
  BY DEF IInv, Data, Ordered, Increasing, WrittenInOrder
<1> QED BY <1>1, Invariance, PTL

\* Every event that was pushed waits, is being written, was written, or was
\* thrown away by Shutdown, and is counted in one of these places only.
THEOREM NothingVanishesCorrect == Spec => []NothingVanishes
<1>1. IInv => NothingVanishes
  BY DEF IInv, Data
<1> QED BY <1>1, Invariance, PTL

\* What waits when Shutdown clears m_is_running is written, unless the log
\* thread was at the head of its loop.
THEOREM OwedWrittenCorrect == Spec => []OwedWritten
<1>1. IInv => OwedWritten
  BY DEF IInv, Owing
<1> QED BY <1>1, Invariance, PTL

-----------------------------------------------------------------------------
(* The configuration.                                                      *)

Frame == [old : Configuration, todo : SUBSET Keys, at : Keys \cup {None},
          rest : Seq(Subscribers), calling : BOOLEAN]

\* A callback whose value is stale has a Reload under way that will call it: the
\* loop over the callbacks of its key is on its way to it, or the key is still
\* to visit and the copy that Reload compares with holds the stale value: it
\* cannot take the key for unchanged unless the value has come back, or come
\* close.
Awaited(k, s) ==
    \E i \in 1 .. Depth :
        \/ k \in reloads[i].todo /\ told[k][s] = reloads[i].old[k]
        \/ k = reloads[i].at /\ s \in Range(reloads[i].rest)
Owed(k, s) == told[k][s] = configs[k] \/ Awaited(k, s)

ConfigInv ==
    /\ ConfigTypeOK
    /\ \A i \in 1 .. Depth : \A k \in reloads[i].todo : callbacks[k] # <<>>
    /\ holder = None <=> reloads = <<>>
    /\ fault = "none" =>
          \A k \in Keys, s \in Subscribers : <<k, s>> \in Registered \ skipped => Owed(k, s)

LEMMA Frames ==
    ASSUME ConfigTypeOK
    PROVE  /\ reloads \in Seq(Frame) /\ Depth \in Nat
           /\ DOMAIN reloads = 1 .. Depth
           /\ \A i \in 1 .. Depth : reloads[i] \in Frame
           /\ reloads # <<>> => Depth \in 1 .. Depth /\ Innermost \in Frame
           /\ reloads = <<>> => Depth = 0
<1>1. reloads \in Seq(Frame)
  BY DEF ConfigTypeOK, Frame
<1>2. Depth \in Nat /\ DOMAIN reloads = 1 .. Depth
  BY <1>1, LenProperties DEF Depth
<1>3. \A i \in 1 .. Depth : reloads[i] \in Frame
  BY <1>1, ElementOfSeq DEF Depth
<1>4. reloads # <<>> => Depth \in 1 .. Depth
  BY <1>1, <1>2, EmptySeq DEF Depth
<1>5. reloads = <<>> => Depth = 0
  BY EmptySeq DEF Depth
<1> QED BY <1>1, <1>2, <1>3, <1>4, <1>5 DEF Innermost

\* The frame of the innermost Reload is replaced, and no other.
LEMMA TopReplaced ==
    ASSUME ConfigTypeOK, reloads # <<>>, NEW r \in Frame
    PROVE  /\ SetTop(r) \in Seq(Frame) /\ Len(SetTop(r)) = Depth
           /\ SetTop(r) # <<>>
           /\ \A i \in 1 .. Depth :
                 SetTop(r)[i] = IF i = Depth THEN r ELSE reloads[i]
<1>1. reloads \in Seq(Frame) /\ Depth \in 1 .. Len(reloads) /\ Len(reloads) = Depth
  BY Frames DEF Depth
<1>2. SetTop(r) \in Seq(Frame) /\ Len(SetTop(r)) = Len(reloads)
      /\ \A i \in 1 .. Len(reloads) :
            SetTop(r)[i] = IF i = Depth THEN r ELSE reloads[i]
  BY <1>1, ExceptSeq DEF SetTop
<1> QED BY <1>1, <1>2, EmptySeq

\* The n outermost Reloads stay.
LEMMA OutermostStay ==
    ASSUME ConfigTypeOK, NEW n \in Nat, n <= Depth, reloads' = Outermost(n)
    PROVE  /\ reloads' \in Seq(Frame) /\ Depth' = n
           /\ reloads' = <<>> <=> n = 0
           /\ \A i \in 1 .. n : reloads'[i] = reloads[i]
<1>1. \A i \in 1 .. n : reloads[i] \in Frame
  BY Frames
<1>2. LET s == SubSeq(reloads, 1, n)
      IN  s \in Seq(Frame) /\ Len(s) = n /\ \A i \in 1 .. n : s[i] = reloads[i]
  BY <1>1, SubSeqProperties
<1>3. /\ reloads' \in Seq(Frame) /\ Len(reloads') = n
      /\ \A i \in 1 .. n : reloads'[i] = reloads[i]
  BY <1>2 DEF Outermost
<1>4. reloads' = <<>> <=> n = 0
  BY <1>3, EmptySeq
<1> QED BY <1>3, <1>4 DEF Depth

\* A Reload that goes on as before still calls whoever it was to call.
Keeps(r, q) == q.old = r.old /\ r.todo \subseteq q.todo /\ q.at = r.at /\ q.rest = r.rest

LEMMA StaysAwaited ==
    ASSUME ConfigTypeOK, NEW k \in Keys, NEW s \in Subscribers, Awaited(k, s),
           told'[k][s] = told[k][s], Depth' \in Nat, Depth <= Depth',
           \A i \in 1 .. Depth : Keeps(reloads[i], reloads'[i])
    PROVE  Awaited(k, s)'
<1>1. Depth \in Nat
  BY Frames
<1>2. PICK i \in 1 .. Depth :
        \/ k \in reloads[i].todo /\ told[k][s] = reloads[i].old[k]
        \/ k = reloads[i].at /\ s \in Range(reloads[i].rest)
  BY DEF Awaited
<1>3. i \in 1 .. Depth' /\ Keeps(reloads[i], reloads'[i])
  BY <1>1
<1>4. \/ k \in reloads'[i].todo /\ told'[k][s] = reloads'[i].old[k]
      \/ k = reloads'[i].at /\ s \in Range(reloads'[i].rest)
  BY <1>2, <1>3 DEF Keeps
<1> QED BY <1>3, <1>4 DEF Awaited

-----------------------------------------------------------------------------
(* The callbacks of a key.                                                 *)

LEMMA RangeFirst ==
    ASSUME NEW S, NEW q \in Seq(S), q # <<>>
    PROVE  /\ Head(q) \in S /\ Tail(q) \in Seq(S)
           /\ Range(q) = {Head(q)} \cup Range(Tail(q))
<1>1. Head(q) \in S /\ Tail(q) \in Seq(S)
  BY HeadTailProperties
<1>2. EventsOf(q) = {Head(q)} \cup EventsOf(Tail(q))
  BY EventsOfTail
<1> QED BY <1>1, <1>2 DEF EventsOf, Range

LEMMA RangeEmpty == Range(<<>>) = {}
BY DEF Range

\* OnChange registers the one callback and disturbs no other.
LEMMA Subscribed ==
    ASSUME ConfigTypeOK, NEW k \in Keys, NEW s \in Subscribers, Subscribes(k, s)
    PROVE  /\ callbacks' \in [Keys -> Seq(Subscribers)]
           /\ told' \in [Keys -> [Subscribers -> Value \cup {Absent}]]
           /\ told'[k][s] = configs[k]
           /\ callbacks'[k] # <<>>
           /\ \A l \in Keys : callbacks[l] # <<>> => callbacks'[l] # <<>>
           /\ \A l \in Keys, x \in Subscribers : l # k \/ x # s =>
                 /\ told'[l][x] = told[l][x]
                 /\ <<l, x>> \in Registered' => <<l, x>> \in Registered
<1>1. /\ callbacks' = [callbacks EXCEPT ![k] = Append(callbacks[k], s)]
      /\ told' = [told EXCEPT ![k][s] = configs[k]]
  BY DEF Subscribes
<1>2. /\ callbacks \in [Keys -> Seq(Subscribers)]
      /\ told \in [Keys -> [Subscribers -> Value \cup {Absent}]]
      /\ configs[k] \in Value \cup {Absent}
  BY DEF ConfigTypeOK, Configuration
<1>3. /\ Append(callbacks[k], s) \in Seq(Subscribers) /\ Append(callbacks[k], s) # <<>>
      /\ Range(Append(callbacks[k], s)) = Range(callbacks[k]) \cup {s}
  <2>1. callbacks[k] \in Seq(Subscribers)
    BY <1>2
  <2>2. EventsOf(Append(callbacks[k], s)) = EventsOf(callbacks[k]) \cup {s}
    BY <2>1, EventsOfAppend
  <2> QED BY <2>1, <2>2, AppendProperties DEF EventsOf, Range
<1>4. /\ callbacks' \in [Keys -> Seq(Subscribers)] /\ callbacks'[k] = Append(callbacks[k], s)
      /\ \A l \in Keys \ {k} : callbacks'[l] = callbacks[l]
  BY <1>1, <1>2, <1>3
<1>5. /\ told' \in [Keys -> [Subscribers -> Value \cup {Absent}]]
      /\ told'[k][s] = configs[k]
      /\ \A l \in Keys, x \in Subscribers : l # k \/ x # s => told'[l][x] = told[l][x]
  BY <1>1, <1>2
<1>6. ASSUME NEW l \in Keys, NEW x \in Subscribers, l # k \/ x # s, <<l, x>> \in Registered'
      PROVE  <<l, x>> \in Registered
  <2>1. <<l, x>> \in Subscriptions /\ x \in Range(callbacks'[l])
    BY <1>6 DEF Registered
  <2>2. x \in Range(callbacks[l])
    BY <1>3, <1>4, <1>6, <2>1
  <2> QED BY <2>1, <2>2 DEF Registered
<1> QED BY <1>3, <1>4, <1>5, <1>6

\* A callback that is called with a key has read it, and no other is disturbed.
LEMMA Informed1 ==
    ASSUME ConfigTypeOK, NEW k \in Keys, NEW s \in Subscribers, Informs(k, s)
    PROVE  /\ told' \in [Keys -> [Subscribers -> Value \cup {Absent}]]
           /\ skipped' \subseteq Subscriptions
           /\ told'[k][s] = configs[k]
           /\ \A l \in Keys, x \in Subscribers : l # k \/ x # s =>
                 /\ told'[l][x] = told[l][x]
                 /\ <<l, x>> \notin skipped' => <<l, x>> \notin skipped
BY DEF ConfigTypeOK, Configuration, Informs

-----------------------------------------------------------------------------
(* Values.                                                                 *)

\* Parsing gives every key a typed value or none.
LEMMA ParsedTyped ==
    ASSUME NEW file \in File, NEW c \in Configuration
    PROVE  Parsed(file, c) \in Configuration
<1>1. ASSUME NEW s \in Scalars PROVE ParseScalar(s) \in Value
  <2>1. \A v \in {s.text, s.stoi, s.stod} :
           v \in {"true", "false"} \cup UNION {{x.text, x.stoi, x.stod} : x \in Scalars}
    OBVIOUS
  <2> QED BY <2>1 DEF ParseScalar, Value
<1>2. ASSUME NEW k \in Keys, file.content[k] # Absent PROVE file.content[k] \in Scalars
  <2>1. file.content \in [Keys -> Scalars \cup {Absent}]
    BY ConfigAssumption DEF File
  <2> QED BY <1>2, <2>1
<1>3. ASSUME NEW k \in Keys
      PROVE  (IF file.defect # "unreadable" /\ k \in file.upto /\ file.content[k] # Absent
              THEN ParseScalar(file.content[k]) ELSE c[k]) \in Value \cup {Absent}
  BY <1>1, <1>2 DEF Configuration
<1> QED BY <1>3 DEF Parsed, Configuration

\* What IsConfigChanged takes for unchanged is equal, or a close double.
LEMMA UnchangedIsClose ==
    ASSUME NEW old \in Configuration, configs \in Configuration,
           NEW k \in Keys, ~IsConfigChanged(k, old)
    PROVE  old[k] = configs[k] \/ Tolerated(old[k], configs[k])
<1>1. CASE old[k] = Absent \/ configs[k] = Absent
  BY <1>1 DEF IsConfigChanged
<1>2. CASE old[k] # Absent /\ configs[k] # Absent
  <2>1. old[k] \in Value /\ configs[k] \in Value
    BY <1>2 DEF Configuration
  <2>2. SameValue(old[k], configs[k])
    BY <1>2 DEF IsConfigChanged
  <2>3. CASE old[k].type = "double"
    BY <1>2, <2>2, <2>3 DEF SameValue, Tolerated
  <2>4. CASE old[k].type # "double"
    BY <2>1, <2>2, <2>4 DEF SameValue, Value
  <2> QED BY <2>3, <2>4
<1> QED BY <1>1, <1>2

LEMMA ConfigInitInv == ConfigInit => ConfigInv
<1> SUFFICES ASSUME ConfigInit PROVE ConfigInv
  OBVIOUS
<1>1. ConfigTypeOK
  BY EmptySeq DEF ConfigInit, ConfigTypeOK, Configuration
<1>2. Depth = 0
  BY <1>1, Frames DEF ConfigInit
<1>3. \A k \in Keys, s \in Subscribers : told[k][s] = configs[k]
  BY DEF ConfigInit
<1> QED BY <1>1, <1>2, <1>3 DEF ConfigInit, ConfigInv, Owed

-----------------------------------------------------------------------------
(* The steps.                                                              *)

LEMMA CallReloadInv == ConfigInv /\ CallReload => ConfigInv'
<1> SUFFICES ASSUME ConfigInv, CallReload PROVE ConfigInv'
  OBVIOUS
<1> DEFINE r == [Innermost EXCEPT !.calling = TRUE]
<1>1. /\ reloads # <<>> /\ reloads' = SetTop(r)
      /\ UNCHANGED <<configs, callbacks, holder, fault, told, skipped>>
  BY DEF CallReload, InCallback
<1>2. r \in Frame /\ Keeps(Innermost, r) /\ r.todo = Innermost.todo
  BY <1>1, Frames DEF ConfigInv, Frame, Keeps
<1> HIDE DEF r
<1>3. /\ reloads' \in Seq(Frame) /\ Depth' = Depth /\ reloads' # <<>> /\ Depth \in Nat
      /\ \A i \in 1 .. Depth : reloads'[i].todo = reloads[i].todo
      /\ \A i \in 1 .. Depth : Keeps(reloads[i], reloads'[i])
  BY <1>1, <1>2, TopReplaced, Frames DEF ConfigInv, Innermost, Depth, Keeps
<1>4. ConfigTypeOK'
  BY <1>1, <1>3 DEF ConfigInv, ConfigTypeOK, Frame, Configuration, Value
<1>5. ASSUME fault' = "none", NEW k \in Keys, NEW s \in Subscribers,
             <<k, s>> \in (Registered \ skipped)'
      PROVE  Owed(k, s)'
  BY <1>1, <1>3, <1>5, StaysAwaited DEF ConfigInv, Registered, Owed
<1> QED BY <1>1, <1>3, <1>4, <1>5 DEF ConfigInv

LEMMA ReloadInv ==
    ASSUME ConfigInv, NEW t \in Threads, NEW file \in File,
           Reload(t, file)
    PROVE  ConfigInv'
<1> DEFINE outer == IF reloads = <<>> THEN <<>>
                    ELSE SetTop([Innermost EXCEPT !.calling = FALSE])
           entered == [old |-> configs, todo |-> {k \in Keys : callbacks[k] # <<>>},
                       at |-> None, rest |-> <<>>, calling |-> FALSE]
<1>1. UNCHANGED <<callbacks, fault, told, skipped>>
  BY DEF Reload
<1>2. /\ outer \in Seq(Frame) /\ Len(outer) = Depth /\ Depth \in Nat
      /\ \A i \in 1 .. Depth : /\ outer[i].todo = reloads[i].todo
                               /\ Keeps(reloads[i], outer[i])
  <2>1. CASE reloads = <<>>
    BY <2>1, Frames, EmptySeq DEF ConfigInv
  <2>2. CASE reloads # <<>>
    <3> DEFINE r == [Innermost EXCEPT !.calling = FALSE]
    <3>1. r \in Frame /\ Keeps(Innermost, r) /\ r.todo = Innermost.todo
      BY <2>2, Frames DEF ConfigInv, Frame, Keeps
    <3>2. outer = SetTop(r)
      BY <2>2
    <3> HIDE DEF r, outer
    <3> QED BY <2>2, <3>1, <3>2, TopReplaced, Frames DEF ConfigInv, Innermost, Keeps
  <2> QED BY <2>1, <2>2
<1>3. outer = <<>> <=> reloads = <<>>
  BY <1>2, Frames, EmptySeq DEF ConfigInv
<1>4. CASE LoadSucceeds(file)
  <2>1. /\ configs' = Parsed(file, [k \in Keys |-> Absent])
        /\ reloads' = Append(outer, entered) /\ holder' = t
    BY <1>4 DEF Reload
  <2>2. configs' \in Configuration
    <3>1. [k \in Keys |-> Absent] \in Configuration
      BY DEF Configuration
    <3> QED BY <2>1, <3>1, ParsedTyped
  <2>3. entered \in Frame
    BY EmptySeq DEF ConfigInv, ConfigTypeOK, Frame
  <2>4. entered.todo = {k \in Keys : callbacks[k] # <<>>} /\ entered.old = configs
    OBVIOUS
  <2> HIDE DEF outer, entered
  <2>5. /\ reloads' \in Seq(Frame) /\ reloads' # <<>> /\ Depth' = Depth + 1
        /\ \A i \in 1 .. Depth : reloads'[i] = outer[i]
        /\ reloads'[Depth + 1] = entered
    <3> DEFINE s == Append(outer, entered)
    <3>1. /\ s \in Seq(Frame) /\ s # <<>> /\ Len(s) = Len(outer) + 1
          /\ \A i \in 1 .. Len(outer) : s[i] = outer[i]
          /\ s[Len(outer) + 1] = entered
      BY <1>2, <2>3, AppendProperties
    <3> QED BY <1>2, <2>1, <3>1 DEF Depth
  <2>6. holder' # None /\ holder' \in Threads
    BY <2>1, ConfigAssumption
  <2>7. ConfigTypeOK'
    BY <1>1, <2>2, <2>5, <2>6
    DEF ConfigInv, ConfigTypeOK, Frame, Configuration, Value
  <2>8. ASSUME NEW i \in 1 .. Depth', NEW k \in reloads'[i].todo PROVE callbacks'[k] # <<>>
    BY <1>1, <1>2, <2>4, <2>5 DEF ConfigInv
  <2>9. ASSUME fault' = "none", NEW k \in Keys, NEW s \in Subscribers,
               <<k, s>> \in (Registered \ skipped)'
        PROVE  Owed(k, s)'
    <3>1. Owed(k, s) /\ callbacks[k] # <<>>
      BY <1>1, <2>9, RangeEmpty DEF ConfigInv, Registered
    <3>2. CASE told[k][s] = configs[k]
      <4>1. Depth + 1 \in 1 .. Depth'
        BY <1>2, <2>5
      <4>2. k \in reloads'[Depth + 1].todo /\ told'[k][s] = reloads'[Depth + 1].old[k]
        BY <1>1, <2>4, <2>5, <3>1, <3>2
      <4> QED BY <4>1, <4>2 DEF Owed, Awaited
    <3>3. CASE Awaited(k, s)
      <4>1. \A i \in 1 .. Depth : Keeps(reloads[i], reloads'[i])
        BY <1>2, <2>5
      <4> QED BY <1>1, <1>2, <2>5, <3>3, <4>1, StaysAwaited DEF ConfigInv, Owed
    <3> QED BY <3>1, <3>2, <3>3 DEF Owed
  <2> QED BY <2>5, <2>6, <2>7, <2>8, <2>9 DEF ConfigInv
<1>5. CASE ~LoadSucceeds(file)
  <2>1. configs' = configs /\ reloads' = outer /\ holder' = holder
    BY <1>5 DEF Reload
  <2> HIDE DEF outer
  <2>2. Depth' = Depth
    BY <1>2, <2>1 DEF Depth
  <2>3. ConfigTypeOK'
    BY <1>1, <1>2, <2>1 DEF ConfigInv, ConfigTypeOK, Frame, Configuration, Value
  <2>4. ASSUME fault' = "none", NEW k \in Keys, NEW s \in Subscribers,
               <<k, s>> \in (Registered \ skipped)'
        PROVE  Owed(k, s)'
    BY <1>1, <1>2, <2>1, <2>2, <2>4, StaysAwaited DEF ConfigInv, Registered, Owed
  <2> QED BY <1>1, <1>2, <1>3, <2>1, <2>2, <2>3, <2>4 DEF ConfigInv
<1> QED BY <1>4, <1>5

LEMMA VisitInv ==
    ASSUME ConfigInv, NEW k \in Keys, Visit(k) PROVE ConfigInv'
<1> DEFINE changed == IsConfigChanged(k, Innermost.old)
           left == [Innermost EXCEPT !.todo = @ \ {k}]
           r == IF changed THEN [left EXCEPT !.at = k, !.rest = Tail(callbacks[k])] ELSE left
<1>1. /\ fault = "none" /\ reloads # <<>> /\ k \in Innermost.todo /\ Innermost.at = None
      /\ UNCHANGED <<configs, callbacks, holder, fault>>
      /\ reloads' = SetTop(r)
      /\ changed => Informs(k, Head(callbacks[k]))
      /\ ~changed => /\ told' = [told EXCEPT ![k] = CarriedOver(k, Innermost.old[k])]
                     /\ skipped' = skipped
  BY DEF Visit, Between
<1>2. ConfigTypeOK /\ Depth \in 1 .. Depth /\ Depth \in Nat /\ Innermost \in Frame
      /\ callbacks[k] # <<>> /\ callbacks[k] \in Seq(Subscribers)
  BY <1>1, Frames DEF ConfigInv, ConfigTypeOK, Innermost
<1>3. /\ Head(callbacks[k]) \in Subscribers /\ Tail(callbacks[k]) \in Seq(Subscribers)
      /\ Range(callbacks[k]) = {Head(callbacks[k])} \cup Range(Tail(callbacks[k]))
  BY <1>2, RangeFirst
<1>4. /\ r \in Frame /\ r.todo = Innermost.todo \ {k} /\ r.old = Innermost.old
      /\ changed => r.at = k /\ r.rest = Tail(callbacks[k])
  BY <1>2, <1>3 DEF Frame
<1> HIDE DEF r, left, changed
<1>5. /\ reloads' \in Seq(Frame) /\ Depth' = Depth /\ reloads' # <<>>
      /\ \A i \in 1 .. Depth : reloads'[i] = IF i = Depth THEN r ELSE reloads[i]
  BY <1>1, <1>2, <1>4, TopReplaced DEF Depth
<1>6. /\ told' \in [Keys -> [Subscribers -> Value \cup {Absent}]]
      /\ skipped' \subseteq Subscriptions
      /\ \A l \in Keys \ {k} : told'[l] = told[l]
      /\ \A l \in Keys \ {k}, s \in Subscribers :
            <<l, s>> \notin skipped' => <<l, s>> \notin skipped
  <2>1. CASE changed
    <3> DEFINE s == Head(callbacks[k])
    <3>1. s \in Subscribers /\ Informs(k, s)
      BY <1>1, <1>3, <2>1
    <3> HIDE DEF s
    <3>2. /\ told' \in [Keys -> [Subscribers -> Value \cup {Absent}]]
          /\ skipped' \subseteq Subscriptions
      BY <1>2, <3>1, Informed1
    <3>3. ASSUME NEW l \in Keys \ {k} PROVE told'[l] = told[l]
      BY <1>2, <3>1, <3>3 DEF Informs, ConfigTypeOK
    <3>4. ASSUME NEW l \in Keys \ {k}, NEW x \in Subscribers, <<l, x>> \notin skipped'
          PROVE  <<l, x>> \notin skipped
      BY <1>2, <3>1, <3>4, Informed1
    <3> QED BY <3>2, <3>3, <3>4
  <2>2. CASE ~changed
    <3>1. CarriedOver(k, Innermost.old[k]) \in [Subscribers -> Value \cup {Absent}]
      BY <1>2 DEF CarriedOver, ConfigTypeOK, Configuration
    <3> QED BY <1>1, <1>2, <2>2, <3>1 DEF ConfigTypeOK
  <2> QED BY <2>1, <2>2
<1>7. ConfigTypeOK'
  BY <1>1, <1>2, <1>5, <1>6 DEF ConfigTypeOK, Frame, Configuration, Value
<1>8. \A i \in 1 .. Depth' : \A l \in reloads'[i].todo : callbacks'[l] # <<>>
  BY <1>1, <1>2, <1>4, <1>5 DEF ConfigInv, Innermost
<1>9. ASSUME NEW l \in Keys \ {k}, NEW s \in Subscribers,
             <<l, s>> \in (Registered \ skipped)'
      PROVE  Owed(l, s)'
  <2>1. Owed(l, s) /\ told'[l][s] = told[l][s]
    BY <1>1, <1>6, <1>9 DEF ConfigInv, Registered
  <2>2. ASSUME NEW i \in 1 .. Depth,
               \/ l \in reloads[i].todo /\ told[l][s] = reloads[i].old[l]
               \/ l = reloads[i].at /\ s \in Range(reloads[i].rest)
        PROVE  \/ l \in reloads'[i].todo /\ told'[l][s] = reloads'[i].old[l]
               \/ l = reloads'[i].at /\ s \in Range(reloads'[i].rest)
    <3>1. CASE i = Depth
      <4>1. l # Innermost.at
        BY <1>1, ConfigAssumption
      <4> QED BY <1>4, <1>5, <2>1, <2>2, <3>1, <4>1 DEF Innermost
    <3>2. CASE i # Depth
      BY <1>5, <2>1, <2>2, <3>2
    <3> QED BY <3>1, <3>2
  <2> QED BY <1>1, <1>5, <2>1, <2>2 DEF Owed, Awaited
<1>10. ASSUME NEW s \in Subscribers, <<k, s>> \in (Registered \ skipped)'
       PROVE  Owed(k, s)'
  <2>1. CASE changed
    <3>1. s \in Range(callbacks[k])
      BY <1>1, <1>10 DEF Registered
    <3>2. CASE s = Head(callbacks[k])
      BY <1>1, <1>2, <1>3, <2>1, <3>2, Informed1 DEF Owed
    <3>3. CASE s \in Range(Tail(callbacks[k]))
      <4>1. k = reloads'[Depth].at /\ s \in Range(reloads'[Depth].rest)
        BY <1>2, <1>4, <1>5, <2>1, <3>3
      <4>2. Depth \in 1 .. Depth'
        BY <1>2, <1>5
      <4> QED BY <4>1, <4>2 DEF Owed, Awaited
    <3> QED BY <1>3, <3>1, <3>2, <3>3
  <2>2. CASE ~changed
    <3>1. /\ told'[k][s] = IF /\ told[k][s] = Innermost.old[k]
                              /\ Tolerated(Innermost.old[k], configs[k])
                           THEN configs[k] ELSE told[k][s]
          /\ Owed(k, s)
      BY <1>1, <1>2, <1>10, <2>2 DEF CarriedOver, ConfigInv, ConfigTypeOK, Registered
    <3>2. Innermost.old[k] = configs[k] \/ Tolerated(Innermost.old[k], configs[k])
      BY <1>2, <2>2, UnchangedIsClose DEF Frame, ConfigTypeOK, changed
    <3>3. CASE told'[k][s] = configs[k]
      BY <1>1, <3>3 DEF Owed
    <3>4. CASE told'[k][s] # configs[k]
      <4>1. told'[k][s] = told[k][s] /\ told[k][s] # Innermost.old[k]
        BY <3>1, <3>2, <3>4
      <4>2. PICK i \in 1 .. Depth :
              \/ k \in reloads[i].todo /\ told[k][s] = reloads[i].old[k]
              \/ k = reloads[i].at /\ s \in Range(reloads[i].rest)
        BY <3>1, <3>4, <4>1 DEF Owed, Awaited
      <4>3. i # Depth
        BY <1>1, <4>1, <4>2, ConfigAssumption DEF Innermost
      <4>4. reloads'[i] = reloads[i] /\ i \in 1 .. Depth'
        BY <1>5, <4>3
      <4> QED BY <4>1, <4>2, <4>4 DEF Owed, Awaited
    <3> QED BY <3>3, <3>4
  <2> QED BY <2>1, <2>2
<1>11. \A l \in Keys, s \in Subscribers : <<l, s>> \in (Registered \ skipped)' => Owed(l, s)'
  BY <1>9, <1>10
<1> QED BY <1>1, <1>5, <1>7, <1>8, <1>11 DEF ConfigInv

LEMMA CallbackReturnsInv == ConfigInv /\ CallbackReturns => ConfigInv'
<1> SUFFICES ASSUME ConfigInv, CallbackReturns PROVE ConfigInv'
  OBVIOUS
<1> DEFINE last == Innermost.rest = <<>>
           r == IF last THEN [Innermost EXCEPT !.at = None]
                ELSE [Innermost EXCEPT !.rest = Tail(@)]
<1>1. /\ reloads # <<>> /\ reloads' = SetTop(r) /\ fault = "none" /\ Innermost.at # None
      /\ UNCHANGED <<configs, callbacks, holder, fault>>
      /\ last => UNCHANGED <<told, skipped>>
      /\ ~last => Informs(Innermost.at, Head(Innermost.rest))
  BY DEF CallbackReturns, InCallback
<1>2. ConfigTypeOK /\ Depth \in 1 .. Depth /\ Depth \in Nat /\ Innermost \in Frame
      /\ Innermost.rest \in Seq(Subscribers) /\ Innermost.at \in Keys
  BY <1>1, Frames DEF ConfigInv, Frame
<1>3. ~last => /\ Head(Innermost.rest) \in Subscribers
               /\ Tail(Innermost.rest) \in Seq(Subscribers)
               /\ Range(Innermost.rest) = {Head(Innermost.rest)} \cup Range(Tail(Innermost.rest))
  BY <1>2, RangeFirst
<1>4. /\ r \in Frame /\ r.todo = Innermost.todo /\ r.old = Innermost.old
      /\ ~last => r.at = Innermost.at /\ r.rest = Tail(Innermost.rest)
  BY <1>2, <1>3 DEF Frame
<1>5. last => Range(Innermost.rest) = {}
  BY RangeEmpty
<1> HIDE DEF r, last
<1>6. /\ reloads' \in Seq(Frame) /\ Depth' = Depth /\ reloads' # <<>>
      /\ \A i \in 1 .. Depth : reloads'[i] = IF i = Depth THEN r ELSE reloads[i]
  BY <1>1, <1>2, <1>4, TopReplaced DEF Depth
<1>7. told' \in [Keys -> [Subscribers -> Value \cup {Absent}]] /\ skipped' \subseteq Subscriptions
  BY <1>1, <1>2, <1>3, Informed1 DEF ConfigTypeOK
<1>8. ConfigTypeOK'
  BY <1>1, <1>2, <1>6, <1>7 DEF ConfigTypeOK, Frame, Configuration, Value
<1>9. \A i \in 1 .. Depth' : \A l \in reloads'[i].todo : callbacks'[l] # <<>>
  BY <1>1, <1>2, <1>4, <1>6 DEF ConfigInv, Innermost
<1>10. ASSUME NEW k \in Keys, NEW s \in Subscribers, <<k, s>> \in (Registered \ skipped)'
       PROVE  Owed(k, s)'
  <2>1. CASE ~last /\ k = Innermost.at /\ s = Head(Innermost.rest)
    BY <1>1, <1>2, <1>3, <2>1, Informed1 DEF Owed
  <2>2. CASE last \/ k # Innermost.at \/ s # Head(Innermost.rest)
    <3>1. told'[k][s] = told[k][s] /\ <<k, s>> \in Registered \ skipped
      BY <1>1, <1>2, <1>3, <1>10, <2>2, Informed1 DEF Registered
    <3>2. Owed(k, s)
      BY <1>1, <3>1 DEF ConfigInv
    <3>3. ASSUME NEW i \in 1 .. Depth,
                 \/ k \in reloads[i].todo /\ told[k][s] = reloads[i].old[k]
                 \/ k = reloads[i].at /\ s \in Range(reloads[i].rest)
          PROVE  \/ k \in reloads'[i].todo /\ told'[k][s] = reloads'[i].old[k]
                 \/ k = reloads'[i].at /\ s \in Range(reloads'[i].rest)
      BY <1>3, <1>4, <1>5, <1>6, <2>2, <3>1, <3>3 DEF Innermost
    <3> QED BY <1>1, <1>6, <3>1, <3>2, <3>3 DEF Owed, Awaited
  <2> QED BY <2>1, <2>2
<1> QED BY <1>1, <1>6, <1>8, <1>9, <1>10 DEF ConfigInv

LEMMA CallbackThrowsInv ==
    ASSUME ConfigInv, NEW n \in 0 .. MaxDepth - 1, CallbackThrows(n) PROVE ConfigInv'
<1>1. /\ skipped' = skipped \cup
            {ks \in Registered : /\ told[ks[1]][ks[2]] # configs[ks[1]]
                                 /\ \E i \in n + 1 .. Depth : StillCalls(reloads[i], ks[1], ks[2])}
      /\ reloads' = Outermost(n) /\ n < Depth
      /\ holder' = IF n = 0 THEN None ELSE holder
      /\ UNCHANGED <<configs, callbacks, fault, told>>
      /\ reloads # <<>> /\ fault = "none"
  BY DEF CallbackThrows, InCallback
<1>2. ConfigTypeOK /\ n \in Nat /\ Depth \in Nat
  BY Frames, ConfigAssumption DEF ConfigInv
<1>3. /\ reloads' \in Seq(Frame) /\ Depth' = n
      /\ reloads' = <<>> <=> n = 0
      /\ \A i \in 1 .. n : reloads'[i] = reloads[i]
  BY <1>1, <1>2, OutermostStay
<1>4. skipped' \subseteq Subscriptions
  BY <1>1, <1>2 DEF ConfigTypeOK, Registered
<1>5. ConfigTypeOK'
  BY <1>1, <1>2, <1>3, <1>4 DEF ConfigTypeOK, Frame, Configuration, Value
<1>6. ASSUME NEW k \in Keys, NEW s \in Subscribers, <<k, s>> \in (Registered \ skipped)'
      PROVE  Owed(k, s)'
  <2>1. <<k, s>> \in Registered \ skipped
    BY <1>1, <1>6 DEF Registered
  <2>2. CASE told[k][s] = configs[k]
    BY <1>1, <2>2 DEF Owed
  <2>3. CASE told[k][s] # configs[k]
    <3>1. \A i \in n + 1 .. Depth : ~StillCalls(reloads[i], k, s)
      BY <1>1, <1>6, <2>1, <2>3
    <3>2. PICK i \in 1 .. Depth :
            \/ k \in reloads[i].todo /\ told[k][s] = reloads[i].old[k]
            \/ k = reloads[i].at /\ s \in Range(reloads[i].rest)
      BY <1>1, <2>1, <2>3 DEF ConfigInv, Owed, Awaited
    <3>3. i \in 1 .. n
      BY <1>2, <3>1, <3>2 DEF StillCalls
    <3> QED BY <1>1, <1>3, <3>2, <3>3 DEF Owed, Awaited
  <2> QED BY <2>2, <2>3
<1>7. \A i \in 1 .. Depth' : \A k \in reloads'[i].todo : callbacks'[k] # <<>>
  BY <1>1, <1>2, <1>3 DEF ConfigInv
<1>8. holder' = None <=> reloads' = <<>>
  BY <1>1, <1>3 DEF ConfigInv
<1> QED BY <1>5, <1>6, <1>7, <1>8 DEF ConfigInv

LEMMA ReloadReturnsInv == ConfigInv /\ ReloadReturns => ConfigInv'
<1> SUFFICES ASSUME ConfigInv, ReloadReturns PROVE ConfigInv'
  OBVIOUS
<1> DEFINE n == Depth - 1
<1>1. /\ reloads # <<>> /\ Innermost.todo = {} /\ Innermost.at = None /\ fault = "none"
      /\ reloads' = Outermost(n)
      /\ holder' = IF n = 0 THEN None ELSE holder
      /\ UNCHANGED <<configs, callbacks, fault, told, skipped>>
  <2>1. Depth = 1 <=> n = 0
    BY Frames DEF ConfigInv
  <2> QED BY <2>1 DEF ReloadReturns, Between
<1>2. ConfigTypeOK /\ n \in Nat /\ Depth = n + 1
  BY <1>1, Frames DEF ConfigInv
<1> HIDE DEF n
<1>3. /\ reloads' \in Seq(Frame) /\ Depth' = n
      /\ reloads' = <<>> <=> n = 0
      /\ \A i \in 1 .. n : reloads'[i] = reloads[i]
  BY <1>1, <1>2, OutermostStay
<1>4. ConfigTypeOK'
  BY <1>1, <1>2, <1>3 DEF ConfigTypeOK, Frame, Configuration, Value
<1>5. ASSUME NEW k \in Keys, NEW s \in Subscribers, <<k, s>> \in (Registered \ skipped)'
      PROVE  Owed(k, s)'
  <2>1. Owed(k, s)
    BY <1>1, <1>5 DEF ConfigInv, Registered
  <2>2. CASE told[k][s] = configs[k]
    BY <1>1, <2>2 DEF Owed
  <2>3. ASSUME NEW i \in 1 .. Depth,
               \/ k \in reloads[i].todo /\ told[k][s] = reloads[i].old[k]
               \/ k = reloads[i].at /\ s \in Range(reloads[i].rest)
        PROVE  Owed(k, s)'
    <3>1. i # Depth
      BY <1>1, <2>3, ConfigAssumption DEF Innermost
    <3>2. i \in 1 .. n
      BY <1>2, <3>1
    <3> QED BY <1>1, <1>3, <2>3, <3>2 DEF Owed, Awaited
  <2> QED BY <2>1, <2>2, <2>3 DEF Owed, Awaited
<1>6. \A i \in 1 .. Depth' : \A k \in reloads'[i].todo : callbacks'[k] # <<>>
  BY <1>1, <1>2, <1>3 DEF ConfigInv
<1>7. holder' = None <=> reloads' = <<>>
  BY <1>1, <1>3 DEF ConfigInv
<1> QED BY <1>4, <1>5, <1>6, <1>7 DEF ConfigInv

LEMMA LoadFromFileInv ==
    ASSUME ConfigInv, NEW file \in File, LoadFromFile(file)
    PROVE  ConfigInv'
<1>1. /\ configs' = Parsed(file, configs)
      /\ skipped' = skipped \cup {ks \in Registered : configs'[ks[1]] # configs[ks[1]]}
      /\ UNCHANGED <<callbacks, holder, reloads, fault, told>>
  BY DEF LoadFromFile
<1>2. configs' \in Configuration
  BY <1>1, ParsedTyped DEF ConfigInv, ConfigTypeOK
<1>3. ConfigTypeOK'
  BY <1>1, <1>2 DEF ConfigInv, ConfigTypeOK, Frame, Configuration, Value, Registered
<1>4. ASSUME fault' = "none", NEW k \in Keys, NEW s \in Subscribers,
             <<k, s>> \in (Registered \ skipped)'
      PROVE  Owed(k, s)'
  <2>1. <<k, s>> \in Registered \ skipped
    BY <1>1, <1>4 DEF Registered
  <2>2. configs'[k] = configs[k]
    BY <1>1, <1>4, <2>1
  <2> QED BY <1>1, <1>4, <2>1, <2>2 DEF ConfigInv, Owed, Awaited, Depth
<1> QED BY <1>1, <1>3, <1>4 DEF ConfigInv, Depth

LEMMA OnChangeInv ==
    ASSUME ConfigInv, NEW k \in Keys, NEW s \in Subscribers, OnChange(k, s) PROVE ConfigInv'
<1>1. Subscribes(k, s) /\ UNCHANGED <<configs, holder, reloads, fault, skipped>>
  BY DEF OnChange
<1>2. ConfigTypeOK'
  BY <1>1, Subscribed DEF ConfigInv, ConfigTypeOK, Frame, Configuration, Value
<1>3. ASSUME fault' = "none", NEW l \in Keys, NEW x \in Subscribers,
             <<l, x>> \in (Registered \ skipped)'
      PROVE  Owed(l, x)'
  <2>1. CASE l = k /\ x = s
    BY <1>1, <2>1, Subscribed DEF ConfigInv, Owed
  <2>2. CASE l # k \/ x # s
    <3>1. <<l, x>> \in Registered \ skipped /\ told'[l][x] = told[l][x]
      BY <1>1, <1>3, <2>2, Subscribed DEF ConfigInv
    <3> QED BY <1>1, <1>3, <3>1 DEF ConfigInv, Owed, Awaited, Depth
  <2> QED BY <2>1, <2>2
<1>4. ASSUME NEW i \in 1 .. Depth', NEW l \in reloads'[i].todo PROVE callbacks'[l] # <<>>
  <2>1. i \in 1 .. Depth /\ l \in reloads[i].todo
    BY <1>1 DEF Depth
  <2>2. l \in Keys /\ callbacks[l] # <<>>
    BY <2>1, Frames DEF ConfigInv, Frame
  <2> QED BY <1>1, <2>2, Subscribed DEF ConfigInv
<1> QED BY <1>1, <1>2, <1>3, <1>4 DEF ConfigInv

LEMMA OnChangeInCallbackInv ==
    ASSUME ConfigInv, NEW k \in Keys, NEW s \in Subscribers, NEW moved \in BOOLEAN,
           OnChangeInCallback(k, s, moved)
    PROVE  ConfigInv'
<1>1. PICK visiting \in SUBSET (1 .. Depth) :
          reloads' = [i \in 1 .. Depth |->
              IF i \in visiting
              THEN [reloads[i] EXCEPT !.todo = @ \cup {k}] ELSE reloads[i]]
  BY DEF OnChangeInCallback
<1>2. /\ fault' \in {"none", "invalidated"}
      /\ Subscribes(k, s)
      /\ UNCHANGED <<configs, holder, skipped>>
      /\ reloads # <<>> /\ fault = "none"
  BY DEF OnChangeInCallback, InCallback
<1>3. /\ ConfigTypeOK /\ Depth \in Nat \ {0}
      /\ \A i \in 1 .. Depth : reloads[i] \in Frame
  BY <1>2, Frames DEF ConfigInv
<1>4. \A i \in 1 .. Depth :
          /\ reloads'[i] \in Frame /\ Keeps(reloads[i], reloads'[i])
          /\ reloads'[i].todo \subseteq reloads[i].todo \cup {k}
  BY <1>1, <1>3 DEF Frame, Keeps
<1>5. reloads' \in Seq(Frame) /\ Depth' = Depth
  <2>1. reloads' \in [1 .. Depth -> Frame]
    BY <1>1, <1>4
  <2>2. reloads' \in Seq(Frame)
    BY <1>3, <2>1, SeqDef
  <2>3. DOMAIN reloads' = 1 .. Depth /\ DOMAIN reloads' = 1 .. Len(reloads')
        /\ Len(reloads') \in Nat
    BY <1>1, <2>2, LenProperties
  <2> QED BY <1>3, <2>2, <2>3 DEF Depth
<1>6. reloads' # <<>>
  BY <1>3, <1>5, EmptySeq DEF Depth
<1>7. ConfigTypeOK'
  BY <1>2, <1>3, <1>5, Subscribed DEF ConfigTypeOK, Frame, Configuration, Value
<1>8. ASSUME NEW l \in Keys, NEW x \in Subscribers, <<l, x>> \in (Registered \ skipped)'
      PROVE  Owed(l, x)'
  <2>1. CASE l = k /\ x = s
    BY <1>2, <1>3, <2>1, Subscribed DEF Owed
  <2>2. CASE l # k \/ x # s
    <3>1. <<l, x>> \in Registered \ skipped /\ told'[l][x] = told[l][x]
      BY <1>2, <1>3, <1>8, <2>2, Subscribed
    <3>2. Owed(l, x)
      BY <1>2, <3>1 DEF ConfigInv
    <3> QED BY <1>2, <1>3, <1>4, <1>5, <3>1, <3>2, StaysAwaited DEF Owed
  <2> QED BY <2>1, <2>2
<1>9. ASSUME NEW i \in 1 .. Depth', NEW l \in reloads'[i].todo PROVE callbacks'[l] # <<>>
  <2>1. l \in reloads[i].todo \/ l = k
    BY <1>4, <1>5
  <2>2. l \in reloads[i].todo => l \in Keys /\ callbacks[l] # <<>>
    BY <1>3, <1>5 DEF ConfigInv, Frame
  <2> QED BY <1>2, <1>3, <2>1, <2>2, Subscribed
<1> QED BY <1>2, <1>6, <1>7, <1>8, <1>9 DEF ConfigInv

LEMMA ConfigNextInv ==
    ConfigInv /\ [ConfigNext]_configVars => ConfigInv'
<1> SUFFICES ASSUME ConfigInv, [ConfigNext]_configVars PROVE ConfigInv'
  OBVIOUS
<1>1. ASSUME NEW t \in Threads, NEW file \in File, Reload(t, file) PROVE ConfigInv'
  BY <1>1, ReloadInv
<1>2. CASE Holding
  BY <1>2, CallbackReturnsInv, ReloadReturnsInv, VisitInv DEF Holding
<1>3. CASE CallReload
  BY <1>3, CallReloadInv
<1>4. ASSUME NEW n \in 0 .. MaxDepth - 1, CallbackThrows(n) PROVE ConfigInv'
  BY <1>4, CallbackThrowsInv
<1>5. ASSUME NEW file \in File, LoadFromFile(file) PROVE ConfigInv'
  BY <1>5, LoadFromFileInv
<1>6. ASSUME NEW k \in Keys, NEW s \in Subscribers, OnChange(k, s) PROVE ConfigInv'
  BY <1>6, OnChangeInv
<1>7. ASSUME NEW k \in Keys, NEW s \in Subscribers, NEW moved \in BOOLEAN,
             OnChangeInCallback(k, s, moved)
      PROVE  ConfigInv'
  BY <1>7, OnChangeInCallbackInv
<1>8. CASE UNCHANGED configVars
  BY <1>8 DEF configVars, ConfigInv, Owed, Awaited, Depth, Registered, ConfigTypeOK,
     Configuration, Value
<1> QED BY <1>1, <1>2, <1>3, <1>4, <1>5, <1>6, <1>7, <1>8 DEF ConfigNext

\* The values, the frames of the Reloads under way and the holder of the mutex
\* keep their types, whatever the callbacks call.
THEOREM ConfigTypeCorrect == ConfigSpec => []ConfigTypeOK
<1>1. ConfigInit => ConfigInv
  BY ConfigInitInv
<1>2. ConfigInv /\ [ConfigNext]_configVars => ConfigInv'
  BY ConfigNextInv
<1>3. ConfigInv => ConfigTypeOK
  BY DEF ConfigInv
<1> QED BY <1>1, <1>2, <1>3, PTL DEF ConfigSpec

\* Whenever nobody holds the mutex every callback that was not passed over has
\* read what m_configs holds for its key, or a chain of doubles led there that
\* Reloads took for the same: for any files, keys, number of callbacks per key
\* and tolerance, however deep the callbacks nest their Reloads and whichever of
\* them fail and roll back.
THEOREM InformedCorrect == ConfigSpec => []Informed
<1>1. ConfigInit => ConfigInv
  BY ConfigInitInv
<1>2. ConfigInv /\ [ConfigNext]_configVars => ConfigInv'
  BY ConfigNextInv
<1>3. ConfigInv => Informed
  <2> SUFFICES ASSUME ConfigInv, holder = None, fault = "none",
                      NEW ks \in Registered \ skipped
               PROVE  told[ks[1]][ks[2]] = configs[ks[1]]
    BY DEF Informed
  <2>1. ks \in Keys \X Subscribers
    BY ConfigAssumption DEF Registered
  <2>2. ks[1] \in Keys /\ ks[2] \in Subscribers /\ ks = <<ks[1], ks[2]>>
    BY <2>1
  <2>3. Owed(ks[1], ks[2]) /\ reloads = <<>>
    BY <2>2 DEF ConfigInv
  <2>4. Depth = 0
    BY <2>3, Frames DEF ConfigInv
  <2> QED BY <2>3, <2>4 DEF Owed, Awaited
<1> QED BY <1>1, <1>2, <1>3, PTL DEF ConfigSpec
=============================================================================
