------------------------------- MODULE Logger -------------------------------
(***************************************************************************)
(* The asynchronous logger of Base/Log: any thread pushes events, one log  *)
(* thread takes them from m_log_queue and hands them to the appenders, and *)
(* the program's owner thread calls Init and Shutdown.  The mutex, the     *)
(* condition variable and the join are explicit.  An event is the number   *)
(* of its push; what it says and how it is formatted is left out, and only *)
(* calls that pass the level test are considered.                          *)
(***************************************************************************)
EXTENDS Integers, Sequences, FiniteSets

CONSTANTS
    Callers,    \* the threads that log
    MaxEvents,  \* bound: events ever pushed
    MaxInits    \* bound: calls of Init

ASSUME LoggerAssumption == MaxEvents \in Nat /\ MaxInits \in Nat

Nobody == "nobody"
LogThread == "log thread"
Appenders == 3      \* Init adds the console, the file and the error file

\* "top": the outer while; "lock": about to take the mutex; "test": the wait's
\* predicate; "block", "waiting": it was false; "drain": the inner while;
\* "write": an event in hand, the mutex released; "flush"; "last": the test of
\* m_is_running at the end.  "none": no std::thread yet.
LogPCs == {"none", "top", "lock", "test", "block", "waiting", "drain", "write", "flush",
           "last", "exited"}
OwnerPCs == {"down", "adding", "up", "notify", "join", "clear"}

VARIABLES
    running,    \* m_is_running
    queue,      \* m_log_queue
    appenders,  \* the size of m_appenders
    mutex,      \* who holds m_queue_mtx across steps: the log thread or nobody
    lpc,        \* where the log thread is in LogLoop
    inHand,     \* the event it moved out of the queue, 0 if none
    opc,        \* where the owner is
    cpc,        \* per caller: "idle", "push" or "notify"
    inits,      \* how often Init was called
    pushed,     \* history: the number of events pushed
    written,    \* history: the events given to the appenders, in order
    unflushed,  \* history: those of them not flushed yet
    owed,       \* history: the events a stop found waiting, while the log
                \* thread was past the head of its loop
    lost,       \* history: the events Shutdown threw away
    tested      \* history: m_is_running when the wait's predicate was tested

vars == <<running, queue, appenders, mutex, lpc, inHand, opc, cpc, inits, pushed, written,
          unflushed, owed, lost, tested>>

Init ==
    /\ running = FALSE
    /\ queue = <<>>
    /\ appenders = 0
    /\ mutex = Nobody
    /\ lpc = "none"
    /\ inHand = 0
    /\ opc = "down"
    /\ cpc = [c \in Callers |-> "idle"]
    /\ inits = 0 /\ pushed = 0
    /\ written = <<>>
    /\ unflushed = {} /\ owed = {} /\ lost = {}
    /\ tested = FALSE

EventsOf(q) == {q[i] : i \in DOMAIN q}

-----------------------------------------------------------------------------
(* Debug, Info, Warn, Error and Fatal.                                     *)

others == <<running, appenders, mutex, inHand, opc, inits, written, unflushed, owed, lost,
            tested>>

\* The flag is tested ...
Log(c) ==
    /\ cpc[c] = "idle"
    /\ running
    /\ cpc' = [cpc EXCEPT ![c] = "push"]
    /\ UNCHANGED <<others, queue, lpc, pushed>>

\* ... and only then the event pushed, under the mutex ...
Push(c) ==
    /\ cpc[c] = "push"
    /\ mutex = Nobody
    /\ pushed < MaxEvents
    /\ pushed' = pushed + 1
    /\ queue' = Append(queue, pushed + 1)
    /\ cpc' = [cpc EXCEPT ![c] = "notify"]
    /\ UNCHANGED <<others, lpc>>

\* ... and the log thread woken, if it waits.
Woken == IF lpc = "waiting" THEN "lock" ELSE lpc

Notify(c) ==
    /\ cpc[c] = "notify"
    /\ lpc' = Woken
    /\ cpc' = [cpc EXCEPT ![c] = "idle"]
    /\ UNCHANGED <<others, queue, pushed>>

-----------------------------------------------------------------------------
(* LogLoop.                                                                *)

outside == <<running, appenders, opc, cpc, inits, pushed, owed, lost>>

Goes(from, to) == lpc = from /\ lpc' = to

Top ==
    /\ IF running THEN Goes("top", "lock") ELSE Goes("top", "exited")
    /\ UNCHANGED <<outside, queue, mutex, inHand, written, unflushed, tested>>

Lock ==
    /\ Goes("lock", "test")
    /\ mutex = Nobody /\ mutex' = LogThread
    /\ UNCHANGED <<outside, queue, inHand, written, unflushed, tested>>

\* The predicate of m_cv.wait.
BugOnlyStop == ~running
BugOnlyEvents == queue # <<>>
MayProceed == queue # <<>> \/ ~running

Test ==
    /\ IF MayProceed THEN Goes("test", "drain") ELSE Goes("test", "block")
    /\ tested' = running
    /\ UNCHANGED <<outside, queue, mutex, inHand, written, unflushed>>

Block ==
    /\ Goes("block", "waiting")
    /\ mutex' = Nobody
    /\ UNCHANGED <<outside, queue, inHand, written, unflushed, tested>>

SpuriousWakeup ==
    /\ Goes("waiting", "lock")
    /\ UNCHANGED <<outside, queue, mutex, inHand, written, unflushed, tested>>

\* The inner while takes the oldest event and releases the mutex.
BugNewest == queue[Len(queue)]
Oldest == Head(queue)

Take ==
    /\ Goes("drain", "write")
    /\ queue # <<>>
    /\ inHand' = Oldest
    /\ queue' = Tail(queue)
    /\ mutex' = Nobody
    /\ UNCHANGED <<outside, written, unflushed, tested>>

\* The appenders get the event; the mutex is taken again and the while tested.
BugIfNotWhile == "flush"
AfterWrite == "drain"

Write ==
    /\ Goes("write", AfterWrite)
    /\ mutex = Nobody /\ mutex' = LogThread
    /\ written' = Append(written, inHand)
    /\ unflushed' = unflushed \cup {inHand}
    /\ inHand' = 0
    /\ UNCHANGED <<outside, queue, tested>>

Drained ==
    /\ Goes("drain", "flush")
    /\ queue = <<>>
    /\ UNCHANGED <<outside, queue, mutex, inHand, written, unflushed, tested>>

\* The events left unflushed by the loop over the appenders.
AfterFlush == {}

Flush ==
    /\ Goes("flush", "last")
    /\ unflushed' = AfterFlush
    /\ UNCHANGED <<outside, queue, mutex, inHand, written, tested>>

Last ==
    /\ IF running THEN Goes("last", "top") ELSE Goes("last", "exited")
    /\ mutex' = Nobody
    /\ UNCHANGED <<outside, queue, inHand, written, unflushed, tested>>

LogStep == Top \/ Lock \/ Test \/ Block \/ Take \/ Write \/ Drained \/ Flush \/ Last

-----------------------------------------------------------------------------
(* The owner.                                                              *)

logThread == <<mutex, inHand, written, tested>>

\* Logger::Init sets the flag, adds the appenders and starts the thread.
BeginInit ==
    /\ opc = "down" /\ opc' = "adding"
    /\ inits < MaxInits
    /\ inits' = inits + 1
    /\ running' = TRUE
    /\ UNCHANGED <<logThread, queue, lpc, appenders, cpc, pushed, unflushed, owed, lost>>

\* When the thread is started: after the last AddAppender.
Enough == Appenders

AddAppender ==
    /\ opc = "adding"
    /\ appenders < Enough
    /\ appenders' = appenders + 1
    /\ UNCHANGED <<logThread, running, queue, lpc, opc, cpc, inits, pushed, unflushed, owed,
                   lost>>

StartThread ==
    /\ opc = "adding" /\ opc' = "up"
    /\ appenders = Enough
    /\ lpc' = "top"
    /\ UNCHANGED <<logThread, running, queue, appenders, cpc, inits, pushed, unflushed, owed,
                   lost>>

\* Shutdown: the flag, without the mutex, then notify_one ...
Shutdown ==
    /\ opc = "up" /\ opc' = "notify"
    /\ running' = FALSE
    /\ owed' = IF lpc = "top" THEN owed ELSE owed \cup EventsOf(queue)
    /\ UNCHANGED <<logThread, queue, lpc, appenders, cpc, inits, pushed, unflushed, lost>>

NotifyStop ==
    /\ opc = "notify" /\ opc' = "join"
    /\ lpc' = Woken
    /\ UNCHANGED <<logThread, running, queue, appenders, cpc, inits, pushed, unflushed, owed,
                   lost>>

\* ... the join and a last Flush ...
Join ==
    /\ opc = "join" /\ opc' = "clear"
    /\ lpc = "exited" /\ lpc' = "none"
    /\ unflushed' = {}
    /\ UNCHANGED <<logThread, running, queue, appenders, cpc, inits, pushed, owed, lost>>

\* ... and, under the mutex, the queue emptied and the appenders dropped.
Clear ==
    /\ opc = "clear" /\ opc' = "down"
    /\ mutex = Nobody
    /\ lost' = lost \cup EventsOf(queue)
    /\ queue' = <<>>
    /\ appenders' = 0
    /\ UNCHANGED <<logThread, running, lpc, cpc, inits, pushed, unflushed, owed>>

OwnerStep == AddAppender \/ StartThread \/ NotifyStop \/ Join \/ Clear

Next ==
    \/ \E c \in Callers : Log(c) \/ Push(c) \/ Notify(c)
    \/ LogStep \/ SpuriousWakeup
    \/ BeginInit \/ Shutdown \/ OwnerStep

\* A call that was begun goes on and the log thread keeps running; taking the
\* mutex, it is not passed over for ever.
Fairness ==
    /\ \A c \in Callers : WF_vars(Notify(c))
    /\ SF_vars(LogStep)
    /\ WF_vars(OwnerStep)

Spec == Init /\ [][Next]_vars /\ Fairness

-----------------------------------------------------------------------------
(* Properties.                                                             *)

TypeOK ==
    /\ running \in BOOLEAN
    /\ queue \in Seq(1 .. MaxEvents) /\ written \in Seq(1 .. MaxEvents)
    /\ appenders \in 0 .. Appenders
    /\ mutex \in {Nobody, LogThread}
    /\ lpc \in LogPCs /\ opc \in OwnerPCs
    /\ inHand \in 0 .. MaxEvents
    /\ cpc \in [Callers -> {"idle", "push", "notify"}]
    /\ inits \in 0 .. MaxInits /\ pushed \in 0 .. MaxEvents
    /\ \A s \in {unflushed, owed, lost} : s \subseteq 1 .. MaxEvents

\* The appenders see the events in the order of the pushes, each once, also
\* across a Shutdown and the next Init.
WrittenInOrder ==
    \A i, j \in DOMAIN written : i < j => written[i] < written[j]

\* Every event is accounted for: it waits, is in the log thread's hand, was
\* written or was thrown away by Shutdown, and only one of these.
NothingVanishes ==
    LET waiting == EventsOf(queue)
        hand == {inHand} \ {0}
        out == EventsOf(written)
    IN  /\ waiting \cup hand \cup out \cup lost = 1 .. pushed
        /\ Len(queue) + Cardinality(hand) + Len(written) + Cardinality(lost) = pushed

\* Shutdown throws away no event that was waiting when it cleared the flag,
\* unless the log thread was just at the head of its loop.
OwedWritten == lost \cap owed = {}

\* A running logger writes what was pushed.
EventuallyWritten ==
    \A e \in 1 .. MaxEvents :
        (e \in EventsOf(queue)) ~> (e \notin EventsOf(queue) \/ ~running)

\* A Shutdown that was begun ends, unless the log thread tested the flag just
\* before the stop and waits only after its notify_one: then nobody wakes it.
StopHangsOnlyInWait == (opc = "join") ~> (opc = "down" \/ (lpc = "waiting" /\ tested))
=============================================================================
