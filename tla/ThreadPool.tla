----------------------------- MODULE ThreadPool -----------------------------
(***************************************************************************)
(* Base/Threadpool: workers that take tasks from a queue under             *)
(* m_queue_mutex, and clients that call Commit, Resize and Shutdown from   *)
(* any thread.  The mutex, the condition variable with its waiters and     *)
(* std::thread::join are explicit; a section under the mutex that cannot   *)
(* block is one step.  What the code reads outside the mutex (m_is_running,*)
(* m_tasks.empty(), m_workers.size(), m_target_thread_num) is read in a    *)
(* step of its own.                                                        *)
(***************************************************************************)
EXTENDS Integers, Sequences, FiniteSets

CONSTANTS
    Clients,     \* the threads that use the pool
    Tasks,       \* the tasks, each committed once
    ThreadNum,   \* thread_num, the workers the constructor starts
    MaxThreads,  \* bound: std::threads ever created
    Sizes        \* the arguments of Resize

ASSUME ThreadPoolAssumption ==
    /\ ThreadNum \in Nat /\ MaxThreads \in Nat
    /\ ThreadNum <= MaxThreads
    /\ Sizes \subseteq Nat
    /\ Clients \cap (0 .. MaxThreads) = {}
    /\ "none" \notin Tasks

None == "none"
Nobody == 0
Threads == 1 .. MaxThreads

\* "top", "size": the tests at the head of WorkerLoop; "lock": about to take
\* the mutex; "test": it holds the mutex and evaluates the wait's predicate;
\* "block": the predicate was false; "waiting": in the condition variable;
\* "check", "pop": past the wait; "run": with a task, the mutex released.
WorkerPCs == {"unborn", "top", "size", "lock", "test", "block", "waiting", "check", "pop",
              "run", "exited"}
ClientPCs == {"idle", "push", "notify", "grow", "cleanup", "joining", "notifyAll",
              "shutting", "clear"}

VARIABLES
    running,    \* m_is_running
    target,     \* m_target_thread_num
    tasks,      \* m_tasks
    workers,    \* m_workers, by thread number
    joined,     \* the threads that are no longer joinable
    mutex,      \* who holds m_queue_mutex: a thread, a client or nobody
    wpc,        \* where each thread is in WorkerLoop
    task,       \* the task each thread took
    cpc,        \* where each client is
    given,      \* per client: the task its Commit will push
    count,      \* per client: the notify_one or emplace_back still to come
    at,         \* per client: the position in m_workers it joins
    pushed,     \* history: every task, in the order of the pushes
    started,    \* history: the tasks taken, in the order they were taken
    discarded,  \* history: the tasks Shutdown threw away
    terminated, \* std::terminate: a joinable std::thread was destroyed
    late,       \* history: the tasks pushed after m_is_running was cleared
    grewLate,   \* history: whether Resize added a thread after that
    drained     \* history: whether a thread left because the work was done

vars == <<running, target, tasks, workers, joined, mutex, wpc, task, cpc, given, count, at,
          pushed, started, discarded, terminated, late, grewLate, drained>>
history == <<pushed, discarded, late, terminated, grewLate>>
client == <<target, workers, joined, cpc, given, count, at>>

Seat(i) == workers[i]
Places == DOMAIN workers
Spawned == {w \in Threads : wpc[w] # "unborn"}
NextThread == Cardinality(Spawned) + 1

Init ==
    /\ running = TRUE
    /\ target = ThreadNum
    /\ tasks = <<>>
    /\ workers = [i \in 1 .. ThreadNum |-> i]
    /\ joined = {}
    /\ mutex = Nobody
    /\ wpc = [w \in Threads |-> IF w <= ThreadNum THEN "top" ELSE "unborn"]
    /\ task = [w \in Threads |-> None]
    /\ cpc = [c \in Clients |-> "idle"]
    /\ given = [c \in Clients |-> None]
    /\ count = [c \in Clients |-> 0]
    /\ at = [c \in Clients |-> 0]
    /\ pushed = <<>> /\ started = <<>> /\ discarded = {} /\ late = {}
    /\ terminated = FALSE /\ grewLate = FALSE /\ drained = FALSE

-----------------------------------------------------------------------------
(* WorkerLoop.                                                             *)

Exited == "exited"

Goes(w, from, to) == ~terminated /\ wpc[w] = from /\ wpc' = [wpc EXCEPT ![w] = to]

\* while (m_is_running || !m_tasks.empty()), read without the mutex.
LoopTop(w) ==
    /\ IF running \/ tasks # <<>>
       THEN Goes(w, "top", "size") /\ UNCHANGED drained
       ELSE Goes(w, "top", Exited) /\ drained' = TRUE
    /\ UNCHANGED <<client, history, running, tasks, mutex, task, started>>

\* if (m_workers.size() > m_target_thread_num) break.
Excess == Len(workers) > target

CheckSize(w) ==
    /\ IF Excess THEN Goes(w, "size", Exited) ELSE Goes(w, "size", "lock")
    /\ UNCHANGED <<client, history, running, tasks, mutex, task, started, drained>>

Lock(w) ==
    /\ mutex = Nobody /\ mutex' = w
    /\ Goes(w, "lock", "test")
    /\ UNCHANGED <<client, history, running, tasks, task, started, drained>>

\* The predicate of m_cv.wait.
BugNoRetest == TRUE
MayProceed == ~running \/ tasks # <<>>

TestPredicate(w) ==
    /\ IF MayProceed THEN Goes(w, "test", "check") ELSE Goes(w, "test", "block")
    /\ UNCHANGED <<client, history, running, tasks, mutex, task, started, drained>>

Block(w) ==
    /\ Goes(w, "block", "waiting")
    /\ mutex' = Nobody
    /\ UNCHANGED <<client, history, running, tasks, task, started, drained>>

\* A condition variable may also wake for no reason.
SpuriousWakeup(w) ==
    /\ Goes(w, "waiting", "lock")
    /\ UNCHANGED <<client, history, running, tasks, mutex, task, started, drained>>

\* Stopped and nothing left: break, which releases the mutex.
BugLeaveWhenStopped == ~running
BugNeverBreaks == FALSE
WorkDone == ~running /\ tasks = <<>>

CheckStopped(w) ==
    /\ IF WorkDone
       THEN Goes(w, "check", Exited) /\ mutex' = Nobody /\ drained' = TRUE
       ELSE Goes(w, "check", "pop") /\ UNCHANGED <<mutex, drained>>
    /\ UNCHANGED <<client, history, running, tasks, task, started>>

\* The position the task is taken from: std::queue's front.
BugBack == Len(tasks)
Front == 1
Without(s, i) == SubSeq(s, 1, i - 1) \o SubSeq(s, i + 1, Len(s))

Pop(w) ==
    /\ tasks # <<>>
    /\ Goes(w, "pop", "run")
    /\ task' = [task EXCEPT ![w] = tasks[Front]]
    /\ started' = Append(started, tasks[Front])
    /\ tasks' = Without(tasks, Front)
    /\ mutex' = Nobody
    /\ UNCHANGED <<client, history, running, drained>>

Run(w) ==
    /\ Goes(w, "run", "top")
    /\ task' = [task EXCEPT ![w] = None]
    /\ UNCHANGED <<client, history, running, tasks, mutex, started, drained>>

WorkerStep(w) ==
    LoopTop(w) \/ CheckSize(w) \/ Lock(w) \/ TestPredicate(w) \/ Block(w)
      \/ CheckStopped(w) \/ Pop(w) \/ Run(w)

-----------------------------------------------------------------------------
(* The clients.                                                            *)

pool == <<task, started, drained>>

Moves(c, from, to) == ~terminated /\ cpc[c] = from /\ cpc' = [cpc EXCEPT ![c] = to]

\* notify_one: some waiter, if there is one, goes to take the mutex again.
Waiters == {w \in Threads : wpc[w] = "waiting"}
NotifyOne ==
    IF Waiters = {} THEN UNCHANGED wpc
    ELSE \E w \in Waiters : wpc' = [wpc EXCEPT ![w] = "lock"]

\* Commit: the flag is tested ...
Commit(c, t) ==
    /\ running
    /\ \A i \in DOMAIN pushed : pushed[i] # t
    /\ \A d \in Clients : given[d] # t
    /\ Moves(c, "idle", "push")
    /\ given' = [given EXCEPT ![c] = t]
    /\ UNCHANGED <<pool, history, running, target, tasks, workers, joined, mutex, wpc,
                   count, at>>

\* ... and only then the task pushed, under the mutex.
Push(c) ==
    /\ mutex = Nobody
    /\ Moves(c, "push", "notify")
    /\ tasks' = Append(tasks, given[c])
    /\ pushed' = Append(pushed, given[c])
    /\ late' = IF running THEN late ELSE late \cup {given[c]}
    /\ given' = [given EXCEPT ![c] = None]
    /\ count' = [count EXCEPT ![c] = 1]
    /\ UNCHANGED <<pool, running, target, workers, joined, mutex, wpc, at, discarded,
                   terminated, grewLate>>

\* One notify_one of Commit or, count[c] of them in all, of a shrinking Resize.
Notify(c) ==
    /\ NotifyOne
    /\ Moves(c, "notify", IF count[c] = 1 THEN "cleanup" ELSE "notify")
    /\ count' = [count EXCEPT ![c] = @ - 1]
    /\ UNCHANGED <<pool, history, running, target, tasks, workers, joined, mutex, given,
                   at>>

Resize(c, n) ==
    /\ running
    /\ n # target
    /\ Cardinality(Spawned) + n - target <= MaxThreads
    /\ Moves(c, "idle", IF n > target THEN "grow" ELSE "notify")
    /\ count' = [count EXCEPT ![c] = IF n > target THEN n - target ELSE target - n]
    /\ target' = n
    /\ UNCHANGED <<pool, history, running, tasks, workers, joined, mutex, wpc, given, at>>

\* One emplace_back of a growing Resize, outside the mutex.
Grow(c) ==
    /\ NextThread \in Threads
    /\ Moves(c, "grow", IF count[c] = 1 THEN "cleanup" ELSE "grow")
    /\ workers' = Append(workers, NextThread)
    /\ wpc' = [wpc EXCEPT ![NextThread] = "top"]
    /\ count' = [count EXCEPT ![c] = @ - 1]
    /\ grewLate' = (grewLate \/ ~running)
    /\ UNCHANGED <<pool, running, target, tasks, joined, mutex, given, at, pushed,
                   discarded, late, terminated>>

\* CleanupExitedThreads: under the mutex, every joinable thread is joined and
\* removed.
Cleanup(c) ==
    /\ mutex = Nobody /\ mutex' = c
    /\ Moves(c, "cleanup", "joining")
    /\ at' = [at EXCEPT ![c] = 1]
    /\ UNCHANGED <<pool, history, running, target, tasks, workers, joined, wpc, given, count>>

\* One turn of the loop over m_workers: join blocks until the thread exited.
Join(c) ==
    /\ ~terminated
    /\ cpc[c] \in {"joining", "shutting"}
    /\ at[c] \in Places
    /\ Seat(at[c]) \in joined \/ wpc[Seat(at[c])] = Exited
    /\ joined' = joined \cup {Seat(at[c])}
    /\ at' = [at EXCEPT ![c] = @ + 1]
    /\ UNCHANGED <<pool, history, running, target, tasks, workers, mutex, wpc, cpc, given, count>>

Erase(c) ==
    /\ at[c] \notin Places
    /\ Moves(c, "joining", "idle")
    /\ workers' = <<>>
    /\ mutex' = Nobody
    /\ at' = [at EXCEPT ![c] = 0]
    /\ UNCHANGED <<pool, history, running, target, tasks, joined, wpc, given, count>>

\* The position at which the loop over m_workers starts.
BugSecond == 2
First == 1

\* Shutdown: the flag, without the mutex, then notify_all ...
Shutdown(c) ==
    /\ running
    /\ Moves(c, "idle", "notifyAll")
    /\ running' = FALSE
    /\ UNCHANGED <<pool, history, target, tasks, workers, joined, mutex, wpc, given, count, at>>

NotifyAll(c) ==
    /\ Moves(c, "notifyAll", "shutting")
    /\ wpc' = [w \in Threads |-> IF w \in Waiters THEN "lock" ELSE wpc[w]]
    /\ at' = [at EXCEPT ![c] = First]
    /\ UNCHANGED <<pool, history, running, target, tasks, workers, joined, mutex, given, count>>

\* ... every worker joined in turn ...
EndJoin(c) ==
    /\ at[c] \notin Places
    /\ Moves(c, "shutting", "clear")
    /\ UNCHANGED <<pool, history, running, target, tasks, workers, joined, mutex, wpc,
                   given, count, at>>

\* ... and what is left of the queue and of the workers thrown away.
Clear(c) ==
    /\ mutex = Nobody
    /\ Moves(c, "clear", "idle")
    /\ discarded' = discarded \cup {tasks[i] : i \in DOMAIN tasks}
    /\ tasks' = <<>>
    /\ workers' = <<>>
    /\ terminated' = \E i \in Places : Seat(i) \notin joined
    /\ at' = [at EXCEPT ![c] = 0]
    /\ UNCHANGED <<pool, running, target, joined, mutex, wpc, given, count, pushed, late,
                   grewLate>>

ClientStep(c) == Push(c) \/ Notify(c) \/ Grow(c) \/ Cleanup(c) \/ Join(c) \/ Erase(c)
                   \/ NotifyAll(c) \/ EndJoin(c) \/ Clear(c)

Next ==
    \/ \E w \in Threads : WorkerStep(w) \/ SpuriousWakeup(w)
    \/ \E c \in Clients, t \in Tasks : Commit(c, t)
    \/ \E c \in Clients, n \in Sizes : Resize(c, n)
    \/ \E c \in Clients : Shutdown(c) \/ ClientStep(c)

\* Every thread that can go on does, and takes the mutex in the end when it
\* is free again and again.
Fairness ==
    /\ \A w \in Threads : WF_vars(WorkerStep(w)) /\ SF_vars(Lock(w))
    /\ \A c \in Clients : SF_vars(ClientStep(c))

Spec == Init /\ [][Next]_vars /\ Fairness

-----------------------------------------------------------------------------
(* Properties.                                                             *)

TypeOK ==
    /\ {running, terminated, grewLate, drained} \subseteq BOOLEAN
    /\ target \in Nat
    /\ tasks \in Seq(Tasks) /\ pushed \in Seq(Tasks) /\ started \in Seq(Tasks)
    /\ discarded \subseteq Tasks /\ late \subseteq Tasks
    /\ workers \in Seq(Threads)
    /\ joined \subseteq Threads
    /\ mutex \in Threads \cup Clients \cup {Nobody}
    /\ wpc \in [Threads -> WorkerPCs]
    /\ task \in [Threads -> Tasks \cup {None}]
    /\ cpc \in [Clients -> ClientPCs]
    /\ given \in [Clients -> Tasks \cup {None}]
    /\ count \in [Clients -> Nat]
    /\ at \in [Clients -> Nat]

\* A worker past the wait never calls front() and pop() on an empty queue,
\* whatever woke it and whoever took a task in the meantime.
NoPopEmpty == \A w \in Threads : wpc[w] = "pop" => tasks # <<>>

\* Tasks are taken in the order of the pushes, each at most once, and none
\* vanishes: what waits is the end of what was pushed, and of the tasks before
\* it those that were not taken are those Shutdown threw away.
InOrder ==
    LET out == Len(pushed) - Len(tasks)
        taken == {started[i] : i \in DOMAIN started}
    IN  /\ out >= 0
        /\ tasks = SubSeq(pushed, out + 1, Len(pushed))
        /\ taken \cup discarded = {pushed[k] : k \in 1 .. out}
        /\ taken \cap discarded = {}
        /\ \A i, j \in DOMAIN started : i < j =>
              \E k, l \in 1 .. out : k < l /\ pushed[k] = started[i] /\ pushed[l] = started[j]

\* Shutdown is graceful as long as one worker stayed to the end: once some
\* worker has left because the work was done, the tasks Shutdown throws away
\* are those of Commits that saw the pool running and pushed after its stop.
GracefulShutdown == [][drained => discarded' \ discarded \subseteq late]_vars

\* Shutdown destroys no std::thread that is still joinable, which would end
\* the process, unless a Resize that saw the pool running adds one meanwhile.
NoTerminate == terminated => grewLate

\* Every call returns, except by one of two joins that never end, which then
\* hold up all that need the mutex: CleanupExitedThreads, with the mutex, joins
\* a worker that waits for the mutex or for a task; or Shutdown joins a worker
\* that went to sleep on the old m_is_running after notify_all had come.
HangingJoin ==
    \E c \in Clients :
        /\ cpc[c] \in {"joining", "shutting"} /\ at[c] \in Places
        /\ \/ cpc[c] = "joining" /\ mutex = c /\ wpc[Seat(at[c])] \in {"lock", "waiting"}
           \/ cpc[c] = "shutting" /\ ~running /\ wpc[Seat(at[c])] = "waiting"

CallsHangOnlyInJoin ==
    \A c \in Clients : cpc[c] # "idle" ~> (cpc[c] = "idle" \/ terminated \/ []HangingJoin)
=============================================================================
