------------------------------ MODULE EventLoop ------------------------------
(***************************************************************************)
(* The reactor of Net/Eventloop.cpp: one loop thread that polls, handles   *)
(* the ready channels, runs the functors other threads queued and then the *)
(* delayed tasks that expired.  Any other thread may call RunInLoop,       *)
(* QueueInLoop, RunAfter and Quit at any moment, in steps that interleave  *)
(* with the loop's.  A section under m_mutex is one step; what a caller    *)
(* does before it takes or after it released the mutex is a step apart.    *)
(***************************************************************************)
EXTENDS Integers, Sequences, FiniteSets

CONSTANTS
    Threads,      \* the threads other than the loop's
    Creator,      \* the one of them that constructs (and destroys) the loop
    Looper,       \* the thread that runs Loop()
    Functors,     \* callbacks for RunInLoop and QueueInLoop, each passed once
    Timers,       \* callbacks for RunAfter, each passed once
    Delays,       \* the delays RunAfter is called with, in clock ticks
    MaxTime,      \* bound: the clock stops here
    AutoStarts    \* the values of auto_start the constructor is called with

ASSUME EventLoopAssumption ==
    /\ Creator \in Threads
    /\ Looper \notin Threads
    /\ Delays \subseteq Nat
    /\ MaxTime \in Nat
    /\ AutoStarts \subseteq BOOLEAN

None == "none"
WakeupChannel == "wakeup"
IoChannel == "io"

\* Where the loop thread is.  "start": the std::thread was created and has
\* not run yet; "enter": at the first lines of Loop().
LoopPCs == {"start", "enter", "check", "poll", "events", "run", "take", "fire",
            "stopped"}

\* Who pushed a functor: a foreign thread, the creator before the new thread
\* stored its id ("window"), or a callback of that phase of the loop.
\* "inline": RunInLoop runs it on the spot; "late": it did so on the creator
\* after the new thread had stored its id.
Origins == {None, "thread", "window", "io", "functor", "timer", "inline", "late"}

\* struct DelayedTask; pushed is the clock when the task entered the heap.
Entry == [timer : Timers, expire : Nat, pushed : Nat]

\* What a thread outside the loop has begun and not yet finished.
Ops == [kind : {"idle", "quitting"}]
         \cup [kind : {"inlining", "waking"}, f : Functors]
         \cup [kind : {"timing"}, timer : Timers, expire : Nat]

Idle == [kind |-> "idle"]

VARIABLES
    joinable,  \* m_thread.joinable(): the constructor started the thread
    pc,        \* the loop thread's program counter
    threadId,  \* m_threadId
    quit,      \* m_quit
    calling,   \* m_callingPendingFunctors
    pending,   \* m_pendingFunctors
    batch,     \* the local vector of DoPendingFunctors, what is left of it
    delayed,   \* m_delayed_tasks
    ready,     \* the local ready_tasks of ProcessDelayedTasks, what is left
    active,    \* m_activeChannels, what is left of the list
    wakeup,    \* whether the wakeup eventfd is readable
    now,       \* steady_clock
    op,        \* the unfinished call of each other thread
    life,      \* "alive", "aborted" (std::abort), "joining" or "destroyed"
    \* History; guards read it only to pass each callback once:
    queued,    \* the functors pushed by QueueInLoop, in the order of the pushes
    done,      \* the functors run by DoPendingFunctors, in the order they ran
    inline,    \* the thread on which RunInLoop itself ran a functor
    origin,    \* who pushed each functor
    fired      \* the delayed tasks that ran, in order

vars == <<joinable, pc, threadId, quit, calling, pending, batch, delayed, ready, active,
          wakeup, now, op, life, queued, done, inline, origin, fired>>

loopLocal == <<joinable, pc, threadId, calling, batch, ready, active, done, fired>>
submitted == <<pending, queued, inline, origin, delayed>>

\* Callbacks nobody has passed to the loop yet.
FreshFunctors == {f \in Functors : origin[f] = None}
FreshTimers ==
    Timers \ ({d.timer : d \in delayed \cup ready}
              \cup {fired[i].timer : i \in DOMAIN fired}
              \cup {op[t].timer : t \in {u \in Threads : op[u].kind = "timing"}})

Init ==
    /\ joinable \in AutoStarts
    /\ pc = IF joinable THEN "start" ELSE "enter"
    /\ threadId = IF joinable THEN Creator ELSE Looper
    /\ quit = FALSE
    /\ calling = FALSE
    /\ pending = <<>> /\ batch = <<>>
    /\ delayed = {} /\ ready = {}
    /\ active = {}
    /\ wakeup = FALSE
    /\ now = 0
    /\ op = [t \in Threads |-> Idle]
    /\ life = "alive"
    /\ queued = <<>> /\ done = <<>> /\ fired = <<>>
    /\ inline = [f \in Functors |-> None]
    /\ origin = [f \in Functors |-> None]

-----------------------------------------------------------------------------
(* The tests and computations of the code that the actions share.  Each    *)
(* "Bug" operator is a plausible slip in the definition after it.          *)

BugThreadLocal(t) == t \in {threadId, Creator}   \* compares t_currentThreadLoop
IsInLoopThread(t) == threadId = t

\* Whether QueueInLoop and RunAfter call Wakeup().
BugForeignOnly(t) == ~IsInLoopThread(t)
MustWake(t) == ~IsInLoopThread(t) \/ calling

\* Whether Quit calls Wakeup().
QuitMustWake(t) == ~IsInLoopThread(t)

\* Wakeup() writes the eventfd, if it is still open.
Wakeup == wakeup' = IF life = "alive" THEN TRUE ELSE wakeup

\* The two vectors after DoPendingFunctors swapped them.
BugReversed == [i \in DOMAIN pending |-> pending[Len(pending) + 1 - i]]
SwappedOut == pending
BugCopied == pending
SwappedIn == <<>>

\* What ProcessDelayedTasks pops, and which of it runs next.
Expired == {d \in delayed : d.expire <= now}
RunsNext(d) == \A e \in ready : d.expire <= e.expire

-----------------------------------------------------------------------------
(* Calls made by the other threads.                                        *)

MayCall(t) == life = "alive" /\ op[t] = Idle

\* RunInLoop by a thread that IsInLoopThread takes for the loop's own: the
\* test comes first ...
RunInLoop(t, f) ==
    /\ MayCall(t)
    /\ f \in FreshFunctors
    /\ IsInLoopThread(t)
    /\ origin' = [origin EXCEPT ![f] = "inline"]
    /\ op' = [op EXCEPT ![t] = [kind |-> "inlining", f |-> f]]
    /\ UNCHANGED <<loopLocal, quit, pending, delayed, wakeup, now, life, queued, inline>>

\* ... and the callback runs on the caller, wherever the new thread has got to
\* in the meantime.
RunInline(t) ==
    /\ op[t].kind = "inlining"
    /\ inline' = [inline EXCEPT ![op[t].f] = t]
    /\ origin' = [origin EXCEPT ![op[t].f] = IF threadId = t THEN "inline" ELSE "late"]
    /\ op' = [op EXCEPT ![t] = Idle]
    /\ UNCHANGED <<loopLocal, quit, pending, delayed, wakeup, now, life, queued>>

\* QueueInLoop, the section under m_mutex.  RunInLoop from a foreign thread
\* is the same call.
QueueInLoop(t, f) ==
    /\ MayCall(t)
    /\ f \in FreshFunctors
    /\ pending' = Append(pending, f)
    /\ queued' = Append(queued, f)
    /\ origin' = [origin EXCEPT ![f] = "thread"]
    /\ op' = [op EXCEPT ![t] = [kind |-> "waking", f |-> f]]
    /\ UNCHANGED <<loopLocal, quit, delayed, wakeup, now, life, inline>>

\* QueueInLoop after the mutex: the test and the Wakeup().  A thread that
\* still passes for the loop's own leaves without waking the poller.
FinishQueue(t) ==
    /\ op[t].kind = "waking"
    /\ \/ MustWake(t) /\ Wakeup /\ UNCHANGED origin
       \/ /\ ~MustWake(t)
          /\ origin' = [origin EXCEPT ![op[t].f] = "window"]
          /\ UNCHANGED wakeup
    /\ op' = [op EXCEPT ![t] = Idle]
    /\ UNCHANGED <<loopLocal, quit, pending, delayed, now, life, queued, inline>>

\* RunAfter: the deadline is computed first, from the clock as it is now ...
RunAfter(t, d, delay) ==
    /\ MayCall(t)
    /\ d \in FreshTimers
    /\ now + delay <= MaxTime
    /\ op' = [op EXCEPT ![t] = [kind |-> "timing", timer |-> d,
                                expire |-> now + delay]]
    /\ UNCHANGED <<loopLocal, submitted, quit, wakeup, now, life>>

\* ... and the push and the Wakeup() are one section under m_mutex.
FinishRunAfter(t) ==
    /\ op[t].kind = "timing"
    /\ delayed' = delayed \cup {[timer |-> op[t].timer, expire |-> op[t].expire,
                                 pushed |-> now]}
    /\ IF MustWake(t) THEN Wakeup ELSE UNCHANGED wakeup
    /\ op' = [op EXCEPT ![t] = Idle]
    /\ UNCHANGED <<loopLocal, quit, pending, now, life, queued, inline, origin>>

\* Quit stores m_quit, then wakes the poller.  (Bound: not called again while
\* m_quit is set, which would only repeat the Wakeup.)
Quit(t) ==
    /\ MayCall(t)
    /\ ~quit
    /\ quit' = TRUE
    /\ op' = [op EXCEPT ![t] = [kind |-> "quitting"]]
    /\ UNCHANGED <<loopLocal, submitted, wakeup, now, life>>

FinishQuit(t) ==
    /\ op[t].kind = "quitting"
    /\ IF QuitMustWake(t) THEN Wakeup ELSE UNCHANGED wakeup
    /\ op' = [op EXCEPT ![t] = Idle]
    /\ UNCHANGED <<loopLocal, submitted, quit, now, life>>

-----------------------------------------------------------------------------
(* What a callback may do while it runs on the loop thread: call nothing,  *)
(* RunInLoop (which runs the functor on the spot), QueueInLoop, RunAfter   *)
(* or Quit.  from names the phase of the loop that runs the callback.      *)

CallsRunInLoop(f) ==
    /\ f \in FreshFunctors
    /\ inline' = [inline EXCEPT ![f] = Looper]
    /\ origin' = [origin EXCEPT ![f] = "inline"]
    /\ UNCHANGED <<pending, queued, delayed, quit, wakeup>>

CallsQueueInLoop(from, f) ==
    /\ f \in FreshFunctors
    /\ pending' = Append(pending, f)
    /\ queued' = Append(queued, f)
    /\ origin' = [origin EXCEPT ![f] = from]
    /\ IF MustWake(Looper) THEN Wakeup ELSE UNCHANGED wakeup
    /\ UNCHANGED <<inline, delayed, quit>>

CallsRunAfter(d, delay) ==
    /\ d \in FreshTimers
    /\ now + delay <= MaxTime
    /\ delayed' = delayed \cup {[timer |-> d, expire |-> now + delay,
                                 pushed |-> now]}
    /\ IF MustWake(Looper) THEN Wakeup ELSE UNCHANGED wakeup
    /\ UNCHANGED <<pending, queued, inline, origin, quit>>

Callback(from) ==
    \/ UNCHANGED <<submitted, quit, wakeup>>
    \/ \E f \in Functors : CallsRunInLoop(f) \/ CallsQueueInLoop(from, f)
    \/ \E d \in Timers, delay \in Delays : CallsRunAfter(d, delay)
    \/ quit' = TRUE /\ UNCHANGED <<submitted, wakeup>>

-----------------------------------------------------------------------------
(* The loop thread.                                                        *)

BugNoThreadId ==
    /\ pc = "start"
    /\ pc' = "enter"
    /\ threadId' = None
    /\ UNCHANGED <<joinable, submitted, quit, calling, batch, ready, active,
                   wakeup, now, op, life, done, fired>>

\* The lambda of the constructor: the new thread takes the loop over.
StartThread ==
    /\ pc = "start"
    /\ pc' = "enter"
    /\ threadId' = Looper
    /\ UNCHANGED <<joinable, submitted, quit, calling, batch, ready, active, wakeup, now,
                   op, life, done, fired>>

\* Loop() clears m_quit, whatever it was.
EnterLoop ==
    /\ pc = "enter"
    /\ pc' = "check"
    /\ quit' = FALSE
    /\ UNCHANGED <<joinable, submitted, threadId, calling, batch, ready, active, wakeup,
                   now, op, life, done, fired>>

BugResetInLoop ==
    /\ pc = "check"
    /\ pc' = "poll"
    /\ quit' = FALSE
    /\ UNCHANGED <<joinable, submitted, threadId, calling, batch, ready, active,
                   wakeup, now, op, life, done, fired>>

CheckQuit ==
    /\ pc = "check"
    /\ pc' = IF quit THEN "stopped" ELSE "poll"
    /\ UNCHANGED <<joinable, submitted, threadId, quit, calling, batch, ready, active,
                   wakeup, now, op, life, done, fired>>

\* Poll(10, m_activeChannels) returns with the ready channels ...
PollEvents(ch) ==
    /\ pc = "poll"
    /\ ch # {}
    /\ WakeupChannel \in ch <=> wakeup
    /\ active' = ch
    /\ pc' = "events"
    /\ UNCHANGED <<joinable, submitted, threadId, quit, calling, batch, ready, wakeup, now,
                   op, life, done, fired>>

BugPollForever == FALSE

\* ... or with none, when its ten milliseconds are over.
PollTimeout ==
    /\ pc = "poll"
    /\ ~wakeup
    /\ pc' = "events"
    /\ UNCHANGED <<joinable, submitted, threadId, quit, calling, batch, ready, active,
                   wakeup, now, op, life, done, fired>>

\* HandleWakeupRead drains the eventfd.
HandleWakeupRead ==
    /\ pc = "events"
    /\ WakeupChannel \in active
    /\ active' = active \ {WakeupChannel}
    /\ wakeup' = FALSE
    /\ UNCHANGED <<joinable, submitted, pc, threadId, quit, calling, batch, ready, now, op,
                   life, done, fired>>

HandleIo ==
    /\ pc = "events"
    /\ IoChannel \in active
    /\ active' = active \ {IoChannel}
    /\ Callback("io")
    /\ UNCHANGED <<joinable, pc, threadId, calling, batch, ready, now, op, life, done, fired>>

\* DoPendingFunctors: the flag, then the swap under m_mutex ...
SwapPending ==
    /\ pc = "events" /\ active = {}
    /\ pc' = "run"
    /\ calling' = TRUE
    /\ batch' = SwappedOut
    /\ pending' = SwappedIn
    /\ UNCHANGED <<joinable, threadId, quit, delayed, ready, active, wakeup, now, op, life,
                   queued, done, inline, origin, fired>>

\* ... the functors one by one ...
RunFunctor ==
    /\ pc = "run" /\ batch # <<>>
    /\ batch' = Tail(batch)
    /\ done' = Append(done, Head(batch))
    /\ Callback("functor")
    /\ UNCHANGED <<joinable, pc, threadId, calling, ready, active, now, op, life, fired>>

\* ... and the flag again.
EndFunctors ==
    /\ pc = "run" /\ batch = <<>>
    /\ pc' = "take"
    /\ calling' = FALSE
    /\ UNCHANGED <<joinable, submitted, threadId, quit, batch, ready, active, wakeup, now,
                   op, life, done, fired>>

\* ProcessDelayedTasks pops, under m_mutex, every task that has expired ...
TakeExpired ==
    /\ pc = "take"
    /\ pc' = "fire"
    /\ ready' = Expired
    /\ delayed' = delayed \ ready'
    /\ UNCHANGED <<joinable, threadId, quit, calling, pending, batch, active, wakeup, now,
                   op, life, queued, done, inline, origin, fired>>

\* ... and runs them in the order of the heap, equal deadlines in any order.
FireTimer(d) ==
    /\ pc = "fire"
    /\ d \in ready
    /\ RunsNext(d)
    /\ ready' = ready \ {d}
    /\ fired' = Append(fired, d)
    /\ Callback("timer")
    /\ UNCHANGED <<joinable, pc, threadId, calling, batch, active, now, op, life, done>>

EndTimers ==
    /\ pc = "fire" /\ ready = {}
    /\ pc' = "check"
    /\ UNCHANGED <<joinable, submitted, threadId, quit, calling, batch, ready, active,
                   wakeup, now, op, life, done, fired>>

LoopStep ==
    /\ life \in {"alive", "joining"}
    /\ \/ StartThread \/ EnterLoop \/ CheckQuit
       \/ PollTimeout \/ \E ch \in SUBSET {WakeupChannel, IoChannel} : PollEvents(ch)
       \/ HandleWakeupRead \/ HandleIo
       \/ SwapPending \/ RunFunctor \/ EndFunctors
       \/ TakeExpired \/ (\E d \in ready : FireTimer(d)) \/ EndTimers

-----------------------------------------------------------------------------
(* ~EventLoop, run by the thread that constructed the loop when it has no  *)
(* call in flight (its duty).  It disables and removes the wakeup channel, *)
(* which aborts the process on any thread but the loop's, closes the       *)
(* eventfd and joins m_thread.                                             *)

Owner == IF joinable THEN Creator ELSE Looper

Destroy ==
    /\ life = "alive"
    /\ \A t \in Threads : op[t] = Idle
    /\ ~joinable => pc = "stopped"
    /\ \/ ~IsInLoopThread(Owner) /\ life' = "aborted" /\ UNCHANGED wakeup
       \/ IsInLoopThread(Owner) /\ wakeup' = FALSE
          /\ life' = IF joinable THEN "joining" ELSE "destroyed"
    /\ UNCHANGED <<loopLocal, submitted, quit, now, op>>

Join ==
    /\ life = "joining"
    /\ pc = "stopped"
    /\ life' = "destroyed"
    /\ UNCHANGED <<loopLocal, submitted, quit, wakeup, now, op>>

Tick ==
    /\ now < MaxTime
    /\ life \in {"alive", "joining"}
    /\ now' = now + 1
    /\ UNCHANGED <<loopLocal, submitted, quit, wakeup, op, life>>

Finish(t) == RunInline(t) \/ FinishQueue(t) \/ FinishRunAfter(t) \/ FinishQuit(t)

Next ==
    \/ LoopStep
    \/ \E t \in Threads : Finish(t) \/ Quit(t)
    \/ \E t \in Threads, f \in Functors : RunInLoop(t, f) \/ QueueInLoop(t, f)
    \/ \E t \in Threads, d \in Timers, delay \in Delays : RunAfter(t, d, delay)
    \/ Destroy \/ Join \/ Tick

\* Steps of the loop thread that need no peer to send anything.
Unprompted == LoopStep /\ (pc = "poll" => active' # {IoChannel})

\* The loop thread keeps running (Poll returns at the latest after its ten
\* milliseconds), a call that was begun is finished, and time passes.
Fairness ==
    /\ WF_vars(Unprompted)
    /\ \A t \in Threads : WF_vars(Finish(t))
    /\ WF_vars(Tick)

Spec == Init /\ [][Next]_vars /\ Fairness
-----------------------------------------------------------------------------
(* Properties.                                                             *)

TypeOK ==
    /\ joinable \in BOOLEAN
    /\ pc \in LoopPCs
    /\ threadId \in Threads \cup {Looper}
    /\ quit \in BOOLEAN /\ calling \in BOOLEAN /\ wakeup \in BOOLEAN
    /\ pending \in Seq(Functors) /\ batch \in Seq(Functors)
    /\ delayed \subseteq Entry /\ ready \subseteq Entry
    /\ active \subseteq {WakeupChannel, IoChannel}
    /\ now \in Nat
    /\ op \in [Threads -> Ops]
    /\ life \in {"alive", "aborted", "joining", "destroyed"}
    /\ queued \in Seq(Functors) /\ done \in Seq(Functors)
    /\ inline \in [Functors -> Threads \cup {Looper, None}]
    /\ origin \in [Functors -> Origins]
    /\ fired \in Seq(Entry)

\* QueueInLoop loses nothing, repeats nothing and reorders nothing: what was
\* pushed is what ran, then what the loop has swapped out, then what waits.
FIFO == queued = done \o batch \o pending

\* A functor pushed by a foreign thread, an I/O callback or another functor
\* never waits for the ten milliseconds: whenever the loop is blocked in Poll
\* the eventfd is readable, or the pushing thread is about to make it so.
\* (One pushed by a delayed task does wait: no Wakeup is sent for it.)
NoLostWakeup ==
    pc = "poll" /\ life = "alive" =>
        \A i \in DOMAIN pending :
            origin[pending[i]] \in {"thread", "io", "functor"} =>
                wakeup \/ \E t \in Threads : op[t].kind = "waking"

\* A Quit the loop has not noticed cannot leave it asleep in Poll.
QuitWakes ==
    pc = "poll" /\ quit /\ life = "alive" =>
        wakeup \/ \E t \in Threads : op[t].kind = "quitting"

\* RunAfter calls that were pushed in time run in the order of their
\* deadlines: one that ran too late behind a later deadline had not been
\* pushed yet when that deadline passed (RunAfter reads the clock before it
\* takes m_mutex).
Due(d) == IF d.expire < d.pushed THEN d.pushed ELSE d.expire
TimersInOrder ==
    \A i, j \in DOMAIN fired : i < j => fired[i].expire <= Due(fired[j])

\* A delayed task never runs before its deadline.
NoEarlyTimer == [][\A d \in ready : d \notin ready' => d.expire <= now]_vars

\* RunInLoop promises that a callback runs on the loop's thread.  Off it only
\* the creator ever runs one: while the new thread has not stored its id, and,
\* once at most, later, beside the running loop, when the creator's test of
\* the id came before the store and its call of the callback after it.
InlineOnlyInWindow ==
    [][\A f \in Functors :
          inline'[f] # inline[f] /\ inline'[f] # Looper =>
              /\ inline'[f] = Creator
              /\ pc = "start" \/ \A g \in Functors : origin[g] # "late"]_vars

\* The loop is one FIFO executor of the functors passed to QueueInLoop.
Executor == INSTANCE SerialExecutor WITH queue <- batch \o pending, done <- done
ImplementsExecutor == Executor!Spec

\* A functor in the queue runs unless the loop is told to stop.
QueuedRuns ==
    \A f \in Functors :
        f \in {pending[i] : i \in DOMAIN pending}
            ~> (f \in {done[i] : i \in DOMAIN done} \/ quit \/ life # "alive")

\* Quit() on a loop that runs makes Loop() return.
QuitStops == (quit /\ pc \notin {"start", "enter"}) ~> (pc = "stopped" \/ life = "aborted")
=============================================================================
