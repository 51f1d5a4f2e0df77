--------------------------- MODULE EventLoopProofs ---------------------------
(***************************************************************************)
(* Theorems about EventLoop for any number of threads, functors, timers    *)
(* and clock ticks.                                                        *)
(***************************************************************************)
EXTENDS EventLoop, SequenceTheorems, TLAPS

USE EventLoopAssumption

\* The actions a proof about a step has to look at, one by one.
LEMMA StepCases ==
    ASSUME [Next]_vars
    PROVE  \/ \E t \in Threads : FinishQueue(t) \/ FinishRunAfter(t)
                                   \/ FinishQuit(t) \/ Quit(t)
           \/ \E t \in Threads : RunInline(t)
           \/ \E t \in Threads, f \in Functors : RunInLoop(t, f) \/ QueueInLoop(t, f)
           \/ \E t \in Threads, d \in Timers, delay \in Delays : RunAfter(t, d, delay)
           \/ StartThread \/ EnterLoop \/ CheckQuit
           \/ PollTimeout
           \/ \E ch \in SUBSET {WakeupChannel, IoChannel} : PollEvents(ch)
           \/ HandleWakeupRead \/ HandleIo
           \/ SwapPending \/ RunFunctor \/ EndFunctors
           \/ TakeExpired \/ (\E d \in ready : FireTimer(d)) \/ EndTimers
           \/ Destroy \/ Join \/ Tick
           \/ UNCHANGED vars
BY DEF Next, LoopStep, Finish

\* What a callback may change keeps its type.
LEMMA CallbackType ==
    ASSUME TypeOK, NEW from \in Origins, Callback(from)
    PROVE  /\ pending' \in Seq(Functors) /\ queued' \in Seq(Functors)
           /\ inline' \in [Functors -> Threads \cup {Looper, None}]
           /\ origin' \in [Functors -> Origins]
           /\ delayed' \subseteq Entry
           /\ quit' \in BOOLEAN /\ wakeup' \in BOOLEAN
<1> USE DEF TypeOK, Wakeup
<1>1. CASE UNCHANGED <<submitted, quit, wakeup>>
  BY <1>1 DEF submitted
<1>2. ASSUME NEW f \in Functors, CallsRunInLoop(f)
      PROVE  /\ pending' \in Seq(Functors) /\ queued' \in Seq(Functors)
             /\ inline' \in [Functors -> Threads \cup {Looper, None}]
             /\ origin' \in [Functors -> Origins]
             /\ delayed' \subseteq Entry
             /\ quit' \in BOOLEAN /\ wakeup' \in BOOLEAN
  BY <1>2 DEF CallsRunInLoop, Origins
<1>3. ASSUME NEW f \in Functors, CallsQueueInLoop(from, f)
      PROVE  /\ pending' \in Seq(Functors) /\ queued' \in Seq(Functors)
             /\ inline' \in [Functors -> Threads \cup {Looper, None}]
             /\ origin' \in [Functors -> Origins]
             /\ delayed' \subseteq Entry
             /\ quit' \in BOOLEAN /\ wakeup' \in BOOLEAN
  <2>1. wakeup' \in BOOLEAN
    BY <1>3 DEF CallsQueueInLoop
  <2> QED BY <1>3, <2>1 DEF CallsQueueInLoop
<1>4. ASSUME NEW d \in Timers, NEW delay \in Delays, CallsRunAfter(d, delay)
      PROVE  /\ pending' \in Seq(Functors) /\ queued' \in Seq(Functors)
             /\ inline' \in [Functors -> Threads \cup {Looper, None}]
             /\ origin' \in [Functors -> Origins]
             /\ delayed' \subseteq Entry
             /\ quit' \in BOOLEAN /\ wakeup' \in BOOLEAN
  <2>1. [timer |-> d, expire |-> now + delay, pushed |-> now] \in Entry
    BY DEF Entry
  <2>2. wakeup' \in BOOLEAN
    BY <1>4 DEF CallsRunAfter
  <2> QED BY <1>4, <2>1, <2>2 DEF CallsRunAfter
<1>5. CASE quit' = TRUE /\ UNCHANGED <<submitted, wakeup>>
  BY <1>5 DEF submitted
<1> QED BY <1>1, <1>2, <1>3, <1>4, <1>5 DEF Callback

\* The records op holds.
LEMMA OpsType ==
    /\ Idle \in Ops
    /\ [kind |-> "quitting"] \in Ops
    /\ \A f \in Functors : [kind |-> "waking", f |-> f] \in Ops
    /\ \A f \in Functors : [kind |-> "inlining", f |-> f] \in Ops
    /\ \A d \in Timers, n \in Nat :
          [kind |-> "timing", timer |-> d, expire |-> n] \in Ops
<1>1. \A d \in Timers, n \in Nat :
        [kind |-> "timing", timer |-> d, expire |-> n]
            \in [kind : {"timing"}, timer : Timers, expire : Nat]
  OBVIOUS
<1>2. \A f \in Functors :
        /\ [kind |-> "waking", f |-> f] \in [kind : {"inlining", "waking"}, f : Functors]
        /\ [kind |-> "inlining", f |-> f] \in [kind : {"inlining", "waking"}, f : Functors]
  OBVIOUS
<1> QED BY <1>1, <1>2 DEF Ops, Idle

LEMMA TypeInit == Init => TypeOK
<1> SUFFICES ASSUME Init PROVE TypeOK
  OBVIOUS
<1>1. joinable \in BOOLEAN /\ pc \in LoopPCs /\ threadId \in Threads \cup {Looper}
  BY DEF Init, LoopPCs
<1>2. op \in [Threads -> Ops]
  BY OpsType DEF Init
<1> QED BY <1>1, <1>2, EmptySeq DEF Init, TypeOK, Origins

LEMMA TypeStep == TypeOK /\ [Next]_vars => TypeOK'
<1> SUFFICES ASSUME TypeOK, [Next]_vars PROVE TypeOK'
  OBVIOUS
<1> USE DEF TypeOK, loopLocal, submitted, Wakeup
<1>1. ASSUME NEW t \in Threads, FinishQueue(t) PROVE TypeOK'
  BY <1>1 DEF FinishQueue, Ops, Idle, Origins
<1>2. ASSUME NEW t \in Threads, FinishRunAfter(t) PROVE TypeOK'
  <2>1. [timer |-> op[t].timer, expire |-> op[t].expire, pushed |-> now] \in Entry
    BY <1>2 DEF FinishRunAfter, Ops, Entry
  <2> QED BY <1>2, <2>1 DEF FinishRunAfter, Ops, Idle
<1>3. ASSUME NEW t \in Threads, FinishQuit(t) \/ Quit(t) PROVE TypeOK'
  <2>1. wakeup' \in BOOLEAN
    BY <1>3 DEF FinishQuit, Quit
  <2> QED BY <1>3, <2>1, OpsType DEF FinishQuit, Quit
<1>4. ASSUME NEW t \in Threads, NEW f \in Functors, RunInLoop(t, f) \/ QueueInLoop(t, f)
      PROVE  TypeOK'
  <2>1. CASE RunInLoop(t, f)
    BY <2>1, OpsType DEF RunInLoop, Origins
  <2>2. CASE QueueInLoop(t, f)
    BY <2>2, OpsType DEF QueueInLoop, Origins
  <2> QED BY <1>4, <2>1, <2>2
<1>5. ASSUME NEW t \in Threads, NEW d \in Timers, NEW delay \in Delays, RunAfter(t, d, delay)
      PROVE  TypeOK'
  <2>1. now + delay \in Nat
    OBVIOUS
  <2> QED BY <1>5, <2>1, OpsType DEF RunAfter
<1>6. CASE StartThread \/ EnterLoop \/ CheckQuit \/ PollTimeout
  BY <1>6 DEF StartThread, EnterLoop, CheckQuit, PollTimeout, LoopPCs
<1>7. ASSUME NEW ch \in SUBSET {WakeupChannel, IoChannel}, PollEvents(ch) PROVE TypeOK'
  BY <1>7 DEF PollEvents, LoopPCs
<1>8. CASE HandleWakeupRead
  BY <1>8 DEF HandleWakeupRead
<1>9. CASE HandleIo
  BY <1>9, CallbackType DEF HandleIo, Origins
<1>10. CASE SwapPending
  BY <1>10, EmptySeq DEF SwapPending, SwappedIn, SwappedOut, LoopPCs
<1>11. CASE RunFunctor
  <2>1. Head(batch) \in Functors /\ Tail(batch) \in Seq(Functors)
    BY <1>11, HeadTailProperties DEF RunFunctor
  <2>2. done' \in Seq(Functors)
    BY <1>11, <2>1 DEF RunFunctor
  <2> QED BY <1>11, <2>1, <2>2, CallbackType DEF RunFunctor, Origins
<1>12. CASE EndFunctors \/ EndTimers
  BY <1>12 DEF EndFunctors, EndTimers, LoopPCs
<1>13. CASE TakeExpired
  BY <1>13 DEF TakeExpired, Expired, LoopPCs
<1>14. ASSUME NEW d \in ready, FireTimer(d) PROVE TypeOK'
  BY <1>14, CallbackType DEF FireTimer, Origins
<1>15. CASE Destroy \/ Join \/ Tick
  <2>1. CASE Destroy
    BY <2>1 DEF Destroy
  <2>2. CASE Join \/ Tick
    BY <2>2 DEF Join, Tick
  <2> QED BY <1>15, <2>1, <2>2
<1>16. CASE UNCHANGED vars
  BY <1>16 DEF vars
<1>17. ASSUME NEW t \in Threads, RunInline(t) PROVE TypeOK'
  <2>1. op[t].f \in Functors
    BY <1>17 DEF RunInline, Ops
  <2>2. inline' \in [Functors -> Threads \cup {Looper, None}]
    BY <1>17, <2>1 DEF RunInline
  <2>3. origin' \in [Functors -> Origins]
    BY <1>17, <2>1 DEF RunInline, Origins
  <2> QED BY <1>17, <2>2, <2>3, OpsType DEF RunInline
<1> QED BY <1>1, <1>2, <1>3, <1>4, <1>5, <1>6, <1>7, <1>8, <1>9, <1>10, <1>11,
           <1>12, <1>13, <1>14, <1>15, <1>16, <1>17, StepCases

\* Every variable keeps its type, whatever the constants are.
THEOREM TypeCorrect == Spec => []TypeOK
<1>1. Init => TypeOK
  BY TypeInit
<1>2. TypeOK /\ [Next]_vars => TypeOK'
  BY TypeStep
<1> QED BY <1>1, <1>2, PTL DEF Spec

-----------------------------------------------------------------------------
(* The shape of the loop: what the program counter says of the variables.  *)

Shape ==
    /\ calling <=> pc = "run"
    /\ pc = "start" => threadId = Creator
    /\ pc # "start" => threadId = Looper
    /\ pc # "run" => batch = <<>>
    /\ pc # "fire" => ready = {}

LEMMA ShapeStep == TypeOK /\ Shape /\ [Next]_vars => Shape'
<1> SUFFICES ASSUME TypeOK, Shape, [Next]_vars PROVE Shape'
  OBVIOUS
<1> USE DEF Shape, loopLocal
<1>1. ASSUME NEW t \in Threads,
             \/ RunInline(t)
             \/ FinishQueue(t) \/ FinishRunAfter(t) \/ FinishQuit(t) \/ Quit(t)
      PROVE  Shape'
  BY <1>1 DEF RunInline, FinishQueue, FinishRunAfter, FinishQuit, Quit
<1>2. ASSUME NEW t \in Threads, NEW f \in Functors, RunInLoop(t, f) \/ QueueInLoop(t, f)
      PROVE  Shape'
  BY <1>2 DEF RunInLoop, QueueInLoop
<1>3. ASSUME NEW t \in Threads, NEW d \in Timers, NEW delay \in Delays, RunAfter(t, d, delay)
      PROVE  Shape'
  BY <1>3 DEF RunAfter
<1>4. CASE StartThread \/ EnterLoop \/ CheckQuit \/ PollTimeout
  BY <1>4 DEF StartThread, EnterLoop, CheckQuit, PollTimeout
<1>5. ASSUME NEW ch \in SUBSET {WakeupChannel, IoChannel}, PollEvents(ch) PROVE Shape'
  BY <1>5 DEF PollEvents
<1>6. CASE HandleWakeupRead \/ HandleIo
  BY <1>6 DEF HandleWakeupRead, HandleIo
<1>7. CASE SwapPending \/ RunFunctor \/ EndFunctors
  BY <1>7 DEF SwapPending, RunFunctor, EndFunctors
<1>8. CASE TakeExpired \/ EndTimers
  BY <1>8 DEF TakeExpired, EndTimers
<1>9. ASSUME NEW d \in ready, FireTimer(d) PROVE Shape'
  BY <1>9 DEF FireTimer
<1>10. CASE Destroy \/ Join \/ Tick
  BY <1>10 DEF Destroy, Join, Tick
<1>11. CASE UNCHANGED vars
  BY <1>11 DEF vars
<1> QED BY <1>1, <1>2, <1>3, <1>4, <1>5, <1>6, <1>7, <1>8, <1>9, <1>10, <1>11, StepCases

LEMMA ShapeInit == Init => Shape
BY DEF Init, Shape

-----------------------------------------------------------------------------
(* The queue of functors.                                                  *)

LEMMA MoveHead ==
    ASSUME NEW S, NEW s \in Seq(S), NEW b \in Seq(S), b # <<>>
    PROVE  Append(s, Head(b)) \o Tail(b) = s \o b
<1>1. Head(b) \in S /\ Tail(b) \in Seq(S)
  BY HeadTailProperties
<1>2. <<Head(b)>> \in Seq(S)
  BY <1>1
<1>3. Append(s, Head(b)) = s \o <<Head(b)>>
  BY <1>1, AppendIsConcat
<1>4. <<Head(b)>> \o Tail(b) = b
  BY <1>1, <1>2, ConcatProperties, HeadTailProperties, SeqEqual
<1> QED BY <1>1, <1>2, <1>3, <1>4, ConcatAssociative

LEMMA ConcatAppend ==
    ASSUME NEW S, NEW s \in Seq(S), NEW p \in Seq(S), NEW e \in S
    PROVE  s \o Append(p, e) = Append(s \o p, e)
<1>1. <<e>> \in Seq(S) /\ s \o p \in Seq(S)
  BY ConcatProperties
<1>2. Append(p, e) = p \o <<e>> /\ Append(s \o p, e) = (s \o p) \o <<e>>
  BY <1>1, AppendIsConcat
<1> QED BY <1>1, <1>2, ConcatAssociative

LEMMA HeadTailConcat ==
    ASSUME NEW S, NEW b \in Seq(S), NEW p \in Seq(S), b # <<>>
    PROVE  /\ b \o p # <<>>
           /\ Head(b \o p) = Head(b)
           /\ Tail(b \o p) = Tail(b) \o p
<1>1. /\ Head(b) \in S /\ Tail(b) \in Seq(S)
      /\ b \o p \in Seq(S) /\ Tail(b) \o p \in Seq(S)
  BY HeadTailProperties, ConcatProperties
<1>2. /\ Len(b) \in Nat \ {0} /\ Len(p) \in Nat
      /\ Len(b \o p) = Len(b) + Len(p)
      /\ \A i \in 1 .. Len(b) + Len(p) :
            (b \o p)[i] = IF i <= Len(b) THEN b[i] ELSE p[i - Len(b)]
  BY ConcatProperties, LenProperties, EmptySeq
<1>3. b \o p # <<>>
  BY <1>1, <1>2, EmptySeq
<1>4. /\ Len(Tail(b)) = Len(b) - 1
      /\ \A i \in 1 .. Len(b) - 1 : Tail(b)[i] = b[i + 1]
  BY HeadTailProperties
<1>5. /\ Len(Tail(b \o p)) = Len(b) + Len(p) - 1
      /\ \A i \in 1 .. Len(b) + Len(p) - 1 : Tail(b \o p)[i] = (b \o p)[i + 1]
      /\ Tail(b \o p) \in Seq(S)
  BY <1>1, <1>2, <1>3, HeadTailProperties
<1>6. /\ Len(Tail(b) \o p) = Len(b) - 1 + Len(p)
      /\ \A i \in 1 .. Len(b) - 1 + Len(p) :
            (Tail(b) \o p)[i] = IF i <= Len(b) - 1 THEN Tail(b)[i] ELSE p[i - (Len(b) - 1)]
  BY <1>1, <1>4, ConcatProperties
<1>7. \A i \in 1 .. Len(b) + Len(p) - 1 : Tail(b \o p)[i] = (Tail(b) \o p)[i]
  BY <1>2, <1>4, <1>5, <1>6
<1>8. Tail(b \o p) = Tail(b) \o p
  BY <1>1, <1>2, <1>5, <1>6, <1>7, SeqEqual
<1> QED BY <1>2, <1>3, <1>8

\* A callback pushes at most one functor, at the end of both sequences.
LEMMA CallbackPushes ==
    ASSUME TypeOK, NEW from, Callback(from)
    PROVE  \/ UNCHANGED <<pending, queued>>
           \/ \E f \in Functors : /\ pending' = Append(pending, f)
                                  /\ queued' = Append(queued, f)
                                  /\ origin[f] = None
                                  /\ origin' = [origin EXCEPT ![f] = from]
BY DEF Callback, CallsRunInLoop, CallsQueueInLoop, CallsRunAfter, submitted,
       FreshFunctors

LEMMA FIFOStep == TypeOK /\ Shape /\ FIFO /\ [Next]_vars => FIFO'
<1> SUFFICES ASSUME TypeOK, Shape, FIFO, [Next]_vars PROVE FIFO'
  OBVIOUS
<1> USE DEF FIFO
<1>a. /\ pending \in Seq(Functors) /\ batch \in Seq(Functors)
      /\ queued \in Seq(Functors) /\ done \in Seq(Functors)
      /\ done \o batch \in Seq(Functors)
  BY ConcatProperties DEF TypeOK
<1>b. ASSUME UNCHANGED <<done, batch, pending, queued>> PROVE FIFO'
  BY <1>b
<1>c. ASSUME NEW f \in Functors, pending' = Append(pending, f),
             queued' = Append(queued, f), UNCHANGED <<done, batch>>
      PROVE  FIFO'
  <2>1. (done \o batch) \o Append(pending, f) = Append((done \o batch) \o pending, f)
    BY <1>a, ConcatAppend
  <2> QED BY <1>c, <2>1
<1>d. ASSUME NEW from, Callback(from), UNCHANGED <<done, batch>> PROVE FIFO'
  BY <1>b, <1>c, <1>d, CallbackPushes
<1>1. ASSUME NEW t \in Threads,
             \/ RunInline(t)
             \/ FinishQueue(t) \/ FinishRunAfter(t) \/ FinishQuit(t) \/ Quit(t)
      PROVE  FIFO'
  BY <1>1, <1>b DEF RunInline, FinishQueue, FinishRunAfter, FinishQuit, Quit, loopLocal, submitted
<1>2. ASSUME NEW t \in Threads, NEW f \in Functors, RunInLoop(t, f) \/ QueueInLoop(t, f)
      PROVE  FIFO'
  BY <1>2, <1>b, <1>c DEF RunInLoop, QueueInLoop, loopLocal
<1>3. ASSUME NEW t \in Threads, NEW d \in Timers, NEW delay \in Delays, RunAfter(t, d, delay)
      PROVE  FIFO'
  BY <1>3, <1>b DEF RunAfter, loopLocal, submitted
<1>4. CASE \/ StartThread \/ EnterLoop \/ CheckQuit \/ PollTimeout
           \/ HandleWakeupRead \/ EndFunctors \/ EndTimers
  BY <1>4, <1>b DEF StartThread, EnterLoop, CheckQuit, PollTimeout, HandleWakeupRead,
                    EndFunctors, EndTimers, submitted
<1>5. ASSUME NEW ch \in SUBSET {WakeupChannel, IoChannel}, PollEvents(ch) PROVE FIFO'
  BY <1>5, <1>b DEF PollEvents, submitted
<1>6. CASE HandleIo
  BY <1>6, <1>d DEF HandleIo
<1>7. CASE SwapPending
  <2>1. batch = <<>> /\ batch' = pending /\ pending' = <<>> /\ UNCHANGED <<done, queued>>
    BY <1>7 DEF SwapPending, SwappedIn, SwappedOut, Shape
  <2>2. done \o batch = done /\ (done \o pending) \o <<>> = done \o pending
    BY <1>a, <2>1, ConcatEmptySeq, ConcatProperties
  <2> QED BY <2>1, <2>2
<1>8. CASE RunFunctor
  <2>1. /\ batch # <<>> /\ batch' = Tail(batch) /\ done' = Append(done, Head(batch))
        /\ Callback("functor")
    BY <1>8 DEF RunFunctor
  <2>2. done' \o batch' = done \o batch
    BY <1>a, <2>1, MoveHead
  <2>3. CASE UNCHANGED <<pending, queued>>
    BY <2>2, <2>3
  <2>4. ASSUME NEW f \in Functors, pending' = Append(pending, f), queued' = Append(queued, f)
        PROVE  FIFO'
    <3>1. (done \o batch) \o Append(pending, f) = Append((done \o batch) \o pending, f)
      BY <1>a, ConcatAppend
    <3> QED BY <2>2, <2>4, <3>1
  <2> QED BY <2>1, <2>3, <2>4, CallbackPushes
<1>9. CASE TakeExpired
  BY <1>9, <1>b DEF TakeExpired
<1>10. ASSUME NEW d \in ready, FireTimer(d) PROVE FIFO'
  BY <1>10, <1>d DEF FireTimer
<1>11. CASE Destroy \/ Join \/ Tick
  BY <1>11, <1>b DEF Destroy, Join, Tick, loopLocal, submitted
<1>12. CASE UNCHANGED vars
  BY <1>12, <1>b DEF vars
<1> QED BY <1>1, <1>2, <1>3, <1>4, <1>5, <1>6, <1>7, <1>8, <1>9, <1>10, <1>11,
           <1>12, StepCases

LEMMA FIFOInit == Init => FIFO
BY EmptySeq, ConcatEmptySeq DEF Init, FIFO

\* QueueInLoop loses, repeats and reorders nothing, for any number of threads
\* and functors.
THEOREM FIFOCorrect == Spec => []FIFO
<1>1. Init => TypeOK /\ Shape /\ FIFO
  BY TypeInit, ShapeInit, FIFOInit
<1>2. TypeOK /\ Shape /\ FIFO /\ [Next]_vars => (TypeOK /\ Shape /\ FIFO)'
  BY TypeStep, ShapeStep, FIFOStep
<1> QED BY <1>1, <1>2, PTL DEF Spec

-----------------------------------------------------------------------------
(* Wakeups.                                                                *)

Pushed(s) == \A i \in DOMAIN s : origin[s[i]] # None
KnownOrigin == Pushed(pending) /\ Pushed(batch) /\ Pushed(done)

\* NoLostWakeup made inductive: outside the handling of events, whoever
\* pushed a waiting functor has written the eventfd or is that functor's
\* QueueInLoop, between the push and the Wakeup.
Signalled == {"thread", "io", "functor"}
WakeInv ==
    life = "alive" /\ pc # "events" =>
        \A i \in DOMAIN pending :
            origin[pending[i]] \in Signalled =>
                wakeup \/ \E t \in Threads : op[t].kind = "waking" /\ op[t].f = pending[i]

\* A push by a callback of DoPendingFunctors is always followed by Wakeup().
LEMMA CallbackWakes ==
    ASSUME TypeOK, NEW from, Callback(from), life = "alive"
    PROVE  /\ wakeup => wakeup'
           /\ calling => wakeup' \/ UNCHANGED pending
           /\ \A f \in Functors : origin[f] # None => origin'[f] = origin[f]
<1> USE DEF TypeOK
<1>1. CASE UNCHANGED <<submitted, quit, wakeup>>
  BY <1>1 DEF submitted
<1>2. CASE \E f \in Functors : CallsRunInLoop(f)
  BY <1>2 DEF CallsRunInLoop, FreshFunctors
<1>3. CASE \E f \in Functors : CallsQueueInLoop(from, f)
  <2> PICK f \in Functors : CallsQueueInLoop(from, f)
    BY <1>3
  <2>1. calling => wakeup' = TRUE
    BY DEF CallsQueueInLoop, MustWake, Wakeup
  <2>2. wakeup => wakeup' = TRUE
    BY DEF CallsQueueInLoop, Wakeup
  <2>3. \A g \in Functors : origin[g] # None => origin'[g] = origin[g]
    BY DEF CallsQueueInLoop, FreshFunctors
  <2> QED BY <2>1, <2>2, <2>3
<1>4. CASE \E d \in Timers, delay \in Delays : CallsRunAfter(d, delay)
  BY <1>4 DEF CallsRunAfter, Wakeup
<1>5. CASE quit' = TRUE /\ UNCHANGED <<submitted, wakeup>>
  BY <1>5 DEF submitted
<1> QED BY <1>1, <1>2, <1>3, <1>4, <1>5 DEF Callback

\* Once a functor has an origin it keeps one.
LEMMA OriginStays ==
    ASSUME TypeOK, NEW from \in Origins \ {None}, Callback(from)
    PROVE  \A f \in Functors : origin[f] # None => origin'[f] # None
BY DEF TypeOK, Callback, CallsRunInLoop, CallsQueueInLoop, CallsRunAfter, submitted,
       FreshFunctors

LEMMA KnownStep == TypeOK /\ KnownOrigin /\ [Next]_vars => KnownOrigin'
<1> SUFFICES ASSUME TypeOK, KnownOrigin, [Next]_vars PROVE KnownOrigin'
  OBVIOUS
<1> DEFINE Stays == \A f \in Functors : origin[f] # None => origin'[f] # None
<1>a. /\ \A i \in DOMAIN pending : pending[i] \in Functors
      /\ \A i \in DOMAIN batch : batch[i] \in Functors
      /\ \A i \in DOMAIN done : done[i] \in Functors
  BY ElementOfSeq, LenProperties DEF TypeOK
<1>b. ASSUME Stays, UNCHANGED <<pending, batch, done>> PROVE KnownOrigin'
  BY <1>a, <1>b DEF KnownOrigin, Pushed
<1>c. ASSUME NEW f \in Functors, Stays, origin'[f] # None,
             pending' = Append(pending, f)
      PROVE  Pushed(pending)'
  <2>1. \A i \in DOMAIN pending' : \/ i \in DOMAIN pending /\ pending'[i] = pending[i]
                                  \/ pending'[i] = f
    BY <1>c, AppendProperties, LenProperties DEF TypeOK
  <2> QED BY <1>a, <1>c, <2>1 DEF KnownOrigin, Pushed
<1>d. ASSUME NEW from \in Origins \ {None}, Callback(from)
      PROVE  Stays /\ Pushed(pending)'
  <2>1. Stays
    BY <1>d, OriginStays
  <2>2. CASE UNCHANGED pending
    BY <1>a, <2>1, <2>2 DEF KnownOrigin, Pushed
  <2>3. ASSUME NEW f \in Functors, pending' = Append(pending, f),
               origin' = [origin EXCEPT ![f] = from]
        PROVE  Pushed(pending)'
    BY <1>c, <2>1, <2>3 DEF TypeOK
  <2> QED BY <1>d, <2>1, <2>2, <2>3, CallbackPushes
<1>1. ASSUME NEW t \in Threads,
             \/ RunInline(t)
             \/ FinishQueue(t) \/ FinishRunAfter(t) \/ FinishQuit(t) \/ Quit(t)
      PROVE  KnownOrigin'
  <2>1. Stays
    BY <1>1 DEF RunInline, FinishQueue, FinishRunAfter, FinishQuit, Quit, submitted, None, TypeOK
  <2> QED BY <1>1, <1>b, <2>1 DEF RunInline, FinishQueue, FinishRunAfter, FinishQuit, Quit,
                                  loopLocal, submitted
<1>2. ASSUME NEW t \in Threads, NEW f \in Functors, RunInLoop(t, f)
      PROVE  KnownOrigin'
  BY <1>2, <1>b DEF RunInLoop, loopLocal, TypeOK, None
<1>3. ASSUME NEW t \in Threads, NEW f \in Functors, QueueInLoop(t, f)
      PROVE  KnownOrigin'
  <2>1. Stays /\ origin'[f] # None /\ pending' = Append(pending, f)
        /\ UNCHANGED <<batch, done>>
    BY <1>3 DEF QueueInLoop, loopLocal, TypeOK, None
  <2> QED BY <1>a, <1>c, <2>1 DEF KnownOrigin, Pushed
<1>4. ASSUME NEW t \in Threads, NEW d \in Timers, NEW delay \in Delays, RunAfter(t, d, delay)
      PROVE  KnownOrigin'
  BY <1>4, <1>b DEF RunAfter, loopLocal, submitted
<1>5. CASE \/ StartThread \/ EnterLoop \/ CheckQuit \/ PollTimeout
           \/ HandleWakeupRead \/ EndFunctors \/ EndTimers
  BY <1>5, <1>b DEF StartThread, EnterLoop, CheckQuit, PollTimeout, HandleWakeupRead,
                    EndFunctors, EndTimers, submitted
<1>6. ASSUME NEW ch \in SUBSET {WakeupChannel, IoChannel}, PollEvents(ch)
      PROVE  KnownOrigin'
  BY <1>6, <1>b DEF PollEvents, submitted
<1>7. CASE HandleIo
  <2>1. Stays /\ Pushed(pending)' /\ UNCHANGED <<batch, done>>
    BY <1>7, <1>d DEF HandleIo, Origins, None
  <2> QED BY <1>a, <2>1 DEF KnownOrigin, Pushed
<1>8. CASE SwapPending
  BY <1>8 DEF SwapPending, SwappedIn, SwappedOut, KnownOrigin, Pushed
<1>9. CASE RunFunctor
  <2>1. /\ batch # <<>> /\ batch' = Tail(batch) /\ done' = Append(done, Head(batch))
        /\ Callback("functor")
    BY <1>9 DEF RunFunctor
  <2>2. Stays /\ Pushed(pending)'
    BY <2>1, <1>d DEF Origins, None
  <2>3. /\ Head(batch) \in Functors
        /\ \A i \in DOMAIN batch' : i + 1 \in DOMAIN batch /\ batch'[i] = batch[i + 1]
        /\ Head(batch) = batch[1] /\ 1 \in DOMAIN batch
    BY <2>1, HeadTailProperties, LenProperties, EmptySeq DEF TypeOK
  <2>4. \A i \in DOMAIN done' : \/ i \in DOMAIN done /\ done'[i] = done[i]
                               \/ done'[i] = batch[1]
    BY <2>1, <2>3, AppendProperties, LenProperties DEF TypeOK
  <2> QED BY <1>a, <2>2, <2>3, <2>4 DEF KnownOrigin, Pushed
<1>10. CASE TakeExpired
  BY <1>10, <1>b DEF TakeExpired
<1>11. ASSUME NEW d \in ready, FireTimer(d) PROVE KnownOrigin'
  <2>1. Stays /\ Pushed(pending)' /\ UNCHANGED <<batch, done>>
    BY <1>11, <1>d DEF FireTimer, Origins, None
  <2> QED BY <1>a, <2>1 DEF KnownOrigin, Pushed
<1>12. CASE Destroy \/ Join \/ Tick
  BY <1>12, <1>b DEF Destroy, Join, Tick, loopLocal, submitted
<1>13. CASE UNCHANGED vars
  BY <1>13, <1>b DEF vars
<1> QED BY <1>1, <1>2, <1>3, <1>4, <1>5, <1>6, <1>7, <1>8, <1>9, <1>10, <1>11,
           <1>12, <1>13, StepCases

LEMMA WakeStep ==
    TypeOK /\ Shape /\ KnownOrigin /\ WakeInv /\ [Next]_vars => WakeInv'
<1> SUFFICES ASSUME TypeOK, Shape, KnownOrigin, WakeInv, [Next]_vars,
                    life' = "alive", pc' # "events",
                    NEW i \in DOMAIN pending', origin'[pending'[i]] \in Signalled
             PROVE  \/ wakeup'
                    \/ \E t \in Threads : op'[t].kind = "waking" /\ op'[t].f = pending'[i]
  BY DEF WakeInv
<1> DEFINE Waking(f) == \E t \in Threads : op[t].kind = "waking" /\ op[t].f = f
           Goal == wakeup' \/ \E t \in Threads : /\ op'[t].kind = "waking"
                                                 /\ op'[t].f = pending'[i]
<1>a. pc # "events" /\ life = "alive" =>
        \A j \in DOMAIN pending : origin[pending[j]] \in Signalled => wakeup \/ Waking(pending[j])
  BY DEF WakeInv
<1>b. \A j \in DOMAIN pending : pending[j] \in Functors /\ origin[pending[j]] # None
  BY ElementOfSeq, LenProperties DEF TypeOK, KnownOrigin, Pushed
<1>c. ASSUME pc # "events", life = "alive", wakeup => wakeup', UNCHANGED <<pending, origin, op>>
      PROVE  Goal
  BY <1>a, <1>c
<1>1. ASSUME NEW t \in Threads, FinishQueue(t) PROVE Goal
  <2>1. CASE MustWake(t)
    BY <1>1, <2>1 DEF FinishQueue, Wakeup
  <2>2. CASE ~MustWake(t)
    <3>1. origin' = [origin EXCEPT ![op[t].f] = "window"] /\ UNCHANGED <<wakeup, pending, life, pc>>
      BY <1>1, <2>2 DEF FinishQueue, loopLocal
    <3>2. pending[i] # op[t].f
      BY <3>1, <1>b DEF Signalled, TypeOK
    <3>3. origin[pending[i]] \in Signalled
      BY <3>1, <3>2, <1>b DEF TypeOK
    <3>4. wakeup \/ Waking(pending[i])
      BY <3>1, <3>3, <1>a
    <3>5. \A u \in Threads \ {t} : op'[u] = op[u]
      BY <1>1 DEF FinishQueue, TypeOK
    <3> QED BY <3>1, <3>2, <3>4, <3>5
  <2> QED BY <2>1, <2>2
<1>2. ASSUME NEW t \in Threads, FinishRunAfter(t) \/ FinishQuit(t) \/ Quit(t)
      PROVE  Goal
  <2>1. /\ UNCHANGED <<pending, origin, life, pc>>
        /\ op[t].kind # "waking"
        /\ \A u \in Threads \ {t} : op'[u] = op[u]
    BY <1>2 DEF FinishRunAfter, FinishQuit, Quit, MayCall, Idle, loopLocal, submitted, TypeOK
  <2>2. wakeup => wakeup'
    BY <1>2 DEF FinishRunAfter, FinishQuit, Quit, Wakeup
  <2> QED BY <1>a, <2>1, <2>2
<1>3. ASSUME NEW t \in Threads, NEW f \in Functors, RunInLoop(t, f)
      PROVE  Goal
  <2>1. /\ UNCHANGED <<pending, life, pc, wakeup>>
        /\ \A g \in Functors : origin[g] # None => origin'[g] = origin[g]
        /\ op[t].kind # "waking"
        /\ \A u \in Threads \ {t} : op'[u] = op[u]
    BY <1>3 DEF RunInLoop, MayCall, Idle, loopLocal, TypeOK, FreshFunctors
  <2> QED BY <1>a, <1>b, <2>1
<1>4. ASSUME NEW t \in Threads, NEW f \in Functors, QueueInLoop(t, f)
      PROVE  Goal
  <2>1. /\ UNCHANGED <<life, pc, wakeup>>
        /\ \A g \in Functors : origin[g] # None => origin'[g] = origin[g]
        /\ op[t].kind # "waking"
        /\ op' = [op EXCEPT ![t] = [kind |-> "waking", f |-> f]]
        /\ pending' = Append(pending, f)
    BY <1>4 DEF QueueInLoop, MayCall, Idle, loopLocal, TypeOK, FreshFunctors
  <2>2. CASE pending'[i] = f
    BY <2>1, <2>2 DEF TypeOK
  <2>3. CASE pending'[i] # f
    <3>1. i \in DOMAIN pending /\ pending'[i] = pending[i]
      BY <2>1, <2>3, AppendProperties, LenProperties DEF TypeOK
    <3>2. wakeup \/ Waking(pending[i])
      BY <1>a, <1>b, <2>1, <3>1
    <3>3. \A u \in Threads \ {t} : op'[u] = op[u]
      BY <2>1 DEF TypeOK
    <3> QED BY <2>1, <3>1, <3>2, <3>3
  <2> QED BY <2>2, <2>3
<1>5. ASSUME NEW t \in Threads, NEW d \in Timers, NEW delay \in Delays, RunAfter(t, d, delay)
      PROVE  Goal
  <2>1. /\ UNCHANGED <<pending, origin, life, pc, wakeup>>
        /\ op[t].kind # "waking"
        /\ \A u \in Threads \ {t} : op'[u] = op[u]
    BY <1>5 DEF RunAfter, MayCall, Idle, loopLocal, submitted, TypeOK
  <2> QED BY <1>a, <2>1
<1>6. CASE StartThread \/ EnterLoop \/ CheckQuit \/ EndFunctors \/ EndTimers
  BY <1>6, <1>c DEF StartThread, EnterLoop, CheckQuit, EndFunctors, EndTimers, submitted
<1>7. CASE \/ PollTimeout \/ HandleWakeupRead \/ HandleIo
           \/ \E ch \in SUBSET {WakeupChannel, IoChannel} : PollEvents(ch)
  BY <1>7 DEF PollTimeout, HandleWakeupRead, HandleIo, PollEvents
<1>8. CASE SwapPending
  BY <1>8 DEF SwapPending, SwappedIn
<1>9. CASE RunFunctor
  <2>1. calling /\ life = "alive" /\ pc # "events" /\ op' = op
    BY <1>9 DEF RunFunctor, Shape
  <2>2. /\ wakeup => wakeup'
        /\ \A g \in Functors : origin[g] # None => origin'[g] = origin[g]
        /\ wakeup' \/ UNCHANGED pending
    BY <1>9, <2>1, CallbackWakes DEF RunFunctor
  <2> QED BY <1>a, <1>b, <2>1, <2>2
<1>10. CASE TakeExpired
  BY <1>10, <1>c DEF TakeExpired
<1>11. ASSUME NEW d \in ready, FireTimer(d) PROVE Goal
  <2>1. life = "alive" /\ pc # "events" /\ op' = op /\ Callback("timer")
    BY <1>11 DEF FireTimer
  <2>2. /\ wakeup => wakeup'
        /\ \A g \in Functors : origin[g] # None => origin'[g] = origin[g]
    BY <2>1, CallbackWakes
  <2>3. CASE UNCHANGED pending
    BY <1>a, <1>b, <2>1, <2>2, <2>3
  <2>4. ASSUME NEW f \in Functors, pending' = Append(pending, f),
               origin' = [origin EXCEPT ![f] = "timer"]
        PROVE  Goal
    <3>1. pending'[i] # f
      BY <2>4 DEF Signalled, TypeOK
    <3>2. i \in DOMAIN pending /\ pending'[i] = pending[i]
      BY <2>4, <3>1, AppendProperties, LenProperties DEF TypeOK
    <3> QED BY <1>a, <1>b, <2>1, <2>2, <3>2
  <2> QED BY <2>1, <2>3, <2>4, CallbackPushes
<1>12. CASE Destroy
  BY <1>12 DEF Destroy
<1>13. CASE Join \/ Tick
  BY <1>13, <1>c DEF Join, Tick, loopLocal, submitted
<1>14. CASE UNCHANGED vars
  BY <1>14, <1>c DEF vars
<1>15. ASSUME NEW t \in Threads, RunInline(t) PROVE Goal
  <2>1. /\ UNCHANGED <<pending, life, pc, wakeup>>
        /\ op[t].kind # "waking"
        /\ \A u \in Threads \ {t} : op'[u] = op[u]
    BY <1>15 DEF RunInline, loopLocal, TypeOK
  <2>2. \A g \in Functors : origin'[g] \in Signalled => origin[g] \in Signalled
    BY <1>15 DEF RunInline, Signalled, TypeOK
  <2> QED BY <1>a, <1>b, <2>1, <2>2
<1> QED BY <1>1, <1>2, <1>3, <1>4, <1>5, <1>6, <1>7, <1>8, <1>9, <1>10, <1>11,
           <1>12, <1>13, <1>14, <1>15, StepCases

LEMMA WakeInit == Init => KnownOrigin /\ WakeInv
BY DEF Init, KnownOrigin, Pushed, WakeInv

\* A functor pushed by a foreign thread, an I/O callback or another functor
\* never has to wait for Poll's timeout, for any number of them.
THEOREM NoLostWakeupCorrect == Spec => []NoLostWakeup
<1> DEFINE I == TypeOK /\ Shape /\ KnownOrigin /\ WakeInv
<1>1. Init => I
  BY TypeInit, ShapeInit, WakeInit
<1>2. I /\ [Next]_vars => I'
  BY TypeStep, ShapeStep, KnownStep, WakeStep
<1>3. I => NoLostWakeup
  BY DEF WakeInv, NoLostWakeup, Signalled
<1> QED BY <1>1, <1>2, <1>3, PTL DEF Spec

LEMMA QuitStep == TypeOK /\ Shape /\ QuitWakes /\ [Next]_vars => QuitWakes'
<1> SUFFICES ASSUME TypeOK, Shape, QuitWakes, [Next]_vars,
                    pc' = "poll", quit', life' = "alive"
             PROVE  wakeup' \/ \E t \in Threads : op'[t].kind = "quitting"
  BY DEF QuitWakes
<1> DEFINE Goal == wakeup' \/ \E t \in Threads : op'[t].kind = "quitting"
<1>a. ASSUME pc = "poll", quit, life = "alive", wakeup => wakeup', UNCHANGED op PROVE Goal
  BY <1>a DEF QuitWakes
<1>1. ASSUME NEW t \in Threads, RunInline(t) \/ FinishQueue(t) \/ FinishRunAfter(t)
      PROVE  Goal
  <2>1. /\ pc = "poll" /\ quit /\ life = "alive" /\ op[t].kind # "quitting"
        /\ \A u \in Threads \ {t} : op'[u] = op[u]
    BY <1>1 DEF RunInline, FinishQueue, FinishRunAfter, loopLocal, TypeOK
  <2>2. wakeup => wakeup'
    BY <1>1 DEF RunInline, FinishQueue, FinishRunAfter, Wakeup
  <2> QED BY <2>1, <2>2 DEF QuitWakes
<1>2. ASSUME NEW t \in Threads, FinishQuit(t) PROVE Goal
  <2>1. pc = "poll" /\ life = "alive" /\ threadId = Looper /\ QuitMustWake(t)
    BY <1>2 DEF FinishQuit, QuitMustWake, IsInLoopThread, Shape, loopLocal
  <2>2. wakeup' = TRUE
    BY <1>2, <2>1 DEF FinishQuit, Wakeup
  <2> QED BY <2>2
<1>3. ASSUME NEW t \in Threads, Quit(t) PROVE Goal
  BY <1>3 DEF Quit, TypeOK
<1>4. ASSUME NEW t \in Threads, NEW f \in Functors, RunInLoop(t, f) \/ QueueInLoop(t, f)
      PROVE  Goal
  <2>1. CASE RunInLoop(t, f)
    <3>1. /\ pc = "poll" /\ quit /\ life = "alive" /\ op[t].kind # "quitting"
          /\ UNCHANGED wakeup
          /\ \A u \in Threads \ {t} : op'[u] = op[u]
      BY <2>1 DEF RunInLoop, MayCall, Idle, loopLocal, TypeOK
    <3> QED BY <3>1 DEF QuitWakes
  <2>2. CASE QueueInLoop(t, f)
    <3>1. /\ pc = "poll" /\ quit /\ life = "alive" /\ op[t].kind # "quitting"
          /\ UNCHANGED wakeup
          /\ \A u \in Threads \ {t} : op'[u] = op[u]
      BY <2>2 DEF QueueInLoop, MayCall, Idle, loopLocal, TypeOK
    <3> QED BY <3>1 DEF QuitWakes
  <2> QED BY <1>4, <2>1, <2>2
<1>5. ASSUME NEW t \in Threads, NEW d \in Timers, NEW delay \in Delays, RunAfter(t, d, delay)
      PROVE  Goal
  <2>1. /\ pc = "poll" /\ quit /\ life = "alive" /\ op[t].kind # "quitting"
        /\ UNCHANGED wakeup
        /\ \A u \in Threads \ {t} : op'[u] = op[u]
    BY <1>5 DEF RunAfter, MayCall, Idle, loopLocal, TypeOK
  <2> QED BY <2>1 DEF QuitWakes
<1>6. CASE \/ StartThread \/ EnterLoop \/ CheckQuit \/ PollTimeout
           \/ HandleWakeupRead \/ HandleIo
           \/ \E ch \in SUBSET {WakeupChannel, IoChannel} : PollEvents(ch)
  BY <1>6 DEF StartThread, EnterLoop, CheckQuit, PollTimeout, PollEvents,
              HandleWakeupRead, HandleIo
<1>7. CASE \/ SwapPending \/ RunFunctor \/ EndFunctors \/ TakeExpired \/ EndTimers
           \/ \E d \in ready : FireTimer(d)
  BY <1>7 DEF SwapPending, RunFunctor, EndFunctors, TakeExpired, EndTimers, FireTimer
<1>8. CASE Destroy
  BY <1>8 DEF Destroy
<1>9. CASE Join \/ Tick
  <2>1. UNCHANGED <<pc, quit, wakeup, op>> /\ life = "alive"
    BY <1>9 DEF Join, Tick, loopLocal
  <2> QED BY <1>a, <2>1
<1>10. CASE UNCHANGED vars
  BY <1>10, <1>a DEF vars
<1> QED BY <1>1, <1>2, <1>3, <1>4, <1>5, <1>6, <1>7, <1>8, <1>9, <1>10, StepCases

\* A Quit the loop has not noticed never leaves it asleep in Poll.
THEOREM QuitWakesCorrect == Spec => []QuitWakes
<1>1. Init => TypeOK /\ Shape /\ QuitWakes
  BY TypeInit, ShapeInit DEF Init, QuitWakes
<1>2. TypeOK /\ Shape /\ QuitWakes /\ [Next]_vars => (TypeOK /\ Shape /\ QuitWakes)'
  BY TypeStep, ShapeStep, QuitStep
<1> QED BY <1>1, <1>2, PTL DEF Spec

-----------------------------------------------------------------------------
(* Callbacks that RunInLoop runs off the loop's thread.                    *)

\* Whoever passed RunInLoop's test is the creator, and until its callback has
\* run nothing ran late; before the new thread stored its id nothing can have.
InlineInv ==
    /\ \A t \in Threads :
          op[t].kind = "inlining" => t = Creator /\ \A g \in Functors : origin[g] # "late"
    /\ pc = "start" => \A g \in Functors : origin[g] # "late"

\* A callback runs others on the loop thread only, and none of them late.
LEMMA CallbackInline ==
    ASSUME TypeOK, NEW from \in Origins \ {"late"}, Callback(from)
    PROVE  /\ \A f \in Functors : inline'[f] # inline[f] => inline'[f] = Looper
           /\ \A f \in Functors : origin'[f] = "late" => origin[f] = "late"
BY DEF Callback, CallsRunInLoop, CallsQueueInLoop, CallsRunAfter, submitted, TypeOK

LEMMA InlineStep == TypeOK /\ Shape /\ InlineInv /\ [Next]_vars => InlineInv'
<1> SUFFICES ASSUME TypeOK, Shape, InlineInv, [Next]_vars PROVE InlineInv'
  OBVIOUS
<1> DEFINE NoneLate == \A g \in Functors : origin'[g] = "late" => origin[g] = "late"
<1>a. ASSUME NoneLate, UNCHANGED op, pc' = "start" => pc = "start" PROVE InlineInv'
  BY <1>a DEF InlineInv
<1>b. ASSUME NEW t \in Threads, NoneLate, UNCHANGED pc, op'[t].kind # "inlining",
             \A u \in Threads \ {t} : op'[u] = op[u]
      PROVE  InlineInv'
  BY <1>b DEF InlineInv
<1>1. ASSUME NEW t \in Threads, RunInline(t) PROVE InlineInv'
  <2>1. /\ t = Creator /\ UNCHANGED <<pc, threadId>>
        /\ op'[t].kind # "inlining"
        /\ \A u \in Threads \ {t} : op'[u] = op[u]
    BY <1>1 DEF RunInline, InlineInv, Idle, loopLocal, TypeOK
  <2>2. \A u \in Threads : op'[u].kind # "inlining"
    BY <2>1 DEF InlineInv
  <2>3. CASE pc = "start"
    <3>1. threadId = t
      BY <2>1, <2>3 DEF Shape
    <3>2. NoneLate
      BY <1>1, <3>1 DEF RunInline, TypeOK
    <3> QED BY <1>b, <2>1, <3>2
  <2> QED BY <2>1, <2>2, <2>3 DEF InlineInv
<1>2. ASSUME NEW t \in Threads, NEW f \in Functors, RunInLoop(t, f) PROVE InlineInv'
  <2>1. /\ t = Creator /\ pc = "start" /\ UNCHANGED pc
        /\ \A u \in Threads \ {t} : op'[u] = op[u]
    BY <1>2 DEF RunInLoop, IsInLoopThread, Shape, loopLocal, TypeOK
  <2>2. NoneLate
    BY <1>2 DEF RunInLoop, TypeOK
  <2> QED BY <2>1, <2>2 DEF InlineInv
<1>3. ASSUME NEW t \in Threads, NEW f \in Functors, QueueInLoop(t, f) PROVE InlineInv'
  BY <1>3, <1>b DEF QueueInLoop, loopLocal, TypeOK
<1>4. ASSUME NEW t \in Threads, FinishQueue(t) PROVE InlineInv'
  <2>1. NoneLate
    BY <1>4 DEF FinishQueue, TypeOK
  <2> QED BY <1>4, <1>b, <2>1 DEF FinishQueue, Idle, loopLocal, TypeOK
<1>5. ASSUME NEW t \in Threads, FinishRunAfter(t) \/ FinishQuit(t) \/ Quit(t)
      PROVE  InlineInv'
  <2>1. UNCHANGED <<origin, pc>>
    BY <1>5 DEF FinishRunAfter, FinishQuit, Quit, loopLocal, submitted
  <2>2. op'[t].kind # "inlining" /\ \A u \in Threads \ {t} : op'[u] = op[u]
    BY <1>5 DEF FinishRunAfter, FinishQuit, Quit, Idle, TypeOK
  <2> QED BY <1>b, <2>1, <2>2
<1>6. ASSUME NEW t \in Threads, NEW d \in Timers, NEW delay \in Delays, RunAfter(t, d, delay)
      PROVE  InlineInv'
  BY <1>6, <1>b DEF RunAfter, loopLocal, submitted, TypeOK
<1>7. CASE \/ StartThread \/ EnterLoop \/ CheckQuit \/ PollTimeout \/ HandleWakeupRead
           \/ SwapPending \/ EndFunctors \/ TakeExpired \/ EndTimers
           \/ \E ch \in SUBSET {WakeupChannel, IoChannel} : PollEvents(ch)
  BY <1>7, <1>a DEF StartThread, EnterLoop, CheckQuit, PollTimeout, HandleWakeupRead,
     SwapPending, EndFunctors, TakeExpired, EndTimers, PollEvents, submitted
<1>8. CASE HandleIo \/ RunFunctor \/ \E d \in ready : FireTimer(d)
  <2>1. NoneLate
    BY <1>8, CallbackInline DEF HandleIo, RunFunctor, FireTimer, Origins
  <2> QED BY <1>8, <1>a, <2>1 DEF HandleIo, RunFunctor, FireTimer
<1>9. CASE Destroy \/ Join \/ Tick
  BY <1>9, <1>a DEF Destroy, Join, Tick, loopLocal, submitted
<1>10. CASE UNCHANGED vars
  BY <1>10, <1>a DEF vars
<1> QED BY <1>1, <1>2, <1>3, <1>4, <1>5, <1>6, <1>7, <1>8, <1>9, <1>10, StepCases

LEMMA InlineInit == Init => InlineInv
BY DEF Init, InlineInv, Idle, None

\* Off the loop thread only the creator ever runs a callback, and once the new
\* thread stored its id at most one, whose test came before the store.
THEOREM InlineOnlyInWindowCorrect == Spec => InlineOnlyInWindow
<1> DEFINE I == TypeOK /\ Shape /\ InlineInv
           A == \A f \in Functors :
                    inline'[f] # inline[f] /\ inline'[f] # Looper =>
                        /\ inline'[f] = Creator
                        /\ pc = "start" \/ \A g \in Functors : origin[g] # "late"
<1>1. Init => I
  BY TypeInit, ShapeInit, InlineInit
<1>2. I /\ [Next]_vars => I'
  BY TypeStep, ShapeStep, InlineStep
<1>3. I /\ [Next]_vars => [A]_vars
  <2> SUFFICES ASSUME I, [Next]_vars PROVE A \/ UNCHANGED vars
    OBVIOUS
  <2>a. ASSUME UNCHANGED inline PROVE A
    BY <2>a
  <2>b. ASSUME NEW from \in Origins \ {"late"}, Callback(from) PROVE A
    BY <2>b, CallbackInline
  <2>1. ASSUME NEW t \in Threads, RunInline(t) PROVE A
    BY <2>1 DEF RunInline, InlineInv, TypeOK
  <2>2. ASSUME NEW t \in Threads, NEW f \in Functors, RunInLoop(t, f) \/ QueueInLoop(t, f)
        PROVE  A
    BY <2>2, <2>a DEF RunInLoop, QueueInLoop
  <2>3. ASSUME NEW t \in Threads,
               FinishQueue(t) \/ FinishRunAfter(t) \/ FinishQuit(t) \/ Quit(t)
        PROVE  A
    BY <2>3, <2>a DEF FinishQueue, FinishRunAfter, FinishQuit, Quit, submitted
  <2>4. ASSUME NEW t \in Threads, NEW d \in Timers, NEW delay \in Delays, RunAfter(t, d, delay)
        PROVE  A
    BY <2>4, <2>a DEF RunAfter, submitted
  <2>5. CASE \/ StartThread \/ EnterLoop \/ CheckQuit \/ PollTimeout \/ HandleWakeupRead
             \/ SwapPending \/ EndFunctors \/ TakeExpired \/ EndTimers
             \/ Destroy \/ Join \/ Tick
             \/ \E ch \in SUBSET {WakeupChannel, IoChannel} : PollEvents(ch)
    BY <2>5, <2>a DEF StartThread, EnterLoop, CheckQuit, PollTimeout, HandleWakeupRead,
       SwapPending, EndFunctors, TakeExpired, EndTimers, Destroy, Join, Tick, PollEvents,
       submitted
  <2>6. CASE HandleIo \/ RunFunctor \/ \E d \in ready : FireTimer(d)
    BY <2>6, <2>b DEF HandleIo, RunFunctor, FireTimer, Origins
  <2> QED BY <2>1, <2>2, <2>3, <2>4, <2>5, <2>6, StepCases
<1> QED BY <1>1, <1>2, <1>3, PTL DEF Spec, InlineOnlyInWindow

-----------------------------------------------------------------------------
(* Delayed tasks.                                                          *)

\* TimersInOrder made inductive: the same relation between what ran, what
\* the loop has popped and what is still in the heap, and nothing that left
\* the heap has a deadline in the future.
TimerInv ==
    /\ TimersInOrder
    /\ \A i \in DOMAIN fired : fired[i].expire <= now
    /\ \A d \in ready : d.expire <= now
    /\ \A i \in DOMAIN fired, e \in ready \cup delayed : fired[i].expire <= Due(e)
    /\ \A d \in ready, e \in delayed : d.expire <= Due(e)

\* What a callback adds to the heap is due at the earliest now.
LEMMA CallbackTimers ==
    ASSUME TypeOK, NEW from, Callback(from)
    PROVE  /\ delayed \subseteq delayed'
           /\ \A e \in delayed' \ delayed : e \in Entry /\ now <= Due(e)
<1>1. ASSUME NEW d \in Timers, NEW delay \in Delays, CallsRunAfter(d, delay)
      PROVE  /\ delayed \subseteq delayed'
             /\ \A e \in delayed' \ delayed : e \in Entry /\ now <= Due(e)
  BY <1>1 DEF CallsRunAfter, Due, TypeOK, Entry
<1> QED BY <1>1 DEF Callback, CallsRunInLoop, CallsQueueInLoop, submitted

LEMMA TimerStep ==
    TypeOK /\ Shape /\ TimerInv /\ [Next]_vars => TimerInv'
<1> SUFFICES ASSUME TypeOK, TypeOK', Shape, TimerInv, [Next]_vars PROVE TimerInv'
  BY TypeStep
<1>a. /\ now \in Nat /\ now' \in Nat
      /\ \A e \in ready \cup delayed \cup ready' \cup delayed' :
            e.expire \in Nat /\ e.pushed \in Nat /\ Due(e) \in Nat /\ e.expire <= Due(e)
      /\ \A i \in DOMAIN fired : fired[i].expire \in Nat
  <2>1. \A i \in DOMAIN fired : fired[i] \in Entry
    BY ElementOfSeq, LenProperties DEF TypeOK
  <2>2. \A e \in ready \cup delayed \cup ready' \cup delayed' : e \in Entry
    BY DEF TypeOK
  <2>3. \A e \in Entry :
           /\ e.expire \in Nat /\ e.pushed \in Nat
           /\ Due(e) \in Nat /\ e.expire <= Due(e)
    BY DEF Entry, Due
  <2>4. now \in Nat /\ now' \in Nat
    BY DEF TypeOK
  <2> QED BY <2>1, <2>2, <2>3, <2>4
<1>b. ASSUME now <= now', UNCHANGED <<fired, ready>>, delayed \subseteq delayed',
             \A e \in delayed' \ delayed : now <= Due(e)
      PROVE  TimerInv'
  BY <1>a, <1>b DEF TimerInv, TimersInOrder, Due
<1>1. ASSUME NEW t \in Threads, FinishRunAfter(t) PROVE TimerInv'
  BY <1>1, <1>a, <1>b DEF FinishRunAfter, loopLocal, Due
<1>2. ASSUME NEW t \in Threads, RunInline(t) \/ FinishQueue(t) \/ FinishQuit(t) \/ Quit(t)
      PROVE  TimerInv'
  BY <1>2, <1>a, <1>b DEF RunInline, FinishQueue, FinishQuit, Quit, loopLocal, submitted
<1>3. ASSUME NEW t \in Threads, NEW f \in Functors, RunInLoop(t, f) \/ QueueInLoop(t, f)
      PROVE  TimerInv'
  BY <1>3, <1>a, <1>b DEF RunInLoop, QueueInLoop, loopLocal
<1>4. ASSUME NEW t \in Threads, NEW d \in Timers, NEW delay \in Delays, RunAfter(t, d, delay)
      PROVE  TimerInv'
  BY <1>4, <1>a, <1>b DEF RunAfter, loopLocal, submitted
<1>5. CASE \/ StartThread \/ EnterLoop \/ CheckQuit \/ PollTimeout
           \/ HandleWakeupRead \/ EndFunctors \/ EndTimers
           \/ \E ch \in SUBSET {WakeupChannel, IoChannel} : PollEvents(ch)
  BY <1>5, <1>a, <1>b DEF StartThread, EnterLoop, CheckQuit, PollTimeout, PollEvents,
     HandleWakeupRead, EndFunctors, EndTimers, submitted
<1>6. CASE HandleIo
  BY <1>6, <1>a, <1>b, CallbackTimers DEF HandleIo
<1>7. CASE RunFunctor
  BY <1>7, <1>a, <1>b, CallbackTimers DEF RunFunctor
<1>8. CASE SwapPending
  BY <1>8, <1>a, <1>b DEF SwapPending
<1>9. CASE TakeExpired
  <2>1. /\ ready = {} /\ UNCHANGED <<now, fired>>
        /\ ready' = {d \in delayed : d.expire <= now}
        /\ delayed' = delayed \ ready'
    BY <1>9 DEF TakeExpired, Expired, Shape
  <2>2. \A d \in ready', e \in delayed' : d.expire <= Due(e)
    BY <2>1, <1>a
  <2> QED BY <1>a, <2>1, <2>2 DEF TimerInv, TimersInOrder, Due
<1>10. ASSUME NEW d \in ready, FireTimer(d) PROVE TimerInv'
  <2>1. /\ ready' = ready \ {d} /\ fired' = Append(fired, d) /\ UNCHANGED now
        /\ \A e \in ready : d.expire <= e.expire
        /\ Callback("timer")
    BY <1>10 DEF FireTimer, RunsNext
  <2>2. /\ delayed \subseteq delayed'
        /\ \A e \in delayed' \ delayed : now <= Due(e)
    BY <2>1, CallbackTimers
  <2>3. \A i \in DOMAIN fired' :
            \/ i \in DOMAIN fired /\ fired'[i] = fired[i]
            \/ i = Len(fired) + 1 /\ fired'[i] = d
    <3>1. d \in Entry /\ fired \in Seq(Entry) /\ fired' \in Seq(Entry)
      BY DEF TypeOK
    <3>2. Len(fired') = Len(fired) + 1 /\ DOMAIN fired' = 1 .. Len(fired')
          /\ DOMAIN fired = 1 .. Len(fired) /\ Len(fired) \in Nat
      BY <2>1, <3>1, AppendProperties, LenProperties
    <3>3. (\A i \in 1 .. Len(fired) : fired'[i] = fired[i]) /\ fired'[Len(fired) + 1] = d
      <4>1. /\ \A i \in 1 .. Len(fired) : Append(fired, d)[i] = fired[i]
            /\ Append(fired, d)[Len(fired) + 1] = d
        BY <3>1, AppendProperties
      <4> QED BY <2>1, <4>1
    <3>4. \A i \in DOMAIN fired' : i \in DOMAIN fired \/ i = Len(fired) + 1
      BY <3>2
    <3> QED BY <3>2, <3>3, <3>4
  <2>4. \A i \in DOMAIN fired' : fired'[i].expire <= now
    BY <2>3 DEF TimerInv
  <2>5. \A i \in DOMAIN fired', e \in ready' \cup delayed' : fired'[i].expire <= Due(e)
    <3> SUFFICES ASSUME NEW i \in DOMAIN fired', NEW e \in ready' \cup delayed'
                 PROVE  fired'[i].expire <= Due(e)
      OBVIOUS
    <3>1. CASE e \in delayed' \ delayed
      BY <1>a, <2>2, <2>3, <2>4, <3>1 DEF TimerInv
    <3>2. CASE e \in ready' \cup delayed
      BY <1>a, <2>1, <2>3, <3>2 DEF TimerInv
    <3> QED BY <3>1, <3>2
  <2>6. \A e \in delayed', g \in ready' : g.expire <= Due(e)
    BY <1>a, <2>1, <2>2 DEF TimerInv
  <2>7. \A i, j \in DOMAIN fired' : i < j => fired'[i].expire <= Due(fired'[j])
    <3> SUFFICES ASSUME NEW i \in DOMAIN fired', NEW j \in DOMAIN fired', i < j
                 PROVE  fired'[i].expire <= Due(fired'[j])
      OBVIOUS
    <3>1. i \in DOMAIN fired /\ fired'[i] = fired[i]
      <4>1. DOMAIN fired = 1 .. Len(fired) /\ Len(fired) \in Nat
        BY LenProperties DEF TypeOK
      <4> QED BY <2>3, <4>1
    <3>2. CASE j \in DOMAIN fired /\ fired'[j] = fired[j]
      BY <3>1, <3>2 DEF TimerInv, TimersInOrder
    <3>3. CASE fired'[j] = d
      BY <3>1, <3>3 DEF TimerInv
    <3> QED BY <2>3, <3>2, <3>3
  <2> QED BY <2>1, <2>4, <2>5, <2>6, <2>7 DEF TimerInv, TimersInOrder, Due
<1>11. CASE Destroy \/ Join
  BY <1>11, <1>a, <1>b DEF Destroy, Join, loopLocal, submitted
<1>12. CASE Tick
  BY <1>12, <1>a, <1>b DEF Tick, loopLocal, submitted
<1>13. CASE UNCHANGED vars
  BY <1>13, <1>a, <1>b DEF vars
<1> QED BY <1>1, <1>2, <1>3, <1>4, <1>5, <1>6, <1>7, <1>8, <1>9, <1>10, <1>11,
           <1>12, <1>13, StepCases

LEMMA TimerInit == Init => TimerInv
BY DEF Init, TimerInv, TimersInOrder

\* RunAfter calls pushed in time run in the order of their deadlines.
THEOREM TimersInOrderCorrect == Spec => []TimersInOrder
<1> DEFINE I == TypeOK /\ Shape /\ TimerInv
<1>1. Init => I
  BY TypeInit, ShapeInit, TimerInit
<1>2. I /\ [Next]_vars => I'
  BY TypeStep, ShapeStep, TimerStep
<1>3. I => TimersInOrder
  BY DEF TimerInv
<1> QED BY <1>1, <1>2, <1>3, PTL DEF Spec

\* A delayed task never runs before its deadline.
THEOREM NoEarlyTimerCorrect == Spec => NoEarlyTimer
<1> DEFINE I == TypeOK /\ Shape /\ TimerInv
           A == \A d \in ready : d \notin ready' => d.expire <= now
<1>1. Init => I
  BY TypeInit, ShapeInit, TimerInit
<1>2. I /\ [Next]_vars => I'
  BY TypeStep, ShapeStep, TimerStep
<1>3. I /\ [Next]_vars => [A]_vars
  BY DEF TimerInv
<1> QED BY <1>1, <1>2, <1>3, PTL DEF Spec, NoEarlyTimer

-----------------------------------------------------------------------------
(* The refinement.                                                         *)

\* A functor nobody passed to the loop is neither queued nor done.
LEMMA FreshIsUnknown ==
    ASSUME TypeOK, KnownOrigin, NEW f \in Functors, origin[f] = None
    PROVE  f \notin Executor!Known
<1>1. batch \o pending \in Seq(Functors)
  BY ConcatProperties DEF TypeOK
<1>2. \A i \in DOMAIN (batch \o pending) :
          \/ \E j \in DOMAIN batch : (batch \o pending)[i] = batch[j]
          \/ \E j \in DOMAIN pending : (batch \o pending)[i] = pending[j]
  <2>1. /\ DOMAIN batch = 1 .. Len(batch) /\ Len(batch) \in Nat
        /\ DOMAIN pending = 1 .. Len(pending) /\ Len(pending) \in Nat
        /\ DOMAIN (batch \o pending) = 1 .. Len(batch) + Len(pending)
    BY <1>1, LenProperties, ConcatProperties DEF TypeOK
  <2>2. \A i \in 1 .. Len(batch) + Len(pending) :
            (batch \o pending)[i] = IF i <= Len(batch) THEN batch[i]
                                    ELSE pending[i - Len(batch)]
    BY ConcatProperties DEF TypeOK
  <2> QED BY <2>1, <2>2
<1> QED BY <1>2 DEF Executor!Known, KnownOrigin, Pushed

LEMMA ExecutorStep ==
    TypeOK /\ Shape /\ KnownOrigin /\ [Next]_vars => [Executor!Next]_(Executor!vars)
<1> SUFFICES ASSUME TypeOK, Shape, KnownOrigin, [Next]_vars
             PROVE  Executor!Next \/ UNCHANGED Executor!vars
  OBVIOUS
<1> DEFINE Goal == Executor!Next \/ UNCHANGED Executor!vars
<1>a. pending \in Seq(Functors) /\ batch \in Seq(Functors) /\ done \in Seq(Functors)
  BY DEF TypeOK
<1>b. ASSUME UNCHANGED <<pending, batch, done>> PROVE Goal
  BY <1>b DEF Executor!vars
<1>c. ASSUME NEW f \in Functors, origin[f] = None, pending' = Append(pending, f),
             UNCHANGED <<batch, done>>
      PROVE  Goal
  <2>1. batch \o Append(pending, f) = Append(batch \o pending, f)
    BY <1>a, ConcatAppend
  <2> QED BY <1>c, <2>1, FreshIsUnknown DEF Executor!Next, Executor!Submit
<1>d. ASSUME NEW from, Callback(from), UNCHANGED <<batch, done>> PROVE Goal
  BY <1>b, <1>c, <1>d, CallbackPushes
<1>1. ASSUME NEW t \in Threads,
             \/ RunInline(t)
             \/ FinishQueue(t) \/ FinishRunAfter(t) \/ FinishQuit(t) \/ Quit(t)
      PROVE  Goal
  BY <1>1, <1>b DEF RunInline, FinishQueue, FinishRunAfter, FinishQuit, Quit, loopLocal, submitted
<1>2. ASSUME NEW t \in Threads, NEW f \in Functors, RunInLoop(t, f) \/ QueueInLoop(t, f)
      PROVE  Goal
  BY <1>2, <1>b, <1>c DEF RunInLoop, QueueInLoop, loopLocal, FreshFunctors
<1>3. ASSUME NEW t \in Threads, NEW d \in Timers, NEW delay \in Delays, RunAfter(t, d, delay)
      PROVE  Goal
  BY <1>3, <1>b DEF RunAfter, loopLocal, submitted
<1>4. CASE \/ StartThread \/ EnterLoop \/ CheckQuit \/ PollTimeout
           \/ HandleWakeupRead \/ EndFunctors \/ EndTimers
           \/ \E ch \in SUBSET {WakeupChannel, IoChannel} : PollEvents(ch)
  BY <1>4, <1>b DEF StartThread, EnterLoop, CheckQuit, PollTimeout, PollEvents,
                    HandleWakeupRead, EndFunctors, EndTimers, submitted
<1>5. CASE HandleIo \/ \E d \in ready : FireTimer(d)
  BY <1>5, <1>d DEF HandleIo, FireTimer
<1>6. CASE SwapPending
  <2>1. batch = <<>> /\ batch' = pending /\ pending' = <<>> /\ done' = done
    BY <1>6 DEF SwapPending, SwappedIn, SwappedOut, Shape
  <2>2. batch \o pending = pending /\ batch' \o pending' = pending
    BY <1>a, <2>1, ConcatEmptySeq
  <2> QED BY <2>1, <2>2 DEF Executor!vars
<1>7. CASE RunFunctor
  <2>1. /\ batch # <<>> /\ batch' = Tail(batch) /\ done' = Append(done, Head(batch))
        /\ Callback("functor")
    BY <1>7 DEF RunFunctor
  <2>2. /\ batch \o pending # <<>>
        /\ Head(batch \o pending) = Head(batch)
        /\ Tail(batch \o pending) = Tail(batch) \o pending
    BY <1>a, <2>1, HeadTailConcat
  <2>3. CASE UNCHANGED pending
    BY <2>1, <2>2, <2>3 DEF Executor!Next, Executor!Execute
  <2>4. ASSUME NEW f \in Functors, origin[f] = None, pending' = Append(pending, f)
        PROVE  Goal
    <3>1. Tail(batch) \o Append(pending, f) = Append(Tail(batch) \o pending, f)
      BY <1>a, <2>1, ConcatAppend, HeadTailProperties
    <3> QED BY <2>1, <2>2, <2>4, <3>1, FreshIsUnknown
            DEF Executor!Next, Executor!ExecuteAndSubmit
  <2> QED BY <2>1, <2>3, <2>4, CallbackPushes
<1>8. CASE TakeExpired
  BY <1>8, <1>b DEF TakeExpired
<1>9. CASE Destroy \/ Join \/ Tick
  BY <1>9, <1>b DEF Destroy, Join, Tick, loopLocal, submitted
<1>10. CASE UNCHANGED vars
  BY <1>10, <1>b DEF vars
<1> QED BY <1>1, <1>2, <1>3, <1>4, <1>5, <1>6, <1>7, <1>8, <1>9, <1>10, StepCases

\* EventLoop implements the first-in first-out executor.
THEOREM ExecutorCorrect == Spec => ImplementsExecutor
<1> DEFINE I == TypeOK /\ Shape /\ KnownOrigin
<1>1. Init => I /\ Executor!Init
  BY TypeInit, ShapeInit, WakeInit, EmptySeq, ConcatEmptySeq DEF Init, Executor!Init
<1>2. I /\ [Next]_vars => I'
  BY TypeStep, ShapeStep, KnownStep
<1>3. I /\ [Next]_vars => [Executor!Next]_(Executor!vars)
  BY ExecutorStep
<1> QED BY <1>1, <1>2, <1>3, PTL DEF Spec, ImplementsExecutor, Executor!Spec
=============================================================================
