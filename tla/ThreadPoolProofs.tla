-------------------------- MODULE ThreadPoolProofs --------------------------
(***************************************************************************)
(* Theorems about ThreadPool for any number of clients, tasks and workers  *)
(* and any sizes.                                                          *)
(***************************************************************************)
EXTENDS ThreadPool, SequenceTheorems, TLAPS

USE ThreadPoolAssumption

\* A worker that evaluates the wait's predicate or is past the wait holds the
\* mutex, and so does a client that cleans up.
Holders ==
    /\ \A w \in Threads : wpc[w] \in {"test", "block", "check", "pop"} => mutex = w
    /\ \A c \in Clients : cpc[c] = "joining" => mutex = c

\* A client that still has to notify, or to add threads, knows how often.
Counting == \A c \in Clients : cpc[c] \in {"notify", "grow"} => count[c] > 0

\* What a worker found when it left the wait is still so.
Woken ==
    /\ \A w \in Threads : wpc[w] = "check" => ~running \/ tasks # <<>>
    /\ NoPopEmpty

\* Each task is handed to one Commit and pushed once.
Fresh ==
    /\ \A c \in Clients :
          /\ given[c] # None <=> cpc[c] = "push"
          /\ \A i \in DOMAIN pushed : pushed[i] # given[c]
          /\ \A d \in Clients \ {c} : given[c] = given[d] => given[c] = None
    /\ \A i, j \in DOMAIN pushed : pushed[i] = pushed[j] => i = j

\* InOrder, with the queue given place by place.
Out == Len(pushed) - Len(tasks)
Taken == {started[i] : i \in DOMAIN started}
Before(n) == {pushed[k] : k \in 1 .. n}
InTurn(n) ==
    \A i, j \in DOMAIN started : i < j =>
        \E k, l \in 1 .. n : k < l /\ pushed[k] = started[i] /\ pushed[l] = started[j]

Books ==
    /\ Out \in Nat
    /\ \A k \in 1 .. Len(tasks) : tasks[k] = pushed[Out + k]
    /\ Taken \cup discarded = Before(Out)
    /\ Taken \cap discarded = {}
    /\ InTurn(Out)

\* Unless Resize adds a thread, Shutdown has joined every thread it passed.
Passed ==
    /\ \A c \in Clients :
          /\ cpc[c] \in {"notifyAll", "shutting", "clear"} => ~running
          /\ cpc[c] = "shutting" => at[c] > 0
    /\ ~grewLate => \A c \in Clients, i \in Places :
          \/ cpc[c] = "shutting" /\ i < at[c]
          \/ cpc[c] = "clear"
          => Seat(i) \in joined
    /\ NoTerminate

\* Once a worker has left because the work was done, what still comes into the
\* queue is pushed after the stop.
Left == drained => ~running /\ \A i \in DOMAIN tasks : tasks[i] \in late

IInv == TypeOK /\ Holders /\ Counting /\ Woken /\ Fresh /\ Books /\ Passed /\ Left

-----------------------------------------------------------------------------
(* The steps.                                                              *)

\* Taking the first task moves every other up by one.
LEMMA WithoutFirst ==
    ASSUME NEW S, NEW q \in Seq(S), q # <<>>
    PROVE  /\ Without(q, 1) \in Seq(S)
           /\ Len(Without(q, 1)) = Len(q) - 1
           /\ \A k \in 1 .. Len(q) - 1 : Without(q, 1)[k] = q[k + 1]
<1> DEFINE n == Len(q)
<1>1. n \in Nat \ {0}
  BY LenProperties, EmptySeq
<1>2. SubSeq(q, 1, 0) \in Seq(S) /\ Len(SubSeq(q, 1, 0)) = 0
  BY SubSeqProperties
<1>3. /\ SubSeq(q, 2, n) \in Seq(S)
      /\ Len(SubSeq(q, 2, n)) = n - 1
      /\ \A k \in 1 .. n - 1 : SubSeq(q, 2, n)[k] = q[k + 1]
  <2>1. \A i \in 2 .. n : q[i] \in S
    BY <1>1, ElementOfSeq
  <2> HIDE DEF n
  <2>2. /\ SubSeq(q, 2, n) \in Seq(S)
        /\ Len(SubSeq(q, 2, n)) = IF 2 <= n THEN n - 2 + 1 ELSE 0
        /\ \A k \in 1 .. n - 2 + 1 : SubSeq(q, 2, n)[k] = q[2 + k - 1]
    BY <1>1, <2>1, SubSeqProperties
  <2>3. \A k \in 1 .. n - 1 : k \in 1 .. n - 2 + 1 /\ 2 + k - 1 = k + 1
    BY <1>1
  <2> QED BY <1>1, <2>2, <2>3
<1>4. Without(q, 1) = SubSeq(q, 1, 0) \o SubSeq(q, 2, n)
  BY DEF Without
<1> HIDE DEF n
<1>5. /\ Without(q, 1) \in Seq(S)
      /\ Len(Without(q, 1)) = n - 1
      /\ \A k \in 1 .. n - 1 : Without(q, 1)[k] = SubSeq(q, 2, n)[k]
  BY <1>1, <1>2, <1>3, <1>4, ConcatProperties, SMTT(30)
<1> QED BY <1>3, <1>5 DEF n

LEMMA TypeWorker ==
    ASSUME TypeOK, NEW w \in Threads, WorkerStep(w) \/ SpuriousWakeup(w)
    PROVE  TypeOK'
<1> USE DEF TypeOK
<1>1. ASSUME NEW from, NEW to \in WorkerPCs, Goes(w, from, to)
      PROVE  wpc' \in [Threads -> WorkerPCs]
  BY <1>1 DEF Goes
<1>2. CASE LoopTop(w)
  <2>1. wpc' \in [Threads -> WorkerPCs]
    BY <1>1, <1>2 DEF LoopTop, WorkerPCs, Exited
  <2>2. drained' \in BOOLEAN
    BY <1>2 DEF LoopTop
  <2> QED BY <1>2, <2>1, <2>2 DEF LoopTop, client, history
<1>3. CASE CheckSize(w) \/ Lock(w) \/ TestPredicate(w) \/ Block(w) \/ Run(w) \/ SpuriousWakeup(w)
  <2>1. wpc' \in [Threads -> WorkerPCs]
    BY <1>1, <1>3 DEF CheckSize, Lock, TestPredicate, Block, Run, SpuriousWakeup, WorkerPCs,
                      Exited
  <2>2. /\ mutex' \in Threads \cup Clients \cup {Nobody}
        /\ task' \in [Threads -> Tasks \cup {None}]
    BY <1>3 DEF CheckSize, Lock, TestPredicate, Block, Run, SpuriousWakeup
  <2> QED BY <1>3, <2>1, <2>2 DEF CheckSize, Lock, TestPredicate, Block, Run, SpuriousWakeup,
                                  client, history
<1>4. CASE CheckStopped(w)
  <2>1. wpc' \in [Threads -> WorkerPCs]
    BY <1>1, <1>4 DEF CheckStopped, WorkerPCs, Exited
  <2>2. drained' \in BOOLEAN /\ mutex' \in Threads \cup Clients \cup {Nobody}
    BY <1>4 DEF CheckStopped
  <2> QED BY <1>4, <2>1, <2>2 DEF CheckStopped, client, history
<1>5. CASE Pop(w)
  <2>1. wpc' \in [Threads -> WorkerPCs]
    BY <1>1, <1>5 DEF Pop, WorkerPCs
  <2>2. Len(tasks) \in Nat /\ Len(tasks) > 0 /\ tasks[1] \in Tasks
    BY <1>5, LenProperties, ElementOfSeq, EmptySeq DEF Pop
  <2>3. started' \in Seq(Tasks) /\ task' \in [Threads -> Tasks \cup {None}]
    BY <1>5, <2>2, AppendProperties DEF Pop, Front
  <2>4. tasks' \in Seq(Tasks)
    BY <1>5, WithoutFirst DEF Pop, Front
  <2>5. /\ mutex' \in Threads \cup Clients \cup {Nobody}
        /\ UNCHANGED <<client, history, running, drained>>
    BY <1>5 DEF Pop
  <2> QED BY <2>1, <2>3, <2>4, <2>5 DEF client, history
<1> QED BY <1>2, <1>3, <1>4, <1>5 DEF WorkerStep

LEMMA TypeClient ==
    ASSUME TypeOK, Counting, Fresh, NEW c \in Clients,
           \/ \E t \in Tasks : Commit(c, t)
           \/ \E n \in Sizes : Resize(c, n)
           \/ Shutdown(c)
           \/ ClientStep(c)
    PROVE  TypeOK'
<1> USE DEF TypeOK
<1>1. ASSUME NEW from, NEW to \in ClientPCs, Moves(c, from, to)
      PROVE  cpc' \in [Clients -> ClientPCs]
  BY <1>1 DEF Moves
<1>2. ASSUME NEW t \in Tasks, Commit(c, t) PROVE TypeOK'
  <2>1. cpc' \in [Clients -> ClientPCs]
    BY <1>1, <1>2 DEF Commit, ClientPCs
  <2> QED BY <1>2, <2>1 DEF Commit, pool, history
<1>3. ASSUME NEW n \in Sizes, Resize(c, n) PROVE TypeOK'
  <2>1. cpc' \in [Clients -> ClientPCs]
    BY <1>1, <1>3 DEF Resize, ClientPCs
  <2>2. n \in Nat /\ count' \in [Clients -> Nat]
    BY <1>3 DEF Resize
  <2> QED BY <1>3, <2>1, <2>2 DEF Resize, pool, history
<1>4. CASE Push(c)
  <2>1. cpc' \in [Clients -> ClientPCs]
    BY <1>1, <1>4 DEF Push, ClientPCs
  <2>2. given[c] \in Tasks
    BY <1>4 DEF Push, Moves, Fresh
  <2>3. tasks' \in Seq(Tasks) /\ pushed' \in Seq(Tasks)
    BY <1>4, <2>2, AppendProperties DEF Push
  <2>4. late' \subseteq Tasks /\ given' \in [Clients -> Tasks \cup {None}]
          /\ count' \in [Clients -> Nat]
    BY <1>4, <2>2 DEF Push
  <2> QED BY <1>4, <2>1, <2>3, <2>4 DEF Push, pool
<1>5. CASE Notify(c)
  <2>1. cpc' \in [Clients -> ClientPCs]
    BY <1>1, <1>5 DEF Notify, ClientPCs
  <2>2. wpc' \in [Threads -> WorkerPCs]
    BY <1>5 DEF Notify, NotifyOne, WorkerPCs
  <2>3. count' \in [Clients -> Nat]
    BY <1>5 DEF Notify, Moves, Counting
  <2> QED BY <1>5, <2>1, <2>2, <2>3 DEF Notify, pool, history
<1>6. CASE Grow(c)
  <2>1. cpc' \in [Clients -> ClientPCs]
    BY <1>1, <1>6 DEF Grow, ClientPCs
  <2>2. NextThread \in Threads
    BY <1>6 DEF Grow
  <2> HIDE DEF NextThread
  <2>3. wpc' \in [Threads -> WorkerPCs] /\ workers' \in Seq(Threads)
    BY <1>6, <2>2, AppendProperties DEF Grow, WorkerPCs
  <2>4. count' \in [Clients -> Nat] /\ grewLate' \in BOOLEAN
    BY <1>6 DEF Grow, Moves, Counting
  <2> QED BY <1>6, <2>1, <2>3, <2>4 DEF Grow, pool
<1>7. CASE Cleanup(c)
  <2>1. cpc' \in [Clients -> ClientPCs]
    BY <1>1, <1>7 DEF Cleanup, ClientPCs
  <2> QED BY <1>7, <2>1 DEF Cleanup, pool, history
<1>8. CASE Join(c)
  <2>1. Seat(at[c]) \in Threads
    BY <1>8, ElementOfSeq, LenProperties DEF Join, Seat, Places
  <2>2. joined' \subseteq Threads /\ at' \in [Clients -> Nat]
    BY <1>8, <2>1 DEF Join
  <2> QED BY <1>8, <2>2 DEF Join, pool, history
<1>9. CASE Erase(c)
  <2>1. cpc' \in [Clients -> ClientPCs]
    BY <1>1, <1>9 DEF Erase, ClientPCs
  <2> QED BY <1>9, <2>1, EmptySeq DEF Erase, pool, history
<1>10. CASE Shutdown(c) \/ EndJoin(c)
  <2>1. cpc' \in [Clients -> ClientPCs]
    BY <1>1, <1>10 DEF Shutdown, EndJoin, ClientPCs
  <2> QED BY <1>10, <2>1 DEF Shutdown, EndJoin, pool, history
<1>11. CASE NotifyAll(c)
  <2>1. cpc' \in [Clients -> ClientPCs]
    BY <1>1, <1>11 DEF NotifyAll, ClientPCs
  <2>2. wpc' \in [Threads -> WorkerPCs] /\ at' \in [Clients -> Nat]
    BY <1>11 DEF NotifyAll, WorkerPCs, First
  <2> QED BY <1>11, <2>1, <2>2 DEF NotifyAll, pool, history
<1>12. CASE Clear(c)
  <2>1. cpc' \in [Clients -> ClientPCs]
    BY <1>1, <1>12 DEF Clear, ClientPCs
  <2>2. {tasks[i] : i \in DOMAIN tasks} \subseteq Tasks
    BY ElementOfSeq, LenProperties
  <2>3. discarded' \subseteq Tasks /\ terminated' \in BOOLEAN /\ at' \in [Clients -> Nat]
    BY <1>12, <2>2 DEF Clear
  <2>4. tasks' \in Seq(Tasks) /\ workers' \in Seq(Threads)
    BY <1>12, EmptySeq DEF Clear
  <2> QED BY <1>12, <2>1, <2>3, <2>4 DEF Clear, pool
<1> QED BY <1>2, <1>3, <1>4, <1>5, <1>6, <1>7, <1>8, <1>9, <1>10, <1>11, <1>12 DEF ClientStep

LEMMA TypeStep ==
    ASSUME TypeOK, Counting, Fresh, [Next]_vars
    PROVE  TypeOK'
<1>1. CASE UNCHANGED vars
  BY <1>1 DEF vars, TypeOK
<1> QED BY <1>1, TypeWorker, TypeClient DEF Next

\* The mutex excludes, and each thread still knows what it holds.
LEMMA HoldersStep ==
    ASSUME TypeOK, Holders, [Next]_vars
    PROVE  Holders'
<1> USE DEF Holders
<1>0. Threads \cap Clients = {} /\ Nobody \notin Threads \cup Clients
  BY DEF Threads, Nobody
<1>1. wpc \in [Threads -> WorkerPCs] /\ cpc \in [Clients -> ClientPCs]
  BY DEF TypeOK
<1>2. ASSUME NEW w \in Threads, WorkerStep(w) \/ SpuriousWakeup(w)
      PROVE  Holders'
  <2>1. CASE LoopTop(w) \/ CheckSize(w) \/ TestPredicate(w) \/ Run(w) \/ SpuriousWakeup(w)
    BY <1>1, <2>1 DEF LoopTop, CheckSize, TestPredicate, Run, SpuriousWakeup, Goes, Exited,
                      client
  <2>2. CASE Lock(w)
    BY <1>0, <1>1, <2>2 DEF Lock, Goes, client
  <2>3. CASE Block(w)
    BY <1>0, <1>1, <2>3 DEF Block, Goes, client
  <2>4. CASE CheckStopped(w)
    BY <1>0, <1>1, <2>4 DEF CheckStopped, Goes, Exited, client
  <2>5. CASE Pop(w)
    BY <1>0, <1>1, <2>5 DEF Pop, Goes, client
  <2> QED BY <1>2, <2>1, <2>2, <2>3, <2>4, <2>5 DEF WorkerStep
<1>3. ASSUME NEW c \in Clients,
             \/ \E t \in Tasks : Commit(c, t)
             \/ \E n \in Sizes : Resize(c, n)
             \/ Shutdown(c)
             \/ ClientStep(c)
      PROVE  Holders'
  <2>1. CASE (\E t \in Tasks : Commit(c, t)) \/ (\E n \in Sizes : Resize(c, n)) \/ Shutdown(c)
    BY <1>1, <2>1 DEF Commit, Resize, Shutdown, Moves
  <2>2. CASE Push(c) \/ Join(c) \/ EndJoin(c) \/ Clear(c)
    BY <1>1, <2>2 DEF Push, Join, EndJoin, Clear, Moves
  <2>3. CASE Notify(c)
    BY <1>1, <2>3 DEF Notify, NotifyOne, Moves
  <2>4. CASE Grow(c)
    BY <1>1, <2>4 DEF Grow, Moves
  <2>5. CASE Cleanup(c)
    BY <1>0, <1>1, <2>5 DEF Cleanup, Moves
  <2>6. CASE Erase(c)
    BY <1>0, <1>1, <2>6 DEF Erase, Moves
  <2>7. CASE NotifyAll(c)
    BY <1>1, <2>7 DEF NotifyAll, Moves
  <2> QED BY <1>3, <2>1, <2>2, <2>3, <2>4, <2>5, <2>6, <2>7 DEF ClientStep
<1>4. CASE UNCHANGED vars
  BY <1>4 DEF vars
<1> QED BY <1>2, <1>3, <1>4 DEF Next

LEMMA CountingStep ==
    ASSUME TypeOK, Counting, [Next]_vars
    PROVE  Counting'
<1> USE DEF Counting
<1>1. cpc \in [Clients -> ClientPCs] /\ count \in [Clients -> Nat] /\ target \in Nat
  BY DEF TypeOK
<1>2. ASSUME NEW w \in Threads, WorkerStep(w) \/ SpuriousWakeup(w)
      PROVE  Counting'
  BY <1>2 DEF WorkerStep, LoopTop, CheckSize, Lock, TestPredicate, Block, CheckStopped, Pop, Run,
              SpuriousWakeup, client
<1>3. ASSUME NEW c \in Clients, NEW t \in Tasks, Commit(c, t) PROVE Counting'
  BY <1>1, <1>3 DEF Commit, Moves
<1>4. ASSUME NEW c \in Clients, NEW n \in Sizes, Resize(c, n) PROVE Counting'
  BY <1>1, <1>4 DEF Resize, Moves
<1>5. ASSUME NEW c \in Clients, Push(c) PROVE Counting'
  BY <1>1, <1>5 DEF Push, Moves
<1>6. ASSUME NEW c \in Clients, Join(c) PROVE Counting'
  BY <1>6 DEF Join
<1>7. ASSUME NEW c \in Clients,
             Cleanup(c) \/ Erase(c) \/ Shutdown(c) \/ NotifyAll(c) \/ EndJoin(c) \/ Clear(c)
      PROVE  Counting'
  <2>1. /\ count' = count
        /\ \E to \in ClientPCs \ {"notify", "grow"} : cpc' = [cpc EXCEPT ![c] = to]
    BY <1>7 DEF Cleanup, Erase, Shutdown, NotifyAll, EndJoin, Clear, Moves, ClientPCs
  <2> QED BY <1>1, <2>1
<1>8. ASSUME NEW c \in Clients, Notify(c) \/ Grow(c) PROVE Counting'
  BY <1>1, <1>8 DEF Notify, Grow, Moves
<1>9. CASE UNCHANGED vars
  BY <1>9 DEF vars
<1> QED BY <1>2, <1>3, <1>4, <1>5, <1>6, <1>7, <1>8, <1>9 DEF Next, ClientStep

\* Who can make the queue shorter, or set the flag, needs the mutex or moves
\* in the same direction.
LEMMA WokenStep ==
    ASSUME TypeOK, Holders, Fresh, Woken, [Next]_vars
    PROVE  Woken'
<1> USE DEF Woken, NoPopEmpty
<1>0. Nobody \notin Threads
  BY DEF Threads, Nobody
<1>1. wpc \in [Threads -> WorkerPCs] /\ running \in BOOLEAN /\ tasks \in Seq(Tasks)
  BY DEF TypeOK
<1>2. ASSUME NEW w \in Threads, WorkerStep(w) \/ SpuriousWakeup(w)
      PROVE  Woken'
  <2>1. CASE LoopTop(w) \/ CheckSize(w) \/ Lock(w) \/ Block(w) \/ Run(w) \/ SpuriousWakeup(w)
    BY <1>1, <2>1 DEF LoopTop, CheckSize, Lock, Block, Run, SpuriousWakeup, Goes, Exited
  <2>2. CASE TestPredicate(w)
    BY <1>1, <2>2 DEF TestPredicate, MayProceed, Goes
  <2>3. CASE CheckStopped(w)
    BY <1>1, <2>3 DEF CheckStopped, WorkDone, Goes, Exited
  <2>4. CASE Pop(w)
    <3>1. wpc[w] = "pop" /\ wpc' = [wpc EXCEPT ![w] = "run"] /\ running' = running
      BY <2>4 DEF Pop, Goes
    <3>2. \A v \in Threads : wpc[v] \in {"check", "pop"} => v = w
      BY <3>1 DEF Holders
    <3> QED BY <1>1, <3>1, <3>2
  <2> QED BY <1>2, <2>1, <2>2, <2>3, <2>4 DEF WorkerStep
<1>3. ASSUME NEW c \in Clients,
             \/ \E t \in Tasks : Commit(c, t)
             \/ \E n \in Sizes : Resize(c, n)
             \/ Shutdown(c)
             \/ ClientStep(c)
      PROVE  Woken'
  <2>1. CASE (\E t \in Tasks : Commit(c, t)) \/ (\E n \in Sizes : Resize(c, n)) \/ Shutdown(c)
    BY <2>1 DEF Commit, Resize, Shutdown
  <2>2. CASE Cleanup(c) \/ Join(c) \/ EndJoin(c) \/ Erase(c)
    BY <2>2 DEF Cleanup, Join, EndJoin, Erase
  <2>3. CASE Push(c)
    <3>1. given[c] \in Tasks
      BY <2>3 DEF Push, Moves, Fresh, TypeOK
    <3>2. tasks' # <<>> /\ wpc' = wpc
      BY <1>1, <2>3, <3>1, AppendProperties DEF Push
    <3> QED BY <3>2
  <2>4. CASE Notify(c)
    BY <1>1, <2>4 DEF Notify, NotifyOne
  <2>5. CASE Grow(c)
    BY <1>1, <2>5 DEF Grow
  <2>6. CASE NotifyAll(c)
    BY <1>1, <2>6 DEF NotifyAll
  <2>7. CASE Clear(c)
    <3>1. mutex = Nobody /\ wpc' = wpc
      BY <2>7 DEF Clear
    <3>2. \A v \in Threads : wpc[v] \notin {"check", "pop"}
      BY <1>0, <3>1 DEF Holders
    <3> QED BY <3>1, <3>2
  <2> QED BY <1>3, <2>1, <2>2, <2>3, <2>4, <2>5, <2>6, <2>7 DEF ClientStep
<1>4. CASE UNCHANGED vars
  BY <1>4 DEF vars
<1> QED BY <1>2, <1>3, <1>4 DEF Next

\* Commit takes a task nobody has had, Push the one that was given.
LEMMA FreshStep ==
    ASSUME TypeOK, Fresh, [Next]_vars
    PROVE  Fresh'
<1> USE DEF Fresh
<1>1. /\ cpc \in [Clients -> ClientPCs] /\ given \in [Clients -> Tasks \cup {None}]
      /\ pushed \in Seq(Tasks) /\ None \notin Tasks
      /\ Len(pushed) \in Nat /\ DOMAIN pushed = 1 .. Len(pushed)
  BY LenProperties DEF TypeOK, None
<1>2. ASSUME NEW w \in Threads, WorkerStep(w) \/ SpuriousWakeup(w)
      PROVE  Fresh'
  <2>1. UNCHANGED <<cpc, given, pushed>>
    BY <1>2 DEF WorkerStep, LoopTop, CheckSize, Lock, TestPredicate, Block, CheckStopped, Pop,
                Run, SpuriousWakeup, client, history
  <2> QED BY <2>1
<1>3. ASSUME NEW c \in Clients, NEW t \in Tasks, Commit(c, t) PROVE Fresh'
  <2>1. /\ cpc[c] = "idle" /\ cpc' = [cpc EXCEPT ![c] = "push"]
        /\ given' = [given EXCEPT ![c] = t] /\ pushed' = pushed
        /\ \A i \in DOMAIN pushed : pushed[i] # t
        /\ \A d \in Clients : given[d] # t
    BY <1>3 DEF Commit, Moves, history
  <2> QED BY <1>1, <2>1
<1>4. ASSUME NEW c \in Clients, Push(c) PROVE Fresh'
  <2>1. /\ cpc[c] = "push" /\ cpc' = [cpc EXCEPT ![c] = "notify"]
        /\ given' = [given EXCEPT ![c] = None] /\ pushed' = Append(pushed, given[c])
    BY <1>4 DEF Push, Moves
  <2>2. given[c] \in Tasks
    BY <1>1, <2>1
  <2>3. /\ DOMAIN pushed' = 1 .. Len(pushed) + 1
        /\ \A i \in 1 .. Len(pushed) : pushed'[i] = pushed[i]
        /\ pushed'[Len(pushed) + 1] = given[c]
    BY <1>1, <2>1, <2>2, AppendProperties, LenProperties
  <2>4. \A i \in DOMAIN pushed' : i \in DOMAIN pushed \/ i = Len(pushed) + 1
    BY <1>1, <2>3
  <2>5. \A d \in Clients : given'[d] # None <=> cpc'[d] = "push"
    BY <1>1, <2>1
  <2>6. ASSUME NEW d \in Clients, NEW e \in Clients \ {d}, given'[d] = given'[e]
        PROVE  given'[d] = None
    <3>1. \A x \in Clients : given'[x] = IF x = c THEN None ELSE given[x]
      BY <1>1, <2>1
    <3>2. CASE d = c \/ e = c
      BY <2>6, <3>1, <3>2
    <3>3. CASE d # c /\ e # c
      <4>1. given'[d] = given[d] /\ given'[e] = given[e]
        BY <3>1, <3>3
      <4>2. given[d] = given[e] => given[d] = None
        OBVIOUS
      <4> QED BY <2>6, <4>1, <4>2
    <3> QED BY <3>2, <3>3
  <2>7. ASSUME NEW d \in Clients, NEW i \in DOMAIN pushed'
        PROVE  pushed'[i] # given'[d]
    <3>1. pushed'[i] \in Tasks /\ (i \in DOMAIN pushed \/ pushed'[i] = given[c])
      BY <1>1, <2>2, <2>3, <2>4, ElementOfSeq
    <3>2. CASE d = c
      BY <1>1, <2>1, <3>1, <3>2
    <3>3. CASE d # c
      BY <1>1, <2>1, <2>2, <2>3, <3>1, <3>3
    <3> QED BY <3>2, <3>3
  <2>8. \A i, j \in DOMAIN pushed' : pushed'[i] = pushed'[j] => i = j
    BY <1>1, <2>3, <2>4
  <2> QED BY <2>5, <2>6, <2>7, <2>8
<1>5. ASSUME NEW c \in Clients,
             \/ \E n \in Sizes : Resize(c, n)
             \/ Shutdown(c) \/ Notify(c) \/ Grow(c) \/ Cleanup(c) \/ Erase(c) \/ NotifyAll(c)
             \/ EndJoin(c) \/ Clear(c)
      PROVE  Fresh'
  <2>1. /\ UNCHANGED <<given, pushed>>
        /\ cpc[c] # "push"
        /\ \E to \in ClientPCs \ {"push"} : cpc' = [cpc EXCEPT ![c] = to]
    BY <1>5 DEF Resize, Shutdown, Notify, Grow, Cleanup, Erase, NotifyAll, EndJoin, Clear, Moves,
                ClientPCs, history
  <2> QED BY <1>1, <2>1
<1>6. ASSUME NEW c \in Clients, Join(c) PROVE Fresh'
  BY <1>6 DEF Join, history
<1>7. CASE UNCHANGED vars
  BY <1>7 DEF vars
<1> QED BY <1>2, <1>3, <1>4, <1>5, <1>6, <1>7 DEF Next, ClientStep

\* What was passed stays joined; without late threads nothing else appears.
LEMMA PassedStep ==
    ASSUME TypeOK, Passed, [Next]_vars
    PROVE  Passed'
<1> USE DEF Passed, NoTerminate, Seat, Places
<1>1. /\ cpc \in [Clients -> ClientPCs] /\ at \in [Clients -> Nat]
      /\ workers \in Seq(Threads) /\ running \in BOOLEAN /\ grewLate \in BOOLEAN
      /\ Len(workers) \in Nat /\ DOMAIN workers = 1 .. Len(workers)
  BY LenProperties DEF TypeOK
<1>2. ASSUME NEW w \in Threads, WorkerStep(w) \/ SpuriousWakeup(w)
      PROVE  Passed'
  <2>1. UNCHANGED <<cpc, running, at, grewLate, workers, joined, terminated>>
    BY <1>2 DEF WorkerStep, LoopTop, CheckSize, Lock, TestPredicate, Block, CheckStopped, Pop,
                Run, SpuriousWakeup, client, history
  <2> QED BY <2>1
<1>3. ASSUME NEW c \in Clients,
             \/ \E t \in Tasks : Commit(c, t)
             \/ \E n \in Sizes : Resize(c, n)
             \/ Push(c) \/ Notify(c)
      PROVE  Passed'
  <2>1. /\ UNCHANGED <<running, at, grewLate, workers, joined, terminated>>
        /\ \E to \in ClientPCs \ {"notifyAll", "shutting", "clear"} :
              cpc' = [cpc EXCEPT ![c] = to]
    BY <1>3 DEF Commit, Resize, Push, Notify, Moves, ClientPCs, history
  <2> QED BY <1>1, <2>1
<1>4. ASSUME NEW c \in Clients, Grow(c) PROVE Passed'
  <2>1. /\ UNCHANGED <<running, at, joined, terminated>>
        /\ grewLate' = (grewLate \/ ~running)
        /\ \E to \in {"cleanup", "grow"} : cpc' = [cpc EXCEPT ![c] = to]
    BY <1>4 DEF Grow, Moves
  <2>2. ~grewLate' =>
          \A d \in Clients : cpc'[d] # "shutting" /\ cpc'[d] # "clear"
    BY <1>1, <2>1
  <2> QED BY <1>1, <2>1, <2>2
<1>5. ASSUME NEW c \in Clients, Cleanup(c) \/ Erase(c) PROVE Passed'
  <2>1. /\ UNCHANGED <<running, grewLate, joined, terminated>>
        /\ \E to \in {"joining", "idle"} : cpc' = [cpc EXCEPT ![c] = to]
        /\ workers' = workers \/ workers' = <<>>
        /\ \E n \in Nat : at' = [at EXCEPT ![c] = n]
    BY <1>5 DEF Cleanup, Erase, Moves, history
  <2> QED BY <1>1, <2>1
<1>6. ASSUME NEW c \in Clients, Join(c) PROVE Passed'
  <2>1. /\ UNCHANGED <<running, grewLate, terminated, workers, cpc>>
        /\ at' = [at EXCEPT ![c] = at[c] + 1]
        /\ joined' = joined \cup {workers[at[c]]}
    BY <1>6 DEF Join, history
  <2> QED BY <1>1, <2>1
<1>7. ASSUME NEW c \in Clients, Shutdown(c) PROVE Passed'
  BY <1>1, <1>7 DEF Shutdown, Moves, history
<1>8. ASSUME NEW c \in Clients, NotifyAll(c) PROVE Passed'
  BY <1>1, <1>8 DEF NotifyAll, First, Moves, history
<1>9. ASSUME NEW c \in Clients, EndJoin(c) PROVE Passed'
  BY <1>1, <1>9 DEF EndJoin, Moves, history
<1>10. ASSUME NEW c \in Clients, Clear(c) PROVE Passed'
  <2>1. /\ cpc[c] = "clear" /\ cpc' = [cpc EXCEPT ![c] = "idle"]
        /\ workers' = <<>> /\ UNCHANGED <<running, grewLate, joined>>
        /\ terminated' = \E i \in DOMAIN workers : workers[i] \notin joined
        /\ at' = [at EXCEPT ![c] = 0]
    BY <1>10 DEF Clear, Moves
  <2>2. terminated' => grewLate'
    BY <2>1
  <2> QED BY <1>1, <2>1, <2>2
<1>11. CASE UNCHANGED vars
  BY <1>11 DEF vars
<1> QED BY <1>2, <1>3, <1>4, <1>5, <1>6, <1>7, <1>8, <1>9, <1>10, <1>11 DEF Next, ClientStep

\* Push adds to both ends alike, Pop moves the first waiting task to the taken
\* ones, Clear all waiting tasks to the discarded ones.
LEMMA BooksStep ==
    ASSUME TypeOK, Fresh, Books, [Next]_vars
    PROVE  Books'
<1> USE DEF Books
<1>1. /\ tasks \in Seq(Tasks) /\ pushed \in Seq(Tasks) /\ started \in Seq(Tasks)
      /\ Len(tasks) \in Nat /\ DOMAIN tasks = 1 .. Len(tasks)
      /\ Len(pushed) \in Nat /\ DOMAIN pushed = 1 .. Len(pushed)
      /\ Len(started) \in Nat /\ DOMAIN started = 1 .. Len(started)
  BY LenProperties DEF TypeOK
<1>2. Len(pushed) = Out + Len(tasks)
  BY <1>1 DEF Out
<1>3. CASE UNCHANGED <<pushed, tasks, started, discarded>>
  <2>1. Out' = Out
    BY <1>3 DEF Out
  <2>2. Taken' = Taken /\ discarded' = discarded
    BY <1>3 DEF Taken
  <2>3. Before(Out)' = Before(Out)
    BY <1>3, <2>1 DEF Before
  <2>4. InTurn(Out)'
    <3>1. InTurn(Out)
      OBVIOUS
    <3> QED BY <1>3, <2>1, <3>1 DEF InTurn
  <2>5. \A k \in 1 .. Len(tasks') : tasks'[k] = pushed'[Out' + k]
    BY <1>3, <2>1
  <2> HIDE DEF Out, Taken, Before, InTurn
  <2>6. Out' \in Nat
    BY <2>1
  <2>7. /\ (Taken \cup discarded)' = Before(Out)'
        /\ (Taken \cap discarded)' = {}
    BY <2>2, <2>3
  <2> QED BY <2>4, <2>5, <2>6, <2>7
<1>4. ASSUME NEW c \in Clients, Push(c) PROVE Books'
  <2>1. /\ pushed' = Append(pushed, given[c]) /\ tasks' = Append(tasks, given[c])
        /\ UNCHANGED <<started, discarded>>
    BY <1>4 DEF Push, pool
  <2>2. given[c] \in Tasks
    BY <1>4 DEF Push, Moves, Fresh, TypeOK
  <2>3. /\ Len(pushed') = Len(pushed) + 1
        /\ \A i \in 1 .. Len(pushed) : pushed'[i] = pushed[i]
        /\ pushed'[Len(pushed) + 1] = given[c]
    BY <1>1, <2>1, <2>2, AppendProperties
  <2>4. /\ Len(tasks') = Len(tasks) + 1
        /\ \A i \in 1 .. Len(tasks) : tasks'[i] = tasks[i]
        /\ tasks'[Len(tasks) + 1] = given[c]
    BY <1>1, <2>1, <2>2, AppendProperties
  <2>5. Out' = Out
    BY <1>1, <2>3, <2>4 DEF Out
  <2>6. \A k \in 1 .. Out : pushed'[k] = pushed[k]
    BY <1>1, <1>2, <2>3
  <2>7. ASSUME NEW k \in 1 .. Len(tasks') PROVE tasks'[k] = pushed'[Out + k]
    <3>1. CASE k = Len(tasks) + 1
      BY <1>1, <1>2, <2>3, <2>4, <3>1
    <3>2. CASE k \in 1 .. Len(tasks)
      <4>1. Out + k \in 1 .. Len(pushed)
        BY <1>1, <1>2, <3>2
      <4>2. pushed'[Out + k] = pushed[Out + k]
        BY <2>3, <4>1
      <4>3. tasks'[k] = tasks[k] /\ tasks[k] = pushed[Out + k]
        BY <2>4, <3>2
      <4> QED BY <4>2, <4>3
    <3> HIDE DEF Out, Taken, Before, InTurn
    <3>3. k = Len(tasks) + 1 \/ k \in 1 .. Len(tasks)
      BY <1>1, <2>4
    <3> QED BY <3>1, <3>2, <3>3
  <2>8. /\ Taken' = Taken /\ discarded' = discarded
        /\ Before(Out)' = Before(Out)
    <3>1. Taken' = Taken /\ discarded' = discarded
      BY <2>1 DEF Taken
    <3>2. Before(Out)' = Before(Out)
      BY <2>5, <2>6 DEF Before
    <3> QED BY <3>1, <3>2
  <2>9. InTurn(Out)'
    <3> SUFFICES ASSUME NEW i \in DOMAIN started', NEW j \in DOMAIN started', i < j
                 PROVE  \E k, l \in 1 .. Out' :
                           k < l /\ pushed'[k] = started'[i] /\ pushed'[l] = started'[j]
      BY DEF InTurn
    <3>1. started' = started
      BY <2>1
    <3>2. PICK k \in 1 .. Out, l \in 1 .. Out :
             k < l /\ pushed[k] = started[i] /\ pushed[l] = started[j]
      BY <3>1 DEF InTurn
    <3> QED BY <2>5, <2>6, <3>1, <3>2
  <2> QED BY <2>5, <2>7, <2>8, <2>9
<1>5. ASSUME NEW w \in Threads, Pop(w) PROVE Books'
  <2> DEFINE t == pushed[Out + 1]
  <2>1. /\ tasks # <<>> /\ tasks' = Without(tasks, 1) /\ started' = Append(started, tasks[1])
        /\ UNCHANGED <<pushed, discarded>>
    BY <1>5 DEF Pop, Front, history
  <2>2. Len(tasks) > 0
    BY <1>1, <2>1, EmptySeq
  <2>3. tasks[1] = t /\ t \in Tasks /\ Out + 1 \in DOMAIN pushed
    BY <1>1, <1>2, <2>2, ElementOfSeq
  <2>4. /\ Len(tasks') = Len(tasks) - 1
        /\ \A k \in 1 .. Len(tasks) - 1 : tasks'[k] = tasks[k + 1]
    BY <1>1, <2>1, WithoutFirst
  <2>5. Out' = Out + 1
    <3>1. Len(pushed') = Len(pushed)
      BY <2>1
    <3> QED BY <1>1, <2>4, <3>1 DEF Out
  <2>6. ASSUME NEW k \in 1 .. Len(tasks') PROVE tasks'[k] = pushed[Out' + k]
    <3>1. k \in 1 .. Len(tasks) - 1 /\ k + 1 \in 1 .. Len(tasks)
      BY <1>1, <2>4
    <3>2. Out + (k + 1) = Out' + k
      BY <2>5, <3>1
    <3>3. tasks'[k] = tasks[k + 1] /\ tasks[k + 1] = pushed[Out + (k + 1)]
      BY <2>4, <3>1
    <3> QED BY <3>2, <3>3
  <2>7. /\ Len(started') = Len(started) + 1 /\ DOMAIN started' = 1 .. Len(started) + 1
        /\ \A i \in DOMAIN started : started'[i] = started[i]
        /\ started'[Len(started) + 1] = t
    <3>1. started' = Append(started, t)
      BY <2>1, <2>3
    <3> HIDE DEF t
    <3> QED BY <1>1, <2>3, <3>1, AppendProperties, LenProperties
  <2>8. \A i \in DOMAIN started' : i \in DOMAIN started \/ i = Len(started) + 1
    BY <1>1, <2>7
  <2>9. t \notin Before(Out)
    <3>1. \A k \in 1 .. Out : k \in DOMAIN pushed /\ k # Out + 1
      BY <1>1, <1>2
    <3> QED BY <2>3, <3>1 DEF Fresh, Before
  <2>10. Before(Out)' = Before(Out) \cup {t}
    <3>1. 1 .. Out + 1 = (1 .. Out) \cup {Out + 1}
      OBVIOUS
    <3> QED BY <2>1, <2>5, <3>1 DEF Before
  <2>11. Taken' = Taken \cup {t}
    <3> HIDE DEF t
    <3> QED BY <1>1, <2>7, <2>8 DEF Taken
  <2>12. ASSUME NEW i \in DOMAIN started', NEW j \in DOMAIN started', i < j
         PROVE  \E k, l \in 1 .. Out' :
                   k < l /\ pushed[k] = started'[i] /\ pushed[l] = started'[j]
    <3>1. i \in DOMAIN started
      BY <1>1, <2>7, <2>12
    <3>2. CASE j \in DOMAIN started
      <4>1. PICK k \in 1 .. Out, l \in 1 .. Out :
               k < l /\ pushed[k] = started[i] /\ pushed[l] = started[j]
        BY <2>12, <3>1, <3>2 DEF InTurn
      <4>2. k \in 1 .. Out' /\ l \in 1 .. Out'
        BY <2>5
      <4> QED BY <2>7, <3>1, <3>2, <4>1, <4>2
    <3>3. CASE j = Len(started) + 1
      <4>1. started[i] \in Before(Out)
        BY <3>1 DEF Taken
      <4>2. PICK k \in 1 .. Out : pushed[k] = started[i]
        BY <4>1 DEF Before
      <4>3. k \in 1 .. Out' /\ Out' \in 1 .. Out' /\ k < Out'
        BY <2>5
      <4>4. pushed[Out'] = started'[j]
        BY <2>5, <2>7, <3>3
      <4> QED BY <2>7, <3>1, <4>2, <4>3, <4>4
    <3> QED BY <2>8, <3>2, <3>3
  <2>13. InTurn(Out)'
    BY <2>1, <2>12, SMTT(30) DEF InTurn
  <2>14. Out' \in Nat
    BY <2>5
  <2> HIDE DEF t
  <2> QED BY <2>1, <2>6, <2>9, <2>10, <2>11, <2>13, <2>14
<1>6. ASSUME NEW c \in Clients, Clear(c) PROVE Books'
  <2> DEFINE waiting == {tasks[i] : i \in DOMAIN tasks}
  <2>1. /\ tasks' = <<>> /\ discarded' = discarded \cup waiting
        /\ UNCHANGED <<pushed, started>>
    BY <1>6 DEF Clear, pool
  <2>2. Len(tasks') = 0 /\ Out' = Len(pushed)
    BY <1>1, <2>1, EmptySeq DEF Out
  <2>3. \A k \in 1 .. Len(pushed) : k \in 1 .. Out \/ k - Out \in 1 .. Len(tasks)
    BY <1>1, <1>2
  <2>4. \A i \in 1 .. Len(tasks) :
           Out + i \in 1 .. Len(pushed) /\ tasks[i] = pushed[Out + i]
    BY <1>1, <1>2
  <2>5. \A k \in 1 .. Out : k \in 1 .. Len(pushed)
    BY <1>1, <1>2
  <2>6. Before(Len(pushed)) = Before(Out) \cup waiting
    <3>1. ASSUME NEW k \in 1 .. Len(pushed) PROVE pushed[k] \in Before(Out) \cup waiting
      <4>1. CASE k \in 1 .. Out
        BY <4>1 DEF Before
      <4>2. CASE k - Out \in 1 .. Len(tasks)
        <5>1. tasks[k - Out] = pushed[Out + (k - Out)] /\ Out + (k - Out) = k
          BY <2>4, <4>2
        <5> QED BY <1>1, <4>2, <5>1
      <4> QED BY <2>3, <4>1, <4>2
    <3>2. Before(Out) \subseteq Before(Len(pushed))
      BY <2>5 DEF Before
    <3>3. waiting \subseteq Before(Len(pushed))
      BY <1>1, <2>4 DEF Before
    <3> QED BY <3>1, <3>2, <3>3 DEF Before
  <2>7. Taken \cap waiting = {}
    <3>1. \A i \in 1 .. Len(tasks), k \in 1 .. Out :
             k \in DOMAIN pushed /\ Out + i \in DOMAIN pushed /\ k # Out + i
      BY <1>1, <1>2
    <3>2. \A i \in 1 .. Len(tasks), k \in 1 .. Out : pushed[k] # tasks[i]
      BY <2>4, <3>1 DEF Fresh
    <3>3. Before(Out) \cap waiting = {}
      BY <1>1, <3>2 DEF Before
    <3> QED BY <3>3
  <2>8. InTurn(Out)'
    BY <2>1, <2>2, <2>5 DEF InTurn
  <2>9. Taken' = Taken /\ Before(Out)' = Before(Len(pushed))
    BY <2>1, <2>2 DEF Taken, Before
  <2>10. \A k \in 1 .. Len(tasks') : FALSE
    BY <2>2
  <2>11. Out' \in Nat
    BY <1>1, <2>2
  <2> HIDE DEF waiting
  <2> QED BY <2>1, <2>6, <2>7, <2>8, <2>9, <2>10, <2>11
<1>7. ASSUME NEW w \in Threads, WorkerStep(w) \/ SpuriousWakeup(w), ~Pop(w)
      PROVE  UNCHANGED <<pushed, tasks, started, discarded>>
  BY <1>7 DEF WorkerStep, LoopTop, CheckSize, Lock, TestPredicate, Block, CheckStopped, Run,
              SpuriousWakeup, history
<1>8. ASSUME NEW c \in Clients,
             \/ \E t \in Tasks : Commit(c, t)
             \/ \E n \in Sizes : Resize(c, n)
             \/ Shutdown(c) \/ Notify(c) \/ Grow(c) \/ Cleanup(c) \/ Join(c) \/ Erase(c)
             \/ NotifyAll(c) \/ EndJoin(c)
      PROVE  UNCHANGED <<pushed, tasks, started, discarded>>
  BY <1>8 DEF Commit, Resize, Shutdown, Notify, Grow, Cleanup, Join, Erase, NotifyAll, EndJoin,
              pool, history
<1>9. CASE UNCHANGED vars
  BY <1>3, <1>9 DEF vars
<1> HIDE DEF Books
<1> QED BY <1>3, <1>4, <1>5, <1>6, <1>7, <1>8, <1>9 DEF Next, ClientStep

\* A worker leaves with the flag cleared and an empty queue; from then on every
\* push is late, and taking a task adds none.
LEMMA LeftStep ==
    ASSUME TypeOK, Fresh, Left, [Next]_vars
    PROVE  Left'
<1> USE DEF Left
<1>1. tasks \in Seq(Tasks) /\ Len(tasks) \in Nat /\ DOMAIN tasks = 1 .. Len(tasks)
  BY LenProperties DEF TypeOK
<1>2. ASSUME NEW w \in Threads, LoopTop(w) \/ CheckStopped(w) PROVE Left'
  <2>1. UNCHANGED <<running, tasks, late>> /\ (drained' # drained => ~running /\ tasks = <<>>)
    BY <1>2 DEF LoopTop, CheckStopped, WorkDone, history
  <2>2. tasks = <<>> => DOMAIN tasks = {}
    BY EmptySeq
  <2> QED BY <2>1, <2>2
<1>3. ASSUME NEW w \in Threads, Pop(w) PROVE Left'
  <2>1. tasks # <<>> /\ tasks' = Without(tasks, 1) /\ UNCHANGED <<running, late, drained>>
    BY <1>3 DEF Pop, Front, history
  <2>2. /\ tasks' \in Seq(Tasks) /\ Len(tasks') = Len(tasks) - 1
        /\ \A k \in 1 .. Len(tasks) - 1 : tasks'[k] = tasks[k + 1]
    BY <1>1, <2>1, WithoutFirst
  <2>3. DOMAIN tasks' = 1 .. Len(tasks) - 1
    BY <2>2, LenProperties
  <2>4. \A k \in DOMAIN tasks' : k + 1 \in DOMAIN tasks /\ tasks'[k] = tasks[k + 1]
    BY <1>1, <2>2, <2>3
  <2> QED BY <2>1, <2>4
<1>4. ASSUME NEW c \in Clients, Push(c) PROVE Left'
  <2>1. /\ tasks' = Append(tasks, given[c]) /\ UNCHANGED <<running, drained>>
        /\ late' = IF running THEN late ELSE late \cup {given[c]}
    BY <1>4 DEF Push, pool
  <2>2. given[c] \in Tasks
    BY <1>4 DEF Push, Moves, Fresh, TypeOK
  <2>3. /\ tasks' \in Seq(Tasks) /\ Len(tasks') = Len(tasks) + 1
        /\ \A i \in 1 .. Len(tasks) : tasks'[i] = tasks[i]
        /\ tasks'[Len(tasks) + 1] = given[c]
    BY <1>1, <2>1, <2>2, AppendProperties
  <2>4. DOMAIN tasks' = 1 .. Len(tasks) + 1
    BY <2>3, LenProperties
  <2>5. \A i \in DOMAIN tasks' : i \in DOMAIN tasks \/ i = Len(tasks) + 1
    BY <1>1, <2>4
  <2> QED BY <1>1, <2>1, <2>3, <2>5
<1>5. ASSUME NEW c \in Clients, Clear(c) PROVE Left'
  <2>1. tasks' = <<>> /\ UNCHANGED <<running, drained>>
    BY <1>5 DEF Clear, pool
  <2> QED BY <2>1, EmptySeq
<1>6. ASSUME NEW c \in Clients, Shutdown(c) PROVE Left'
  BY <1>6 DEF Shutdown, pool, history
<1>7. ASSUME NEW w \in Threads,
             \/ CheckSize(w) \/ Lock(w) \/ TestPredicate(w) \/ Block(w) \/ Run(w)
             \/ SpuriousWakeup(w)
      PROVE  UNCHANGED <<running, tasks, late, drained>>
  BY <1>7 DEF CheckSize, Lock, TestPredicate, Block, Run, SpuriousWakeup, history
<1>8. ASSUME NEW c \in Clients,
             \/ \E t \in Tasks : Commit(c, t)
             \/ \E n \in Sizes : Resize(c, n)
             \/ Notify(c) \/ Grow(c) \/ Cleanup(c) \/ Join(c) \/ Erase(c)
             \/ NotifyAll(c) \/ EndJoin(c)
      PROVE  UNCHANGED <<running, tasks, late, drained>>
  BY <1>8 DEF Commit, Resize, Notify, Grow, Cleanup, Join, Erase, NotifyAll, EndJoin,
              pool, history
<1>9. CASE UNCHANGED <<running, tasks, late, drained>>
  BY <1>9
<1>10. UNCHANGED vars => UNCHANGED <<running, tasks, late, drained>>
  BY DEF vars
<1> HIDE DEF Left
<1> QED BY <1>2, <1>3, <1>4, <1>5, <1>6, <1>7, <1>8, <1>9, <1>10 DEF Next, WorkerStep, ClientStep

-----------------------------------------------------------------------------
(* The theorems.                                                           *)

LEMMA InitInv == Init => IInv
<1> SUFFICES ASSUME Init PROVE IInv
  OBVIOUS
<1> USE DEF Init
<1>1. /\ pushed = <<>> /\ tasks = <<>> /\ started = <<>>
      /\ Len(<<>>) = 0 /\ DOMAIN <<>> = {}
  BY LenProperties, EmptySeq
<1>2. workers \in Seq(Threads)
  <2>1. \A i \in 1 .. ThreadNum : i \in Threads
    BY DEF Threads
  <2> QED BY <2>1, SeqDef
<1>3. TypeOK
  BY <1>2, EmptySeq DEF TypeOK, WorkerPCs, ClientPCs, Threads
<1>4. Holders /\ Counting /\ Woken
  BY DEF Holders, Counting, Woken, NoPopEmpty
<1>5. Fresh
  BY <1>1 DEF Fresh
<1>6. Books
  BY <1>1 DEF Books, Out, Taken, Before, InTurn
<1>7. Passed
  BY DEF Passed, NoTerminate
<1>8. Left
  BY DEF Left
<1> QED BY <1>3, <1>4, <1>5, <1>6, <1>7, <1>8 DEF IInv

LEMMA NextInv == IInv /\ [Next]_vars => IInv'
BY TypeStep, HoldersStep, CountingStep, WokenStep, FreshStep, BooksStep, PassedStep,
   LeftStep DEF IInv

LEMMA Invariance == Spec => []IInv
BY InitInv, NextInv, PTL DEF Spec

\* The pool's fields and its program counters stay in their types, whatever
\* calls of Commit, Resize and Shutdown interleave with the workers.
THEOREM TypeCorrect == Spec => []TypeOK
<1>1. IInv => TypeOK
  BY DEF IInv
<1> QED BY <1>1, Invariance, PTL

\* No worker reaches front() and pop() with an empty queue: the wait's
\* predicate is tested again under the mutex after every wakeup, and nobody
\* takes a task without the mutex.
THEOREM NoPopEmptyCorrect == Spec => []NoPopEmpty
<1>1. IInv => NoPopEmpty
  BY DEF IInv, Woken
<1> QED BY <1>1, Invariance, PTL

\* The queue is first in, first out and exact, for any number of workers and
\* committing threads: each task that was pushed waits, was taken once, or
\* was thrown away by Shutdown.
THEOREM InOrderCorrect == Spec => []InOrder
<1>1. ASSUME IInv PROVE InOrder
  <2> DEFINE n == Len(pushed)
             out == Out
  <2>1. /\ tasks \in Seq(Tasks) /\ pushed \in Seq(Tasks)
        /\ n \in Nat /\ Len(tasks) \in Nat /\ out \in Nat /\ n = out + Len(tasks)
        /\ \A k \in 1 .. Len(tasks) : tasks[k] = pushed[out + k]
    BY <1>1, LenProperties DEF IInv, TypeOK, Books, Out
  <2>2. tasks = SubSeq(pushed, out + 1, n)
    <3>1. \A i \in out + 1 .. n : pushed[i] \in Tasks
      BY <2>1, ElementOfSeq
    <3>2. out + 1 \in Int /\ n - (out + 1) + 1 = Len(tasks)
      BY <2>1
    <3>3. \A k \in 1 .. Len(tasks) : out + 1 + k - 1 = out + k
      BY <2>1
    <3>4. out + 1 <= n \/ Len(tasks) = 0
      BY <2>1
    <3> HIDE DEF n, out
    <3>5. /\ SubSeq(pushed, out + 1, n) \in Seq(Tasks)
          /\ Len(SubSeq(pushed, out + 1, n)) = Len(tasks)
          /\ \A k \in 1 .. Len(tasks) : SubSeq(pushed, out + 1, n)[k] = pushed[out + k]
      BY <2>1, <3>1, <3>2, <3>3, <3>4, SubSeqProperties
    <3> QED BY <2>1, <3>5, SeqEqual
  <2>3. Out \in Nat /\ Taken \cup discarded = Before(Out) /\ Taken \cap discarded = {}
          /\ InTurn(Out)
    BY <1>1 DEF IInv, Books
  <2>4. out >= 0
    BY <2>1
  <2> QED BY <2>2, <2>3, <2>4 DEF InOrder, Out, Taken, Before, InTurn
<1> QED BY <1>1, Invariance, PTL

\* ~Threadpool and Shutdown destroy no joinable std::thread unless a Resize
\* that saw the pool running adds one after the stop.
THEOREM NoTerminateCorrect == Spec => []NoTerminate
<1>1. IInv => NoTerminate
  BY DEF IInv, Passed
<1> QED BY <1>1, Invariance, PTL

\* What Shutdown throws away, once a worker has left because the work was done,
\* was pushed by Commits that saw the pool running and came after its stop.
THEOREM GracefulShutdownCorrect == Spec => GracefulShutdown
<1>1. ASSUME IInv, [Next]_vars PROVE [drained => discarded' \ discarded \subseteq late]_vars
  <2>1. CASE UNCHANGED discarded
    BY <2>1
  <2>2. ASSUME NEW c \in Clients, Clear(c) PROVE drained => discarded' \ discarded \subseteq late
    <3>1. discarded' = discarded \cup {tasks[i] : i \in DOMAIN tasks}
      BY <2>2 DEF Clear
    <3> QED BY <1>1, <3>1 DEF IInv, Left
  <2>3. ASSUME NEW w \in Threads, WorkerStep(w) \/ SpuriousWakeup(w) PROVE UNCHANGED discarded
    BY <2>3 DEF WorkerStep, LoopTop, CheckSize, Lock, TestPredicate, Block, CheckStopped, Pop,
                Run, SpuriousWakeup, history
  <2>4. ASSUME NEW c \in Clients,
               \/ \E t \in Tasks : Commit(c, t)
               \/ \E n \in Sizes : Resize(c, n)
               \/ Shutdown(c) \/ Push(c) \/ Notify(c) \/ Grow(c) \/ Cleanup(c) \/ Join(c)
               \/ Erase(c) \/ NotifyAll(c) \/ EndJoin(c)
        PROVE  UNCHANGED discarded
    BY <2>4 DEF Commit, Resize, Shutdown, Push, Notify, Grow, Cleanup, Join, Erase, NotifyAll,
                EndJoin, history
  <2> QED BY <1>1, <2>1, <2>2, <2>3, <2>4 DEF Next, ClientStep
<1> QED BY <1>1, Invariance, PTL DEF Spec, GracefulShutdown
=============================================================================
