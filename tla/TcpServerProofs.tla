--------------------------- MODULE TcpServerProofs ---------------------------
(***************************************************************************)
(* Theorems about TcpServer for any number of connections, descriptors,    *)
(* sub loops and calls from outside, with and without assert().            *)
(***************************************************************************)
EXTENDS TcpServer, SequenceTheorems, TLAPS

USE TcpServerAssumption

ConnRecord == [state : States, sockfd : Fds \cup {Invalid}, chfd : Fds \cup {Invalid},
               loop : Loops, events : SUBSET {"read", "write"}, output : BOOLEAN]
PollerRecord == [map : [Fds -> Conns \cup {None}], epoll : SUBSET Fds]

ConnType == [Conns -> ConnRecord]
QueueType == [Loops -> Seq(Functor)]
WorkType == [Loops -> Work]
PollerType == [SubLoops -> PollerRecord]
EntryType == [Fds -> Conns \cup {None}]
DyingType == [Threads -> Conns \cup {None}]
CountType == [Conns -> Nat]
Faults == {"none", "assert", "abort", "use after free"}

\* TypeOK, the types by their names.
Typed ==
    /\ conn \in ConnType /\ connections \in EntryType /\ queue \in QueueType
    /\ work \in WorkType /\ poller \in PollerType /\ kernel \in EntryType
    /\ nextLoop \in 0 .. ThreadNum - 1
    /\ dying \in DyingType
    /\ freed \subseteq Conns /\ torn \subseteq Conns /\ lost \subseteq Conns
    /\ fault \in Faults
    /\ closeCalls \in CountType
    /\ holds \in Holding /\ calls \in 0 .. MaxCalls
    /\ late \subseteq Conns /\ revived \subseteq Conns

\* ConnectEstablished has run.
Early == {"Unborn", "Connecting"}
Begun(c) == conn[c].state \notin Early

\* A connection with a loop has a number, and whatever is under way for a
\* connection, but its establishment, is under way after that.
Named ==
    /\ \A c \in Conns :
          \/ conn[c].chfd \in Fds /\ conn[c].loop \in SubLoops
          \/ conn[c].state = "Unborn" /\ conn[c].events = {}
    /\ \A l \in Loops : \A i \in DOMAIN queue[l] :
          /\ queue[l][i].call # "ConnectEstablished" => Begun(queue[l][i].conn)
          /\ l = MainLoop => queue[l][i].call = "Remove"
    /\ \A l \in Loops :
          /\ work[l].at \notin {"idle", "establish"} => Begun(work[l].conn)
          /\ work[l].at = "establish" => l = MainLoop
    /\ holds # Nothing => Begun(holds.conn)
    /\ \A l \in SubLoops, f \in Fds : poller[l].map[f] # None => Begun(poller[l].map[f])

\* The establishment of a connection is under way once, and before anything
\* else.
Establishing ==
    /\ \A l \in Loops : \A i \in DOMAIN queue[l] :
          queue[l][i].call = "ConnectEstablished" => conn[queue[l][i].conn].state = "Connecting"
    /\ \A l, k \in Loops : \A i \in DOMAIN queue[l], j \in DOMAIN queue[k] :
          /\ queue[l][i].call = "ConnectEstablished"
          /\ queue[k][j] = queue[l][i]
          => l = k /\ i = j
    /\ work[MainLoop].at = "establish" =>
          /\ conn[work[MainLoop].conn].state = "Connecting"
          /\ \A l \in Loops : \A i \in DOMAIN queue[l] :
                queue[l][i].call = "ConnectEstablished" => queue[l][i].conn # work[MainLoop].conn

\* The close callback of a connection that is not put on again has run once,
\* or is about to, and then the connection stays closed.
Forcing(l, c) == work[l].at \in {"forced", "rawForced"} /\ work[l].conn = c
Once ==
    \A c \in Conns \ revived :
        /\ closeCalls[c] <= 1
        /\ closeCalls[c] > 0 => conn[c].state = "Disconnected"
        /\ \A l \in Loops : Forcing(l, c) =>
              /\ closeCalls[c] = 0 /\ conn[c].state = "Disconnected"
              /\ \A k \in Loops : Forcing(k, c) => k = l

\* RemovalUnderway, in the state a fault is noticed in as well.
Underway ==
    \A c \in Conns : closeCalls[c] > 0 =>
        \/ c \in torn
        \/ work[MainLoop] = [at |-> "destroy", conn |-> c]
        \/ \E l \in Loops : \E i \in DOMAIN queue[l] :
              queue[l][i].conn = c /\ queue[l][i].call \in {"Remove", "ConnectDestroyed"}

IInv == Typed /\ Named /\ Establishing /\ Once /\ Underway

LEMMA TypedIsTypeOK == Typed <=> TypeOK
BY DEF Typed, TypeOK, ConnType, ConnRecord, EntryType, QueueType, WorkType, PollerType,
       PollerRecord, DyingType, CountType, Faults

-----------------------------------------------------------------------------
(* What the pieces of the handlers return.                                 *)

LEMMA PostElements ==
    ASSUME queue \in QueueType, NEW l \in Loops, NEW c \in Conns,
           NEW call, [call |-> call, conn |-> c] \in Functor
    PROVE  LET q == Post(queue, l, call, c)
           IN  /\ q \in QueueType
               /\ \A k \in Loops \ {l} : q[k] = queue[k]
               /\ Len(q[l]) = Len(queue[l]) + 1
               /\ \A i \in 1 .. Len(queue[l]) : q[l][i] = queue[l][i]
               /\ q[l][Len(queue[l]) + 1] = [call |-> call, conn |-> c]
<1> DEFINE e == [call |-> call, conn |-> c]
           q == Post(queue, l, call, c)
<1>1. queue[l] \in Seq(Functor) /\ e \in Functor
  BY DEF QueueType
<1>2. q = [queue EXCEPT ![l] = Append(queue[l], e)]
  BY DEF Post
<1> HIDE DEF e, q
<1>3. q[l] = Append(queue[l], e) /\ \A k \in Loops \ {l} : q[k] = queue[k]
  BY <1>2 DEF QueueType
<1>4. q \in QueueType
  BY <1>1, <1>2, AppendProperties DEF QueueType
<1> QED BY <1>1, <1>3, <1>4, AppendProperties DEF e, q

LEMMA TailElements ==
    ASSUME queue \in QueueType, NEW l \in Loops, queue[l] # <<>>
    PROVE  LET q == [queue EXCEPT ![l] = Tail(@)]
           IN  /\ q \in QueueType
               /\ Head(queue[l]) \in Functor
               /\ Len(queue[l]) \in Nat \ {0} /\ Head(queue[l]) = queue[l][1]
               /\ \A k \in Loops \ {l} : q[k] = queue[k]
               /\ Len(q[l]) = Len(queue[l]) - 1
               /\ \A i \in 1 .. Len(queue[l]) - 1 : q[l][i] = queue[l][i + 1]
<1>1. queue[l] \in Seq(Functor)
  BY DEF QueueType
<1>2. /\ Head(queue[l]) \in Functor /\ Tail(queue[l]) \in Seq(Functor)
      /\ Len(Tail(queue[l])) = Len(queue[l]) - 1
      /\ \A i \in 1 .. Len(Tail(queue[l])) : Tail(queue[l])[i] = queue[l][i + 1]
      /\ Head(queue[l]) = queue[l][1]
  BY <1>1, HeadTailProperties
<1>3. Len(queue[l]) \in Nat \ {0}
  BY <1>1, EmptySeq
<1> QED BY <1>2, <1>3 DEF QueueType

LEMMA UpdateType ==
    ASSUME NEW p \in PollerRecord, NEW fd \in Fds, NEW c \in Conns, NEW ev, NEW open
    PROVE  UpdateChannel(p, fd, c, ev, open) \in PollerRecord
BY DEF UpdateChannel, RemoveChannel, PollerRecord

LEMMA WithEventsType ==
    ASSUME Typed,
           NEW c \in Conns, conn[c].chfd \in Fds, NEW ev
    PROVE  /\ WithEvents(c, ev) \in PollerType
           /\ EnableWriting(c) \in PollerType
<1>1. \A v : WithEvents(c, v) \in PollerType
  BY UpdateType DEF WithEvents, Typed, PollerType, ConnType, ConnRecord
<1> QED BY <1>1 DEF EnableWriting, Typed

LEMMA ForgetType ==
    ASSUME NEW p \in PollerType, NEW fd
    PROVE  Forget(p, fd) \in PollerType
BY DEF Forget, Forgotten, PollerType, PollerRecord

LEMMA WorkConn ==
    ASSUME NEW w \in Work, w.at # "idle"
    PROVE  w.conn \in Conns
BY DEF Work

LEMMA WorkAt ==
    ASSUME NEW w \in Work
    PROVE  /\ w.at = "closing" => [w EXCEPT !.at = "closed"] \in Work
           /\ w.at = "callback" => [w EXCEPT !.at = "shut"] \in Work
                                     /\ [w EXCEPT !.at = "forced"] \in Work
           /\ w.at \in {"shut", "forced"} => [w EXCEPT !.at = "callback"] \in Work
           /\ w.at = "destroy" => [w EXCEPT !.at = "release"] \in Work
<1>1. CASE w \in [at : {"closing", "closed"}, conn : Conns, again : BOOLEAN]
  BY <1>1 DEF Work
<1>2. CASE w \in [at : {"callback", "forced", "shut"}, conn : Conns, handler : BOOLEAN]
  BY <1>2 DEF Work
<1>3. CASE w \in [at : {"establish", "destroy", "release", "again", "rawForced", "rawShut"},
                  conn : Conns]
  BY <1>3 DEF Work
<1>4. CASE w \in [at : {"idle"}]
  BY <1>4
<1> QED BY <1>1, <1>2, <1>3, <1>4 DEF Work

LEMMA HoldsConn ==
    ASSUME NEW h \in Holding, h.at # "nothing"
    PROVE  /\ h.conn \in Conns
           /\ h.at \in {"tested", "stored"} => h.call \in DOMAIN Posted
BY DEF Holding

\* The assignments to the fields of a connection.
LEMMA ConnSet ==
    ASSUME conn \in ConnType, NEW c \in Conns, NEW st \in States,
           NEW ev \in SUBSET {"read", "write"}, NEW out \in BOOLEAN
    PROVE  /\ [conn EXCEPT ![c].state = st] \in ConnType
           /\ [conn EXCEPT ![c].sockfd = Invalid] \in ConnType
           /\ [conn EXCEPT ![c].sockfd = Invalid, ![c].state = st] \in ConnType
           /\ [conn EXCEPT ![c].state = st, ![c].events = ev] \in ConnType
           /\ [conn EXCEPT ![c].state = st, ![c].events = ev, ![c].sockfd = Invalid] \in ConnType
           /\ [conn EXCEPT ![c].state = st, ![c].events = @ \cup {"write"}] \in ConnType
           /\ [conn EXCEPT ![c].events = @ \cup {"write"}] \in ConnType
           /\ [conn EXCEPT ![c].output = out, ![c].events = @ \cup {"write"}] \in ConnType
           /\ [conn EXCEPT ![c].output = out, ![c].events = @ \ {"write"}] \in ConnType
<1> USE DEF ConnType, ConnRecord
<1>1. \A f \in ConnType :
         /\ [f EXCEPT ![c].state = st] \in ConnType
         /\ [f EXCEPT ![c].sockfd = Invalid] \in ConnType
         /\ [f EXCEPT ![c].events = ev] \in ConnType
         /\ [f EXCEPT ![c].output = out] \in ConnType
  OBVIOUS
<1>2. \A f \in ConnType : [f EXCEPT ![c].events = @ \cup {"write"}] \in ConnType
  OBVIOUS
<1>3. \A f \in ConnType : [f EXCEPT ![c].events = @ \ {"write"}] \in ConnType
  OBVIOUS
<1> HIDE DEF ConnType, ConnRecord
<1>4. /\ [conn EXCEPT ![c].state = st] \in ConnType
      /\ [conn EXCEPT ![c].sockfd = Invalid] \in ConnType
      /\ [conn EXCEPT ![c].events = @ \cup {"write"}] \in ConnType
  BY <1>1, <1>2
<1>5. [conn EXCEPT ![c].sockfd = Invalid, ![c].state = st] \in ConnType
  <2>1. [[conn EXCEPT ![c].sockfd = Invalid] EXCEPT ![c].state = st] \in ConnType
    BY <1>1
  <2> QED BY <2>1
<1>6. /\ [conn EXCEPT ![c].state = st, ![c].events = ev] \in ConnType
      /\ [conn EXCEPT ![c].state = st, ![c].events = ev, ![c].sockfd = Invalid] \in ConnType
  <2>1. [[conn EXCEPT ![c].state = st] EXCEPT ![c].events = ev] \in ConnType
    BY <1>1
  <2>2. [[[conn EXCEPT ![c].state = st] EXCEPT ![c].events = ev] EXCEPT ![c].sockfd = Invalid]
           \in ConnType
    BY <1>1, <2>1
  <2> QED BY <2>1, <2>2
<1>7. [conn EXCEPT ![c].state = st, ![c].events = @ \cup {"write"}] \in ConnType
  <2>1. [[conn EXCEPT ![c].state = st] EXCEPT ![c].events = @ \cup {"write"}] \in ConnType
    BY <1>1, <1>2
  <2> QED BY <2>1
<1>8. [conn EXCEPT ![c].output = out, ![c].events = @ \cup {"write"}] \in ConnType
  <2>1. [[conn EXCEPT ![c].output = out] EXCEPT ![c].events = @ \cup {"write"}] \in ConnType
    BY <1>1, <1>2
  <2> QED BY <2>1
<1>9. [conn EXCEPT ![c].output = out, ![c].events = @ \ {"write"}] \in ConnType
  <2>1. [[conn EXCEPT ![c].output = out] EXCEPT ![c].events = @ \ {"write"}] \in ConnType
    BY <1>1, <1>3
  <2> QED BY <2>1
<1> QED BY <1>4, <1>5, <1>6, <1>7, <1>8, <1>9

\* They leave every other connection alone, and the number and the loop of this
\* one, whose state is s then.
Alike(g, f, c, s) ==
    /\ f \in ConnType /\ g \in ConnType
    /\ \A d \in Conns \ {c} : g[d] = f[d]
    /\ g[c].chfd = f[c].chfd /\ g[c].loop = f[c].loop
    /\ g[c].state = s
Same(g, f, c) == Alike(g, f, c, f[c].state)

LEMMA ConnChanges ==
    ASSUME conn \in ConnType, NEW c \in Conns, NEW st \in States,
           NEW ev \in SUBSET {"read", "write"}, NEW out \in BOOLEAN
    PROVE  /\ Same(conn, conn, c)
           /\ Same([conn EXCEPT ![c].sockfd = Invalid], conn, c)
           /\ Same([conn EXCEPT ![c].events = @ \cup {"write"}], conn, c)
           /\ Same([conn EXCEPT ![c].output = out, ![c].events = @ \cup {"write"}], conn, c)
           /\ Same([conn EXCEPT ![c].output = out, ![c].events = @ \ {"write"}], conn, c)
           /\ Alike([conn EXCEPT ![c].state = st], conn, c, st)
           /\ Alike([conn EXCEPT ![c].sockfd = Invalid, ![c].state = st], conn, c, st)
           /\ Alike([conn EXCEPT ![c].state = st, ![c].events = ev], conn, c, st)
           /\ Alike([conn EXCEPT ![c].state = st, ![c].events = ev, ![c].sockfd = Invalid],
                    conn, c, st)
           /\ Alike([conn EXCEPT ![c].state = st, ![c].events = @ \cup {"write"}], conn, c, st)
<1>1. \A f \in ConnType : Alike([f EXCEPT ![c].state = st], f, c, st)
  BY DEF Alike, ConnType, ConnRecord
<1>2. \A f \in ConnType : Same([f EXCEPT ![c].sockfd = Invalid], f, c)
  BY DEF Same, Alike, ConnType, ConnRecord
<1>3. \A f \in ConnType : Same([f EXCEPT ![c].events = ev], f, c)
  BY DEF Same, Alike, ConnType, ConnRecord
<1>4. \A f \in ConnType : Same([f EXCEPT ![c].output = out], f, c)
  BY DEF Same, Alike, ConnType, ConnRecord
<1>5. \A f \in ConnType : Same([f EXCEPT ![c].events = @ \cup {"write"}], f, c)
  BY DEF Same, Alike, ConnType, ConnRecord
<1>6. \A f \in ConnType : Same([f EXCEPT ![c].events = @ \ {"write"}], f, c)
  BY DEF Same, Alike, ConnType, ConnRecord
<1>7. \A g, f, s : Alike(g, f, c, s) => /\ g \in ConnType
                                        /\ \A h : Same(h, g, c) => Alike(h, f, c, s)
                                        /\ \A h, t : Alike(h, g, c, t) => Alike(h, f, c, t)
  BY DEF Alike, Same
<1>8. \A g, f : Same(g, f, c) => /\ g \in ConnType
                                 /\ \A h : Same(h, g, c) => Same(h, f, c)
                                 /\ \A h, t : Alike(h, g, c, t) => Alike(h, f, c, t)
  BY DEF Alike, Same
<1>9. conn \in ConnType /\ Same(conn, conn, c)
  BY DEF Same, Alike
<1> HIDE DEF ConnType
<1>10. Alike([conn EXCEPT ![c].sockfd = Invalid, ![c].state = st], conn, c, st)
  <2>1. Alike([[conn EXCEPT ![c].sockfd = Invalid] EXCEPT ![c].state = st], conn, c, st)
    <3> DEFINE g == [conn EXCEPT ![c].sockfd = Invalid]
    <3>1. Same(g, conn, c)
      BY <1>2
    <3> HIDE DEF g
    <3>2. Alike([g EXCEPT ![c].state = st], conn, c, st)
      BY <1>1, <1>8, <3>1
    <3> QED BY <3>2 DEF g
  <2> QED BY <2>1
<1>11. /\ Alike([conn EXCEPT ![c].state = st, ![c].events = ev], conn, c, st)
       /\ Alike([conn EXCEPT ![c].state = st, ![c].events = ev, ![c].sockfd = Invalid], conn, c, st)
       /\ Alike([conn EXCEPT ![c].state = st, ![c].events = @ \cup {"write"}], conn, c, st)
  <2> DEFINE g == [conn EXCEPT ![c].state = st]
             h == [g EXCEPT ![c].events = ev]
  <2>1. Alike(g, conn, c, st)
    BY <1>1
  <2> HIDE DEF g
  <2>2. Alike(h, conn, c, st) /\ Alike([g EXCEPT ![c].events = @ \cup {"write"}], conn, c, st)
    BY <1>3, <1>5, <1>7, <2>1
  <2> HIDE DEF h
  <2>3. Alike([h EXCEPT ![c].sockfd = Invalid], conn, c, st)
    BY <1>2, <1>7, <2>2
  <2> QED BY <2>2, <2>3 DEF g, h
<1>12. /\ Same([conn EXCEPT ![c].output = out, ![c].events = @ \cup {"write"}], conn, c)
       /\ Same([conn EXCEPT ![c].output = out, ![c].events = @ \ {"write"}], conn, c)
  <2> DEFINE g == [conn EXCEPT ![c].output = out]
  <2>1. Same(g, conn, c)
    BY <1>4
  <2> HIDE DEF g
  <2>2. /\ Same([g EXCEPT ![c].events = @ \cup {"write"}], conn, c)
        /\ Same([g EXCEPT ![c].events = @ \ {"write"}], conn, c)
    BY <1>5, <1>6, <1>8, <2>1
  <2> QED BY <2>2 DEF g
<1> QED BY <1>1, <1>2, <1>5, <1>9, <1>10, <1>11, <1>12

LEMMA KernelType ==
    ASSUME kernel \in EntryType, NEW fd, KernelClose(fd)
    PROVE  kernel' \in EntryType
BY DEF KernelClose, EntryType

LEMMA LetGoType ==
    ASSUME dying \in DyingType, NEW l \in Threads, NEW c, LetGo(l, c)
    PROVE  dying' \in DyingType
BY DEF LetGo, DyingType

LEMMA BegunNumber ==
    ASSUME Typed, Named, NEW c \in Conns, Begun(c)
    PROVE  conn[c].chfd \in Fds /\ conn[c].loop \in SubLoops
BY DEF Named, Begun, Early

\* Who is named by the work of a thread.
LEMMA BusyWith ==
    ASSUME Typed, Named, NEW l \in Loops, work[l].at \notin {"idle", "establish"}
    PROVE  work[l].conn \in Conns /\ Begun(work[l].conn)
BY WorkConn DEF Typed, WorkType, Named

LEMMA HeadNames ==
    ASSUME Typed, Named, Establishing, NEW l \in Loops, queue[l] # <<>>
    PROVE  /\ Head(queue[l]) \in Functor /\ Head(queue[l]).conn \in Conns
           /\ conn[Head(queue[l]).conn].chfd \in Fds
           /\ conn[Head(queue[l]).conn].loop \in SubLoops
           /\ Head(queue[l]).call = "ConnectEstablished" =>
                 conn[Head(queue[l]).conn].state = "Connecting"
           /\ Head(queue[l]).call # "ConnectEstablished" => Begun(Head(queue[l]).conn)
           /\ l = MainLoop => Head(queue[l]).call = "Remove"
<1>1. /\ queue[l] \in Seq(Functor) /\ Head(queue[l]) \in Functor
      /\ Len(queue[l]) \in Nat \ {0} /\ Head(queue[l]) = queue[l][1]
  BY TailElements DEF Typed, QueueType
<1>2. 1 \in DOMAIN queue[l]
  BY <1>1, LenProperties
<1>3. Head(queue[l]).conn \in Conns
  BY <1>1 DEF Functor
<1>4. Head(queue[l]).call = "ConnectEstablished" =>
         conn[Head(queue[l]).conn].state = "Connecting"
  BY <1>1, <1>2 DEF Establishing
<1>5. /\ Head(queue[l]).call # "ConnectEstablished" => Begun(Head(queue[l]).conn)
      /\ l = MainLoop => Head(queue[l]).call = "Remove"
  BY <1>1, <1>2 DEF Named
<1>6. conn[Head(queue[l]).conn].state # "Unborn"
  BY <1>4, <1>5 DEF Begun, Early
<1>7. /\ conn[Head(queue[l]).conn].chfd \in Fds
      /\ conn[Head(queue[l]).conn].loop \in SubLoops
  BY <1>3, <1>6 DEF Named
<1> QED BY <1>1, <1>3, <1>4, <1>5, <1>7

LEMMA ReadyNames ==
    ASSUME Typed, Named, NEW l \in SubLoops, NEW c \in Conns, Ready(l, c)
    PROVE  Begun(c)
<1>1. PICK f \in poller[l].epoll : poller[l].map[f] = c
  BY DEF Ready
<1>2. poller[l] \in PollerRecord
  BY DEF Typed, PollerType
<1>3. f \in Fds
  BY <1>1, <1>2 DEF PollerRecord
<1> QED BY <1>1, <1>3 DEF Named

-----------------------------------------------------------------------------
(* The steps: types.                                                       *)

\* The steps of the main loop.
LEMMA TypeMain ==
    ASSUME Typed, Named, Establishing,
           \/ \E c \in Conns, f \in Fds : Accept(c, f)
           \/ Remove \/ PostEstablished \/ PostDestroyed \/ ReleaseLambda
    PROVE  Typed'
<1> USE DEF Typed
<1>0. MainLoop \in Loops /\ MainLoop \in Threads /\ SubLoops \subseteq Loops
        /\ Loops \subseteq Threads /\ Idle \in Work
  BY DEF MainLoop, Loops, Threads, SubLoops, Idle, Work
<1>1. ASSUME NEW c \in Conns, NEW f \in Fds, Accept(c, f) PROVE Typed'
  <2>1. conn' \in ConnType
    <3>1. nextLoop + 1 \in Loops
      BY DEF Loops, SubLoops
    <3> HIDE DEF Loops
    <3>2. Constructed(f, nextLoop + 1) \in ConnRecord
      BY <3>1 DEF Constructed, ConnRecord, States
    <3> QED BY <1>1, <3>2 DEF Accept, ConnType
  <2>2. work' \in WorkType
    <3>1. [at |-> "establish", conn |-> c] \in Work
      BY DEF Work
    <3> QED BY <1>0, <1>1, <3>1 DEF Accept, WorkType
  <2>3. connections' \in EntryType /\ kernel' \in EntryType
    BY <1>1 DEF Accept, Accepts, EntryType
  <2>4. nextLoop' \in 0 .. ThreadNum - 1
    BY <1>1 DEF Accept, NextLoop
  <2>5. dying' \in DyingType /\ lost' \subseteq Conns
    BY <1>0, <1>1, LetGoType DEF Accept, Lose
  <2> QED BY <1>1, <2>1, <2>2, <2>3, <2>4, <2>5 DEF Accept, worker
<1>2. CASE Remove
  <2> DEFINE c == Head(queue[MainLoop]).conn
             victim == IF conn[c].sockfd = Invalid THEN None ELSE connections[conn[c].sockfd]
  <2>1. c \in Conns /\ queue' \in QueueType
    BY <1>0, <1>2, HeadNames, TailElements, ZenonT(30) DEF Remove
  <2>2. connections' \in EntryType
    BY <1>2, ZenonT(30) DEF Remove, EntryType
  <2>3. work' \in WorkType
    <3>1. \A e \in BOOLEAN : AfterErase(e, c) \in Work
      BY <2>1 DEF AfterErase, Work
    <3> QED BY <1>0, <1>2, <3>1, Zenon DEF Remove, WorkType
  <2>4. LetGo(MainLoop, victim) /\ fault' \in Faults /\ lost' \subseteq Conns
    BY <1>2, Zenon DEF Remove, Faults, Lose
  <2>5. dying' \in DyingType
    BY <1>0, <2>4, LetGoType
  <2> QED BY <1>2, <2>1, <2>2, <2>3, <2>4, <2>5, ZenonT(30) DEF Remove, worker
<1>3. CASE PostEstablished
  <2> DEFINE c == work[MainLoop].conn
  <2>1. c \in Conns
    BY <1>0, <1>3, WorkConn DEF PostEstablished, At, WorkType
  <2>2. conn[c].loop \in Loops /\ [call |-> "ConnectEstablished", conn |-> c] \in Functor
    BY <2>1 DEF ConnType, ConnRecord, Functor
  <2>3. queue' \in QueueType
    BY <1>3, <2>1, <2>2, PostElements DEF PostEstablished
  <2>4. work' \in WorkType
    BY <1>0, <1>3 DEF PostEstablished, WorkType
  <2> QED BY <1>3, <2>3, <2>4 DEF PostEstablished, worker
<1>4. CASE PostDestroyed
  <2> DEFINE c == work[MainLoop].conn
  <2>1. c \in Conns
    BY <1>0, <1>4, WorkConn DEF PostDestroyed, At, WorkType
  <2>2. conn[c].loop \in Loops /\ [call |-> "ConnectDestroyed", conn |-> c] \in Functor
    BY <2>1 DEF ConnType, ConnRecord, Functor
  <2>3. queue' \in QueueType
    BY <1>4, <2>1, <2>2, PostElements DEF PostDestroyed
  <2>4. work' \in WorkType
    BY <1>0, <1>4, WorkAt DEF PostDestroyed, At, WorkType
  <2> QED BY <1>4, <2>3, <2>4 DEF PostDestroyed, worker
<1>5. CASE ReleaseLambda
  <2>1. work' \in WorkType
    BY <1>0, <1>5 DEF ReleaseLambda, WorkType
  <2>2. dying' \in DyingType
    BY <1>0, <1>5, LetGoType DEF ReleaseLambda
  <2> QED BY <1>5, <2>1, <2>2 DEF ReleaseLambda, worker
<1> QED BY <1>1, <1>2, <1>3, <1>4, <1>5

\* The functors of a sub loop.
LEMMA TypeFunctors ==
    ASSUME Typed, Named, Establishing, NEW l \in SubLoops, Functors(l)
    PROVE  Typed'
<1> USE DEF Typed
<1> DEFINE c == Head(queue[l]).conn
           q == [queue EXCEPT ![l] = Tail(@)]
<1>0. l \in Loops /\ l \in Threads /\ queue[l] # <<>>
  BY Zenon DEF Functors, ConnectEstablished, ConnectDestroyed, SendInLoop, ShutdownInLoop,
         ForceCloseInLoop, RunsPosted, NextFunctor, Loops, Threads
<1>1. c \in Conns /\ conn[c].chfd \in Fds /\ q \in QueueType
  BY <1>0, HeadNames, TailElements
<1>2. /\ \A ev : WithEvents(c, ev) \in PollerType
      /\ EnableWriting(c) \in PollerType
      /\ \A p \in PollerType : \A fd : Forget(p, fd) \in PollerType
  BY <1>1, WithEventsType, ForgetType
<1>3. \A fd : KernelClose(fd) => kernel' \in EntryType
  BY KernelType
<1> HIDE DEF c, q
<1>4. /\ [conn EXCEPT ![c].state = "Connected", ![c].events = {"read"}] \in ConnType
      /\ [conn EXCEPT ![c].state = "Disconnected", ![c].events = {}] \in ConnType
      /\ [conn EXCEPT ![c].state = "Disconnected", ![c].events = {}, ![c].sockfd = Invalid]
            \in ConnType
      /\ [conn EXCEPT ![c].events = @ \cup {"write"}] \in ConnType
      /\ [conn EXCEPT ![c].output = TRUE, ![c].events = @ \cup {"write"}] \in ConnType
  <2>1. {"Connected", "Disconnected"} \subseteq States
    BY DEF States
  <2> QED BY <1>1, <2>1, ConnSet, ZenonT(30)
<1>5. /\ [at |-> "callback", conn |-> c, handler |-> FALSE] \in Work
      /\ [at |-> "rawShut", conn |-> c] \in Work
      /\ [at |-> "rawForced", conn |-> c] \in Work
  BY <1>1 DEF Work
<1>6. \A w \in Work : [work EXCEPT ![l] = w] \in WorkType
  BY <1>0, SMTT(30) DEF WorkType
<1>7. CASE ConnectEstablished(l)
  <2>1. /\ conn' = [conn EXCEPT ![c].state = "Connected", ![c].events = {"read"}]
        /\ poller' = WithEvents(c, {"read"})
        /\ work' = [work EXCEPT ![l] = [at |-> "callback", conn |-> c, handler |-> FALSE]]
        /\ queue' = q
    BY <1>7 DEF ConnectEstablished, c, q
  <2>2. conn' \in ConnType
    BY <1>4, <2>1
  <2>3. poller' \in PollerType /\ work' \in WorkType /\ queue' \in QueueType
    BY <1>1, <1>2, <1>5, <1>6, <2>1
  <2> QED BY <1>7, <2>2, <2>3 DEF ConnectEstablished, worker
<1>8. CASE ConnectDestroyed(l)
  <2>1. conn' = conn \/ conn' = [conn EXCEPT ![c].state = "Disconnected", ![c].events = {},
                                             ![c].sockfd = Invalid]
    BY <1>8, Zenon DEF ConnectDestroyed, c
  <2>2. conn' \in ConnType
    BY <1>4, <2>1
  <2>3. poller' = poller \/ poller' = Forget(WithEvents(c, {}), conn[c].sockfd)
    BY <1>8, Zenon DEF ConnectDestroyed, c
  <2>4. poller' \in PollerType
    BY <1>2, <2>3
  <2>5. kernel' = kernel \/ KernelClose(conn[c].sockfd)
    BY <1>8, Zenon DEF ConnectDestroyed, c
  <2>6. kernel' \in EntryType
    BY <1>3, <2>5
  <2>7. LetGo(l, c) /\ queue' = q /\ torn' = torn \cup {c} /\ fault' \in Faults
    BY <1>8, Zenon DEF ConnectDestroyed, c, q, Faults
  <2>8. dying' \in DyingType /\ queue' \in QueueType /\ torn' \subseteq Conns
    BY <1>0, <1>1, <2>7, LetGoType
  <2> QED BY <1>8, <2>2, <2>4, <2>6, <2>7, <2>8, Zenon DEF ConnectDestroyed, worker
<1>9. \A call : RunsPosted(l, call) =>
          /\ queue' \in QueueType /\ fault' \in Faults
          /\ UNCHANGED <<connections, nextLoop, dying, freed, closeCalls, torn, lost>>
  BY <1>1, Zenon DEF RunsPosted, Touch, Faults, q
<1>10. CASE SendInLoop(l)
  <2>1. /\ conn' = conn \/ conn' = [conn EXCEPT ![c].output = TRUE,
                                                ![c].events = @ \cup {"write"}]
        /\ poller' = poller \/ poller' = EnableWriting(c)
    BY <1>10 DEF SendInLoop, c
  <2>2. conn' \in ConnType
    BY <1>4, <2>1
  <2>3. poller' \in PollerType
    BY <1>2, <2>1
  <2> QED BY <1>9, <1>10, <2>2, <2>3 DEF SendInLoop, worker
<1>11. CASE ShutdownInLoop(l)
  <2>1. /\ conn' = conn \/ conn' = [conn EXCEPT ![c].events = @ \cup {"write"}]
        /\ poller' = EnableWriting(c) \/ poller' = Forget(poller, conn[c].sockfd)
        /\ kernel' = kernel \/ KernelClose(conn[c].sockfd)
        /\ work' = work \/ work' = [work EXCEPT ![l] = [at |-> "rawShut", conn |-> c]]
        /\ revived' = revived \/ revived' = revived \cup {c}
        /\ UNCHANGED <<holds, calls, late>>
    BY <1>11 DEF ShutdownInLoop, Revives, worker, c
  <2>2. conn' \in ConnType
    BY <1>4, <2>1
  <2>3. poller' \in PollerType
    BY <1>2, <2>1
  <2>4. kernel' \in EntryType /\ work' \in WorkType /\ revived' \subseteq Conns
    BY <1>1, <1>3, <1>5, <1>6, <2>1
  <2> QED BY <1>9, <1>11, <2>1, <2>2, <2>3, <2>4 DEF ShutdownInLoop
<1>12. CASE ForceCloseInLoop(l)
  <2>1. /\ conn' = conn \/ conn' = [conn EXCEPT ![c].state = "Disconnected",
                                                ![c].events = {}]
        /\ poller' = poller \/ poller' = Forget(WithEvents(c, {}), conn[c].sockfd)
        /\ kernel' = kernel \/ KernelClose(conn[c].sockfd)
        /\ work' = work \/ work' = [work EXCEPT ![l] = [at |-> "rawForced", conn |-> c]]
    BY <1>12 DEF ForceCloseInLoop, c
  <2>2. conn' \in ConnType
    BY <1>4, <2>1
  <2>3. poller' \in PollerType
    BY <1>2, <2>1
  <2>4. kernel' \in EntryType /\ work' \in WorkType
    BY <1>3, <1>5, <1>6, <2>1
  <2> QED BY <1>9, <1>12, <2>2, <2>3, <2>4 DEF ForceCloseInLoop, worker
<1> QED BY <1>7, <1>8, <1>10, <1>11, <1>12 DEF Functors

\* HandleClose, whoever calls it.
LEMMA TypeHandleClose ==
    ASSUME Typed, Named, NEW l \in SubLoops, NEW c \in Conns, Begun(c), NEW again \in BOOLEAN,
           HandleClose(l, c, again)
    PROVE  /\ conn' \in ConnType /\ poller' \in PollerType /\ queue' \in QueueType
           /\ closeCalls' \in CountType /\ work' \in WorkType
<1> USE DEF Typed
<1>0. l \in Loops /\ MainLoop \in Loops /\ Idle \in Work
        /\ [at |-> "closing", conn |-> c, again |-> again] \in Work
  BY DEF Loops, Idle, Work
<1>1. \A w \in Work : [work EXCEPT ![l] = w] \in WorkType
  BY <1>0 DEF WorkType
<1>2. CASE MustClose(c)
  <2>1. conn' \in ConnType
    <3>1. "Disconnected" \in States /\ conn' = [conn EXCEPT ![c].state = "Disconnected",
                                                            ![c].events = {}]
      BY <1>2 DEF HandleClose, States
    <3> QED BY <3>1, ConnSet, Zenon
  <2>2. poller' \in PollerType
    BY <1>2, BegunNumber, WithEventsType DEF HandleClose
  <2>3. queue' \in QueueType
    <3>1. [call |-> "Remove", conn |-> c] \in Functor
      BY DEF Functor
    <3> QED BY <1>0, <1>2, <3>1, PostElements DEF HandleClose
  <2>4. closeCalls' \in CountType
    BY <1>2 DEF HandleClose, CountType
  <2>5. work' \in WorkType
    BY <1>0, <1>1, <1>2 DEF HandleClose
  <2> QED BY <2>1, <2>2, <2>3, <2>4, <2>5
<1>3. CASE ~MustClose(c)
  BY <1>0, <1>1, <1>3 DEF HandleClose
<1> QED BY <1>2, <1>3

\* What a sub loop does with a descriptor that is ready.
LEMMA TypeHandlers ==
    ASSUME Typed, Named, NEW l \in SubLoops, NEW c \in Conns,
           \/ Dangling(l, c) \/ HandleRead(l, c) \/ HandleWrite(l, c)
           \/ \E again \in BOOLEAN : PeerCloses(l, c, again)
    PROVE  Typed'
<1> USE DEF Typed
<1>0. l \in Loops /\ Handler(c) \in Work /\ Begun(c) /\ conn[c].chfd \in Fds
  <2>1. Ready(l, c)
    BY Zenon DEF Dangling, HandleRead, HandleWrite, PeerCloses
  <2>2. Begun(c)
    BY <2>1, ReadyNames
  <2>3. l \in Loops /\ Handler(c) \in Work
    BY DEF Loops, Handler, Work
  <2> QED BY <2>2, <2>3, BegunNumber
<1>1. CASE Dangling(l, c)
  BY <1>1, Zenon DEF Dangling, Faults, worker
<1>2. CASE HandleRead(l, c)
  <2>1. work' \in WorkType
    BY <1>0, <1>2 DEF HandleRead, WorkType
  <2> QED BY <1>2, <2>1 DEF HandleRead, worker
<1>3. CASE HandleWrite(l, c)
  <2>1. conn' \in ConnType
    <3>1. conn' = [conn EXCEPT ![c].output = FALSE, ![c].events = @ \ {"write"}]
      BY <1>3 DEF HandleWrite
    <3>2. "Connected" \in States /\ {} \in SUBSET {"read", "write"}
      BY DEF States
    <3> QED BY <3>1, <3>2, ConnSet, Zenon
  <2>2. poller' \in PollerType
    BY <1>0, <1>3, WithEventsType DEF HandleWrite
  <2>3. work' \in WorkType
    BY <1>0, <1>3 DEF HandleWrite, WorkType
  <2> QED BY <1>3, <2>1, <2>2, <2>3 DEF HandleWrite, worker
<1>4. ASSUME NEW again \in BOOLEAN, PeerCloses(l, c, again) PROVE Typed'
  <2>1. HandleClose(l, c, again)
          /\ UNCHANGED <<connections, kernel, nextLoop, dying, freed, fault, torn, lost, worker>>
    BY <1>4 DEF PeerCloses
  <2>2. /\ conn' \in ConnType /\ poller' \in PollerType /\ queue' \in QueueType
        /\ closeCalls' \in CountType /\ work' \in WorkType
    BY <1>0, <2>1, TypeHandleClose
  <2> QED BY <2>1, <2>2 DEF worker
<1> QED BY <1>1, <1>2, <1>3, <1>4

\* What a sub loop does in the middle of a handler or functor.
LEMMA TypeContinue ==
    ASSUME Typed, Named, NEW l \in SubLoops,
           \/ CallbackReturns(l) \/ HandOver(l)
           \/ \E c \in Conns : Send(l, c) \/ ShutdownLater(l, c) \/ ShutdownNow(l, c)
                                 \/ ForceClose(l, c)
           \/ ShutdownDone(l) \/ ForceCloseDone(l)
           \/ CloseSocket(l) \/ InvalidateSocket(l) \/ CloseAgain(l)
    PROVE  Typed'
<1> USE DEF Typed
<1> DEFINE c == work[l].conn
<1>0. l \in Loops /\ l \in Threads /\ MainLoop \in Loops /\ Idle \in Work /\ work[l] \in Work
  BY SMTT(30) DEF Loops, Threads, Idle, Work, WorkType
<1>1. work[l].at \notin {"idle", "establish"}
  BY <1>0 DEF CallbackReturns, HandOver, Send, ShutdownLater, ShutdownNow, ForceClose, ShutdownDone,
              ForceCloseDone, CloseSocket, InvalidateSocket, CloseAgain, InCallback, At
<1>2. c \in Conns /\ Begun(c) /\ conn[c].chfd \in Fds
  BY <1>0, <1>1, BusyWith, BegunNumber
<1>3. /\ \A ev : WithEvents(c, ev) \in PollerType
      /\ EnableWriting(c) \in PollerType
      /\ \A p \in PollerType : \A fd : Forget(p, fd) \in PollerType
  BY <1>2, WithEventsType, ForgetType
<1>4. \A fd : KernelClose(fd) => kernel' \in EntryType
  BY KernelType
<1>5. \A w \in Work : [work EXCEPT ![l] = w] \in WorkType
  BY <1>0 DEF WorkType
<1>6. {"Connected", "Disconnected", "Disconnecting"} \subseteq States
  BY DEF States
<1>7. CASE CallbackReturns(l)
  <2>1. /\ work' = [work EXCEPT ![l] = Idle] /\ LetGo(l, work[l].conn)
        /\ fault' \in Faults
    BY <1>7, Zenon DEF CallbackReturns, EndCallback, Faults
  <2>2. work' \in WorkType /\ dying' \in DyingType
    BY <1>0, <1>5, <2>1, LetGoType
  <2> QED BY <1>7, <2>1, <2>2 DEF CallbackReturns, worker
<1>8. CASE HandOver(l)
  <2>1. holds' \in Holding
    BY <1>2, <1>8 DEF HandOver, Holding
  <2> QED BY <1>8, <2>1 DEF HandOver
<1>9. ASSUME NEW d \in Conns, Send(l, d) PROVE Typed'
  <2>1. /\ d = c /\ poller' = EnableWriting(d)
        /\ conn' = [conn EXCEPT ![d].output = TRUE, ![d].events = @ \cup {"write"}]
    BY <1>9 DEF Send, InCallback
  <2>2. conn' \in ConnType
    <3>1. {} \in SUBSET {"read", "write"}
      OBVIOUS
    <3> QED BY <1>6, <2>1, <3>1, ConnSet, Zenon
  <2>3. poller' \in PollerType
    BY <1>3, <2>1
  <2> QED BY <1>9, <2>2, <2>3 DEF Send, worker
<1>10. ASSUME NEW d \in Conns, ShutdownLater(l, d) PROVE Typed'
  <2>1. /\ d = c /\ poller' = EnableWriting(d)
        /\ conn' = [conn EXCEPT ![d].state = "Disconnecting", ![d].events = @ \cup {"write"}]
    BY <1>10 DEF ShutdownLater, InCallback
  <2>2. conn' \in ConnType
    <3>1. {} \in SUBSET {"read", "write"}
      OBVIOUS
    <3> QED BY <1>6, <2>1, <3>1, ConnSet, Zenon
  <2>3. poller' \in PollerType
    BY <1>3, <2>1
  <2> QED BY <1>10, <2>2, <2>3 DEF ShutdownLater, worker
<1>11. ASSUME NEW d \in Conns, ShutdownNow(l, d) PROVE Typed'
  <2>1. /\ conn' = [conn EXCEPT ![d].state = "Disconnecting"]
        /\ poller' = Forget(poller, conn[d].sockfd) /\ KernelClose(conn[d].sockfd)
        /\ work' = [work EXCEPT ![l].at = "shut"] /\ work[l].at = "callback"
    BY <1>11 DEF ShutdownNow, InCallback, At
  <2>2. conn' \in ConnType
    <3>1. {} \in SUBSET {"read", "write"}
      OBVIOUS
    <3> QED BY <1>6, <2>1, <3>1, ConnSet, Zenon
  <2>3. poller' \in PollerType /\ kernel' \in EntryType
    BY <1>3, <1>4, <2>1
  <2>4. work' \in WorkType
    BY <1>0, <1>5, <2>1, WorkAt
  <2> QED BY <1>11, <2>2, <2>3, <2>4 DEF ShutdownNow, worker
<1>12. ASSUME NEW d \in Conns, ForceClose(l, d) PROVE Typed'
  <2>1. /\ d = c /\ conn' = [conn EXCEPT ![d].state = "Disconnected", ![d].events = {}]
        /\ poller' = Forget(WithEvents(d, {}), conn[d].sockfd) /\ KernelClose(conn[d].sockfd)
        /\ work' = [work EXCEPT ![l].at = "forced"] /\ work[l].at = "callback"
    BY <1>12 DEF ForceClose, InCallback, At
  <2>2. conn' \in ConnType
    BY <1>6, <2>1, ConnSet, Zenon
  <2>3. poller' \in PollerType /\ kernel' \in EntryType
    BY <1>3, <1>4, <2>1
  <2>4. work' \in WorkType
    BY <1>0, <1>5, <2>1, WorkAt
  <2> QED BY <1>12, <2>2, <2>3, <2>4 DEF ForceClose, worker
<1>13. CASE ShutdownDone(l) \/ ForceCloseDone(l)
  <2>1. Resume(l) /\ fault' \in Faults
    BY <1>13, Zenon DEF ShutdownDone, ForceCloseDone, Touch, Faults
  <2>2. work' \in WorkType
    BY <1>0, <1>5, <2>1, WorkAt DEF Resume
  <2>3. CASE ShutdownDone(l)
    <3>1. conn' \in ConnType
      <4>1. conn' = [conn EXCEPT ![c].sockfd = Invalid, ![c].state = "Disconnected"]
              /\ {} \in SUBSET {"read", "write"}
        BY <2>3 DEF ShutdownDone
      <4> QED BY <1>2, <1>6, <4>1, ConnSet, Zenon
    <3> QED BY <2>1, <2>2, <2>3, <3>1 DEF ShutdownDone, worker
  <2>4. CASE ForceCloseDone(l)
    <3>1. /\ conn' = [conn EXCEPT ![c].sockfd = Invalid] /\ queue' = Post(queue, MainLoop, "Remove", c)
          /\ closeCalls' = [closeCalls EXCEPT ![c] = @ + 1]
      BY <2>4 DEF ForceCloseDone
    <3>2. conn' \in ConnType
      <4>1. {} \in SUBSET {"read", "write"}
        OBVIOUS
      <4> QED BY <1>2, <1>6, <3>1, <4>1, ConnSet, Zenon
    <3>3. queue' \in QueueType
      <4>1. [call |-> "Remove", conn |-> c] \in Functor
        BY <1>2 DEF Functor
      <4> QED BY <1>0, <1>2, <3>1, <4>1, PostElements
    <3>4. closeCalls' \in CountType
      BY <1>2, <3>1 DEF CountType
    <3> QED BY <2>1, <2>2, <2>4, <3>2, <3>3, <3>4 DEF ForceCloseDone, worker
  <2> QED BY <1>13, <2>3, <2>4
<1>14. CASE CloseSocket(l)
  <2>1. /\ fault' \in Faults /\ KernelClose(conn[c].sockfd)
        /\ poller' = Forget(poller, conn[c].sockfd)
        /\ work' = [work EXCEPT ![l].at = "closed"] /\ work[l].at = "closing"
    BY <1>14, Zenon DEF CloseSocket, Touch, Faults, At
  <2>2. kernel' \in EntryType /\ poller' \in PollerType
    BY <1>3, <1>4, <2>1
  <2>3. work' \in WorkType
    BY <1>0, <1>5, <2>1, WorkAt
  <2> QED BY <1>14, <2>1, <2>2, <2>3 DEF CloseSocket, worker
<1>15. CASE InvalidateSocket(l)
  <2>1. /\ fault' \in Faults /\ conn' = [conn EXCEPT ![c].sockfd = Invalid]
        /\ \/ work' = [work EXCEPT ![l] = [at |-> "again", conn |-> c]]
           \/ work' = [work EXCEPT ![l] = Idle]
    BY <1>15, ZenonT(30) DEF InvalidateSocket, Touch, Faults, ClosedNumber
  <2>2. conn' \in ConnType
    <3>1. {} \in SUBSET {"read", "write"}
      OBVIOUS
    <3> QED BY <1>2, <1>6, <2>1, <3>1, ConnSet, Zenon
  <2>3. work' \in WorkType
    <3>1. [at |-> "again", conn |-> c] \in Work
      BY <1>2 DEF Work
    <3> QED BY <1>0, <1>5, <2>1, <3>1
  <2> QED BY <1>15, <2>1, <2>2, <2>3 DEF InvalidateSocket, worker
<1>16. CASE CloseAgain(l)
  <2>1. HandleClose(l, c, FALSE) /\ fault' \in Faults
          /\ UNCHANGED <<connections, kernel, nextLoop, dying, freed, torn, lost, worker>>
    BY <1>16, Zenon DEF CloseAgain, Touch, Faults
  <2>2. /\ conn' \in ConnType /\ poller' \in PollerType /\ queue' \in QueueType
        /\ closeCalls' \in CountType /\ work' \in WorkType
    BY <1>2, <2>1, TypeHandleClose
  <2> QED BY <2>1, <2>2 DEF worker
<1> QED BY <1>7, <1>8, <1>9, <1>10, <1>11, <1>12, <1>13, <1>14, <1>15, <1>16

\* The application's thread, and the destructor on any thread.
LEMMA TypeOthers ==
    ASSUME Typed, Named,
           \/ \E call \in OtherCalls : TestState(call)
           \/ StoreState \/ PostCall \/ DropPointer
           \/ \E l \in Threads : Destruct(l)
    PROVE  Typed'
<1> USE DEF Typed
<1>0. Worker \in Threads
  BY DEF Threads
<1>1. holds.at \in {"has", "tested", "stored"} => holds.conn \in Conns /\ Begun(holds.conn)
  <2>1. holds.at \in {"has", "tested", "stored"} => holds.at # "nothing" /\ holds # Nothing
    BY DEF Nothing
  <2> QED BY <2>1, HoldsConn DEF Named
<1>2. ASSUME NEW call \in OtherCalls, TestState(call) PROVE Typed'
  <2>1. holds.conn \in Conns /\ call \in DOMAIN Posted
    BY <1>1, <1>2 DEF TestState, Posted
  <2>2. holds' \in Holding
    BY <1>2, <2>1 DEF TestState, Holding
  <2>3. calls' \in 0 .. MaxCalls
    BY <1>2 DEF TestState
  <2> QED BY <1>2, <2>2, <2>3 DEF TestState
<1>3. CASE StoreState
  <2> DEFINE c == holds.conn
  <2>1. /\ c \in Conns /\ holds.at = "tested"
        /\ conn' = [conn EXCEPT ![c].state = "Disconnecting"]
        /\ revived' \subseteq Conns /\ holds' = [holds EXCEPT !.at = "stored"]
    BY <1>1, <1>3 DEF StoreState, Revives
  <2>2. conn' \in ConnType
    <3>1. "Disconnecting" \in States /\ {} \in SUBSET {"read", "write"}
      BY DEF States
    <3> QED BY <2>1, <3>1, ConnSet, Zenon
  <2>3. holds' \in Holding
    BY <2>1 DEF Holding
  <2> QED BY <1>3, <2>1, <2>2, <2>3 DEF StoreState
<1>4. CASE PostCall
  <2> DEFINE c == holds.conn
  <2>1. /\ c \in Conns /\ Begun(c) /\ holds.call \in DOMAIN Posted
        /\ queue' = Post(queue, conn[c].loop, Posted[holds.call], c)
        /\ late' \subseteq Conns /\ holds' = [at |-> "has", conn |-> c]
    BY <1>1, <1>4, HoldsConn DEF PostCall
  <2>2. conn[c].loop \in Loops
    BY <2>1, BegunNumber DEF Loops
  <2>3. [call |-> Posted[holds.call], conn |-> c] \in Functor
    BY <2>1 DEF Functor, RawCalls
  <2>4. queue' \in QueueType
    BY <2>1, <2>2, <2>3, PostElements
  <2>5. holds' \in Holding
    BY <2>1 DEF Holding
  <2> QED BY <1>4, <2>1, <2>4, <2>5 DEF PostCall
<1>5. CASE DropPointer
  <2>1. holds' \in Holding /\ LetGo(Worker, holds.conn)
    BY <1>5 DEF DropPointer, Holding, Nothing
  <2>2. dying' \in DyingType
    BY <1>0, <2>1, LetGoType
  <2> QED BY <1>5, <2>1, <2>2 DEF DropPointer
<1>6. ASSUME NEW l \in Threads, Destruct(l) PROVE Typed'
  <2> DEFINE c == dying[l]
             fd == conn[c].sockfd
  <2>1. c \in Conns
    BY <1>6 DEF Destruct, DyingType
  <2>2. /\ fault' \in Faults /\ poller' = Forget(Unregistered(c), fd) /\ KernelClose(fd)
        /\ freed' = freed \cup {c} /\ dying' = [dying EXCEPT ![l] = None]
    BY <1>6 DEF Destruct, Faults
  <2>3. Unregistered(c) \in PollerType
    <3>1. conn[c].events # {} => conn[c].chfd \in Fds
      BY <2>1 DEF Named
    <3> QED BY <2>1, <3>1, WithEventsType DEF Unregistered
  <2>4. poller' \in PollerType /\ kernel' \in EntryType
    BY <2>2, <2>3, ForgetType, KernelType
  <2>5. dying' \in DyingType
    BY <2>2 DEF DyingType
  <2> QED BY <1>6, <2>1, <2>2, <2>4, <2>5 DEF Destruct, worker
<1> QED BY <1>2, <1>3, <1>4, <1>5, <1>6

LEMMA TypeStep ==
    ASSUME Typed, Named, Establishing, [Next]_vars
    PROVE  Typed'
<1>1. CASE UNCHANGED vars
  BY <1>1 DEF vars, worker, Typed
<1>2. MainLoop \in Threads /\ Worker \in Threads /\ SubLoops \subseteq Threads
  BY DEF Threads, Loops
<1> QED
  BY <1>1, <1>2, TypeMain, TypeFunctors, TypeHandlers, TypeContinue, TypeOthers
  DEF Next, MainContinue, WorkerContinue, Continue

-----------------------------------------------------------------------------
(* The steps: what is under way for whom.                                  *)

\* What a functor that is taken or added does to a queue.
Pops(l) == queue[l] # <<>> /\ queue' = [queue EXCEPT ![l] = Tail(@)]
Posts(l, call, c) ==
    [call |-> call, conn |-> c] \in Functor /\ queue' = Post(queue, l, call, c)

\* Only a connection that has begun changes, and it goes on.
Onward ==
    \A c \in Conns :
        \/ conn'[c] = conn[c]
        \/ /\ Begun(c) /\ Begun(c)'
           /\ conn'[c].chfd = conn[c].chfd /\ conn'[c].loop = conn[c].loop

\* A step that begins nothing.
Routine ==
    /\ Onward
    /\ \/ queue' = queue
       \/ \E l \in Loops : Pops(l)
       \/ \E l \in Loops, c \in Conns, call \in {"Remove", "ConnectDestroyed"} \cup RawCalls :
             /\ Begun(c) /\ (l = MainLoop => call = "Remove")
             /\ Posts(l, call, c)
    /\ \A l \in Loops :
          \/ work'[l] = work[l] \/ work'[l].at = "idle"
          \/ work'[l].at # "establish" /\ Begun(work'[l].conn) /\ work'[l].conn \in Conns
    /\ \/ holds' = holds \/ holds' = Nothing
       \/ holds'.conn \in Conns /\ Begun(holds'.conn)
    /\ \A l \in SubLoops, f \in Fds :
          \/ poller'[l].map[f] \in {poller[l].map[f], None}
          \/ poller'[l].map[f] \in Conns /\ Begun(poller'[l].map[f])

\* Where the functors of the next state come from.
LEMMA QueueSources ==
    ASSUME Typed, NEW l \in Loops
    PROVE  /\ Pops(l) =>
                 \A k \in Loops : \A i \in DOMAIN queue'[k] :
                    LET j == IF k = l THEN i + 1 ELSE i
                    IN  j \in DOMAIN queue[k] /\ queue'[k][i] = queue[k][j]
           /\ \A call : \A c \in Conns : Posts(l, call, c) =>
                 \A k \in Loops : \A i \in DOMAIN queue'[k] :
                    \/ i \in DOMAIN queue[k] /\ queue'[k][i] = queue[k][i]
                    \/ /\ k = l /\ i = Len(queue[l]) + 1
                       /\ queue'[k][i] = [call |-> call, conn |-> c]
<1>0. queue \in QueueType /\ \A k \in Loops : Len(queue[k]) \in Nat
                                           /\ DOMAIN queue[k] = 1 .. Len(queue[k])
  BY LenProperties DEF Typed, QueueType
<1>1. ASSUME Pops(l), NEW k \in Loops, NEW i \in DOMAIN queue'[k]
      PROVE  LET j == IF k = l THEN i + 1 ELSE i
             IN  j \in DOMAIN queue[k] /\ queue'[k][i] = queue[k][j]
  <2>1. /\ queue' \in QueueType
        /\ \A m \in Loops \ {l} : queue'[m] = queue[m]
        /\ Len(queue'[l]) = Len(queue[l]) - 1
        /\ \A m \in 1 .. Len(queue[l]) - 1 : queue'[l][m] = queue[l][m + 1]
    BY <1>0, <1>1, TailElements DEF Pops
  <2>2. DOMAIN queue'[k] = 1 .. Len(queue'[k])
    BY <2>1, LenProperties DEF QueueType
  <2> QED BY <1>0, <1>1, <2>1, <2>2
<1>2. ASSUME NEW call, NEW c \in Conns, Posts(l, call, c), NEW k \in Loops,
             NEW i \in DOMAIN queue'[k]
      PROVE  \/ i \in DOMAIN queue[k] /\ queue'[k][i] = queue[k][i]
             \/ /\ k = l /\ i = Len(queue[l]) + 1
                /\ queue'[k][i] = [call |-> call, conn |-> c]
  <2>1. /\ queue' \in QueueType
        /\ \A m \in Loops \ {l} : queue'[m] = queue[m]
        /\ Len(queue'[l]) = Len(queue[l]) + 1
        /\ \A m \in 1 .. Len(queue[l]) : queue'[l][m] = queue[l][m]
        /\ queue'[l][Len(queue[l]) + 1] = [call |-> call, conn |-> c]
    BY <1>0, <1>2, PostElements DEF Posts
  <2>2. DOMAIN queue'[k] = 1 .. Len(queue'[k])
    BY <2>1, LenProperties DEF QueueType
  <2> QED BY <1>0, <1>2, <2>1, <2>2
<1> QED BY <1>1, <1>2

\* Taking a functor leaves the others one of a kind.
LEMMA PopUnique ==
    ASSUME Typed, Establishing, NEW m \in Loops, Pops(m)
    PROVE  \A l, k \in Loops : \A i \in DOMAIN queue'[l], j \in DOMAIN queue'[k] :
              queue'[l][i].call = "ConnectEstablished" /\ queue'[k][j] = queue'[l][i]
              => l = k /\ i = j
<1> SUFFICES ASSUME NEW l \in Loops, NEW k \in Loops, NEW i \in DOMAIN queue'[l],
                    NEW j \in DOMAIN queue'[k], queue'[l][i].call = "ConnectEstablished",
                    queue'[k][j] = queue'[l][i]
             PROVE  l = k /\ i = j
  OBVIOUS
<1> DEFINE ii == IF l = m THEN i + 1 ELSE i
           jj == IF k = m THEN j + 1 ELSE j
<1>1. ii \in DOMAIN queue[l] /\ queue'[l][i] = queue[l][ii]
  BY QueueSources
<1>2. jj \in DOMAIN queue[k] /\ queue'[k][j] = queue[k][jj]
  BY QueueSources
<1>3. l = k /\ ii = jj
  <2> HIDE DEF ii, jj
  <2> QED BY <1>1, <1>2 DEF Establishing
<1>4. i \in Nat /\ j \in Nat
  <2>1. queue' \in QueueType
    BY TailElements DEF Pops, Typed
  <2> QED BY <2>1, LenProperties DEF QueueType
<1> QED BY <1>3, <1>4

LEMMA RoutineKeeps ==
    ASSUME Typed, Named, Establishing, Routine
    PROVE  Named' /\ Establishing'
<1>1. \A l \in Loops : \A i \in DOMAIN queue[l] : queue[l][i] \in Functor
  BY ElementOfSeq, LenProperties DEF Typed, QueueType
<1>2. \A c \in Conns : /\ Begun(c) => conn'[c].state \notin Early
                       /\ conn[c].state = "Connecting" => conn'[c].state = "Connecting"
  BY DEF Routine, Onward, Begun, Early
\* Each functor waited before, possibly one place further back, or is new and
\* no ConnectEstablished.
<1>3. \A l \in Loops : \A i \in DOMAIN queue'[l] :
         \/ \E j \in DOMAIN queue[l] : queue'[l][i] = queue[l][j]
         \/ /\ queue'[l][i].call # "ConnectEstablished"
            /\ queue'[l][i].conn \in Conns /\ Begun(queue'[l][i].conn)
            /\ l = MainLoop => queue'[l][i].call = "Remove"
  <2>1. CASE queue' = queue
    BY <2>1
  <2>2. ASSUME NEW k \in Loops, Pops(k)
        PROVE  \A l \in Loops : \A i \in DOMAIN queue'[l] :
                  \E j \in DOMAIN queue[l] : queue'[l][i] = queue[l][j]
    BY <2>2, QueueSources
  <2>3. ASSUME NEW k \in Loops, NEW c \in Conns,
               NEW call \in {"Remove", "ConnectDestroyed"} \cup RawCalls,
               Begun(c), k = MainLoop => call = "Remove", Posts(k, call, c)
        PROVE  \A l \in Loops : \A i \in DOMAIN queue'[l] :
                  \/ \E j \in DOMAIN queue[l] : queue'[l][i] = queue[l][j]
                  \/ /\ queue'[l][i].call # "ConnectEstablished"
                     /\ queue'[l][i].conn \in Conns /\ Begun(queue'[l][i].conn)
                     /\ l = MainLoop => queue'[l][i].call = "Remove"
    <3>1. call # "ConnectEstablished"
      BY DEF RawCalls, Posted
    <3>2. \A l \in Loops : \A i \in DOMAIN queue'[l] :
             \/ i \in DOMAIN queue[l] /\ queue'[l][i] = queue[l][i]
             \/ l = k /\ queue'[l][i] = [call |-> call, conn |-> c]
      BY <2>3, QueueSources
    <3> QED BY <2>3, <3>1, <3>2
  <2> QED BY <2>1, <2>2, <2>3 DEF Routine
<1>4. \A l, k \in Loops : \A i \in DOMAIN queue'[l], j \in DOMAIN queue'[k] :
         queue'[l][i].call = "ConnectEstablished" /\ queue'[k][j] = queue'[l][i] => l = k /\ i = j
  <2>1. CASE queue' = queue
    BY <2>1 DEF Establishing
  <2>2. ASSUME NEW m \in Loops, Pops(m),
               NEW l \in Loops, NEW k \in Loops, NEW i \in DOMAIN queue'[l],
               NEW j \in DOMAIN queue'[k], queue'[l][i].call = "ConnectEstablished",
               queue'[k][j] = queue'[l][i]
        PROVE  l = k /\ i = j
    BY <2>2, PopUnique
  <2>3. ASSUME NEW m \in Loops, NEW c \in Conns,
               NEW call \in {"Remove", "ConnectDestroyed"} \cup RawCalls, Posts(m, call, c),
               NEW l \in Loops, NEW k \in Loops, NEW i \in DOMAIN queue'[l],
               NEW j \in DOMAIN queue'[k], queue'[l][i].call = "ConnectEstablished",
               queue'[k][j] = queue'[l][i]
        PROVE  l = k /\ i = j
    <3>1. call # "ConnectEstablished"
      BY DEF RawCalls, Posted
    <3>2. /\ \/ i \in DOMAIN queue[l] /\ queue'[l][i] = queue[l][i]
             \/ queue'[l][i] = [call |-> call, conn |-> c]
          /\ \/ j \in DOMAIN queue[k] /\ queue'[k][j] = queue[k][j]
             \/ queue'[k][j] = [call |-> call, conn |-> c]
      BY <2>3, QueueSources
    <3>3. /\ i \in DOMAIN queue[l] /\ queue'[l][i] = queue[l][i]
          /\ j \in DOMAIN queue[k] /\ queue'[k][j] = queue[k][j]
      BY <2>3, <3>1, <3>2
    <3> QED BY <2>3, <3>3 DEF Establishing
  <2> QED BY <2>1, <2>2, <2>3 DEF Routine
<1>5. Named'
  <2>1. \A c \in Conns :
           \/ conn'[c].chfd \in Fds /\ conn'[c].loop \in SubLoops
           \/ conn'[c].state = "Unborn" /\ conn'[c].events = {}
    BY BegunNumber DEF Routine, Onward, Named
  <2>2. \A l \in Loops : \A i \in DOMAIN queue'[l] :
           /\ queue'[l][i].call # "ConnectEstablished" => conn'[queue'[l][i].conn].state \notin Early
           /\ l = MainLoop => queue'[l][i].call = "Remove"
    <3>1. \A l \in Loops : \A j \in DOMAIN queue[l] :
             /\ queue[l][j].call # "ConnectEstablished" => conn'[queue[l][j].conn].state \notin Early
             /\ l = MainLoop => queue[l][j].call = "Remove"
      BY <1>1, <1>2 DEF Named, Functor
    <3> QED BY <1>2, <1>3, <3>1
  <2>3. \A l \in Loops :
           /\ work'[l].at \notin {"idle", "establish"} => conn'[work'[l].conn].state \notin Early
           /\ work'[l].at = "establish" => l = MainLoop
    <3>1. ASSUME NEW l \in Loops
          PROVE  /\ work[l].at \notin {"idle", "establish"} => conn'[work[l].conn].state \notin Early
                 /\ work[l].at = "establish" => l = MainLoop
      BY <1>2, BusyWith DEF Named
    <3> QED BY <1>2, <3>1 DEF Routine
  <2>4. holds' # Nothing => conn'[holds'.conn].state \notin Early
    <3>1. holds # Nothing => holds.conn \in Conns /\ Begun(holds.conn)
      <4>1. holds.at = "nothing" => holds = Nothing
        BY DEF Typed, Holding, Nothing
      <4> QED BY <4>1, HoldsConn DEF Typed, Named
    <3> QED BY <1>2, <3>1 DEF Routine
  <2>5. \A l \in SubLoops, f \in Fds : poller'[l].map[f] # None => conn'[poller'[l].map[f]].state \notin Early
    <3>1. \A l \in SubLoops, f \in Fds : poller[l].map[f] # None =>
             poller[l].map[f] \in Conns /\ Begun(poller[l].map[f])
      BY DEF Typed, PollerType, PollerRecord, Named
    <3> QED BY <1>2, <3>1 DEF Routine
  <2> QED BY <2>1, <2>2, <2>3, <2>4, <2>5 DEF Named, Begun
<1>6. Establishing'
  <2>1. \A l \in Loops : \A i \in DOMAIN queue'[l] :
           queue'[l][i].call = "ConnectEstablished" =>
              \E j \in DOMAIN queue[l] : queue'[l][i] = queue[l][j]
    BY <1>3
  <2>2. \A l \in Loops : \A i \in DOMAIN queue'[l] :
           queue'[l][i].call = "ConnectEstablished" =>
              conn'[queue'[l][i].conn].state = "Connecting"
    BY <1>1, <1>2, <2>1 DEF Establishing, Functor
  <2>3. work'[MainLoop].at = "establish" => work'[MainLoop] = work[MainLoop]
    BY DEF Routine, Loops
  <2>4. work[MainLoop].at = "establish" => work[MainLoop].conn \in Conns
    BY WorkConn DEF Typed, WorkType, Loops
  <2>5. work'[MainLoop].at = "establish" =>
           /\ conn'[work'[MainLoop].conn].state = "Connecting"
           /\ \A l \in Loops : \A i \in DOMAIN queue'[l] :
                 queue'[l][i].call = "ConnectEstablished" =>
                    queue'[l][i].conn # work'[MainLoop].conn
    BY <1>2, <2>1, <2>3, <2>4 DEF Establishing
  <2> QED BY <1>4, <2>2, <2>5 DEF Establishing
<1> QED BY <1>5, <1>6

\* The entries of the pollers' maps after a step on behalf of connection c.
PollerGoes(p, c) ==
    \A l \in SubLoops, f \in Fds : p[l].map[f] \in {poller[l].map[f], None, c}

LEMMA PollerNames ==
    ASSUME Typed, NEW c \in Conns, conn[c].chfd \in Fds
    PROVE  /\ PollerGoes(poller, c)
           /\ \A ev : PollerGoes(WithEvents(c, ev), c)
           /\ PollerGoes(EnableWriting(c), c)
           /\ \A p \in PollerType : \A fd : PollerGoes(p, c) => PollerGoes(Forget(p, fd), c)
<1>1. \A l \in SubLoops : poller[l] \in PollerRecord
  BY DEF Typed, PollerType
<1>2. \A ev : PollerGoes(WithEvents(c, ev), c)
  <2> SUFFICES ASSUME NEW ev, NEW l \in SubLoops, NEW f \in Fds
               PROVE  WithEvents(c, ev)[l].map[f] \in {poller[l].map[f], None, c}
    BY DEF PollerGoes
  <2> DEFINE open == kernel[conn[c].chfd] # None
  <2>1. \/ WithEvents(c, ev)[l] = poller[l]
        \/ WithEvents(c, ev)[l] = UpdateChannel(poller[l], conn[c].chfd, c, ev, open)
    BY DEF WithEvents, Typed, PollerType
  <2> HIDE DEF open
  <2>2. UpdateChannel(poller[l], conn[c].chfd, c, ev, open).map[f] \in {poller[l].map[f], None, c}
    BY <1>1 DEF UpdateChannel, RemoveChannel, PollerRecord
  <2> QED BY <2>1, <2>2
<1>3. PollerGoes(poller, c)
  BY DEF PollerGoes
<1>4. ASSUME NEW p \in PollerType, NEW fd, PollerGoes(p, c)
      PROVE  PollerGoes(Forget(p, fd), c)
  <2>1. \A l \in SubLoops : Forget(p, fd)[l].map = p[l].map
    BY DEF Forget, Forgotten, PollerType, PollerRecord
  <2> QED BY <1>4, <2>1 DEF PollerGoes
<1> QED BY <1>2, <1>3, <1>4 DEF EnableWriting

-----------------------------------------------------------------------------
(* The steps: the removal and the count of the close callbacks.            *)

\* What a step on behalf of c does to the queues: a functor of the removal that
\* is taken leads to the next stage.
Queued(c) ==
    \/ queue' = queue
    \/ \E l \in Loops :
          /\ Pops(l)
          /\ Head(queue[l]).call = "Remove" =>
                work'[MainLoop] = [at |-> "destroy", conn |-> Head(queue[l]).conn]
          /\ Head(queue[l]).call = "ConnectDestroyed" => Head(queue[l]).conn \in torn'
    \/ \E l \in Loops, call \in {"Remove", "ConnectDestroyed"} \cup RawCalls :
          (l = MainLoop => call = "Remove") /\ Posts(l, call, c)

\* A step that leaves no removal behind, on behalf of c.
Follows(c) ==
    /\ fault' = "none" => fault = "none"
    /\ torn \subseteq torn'
    /\ Queued(c) \/ \E l \in Loops : Posts(l, "ConnectEstablished", c)
    /\ \/ closeCalls' = closeCalls
       \/ /\ Posts(MainLoop, "Remove", c)
          /\ \A d \in Conns \ {c} : closeCalls'[d] = closeCalls[d]
    /\ \/ work'[MainLoop] = work[MainLoop] \/ work[MainLoop].at # "destroy"
       \/ \E l \in Loops : Posts(l, "ConnectDestroyed", work[MainLoop].conn)

\* A step that neither runs a close callback nor gets ready to.
Quiet ==
    /\ closeCalls' = closeCalls /\ revived \subseteq revived'
    /\ \A c \in Conns \ revived' :
          conn[c].state = "Disconnected" => conn'[c].state = "Disconnected"
    /\ \A l \in Loops :
          work'[l] = work[l] \/ work'[l].at \notin {"forced", "rawForced"}

LEMMA QuietOnce ==
    ASSUME Once, Quiet
    PROVE  Once'
<1>1. \A l \in Loops, c \in Conns : Forcing(l, c)' => Forcing(l, c)
  BY DEF Quiet, Forcing
<1> QED BY <1>1 DEF Quiet, Once

\* A functor that waits goes on waiting unless it is the one taken.
LEMMA Waits ==
    ASSUME Typed, NEW l \in Loops, NEW i \in DOMAIN queue[l], NEW c \in Conns,
           Queued(c) \/ \E k \in Loops : Posts(k, "ConnectEstablished", c)
    PROVE  \/ \E j \in DOMAIN queue'[l] : queue'[l][j] = queue[l][i]
           \/ /\ queue[l][i].call = "Remove" =>
                    work'[MainLoop] = [at |-> "destroy", conn |-> queue[l][i].conn]
              /\ queue[l][i].call = "ConnectDestroyed" => queue[l][i].conn \in torn'
<1>0. queue \in QueueType /\ \A k \in Loops : Len(queue[k]) \in Nat
                                           /\ DOMAIN queue[k] = 1 .. Len(queue[k])
  BY LenProperties DEF Typed, QueueType
<1>1. CASE queue' = queue
  BY <1>1
<1>2. ASSUME NEW k \in Loops, Pops(k),
             Head(queue[k]).call = "Remove" =>
                work'[MainLoop] = [at |-> "destroy", conn |-> Head(queue[k]).conn],
             Head(queue[k]).call = "ConnectDestroyed" => Head(queue[k]).conn \in torn'
      PROVE  \/ \E j \in DOMAIN queue'[l] : queue'[l][j] = queue[l][i]
             \/ /\ queue[l][i].call = "Remove" =>
                      work'[MainLoop] = [at |-> "destroy", conn |-> queue[l][i].conn]
                /\ queue[l][i].call = "ConnectDestroyed" => queue[l][i].conn \in torn'
  <2>1. /\ queue' \in QueueType /\ Head(queue[k]) = queue[k][1]
        /\ \A m \in Loops \ {k} : queue'[m] = queue[m]
        /\ Len(queue'[k]) = Len(queue[k]) - 1
        /\ \A m \in 1 .. Len(queue[k]) - 1 : queue'[k][m] = queue[k][m + 1]
    BY <1>0, <1>2, TailElements DEF Pops
  <2>2. DOMAIN queue'[l] = 1 .. Len(queue'[l])
    BY <2>1, LenProperties DEF QueueType
  <2>3. CASE k # l
    BY <2>1, <2>3
  <2>4. CASE k = l /\ i = 1
    BY <1>2, <2>1, <2>4
  <2>5. CASE k = l /\ i # 1
    <3>1. DOMAIN queue[l] = 1 .. Len(queue[l]) /\ Len(queue[l]) \in Nat
      BY <1>0
    <3>2. i - 1 \in 1 .. Len(queue[l]) - 1 /\ (i - 1) + 1 = i
      BY <2>5, <3>1
    <3>3. queue'[l][i - 1] = queue[l][(i - 1) + 1] /\ i - 1 \in DOMAIN queue'[l]
      BY <2>1, <2>2, <2>5, <3>2
    <3> QED BY <3>2, <3>3
  <2> QED BY <2>3, <2>4, <2>5
<1>3. ASSUME NEW k \in Loops, NEW call, Posts(k, call, c)
      PROVE  \E j \in DOMAIN queue'[l] : queue'[l][j] = queue[l][i]
  <2>1. /\ queue' \in QueueType
        /\ \A m \in Loops \ {k} : queue'[m] = queue[m]
        /\ Len(queue'[k]) = Len(queue[k]) + 1
        /\ \A m \in 1 .. Len(queue[k]) : queue'[k][m] = queue[k][m]
    BY <1>0, <1>3, PostElements DEF Posts
  <2>2. DOMAIN queue'[l] = 1 .. Len(queue'[l])
    BY <2>1, LenProperties DEF QueueType
  <2>3. i \in DOMAIN queue'[l] /\ queue'[l][i] = queue[l][i]
    BY <1>0, <2>1, <2>2
  <2> QED BY <2>3
<1> QED BY <1>1, <1>2, <1>3 DEF Queued

\* What is posted waits.
LEMMA PostedWaits ==
    ASSUME Typed, NEW l \in Loops, NEW call, NEW c \in Conns, Posts(l, call, c)
    PROVE  \E k \in Loops : \E i \in DOMAIN queue'[k] :
              queue'[k][i].conn = c /\ queue'[k][i].call = call
<1>1. /\ queue' \in QueueType /\ Len(queue[l]) \in Nat
      /\ Len(queue'[l]) = Len(queue[l]) + 1
      /\ queue'[l][Len(queue[l]) + 1] = [call |-> call, conn |-> c]
  BY PostElements, LenProperties DEF Posts, Typed, QueueType
<1>2. Len(queue[l]) + 1 \in DOMAIN queue'[l]
  BY <1>1, LenProperties DEF QueueType
<1> QED BY <1>1, <1>2

LEMMA FollowsUnderway ==
    ASSUME Typed, Underway, NEW c \in Conns, Follows(c)
    PROVE  Underway'
<1> DEFINE Waiting(d) == \E l \in Loops : \E i \in DOMAIN queue[l] :
              queue[l][i].conn = d /\ queue[l][i].call \in {"Remove", "ConnectDestroyed"}
           WaitingNext(d) == \E l \in Loops : \E i \in DOMAIN queue'[l] :
              queue'[l][i].conn = d /\ queue'[l][i].call \in {"Remove", "ConnectDestroyed"}
<1> SUFFICES ASSUME NEW d \in Conns, closeCalls'[d] > 0
             PROVE  \/ d \in torn' \/ work'[MainLoop] = [at |-> "destroy", conn |-> d]
                    \/ WaitingNext(d)
  BY DEF Underway
<1>0. MainLoop \in Loops
  BY DEF Loops
<1>1. \A l \in Loops, call \in {"Remove", "ConnectDestroyed"} : Posts(l, call, d) => WaitingNext(d)
  BY PostedWaits
<1>2. CASE closeCalls[d] > 0
  <2>1. d \in torn \/ work[MainLoop] = [at |-> "destroy", conn |-> d] \/ Waiting(d)
    BY <1>2 DEF Underway
  <2>2. CASE d \in torn
    BY <2>2 DEF Follows
  <2>3. CASE work[MainLoop] = [at |-> "destroy", conn |-> d]
    <3>1. \/ work'[MainLoop] = work[MainLoop]
          \/ \E l \in Loops : Posts(l, "ConnectDestroyed", d)
      BY <2>3 DEF Follows
    <3> QED BY <1>1, <2>3, <3>1
  <2>4. CASE Waiting(d)
    <3>0. PICK l \in Loops : \E i \in DOMAIN queue[l] :
             queue[l][i].conn = d /\ queue[l][i].call \in {"Remove", "ConnectDestroyed"}
      BY <2>4
    <3>1. PICK i \in DOMAIN queue[l] :
             queue[l][i].conn = d /\ queue[l][i].call \in {"Remove", "ConnectDestroyed"}
      BY <3>0
    <3>2. \/ \E j \in DOMAIN queue'[l] : queue'[l][j] = queue[l][i]
          \/ d \in torn' \/ work'[MainLoop] = [at |-> "destroy", conn |-> d]
      BY <3>1, Waits DEF Follows
    <3> QED BY <3>1, <3>2
  <2> QED BY <2>1, <2>2, <2>3, <2>4
<1>3. CASE ~(closeCalls[d] > 0)
  <2>1. closeCalls'[d] # closeCalls[d]
    BY <1>3
  <2>2. d = c /\ Posts(MainLoop, "Remove", d)
    BY <2>1 DEF Follows
  <2> QED BY <1>0, <1>1, <2>2
<1> QED BY <1>2, <1>3

\* A step on behalf of a connection that has begun.
LEMMA StepOf ==
    ASSUME Typed, Named, NEW c \in Conns, Begun(c), NEW s, Alike(conn', conn, c, s),
           s \notin Early, Queued(c),
           \A l \in Loops :
              \/ work'[l] = work[l] \/ work'[l].at = "idle"
              \/ work'[l].at # "establish" /\ work'[l].conn = c,
           holds' = holds \/ holds' = Nothing \/ holds'.conn = c,
           PollerGoes(poller', c)
    PROVE  Routine
<1>1. Onward
  BY DEF Onward, Begun, Alike
<1>2. \A l \in SubLoops, f \in Fds :
         \/ poller'[l].map[f] \in {poller[l].map[f], None}
         \/ poller'[l].map[f] \in Conns /\ Begun(poller'[l].map[f])
  BY DEF PollerGoes
<1>3. \/ queue' = queue
      \/ \E l \in Loops : Pops(l)
      \/ \E l \in Loops, d \in Conns, call \in {"Remove", "ConnectDestroyed"} \cup RawCalls :
            /\ Begun(d) /\ (l = MainLoop => call = "Remove")
            /\ Posts(l, call, d)
  BY DEF Queued
<1> QED BY <1>1, <1>2, <1>3 DEF Routine

\* IInv is the types and these.
Kept == Named /\ Establishing /\ Once /\ Underway

LEMMA QuietStep ==
    ASSUME Typed, Kept, NEW c \in Conns, Routine, Follows(c), Quiet
    PROVE  Kept'
BY RoutineKeeps, QuietOnce, FollowsUnderway DEF Kept

LEMMA WorkMoves ==
    ASSUME NEW w \in Work, w.at # "idle", NEW a
    PROVE  [w EXCEPT !.at = a].at = a /\ [w EXCEPT !.at = a].conn = w.conn
<1>1. CASE w \in [at : {"closing", "closed"}, conn : Conns, again : BOOLEAN]
  BY <1>1
<1>2. CASE w \in [at : {"callback", "forced", "shut"}, conn : Conns, handler : BOOLEAN]
  BY <1>2
<1>3. CASE w \in [at : {"establish", "destroy", "release", "again", "rawForced", "rawShut"},
                  conn : Conns]
  BY <1>3
<1> QED BY <1>1, <1>2, <1>3 DEF Work

LEMMA WorkDestroy ==
    ASSUME NEW w \in Work, w.at = "destroy"
    PROVE  w = [at |-> "destroy", conn |-> w.conn]
BY DEF Work

\* The steps of the main loop, but those of an accept.
LEMMA MainKeeps ==
    ASSUME Typed, Kept, Remove \/ PostDestroyed \/ ReleaseLambda
    PROVE  Kept'
<1>0. /\ MainLoop \in Loops /\ work \in WorkType /\ work[MainLoop] \in Work
      /\ Named /\ Establishing /\ conn \in ConnType
  BY DEF Loops, Typed, WorkType, Kept
<1>1. CASE Remove
  <2> DEFINE c == Head(queue[MainLoop]).conn
  <2>1. queue[MainLoop] # <<>> /\ c \in Conns /\ Begun(c) /\ conn[c].chfd \in Fds
    BY <1>0, <1>1, HeadNames, ZenonT(30) DEF Remove
  <2>2. /\ conn' = conn /\ Pops(MainLoop) /\ poller' = poller /\ holds' = holds
        /\ closeCalls' = closeCalls /\ revived' = revived /\ torn' = torn
        /\ work' = [work EXCEPT ![MainLoop] = [at |-> "destroy", conn |-> c]]
        /\ fault = "none" /\ work[MainLoop] = Idle
    BY <1>1, Zenon DEF Remove, Pops, AfterErase, worker, IsIdle, Free
  <2>3. /\ work'[MainLoop] = [at |-> "destroy", conn |-> c]
        /\ \A l \in Loops \ {MainLoop} : work'[l] = work[l]
    BY <1>0, <2>2 DEF WorkType
  <2>4. PollerGoes(poller', c) /\ Alike(conn', conn, c, conn[c].state)
    BY <1>0, <2>1, <2>2, PollerNames DEF Alike
  <2>5. Head(queue[MainLoop]).call = "Remove"
    BY <1>0, <2>1, HeadNames
  <2>6. Queued(c)
    BY <1>0, <2>2, <2>3, <2>5 DEF Queued
  <2> HIDE DEF c
  <2>7. \A l \in Loops :
           \/ work'[l] = work[l] \/ work'[l].at = "idle"
           \/ work'[l].at # "establish" /\ work'[l].conn = c
    BY <2>3
  <2>8. Routine
    BY <1>0, <2>1, <2>2, <2>4, <2>6, <2>7, StepOf DEF Begun
  <2>9. Follows(c)
    BY <1>0, <2>2, <2>6 DEF Follows, Idle
  <2>10. Quiet
    BY <2>2, <2>3 DEF Quiet
  <2> QED BY <2>1, <2>8, <2>9, <2>10, QuietStep
<1>2. CASE PostDestroyed
  <2> DEFINE c == work[MainLoop].conn
  <2>1. c \in Conns /\ Begun(c) /\ conn[c].chfd \in Fds /\ conn[c].loop \in SubLoops
    BY <1>0, <1>2, BusyWith, BegunNumber DEF PostDestroyed, At
  <2>2. /\ conn' = conn /\ poller' = poller /\ holds' = holds
        /\ closeCalls' = closeCalls /\ revived' = revived /\ torn' = torn /\ fault' = fault
        /\ queue' = Post(queue, conn[c].loop, "ConnectDestroyed", c)
        /\ work' = [work EXCEPT ![MainLoop].at = "release"] /\ work[MainLoop].at = "destroy"
    BY <1>2 DEF PostDestroyed, worker, At
  <2>3. /\ work'[MainLoop].at = "release" /\ work'[MainLoop].conn = c
        /\ \A l \in Loops \ {MainLoop} : work'[l] = work[l]
    <3>1. work' = [work EXCEPT ![MainLoop] = [work[MainLoop] EXCEPT !.at = "release"]]
      BY <2>2
    <3> QED BY <1>0, <2>2, <3>1, WorkMoves DEF WorkType
  <2>4. PollerGoes(poller', c) /\ Alike(conn', conn, c, conn[c].state)
    BY <1>0, <2>1, <2>2, PollerNames DEF Alike
  <2>5. conn[c].loop \in Loops /\ conn[c].loop # MainLoop
    BY <2>1 DEF Loops, SubLoops, MainLoop
  <2>6. Posts(conn[c].loop, "ConnectDestroyed", c)
    BY <2>1, <2>2 DEF Posts, Functor
  <2> HIDE DEF c
  <2>7. Queued(c)
    BY <2>5, <2>6 DEF Queued
  <2>8. \A l \in Loops :
           \/ work'[l] = work[l] \/ work'[l].at = "idle"
           \/ work'[l].at # "establish" /\ work'[l].conn = c
    BY <2>3
  <2>9. Routine
    BY <1>0, <2>1, <2>2, <2>4, <2>7, <2>8, StepOf DEF Begun
  <2>10. Follows(c)
    <3>1. work[MainLoop].conn = c
      BY DEF c
    <3> QED BY <2>2, <2>5, <2>6, <2>7, <3>1 DEF Follows
  <2>11. Quiet
    BY <2>2, <2>3 DEF Quiet
  <2> QED BY <2>1, <2>9, <2>10, <2>11, QuietStep
<1>3. CASE ReleaseLambda
  <2> DEFINE c == work[MainLoop].conn
  <2>1. c \in Conns /\ Begun(c) /\ conn[c].chfd \in Fds
    BY <1>0, <1>3, BusyWith, BegunNumber DEF ReleaseLambda, At
  <2>2. /\ conn' = conn /\ poller' = poller /\ holds' = holds /\ queue' = queue
        /\ closeCalls' = closeCalls /\ revived' = revived /\ torn' = torn /\ fault' = fault
        /\ work' = [work EXCEPT ![MainLoop] = Idle] /\ work[MainLoop].at = "release"
    BY <1>3 DEF ReleaseLambda, worker, At
  <2>3. \A l \in Loops : work'[l] = work[l] \/ work'[l].at = "idle"
    BY <1>0, <2>2 DEF WorkType, Idle
  <2>4. PollerGoes(poller', c) /\ Alike(conn', conn, c, conn[c].state) /\ Queued(c)
    BY <1>0, <2>1, <2>2, PollerNames DEF Alike, Queued
  <2> HIDE DEF c
  <2>5. Routine
    BY <1>0, <2>1, <2>2, <2>3, <2>4, StepOf DEF Begun
  <2>6. Follows(c) /\ Quiet
    BY <2>2, <2>3, <2>4 DEF Follows, Quiet
  <2> QED BY <2>1, <2>5, <2>6, QuietStep
<1> QED BY <1>1, <1>2, <1>3

\* A step of sub loop l on behalf of c.
LEMMA SubStep ==
    ASSUME Typed, Kept, NEW l \in SubLoops, NEW c \in Conns, Begun(c), NEW s, Alike(conn', conn, c, s),
           s \notin Early, Queued(c),
           \A k \in Loops \ {l} : work'[k] = work[k],
           \/ work'[l] = work[l] \/ work'[l].at = "idle"
           \/ work'[l].at # "establish" /\ work'[l].conn = c,
           holds' = holds \/ holds'.conn = c,
           PollerGoes(poller', c),
           fault' = "none" => fault = "none", torn \subseteq torn',
           \/ closeCalls' = closeCalls
           \/ /\ Posts(MainLoop, "Remove", c)
              /\ \A d \in Conns \ {c} : closeCalls'[d] = closeCalls[d]
    PROVE  Routine /\ Follows(c)
<1>1. Routine
  BY StepOf DEF Kept
<1>2. work'[MainLoop] = work[MainLoop]
  BY DEF Loops, SubLoops, MainLoop
<1>3. Follows(c)
  BY <1>2 DEF Follows
<1> QED BY <1>1, <1>3

LEMMA SubQuiet ==
    ASSUME Typed, Kept, NEW l \in SubLoops, NEW c \in Conns, Begun(c), NEW s, Alike(conn', conn, c, s),
           s \notin Early, Queued(c),
           \A k \in Loops \ {l} : work'[k] = work[k],
           \/ work'[l] = work[l] \/ work'[l].at = "idle"
           \/ work'[l].at \notin {"establish", "forced", "rawForced"} /\ work'[l].conn = c,
           holds' = holds \/ holds'.conn = c,
           PollerGoes(poller', c),
           fault' = "none" => fault = "none", torn \subseteq torn', closeCalls' = closeCalls,
           revived \subseteq revived',
           conn[c].state = "Disconnected" => s = "Disconnected" \/ c \in revived'
    PROVE  Kept'
<1>1. Routine /\ Follows(c)
  BY SubStep
<1>2. Quiet
  <2>1. \A d \in Conns \ revived' :
           conn[d].state = "Disconnected" => conn'[d].state = "Disconnected"
    BY DEF Alike
  <2>2. \A k \in Loops : work'[k] = work[k] \/ work'[k].at \notin {"forced", "rawForced"}
    OBVIOUS
  <2> QED BY <2>1, <2>2 DEF Quiet
<1> QED BY <1>1, <1>2, QuietStep

\* A close callback that runs for the first time.
LEMMA OnceCloses ==
    ASSUME Typed, Once, NEW c \in Conns, conn[c].state # "Disconnected",
           Alike(conn', conn, c, "Disconnected"),
           closeCalls' = [closeCalls EXCEPT ![c] = @ + 1], revived' = revived,
           \A l \in Loops : work'[l] = work[l] \/ work'[l].at \notin {"forced", "rawForced"}
    PROVE  Once'
<1>1. c \notin revived => closeCalls[c] = 0 /\ \A l \in Loops : ~Forcing(l, c)
  BY DEF Once, Typed, CountType
<1>2. closeCalls'[c] = closeCalls[c] + 1 /\ \A d \in Conns \ {c} : closeCalls'[d] = closeCalls[d]
  BY DEF Typed, CountType
<1>3. \A l \in Loops, d \in Conns : Forcing(l, d)' => Forcing(l, d)
  BY DEF Forcing
<1> QED BY <1>1, <1>2, <1>3 DEF Once, Alike

\* ForceCloseInLoop begins ...
LEMMA OnceBegins ==
    ASSUME Typed, Once, NEW l \in Loops, NEW c \in Conns, conn[c].state # "Disconnected",
           Alike(conn', conn, c, "Disconnected"),
           closeCalls' = closeCalls, revived' = revived,
           \A k \in Loops \ {l} : work'[k] = work[k], work'[l].conn = c
    PROVE  Once'
<1>1. c \notin revived => closeCalls[c] = 0 /\ \A k \in Loops : ~Forcing(k, c)
  BY DEF Once, Typed, CountType
<1>2. ASSUME NEW k \in Loops, NEW d \in Conns, Forcing(k, d)', ~Forcing(k, d)
      PROVE  k = l /\ d = c
  <2>1. k = l
    BY <1>2 DEF Forcing
  <2>2. work'[l].conn = d
    BY <1>2, <2>1 DEF Forcing
  <2> QED BY <2>1, <2>2
<1> QED BY <1>1, <1>2 DEF Once, Alike

\* ... and runs the close callback at its end.
LEMMA OnceEnds ==
    ASSUME Typed, Once, NEW l \in Loops, NEW c \in Conns, Forcing(l, c),
           Alike(conn', conn, c, conn[c].state),
           closeCalls' = [closeCalls EXCEPT ![c] = @ + 1], revived' = revived,
           \A k \in Loops \ {l} : work'[k] = work[k],
           work'[l].at \notin {"forced", "rawForced"}
    PROVE  Once'
<1>1. c \notin revived => closeCalls[c] = 0 /\ conn[c].state = "Disconnected"
                            /\ \A k \in Loops : Forcing(k, c) => k = l
  BY DEF Once
<1>2. closeCalls'[c] = closeCalls[c] + 1 /\ \A d \in Conns \ {c} : closeCalls'[d] = closeCalls[d]
  BY DEF Typed, CountType
<1>3. \A k \in Loops, d \in Conns : Forcing(k, d)' => Forcing(k, d) /\ k # l
  BY DEF Forcing
<1> QED BY <1>1, <1>2, <1>3 DEF Once, Alike

LEMMA HandleCloseKeeps ==
    ASSUME Typed, Kept, NEW l \in SubLoops, NEW c \in Conns, Begun(c), NEW again,
           HandleClose(l, c, again), UNCHANGED <<torn, worker>>,
           fault' = "none" => fault = "none"
    PROVE  Kept'
<1>0. /\ l \in Loops /\ MainLoop \in Loops /\ Named /\ Once /\ conn[c].chfd \in Fds
      /\ conn \in ConnType /\ work \in WorkType
      /\ holds' = holds /\ revived' = revived /\ torn' = torn
  BY BegunNumber DEF Loops, Kept, Typed, worker
<1>1. /\ \A k \in Loops \ {l} : work'[k] = work[k]
      /\ work'[l] \in {Idle, [at |-> "closing", conn |-> c, again |-> again]}
  BY <1>0 DEF HandleClose, WorkType
<1>2. \/ work'[l].at = "idle"
      \/ work'[l].at \notin {"establish", "forced", "rawForced"} /\ work'[l].conn = c
  BY <1>1 DEF Idle
<1>3. CASE MustClose(c)
  <2>1. /\ conn' = [conn EXCEPT ![c].state = "Disconnected", ![c].events = {}]
        /\ poller' = WithEvents(c, {}) /\ queue' = Post(queue, MainLoop, "Remove", c)
        /\ closeCalls' = [closeCalls EXCEPT ![c] = @ + 1] /\ conn[c].state # "Disconnected"
    BY <1>3 DEF HandleClose, MustClose
  <2>2. Alike(conn', conn, c, "Disconnected")
    <3>1. "Disconnected" \in States /\ {} \in SUBSET {"read", "write"} /\ TRUE \in BOOLEAN
      BY DEF States
    <3> QED BY <1>0, <2>1, <3>1, ConnChanges, Zenon DEF Same
  <2>3. PollerGoes(poller', c)
    BY <1>0, <2>1, PollerNames
  <2>4. Posts(MainLoop, "Remove", c)
    BY <2>1 DEF Posts, Functor
  <2>5. Queued(c)
    BY <1>0, <2>4 DEF Queued
  <2>6. \A d \in Conns \ {c} : closeCalls'[d] = closeCalls[d]
    BY <2>1 DEF Typed, CountType
  <2>7. Routine /\ Follows(c)
    BY <1>0, <1>1, <1>2, <2>2, <2>3, <2>4, <2>5, <2>6, SubStep DEF Early
  <2>8. Once'
    <3>1. \A k \in Loops : work'[k] = work[k] \/ work'[k].at \notin {"forced", "rawForced"}
      BY <1>1, <1>2
    <3> QED BY <1>0, <2>1, <2>2, <3>1, OnceCloses
  <2> QED BY <2>7, <2>8, RoutineKeeps, FollowsUnderway DEF Kept
<1>4. CASE ~MustClose(c)
  <2>1. UNCHANGED <<conn, poller, queue, closeCalls>>
    BY <1>4 DEF HandleClose
  <2>2. Alike(conn', conn, c, conn[c].state) /\ PollerGoes(poller', c) /\ Queued(c)
    BY <1>0, <2>1, PollerNames DEF Alike, Queued
  <2> QED BY <1>0, <1>1, <1>2, <2>1, <2>2, SubQuiet DEF Begun
<1> QED BY <1>3, <1>4

LEMMA FunctorsKeep ==
    ASSUME Typed, Kept, NEW l \in SubLoops,
           ConnectDestroyed(l) \/ SendInLoop(l) \/ ShutdownInLoop(l) \/ ForceCloseInLoop(l)
    PROVE  Kept'
<1> DEFINE c == Head(queue[l]).conn
<1>0. /\ l \in Loops /\ conn \in ConnType /\ work \in WorkType /\ poller \in PollerType
      /\ Named /\ Establishing /\ Once
      /\ {"Connected", "Disconnected"} \subseteq States /\ {} \in SUBSET {"read", "write"}
      /\ TRUE \in BOOLEAN
  BY DEF Loops, Typed, Kept, States
<1>1. /\ queue[l] # <<>> /\ queue' = [queue EXCEPT ![l] = Tail(@)]
      /\ Head(queue[l]).call \notin {"ConnectEstablished", "Remove"}
      /\ Head(queue[l]).call = "ConnectDestroyed" => ConnectDestroyed(l)
      /\ fault = "none" /\ closeCalls' = closeCalls /\ work[l] = Idle
  BY Zenon DEF ConnectDestroyed, SendInLoop, ShutdownInLoop, ForceCloseInLoop, RunsPosted, NextFunctor,
         Posted, IsIdle, Free
<1>2. /\ c \in Conns /\ Begun(c) /\ conn[c].chfd \in Fds /\ Pops(l)
      /\ conn[c].loop \in SubLoops
  BY <1>0, <1>1, HeadNames DEF Pops
<1>3. /\ PollerGoes(poller, c) /\ \A ev : PollerGoes(WithEvents(c, ev), c)
      /\ PollerGoes(EnableWriting(c), c)
      /\ \A fd : PollerGoes(Forget(poller, fd), c)
      /\ \A ev, fd : PollerGoes(Forget(WithEvents(c, ev), fd), c)
  <2>1. /\ PollerGoes(poller, c) /\ \A ev : PollerGoes(WithEvents(c, ev), c)
        /\ PollerGoes(EnableWriting(c), c)
        /\ \A p \in PollerType : \A fd : PollerGoes(p, c) => PollerGoes(Forget(p, fd), c)
    BY <1>2, PollerNames
  <2>2. \A ev : WithEvents(c, ev) \in PollerType
    BY <1>2, WithEventsType
  <2> QED BY <1>0, <2>1, <2>2
<1>4. torn \subseteq torn'
        /\ (Head(queue[l]).call = "ConnectDestroyed" => Head(queue[l]).conn \in torn')
  <2>1. ConnectDestroyed(l) => torn' = torn \cup {c}
    BY ZenonT(30) DEF ConnectDestroyed
  <2>2. ~ConnectDestroyed(l) => torn' = torn
    BY Zenon DEF SendInLoop, ShutdownInLoop, ForceCloseInLoop, RunsPosted
  <2> QED BY <1>1, <2>1, <2>2
<1>5. Queued(c)
  BY <1>0, <1>1, <1>2, <1>4 DEF Queued
<1>6. Alike(conn, conn, c, conn[c].state) /\ \A k \in Loops : (work' = work => work'[k] = work[k])
  BY <1>0 DEF Alike
<1>7. CASE ConnectDestroyed(l)
  <2> HIDE DEF c
  <2>1. /\ conn' = conn \/ conn' = [conn EXCEPT ![c].state = "Disconnected", ![c].events = {},
                                                 ![c].sockfd = Invalid]
        /\ \/ poller' = poller
           \/ poller' = Forget(WithEvents(c, {}), conn[c].sockfd)
        /\ work' = work /\ holds' = holds /\ revived' = revived
    BY <1>7, Zenon DEF ConnectDestroyed, worker, c
  <2>2. \E s \in {conn[c].state, "Disconnected"} : Alike(conn', conn, c, s)
    <3>1. CASE conn' = conn
      BY <1>6, <3>1
    <3>2. CASE conn' = [conn EXCEPT ![c].state = "Disconnected", ![c].events = {},
                                    ![c].sockfd = Invalid]
      <4>1. Alike(conn', conn, c, "Disconnected")
        BY <1>0, <1>2, <3>2, ConnChanges, Zenon
      <4> QED BY <4>1
    <3> QED BY <2>1, <3>1, <3>2
  <2>3. PollerGoes(poller', c)
    BY <1>3, <2>1
  <2>4. PICK s \in {conn[c].state, "Disconnected"} : Alike(conn', conn, c, s)
    BY <2>2
  <2>5. s \notin Early /\ (conn[c].state = "Disconnected" => s = "Disconnected")
    BY <1>2, <2>4 DEF Begun, Early
  <2> QED BY <1>0, <1>1, <1>2, <1>4, <1>5, <2>1, <2>3, <2>4, <2>5, SubQuiet
<1>8. CASE SendInLoop(l)
  <2> HIDE DEF c
  <2>1. /\ conn' = conn \/ conn' = [conn EXCEPT ![c].output = TRUE, ![c].events = @ \cup {"write"}]
        /\ poller' = poller \/ poller' = EnableWriting(c)
        /\ work' = work /\ holds' = holds /\ revived' = revived
    BY <1>8 DEF SendInLoop, worker, c
  <2>2. Alike(conn', conn, c, conn[c].state)
    BY <1>0, <1>2, <2>1, <1>6, ConnChanges, Zenon DEF Same
  <2>3. PollerGoes(poller', c)
    BY <1>3, <2>1
  <2> QED BY <1>0, <1>1, <1>2, <1>4, <1>5, <2>1, <2>2, <2>3, SubQuiet DEF Begun
<1>9. CASE ShutdownInLoop(l)
  <2> HIDE DEF c
  <2>1. /\ conn' = conn \/ conn' = [conn EXCEPT ![c].events = @ \cup {"write"}]
        /\ poller' = EnableWriting(c) \/ poller' = Forget(poller, conn[c].sockfd)
        /\ work' = work \/ work' = [work EXCEPT ![l] = [at |-> "rawShut", conn |-> c]]
        /\ holds' = holds /\ revived \subseteq revived'
    BY <1>9 DEF ShutdownInLoop, worker, c, Revives
  <2>2. Alike(conn', conn, c, conn[c].state)
    BY <1>0, <1>2, <2>1, <1>6, ConnChanges, ZenonT(30) DEF Same
  <2>3. PollerGoes(poller', c)
    BY <1>3, <2>1
  <2>4. /\ \A k \in Loops \ {l} : work'[k] = work[k]
        /\ \/ work'[l] = work[l]
           \/ work'[l].at \notin {"establish", "forced", "rawForced"} /\ work'[l].conn = c
    BY <1>0, <2>1 DEF WorkType
  <2> QED BY <1>0, <1>1, <1>2, <1>4, <1>5, <2>1, <2>2, <2>3, <2>4, SubQuiet, SMTT(30) DEF Begun
<1>10. CASE ForceCloseInLoop(l) /\ conn[c].state \in {"Connected", "Disconnecting"}
  <2> HIDE DEF c
  <2>1. /\ conn' = [conn EXCEPT ![c].state = "Disconnected", ![c].events = {}]
        /\ poller' = Forget(WithEvents(c, {}), conn[c].sockfd)
        /\ work' = [work EXCEPT ![l] = [at |-> "rawForced", conn |-> c]]
        /\ holds' = holds /\ revived' = revived
    BY <1>10 DEF ForceCloseInLoop, worker, c
  <2>2. Alike(conn', conn, c, "Disconnected")
    BY <1>0, <1>2, <2>1, ConnChanges, Zenon DEF Same
  <2>3. PollerGoes(poller', c)
    BY <1>3, <2>1
  <2>4. /\ \A k \in Loops \ {l} : work'[k] = work[k]
        /\ work'[l].at = "rawForced" /\ work'[l].conn = c
    BY <1>0, <2>1 DEF WorkType
  <2>5. Routine /\ Follows(c)
    BY <1>0, <1>1, <1>2, <1>4, <1>5, <2>1, <2>2, <2>3, <2>4, SubStep DEF Early
  <2>6. Once'
    BY <1>0, <1>1, <1>2, <1>10, <2>1, <2>2, <2>4, OnceBegins
  <2> QED BY <1>2, <2>5, <2>6, RoutineKeeps, FollowsUnderway DEF Kept
<1>11. CASE ForceCloseInLoop(l) /\ conn[c].state \notin {"Connected", "Disconnecting"}
  <2> HIDE DEF c
  <2>1. conn' = conn /\ poller' = poller /\ work' = work /\ holds' = holds /\ revived' = revived
    BY <1>11 DEF ForceCloseInLoop, worker, c
  <2> QED BY <1>0, <1>1, <1>2, <1>3, <1>4, <1>5, <1>6, <2>1, SubQuiet DEF Begun
<1> QED BY <1>7, <1>8, <1>9, <1>10, <1>11

\* The handlers of a sub loop's channels.
LEMMA HandlersKeep ==
    ASSUME Typed, Kept, NEW l \in SubLoops, NEW c \in Conns,
           \/ Dangling(l, c) \/ HandleRead(l, c) \/ HandleWrite(l, c)
           \/ \E again \in BOOLEAN : PeerCloses(l, c, again)
    PROVE  Kept'
<1>0. /\ l \in Loops /\ conn \in ConnType /\ work \in WorkType /\ Named
      /\ "Connected" \in States /\ {} \in SUBSET {"read", "write"} /\ FALSE \in BOOLEAN
  BY DEF Loops, Typed, Kept, States
<1>1. Begun(c) /\ conn[c].chfd \in Fds
  <2>1. Ready(l, c)
    BY Zenon DEF Dangling, HandleRead, HandleWrite, PeerCloses
  <2> QED BY <1>0, <2>1, ReadyNames, BegunNumber
<1>2. /\ PollerGoes(poller, c) /\ \A ev : PollerGoes(WithEvents(c, ev), c)
  BY <1>1, PollerNames
<1>3. CASE Dangling(l, c)
  <2>1. UNCHANGED <<conn, queue, work, poller, holds, closeCalls, revived, torn>>
          /\ fault' = "use after free"
    BY <1>3, Zenon DEF Dangling, worker
  <2>2. Alike(conn', conn, c, conn[c].state) /\ Queued(c)
    BY <1>0, <2>1, Zenon DEF Alike, Queued
  <2> QED BY <1>0, <1>1, <1>2, <2>1, <2>2, SubQuiet, Zenon DEF Begun
<1>4. CASE HandleRead(l, c) \/ HandleWrite(l, c)
  <2>1. /\ conn' = conn \/ conn' = [conn EXCEPT ![c].output = FALSE, ![c].events = @ \ {"write"}]
        /\ poller' = poller \/ poller' = WithEvents(c, conn[c].events \ {"write"})
        /\ work' = [work EXCEPT ![l] = Handler(c)]
        /\ UNCHANGED <<queue, holds, closeCalls, revived, torn, fault>>
    BY <1>4 DEF HandleRead, HandleWrite, worker
  <2>2. Alike(conn', conn, c, conn[c].state)
    <3>1. CASE conn' = conn
      BY <1>0, <3>1 DEF Alike
    <3>2. CASE conn' = [conn EXCEPT ![c].output = FALSE, ![c].events = @ \ {"write"}]
      BY <1>0, <3>2, ConnChanges, Zenon DEF Same
    <3> QED BY <2>1, <3>1, <3>2
  <2>3. PollerGoes(poller', c) /\ Queued(c)
    BY <1>2, <2>1 DEF Queued
  <2>4. /\ \A k \in Loops \ {l} : work'[k] = work[k]
        /\ work'[l].at = "callback" /\ work'[l].conn = c
    BY <1>0, <2>1 DEF WorkType, Handler
  <2> QED BY <1>0, <1>1, <2>1, <2>2, <2>3, <2>4, SubQuiet DEF Begun
<1>5. ASSUME NEW again \in BOOLEAN, PeerCloses(l, c, again) PROVE Kept'
  <2>1. HandleClose(l, c, again) /\ UNCHANGED <<torn, worker, fault>>
    BY <1>5 DEF PeerCloses
  <2> QED BY <1>1, <2>1, HandleCloseKeeps
<1> QED BY <1>3, <1>4, <1>5

\* A sub loop in the middle of a handler or functor.
LEMMA ContinueKeeps ==
    ASSUME Typed, Kept, NEW l \in SubLoops,
           \/ CallbackReturns(l) \/ HandOver(l)
           \/ \E c \in Conns : Send(l, c) \/ ShutdownLater(l, c) \/ ShutdownNow(l, c)
                                 \/ ForceClose(l, c)
           \/ ShutdownDone(l) \/ ForceCloseDone(l)
           \/ CloseSocket(l) \/ InvalidateSocket(l) \/ CloseAgain(l)
    PROVE  Kept'
<1> DEFINE c == work[l].conn
<1>0. /\ l \in Loops /\ MainLoop \in Loops /\ conn \in ConnType /\ work \in WorkType
      /\ work[l] \in Work /\ poller \in PollerType /\ Named /\ Once
      /\ {"Connected", "Disconnecting", "Disconnected"} \subseteq States
      /\ {} \in SUBSET {"read", "write"} /\ TRUE \in BOOLEAN
  BY SMTT(30) DEF Loops, Typed, Kept, WorkType, States
<1>1. work[l].at \notin {"idle", "establish"}
  BY <1>0 DEF CallbackReturns, HandOver, Send, ShutdownLater, ShutdownNow, ForceClose, ShutdownDone,
              ForceCloseDone, CloseSocket, InvalidateSocket, CloseAgain, InCallback, At
<1>2. c \in Conns /\ Begun(c) /\ conn[c].chfd \in Fds
  BY <1>0, <1>1, BusyWith, BegunNumber
<1>3. /\ PollerGoes(poller, c) /\ \A ev : PollerGoes(WithEvents(c, ev), c)
      /\ PollerGoes(EnableWriting(c), c)
      /\ \A fd : PollerGoes(Forget(poller, fd), c)
      /\ \A ev, fd : PollerGoes(Forget(WithEvents(c, ev), fd), c)
  <2>1. /\ PollerGoes(poller, c) /\ \A ev : PollerGoes(WithEvents(c, ev), c)
        /\ PollerGoes(EnableWriting(c), c)
        /\ \A p \in PollerType : \A fd : PollerGoes(p, c) => PollerGoes(Forget(p, fd), c)
    BY <1>2, PollerNames
  <2>2. \A ev : WithEvents(c, ev) \in PollerType
    BY <1>2, WithEventsType
  <2> QED BY <1>0, <2>1, <2>2
\* What the thread is in the middle of next.
<1>4. \A a : LET w == [work EXCEPT ![l].at = a]
             IN  /\ \A k \in Loops \ {l} : w[k] = work[k]
                 /\ w[l].at = a /\ w[l].conn = c
  <2> SUFFICES ASSUME NEW a
               PROVE  LET w == [work EXCEPT ![l] = [work[l] EXCEPT !.at = a]]
                      IN  /\ \A k \in Loops \ {l} : w[k] = work[k]
                          /\ w[l].at = a /\ w[l].conn = c
    OBVIOUS
  <2>1. [work[l] EXCEPT !.at = a].at = a /\ [work[l] EXCEPT !.at = a].conn = c
    BY <1>0, <1>1, WorkMoves
  <2> DEFINE m == [work[l] EXCEPT !.at = a]
  <2> HIDE DEF m
  <2>2. LET w == [work EXCEPT ![l] = m]
        IN  w[l] = m /\ \A k \in Loops \ {l} : w[k] = work[k]
    BY <1>0 DEF WorkType
  <2> QED BY <2>1, <2>2 DEF m
<1>5. ASSUME work' = [work EXCEPT ![l] = Idle]
      PROVE  /\ \A k \in Loops \ {l} : work'[k] = work[k]
             /\ work'[l].at = "idle"
  BY <1>0, <1>5 DEF WorkType, Idle
<1>6. queue' = queue => Queued(c)
  BY DEF Queued
<1>7. conn' = conn => Alike(conn', conn, c, conn[c].state)
  BY <1>0 DEF Alike
<1> HIDE DEF c
<1>8. CASE CallbackReturns(l)
  <2>1. /\ UNCHANGED <<conn, queue, poller, holds, closeCalls, revived, torn>>
        /\ work' = [work EXCEPT ![l] = Idle] /\ (fault' = "none" => fault = "none")
    BY <1>8, Zenon DEF CallbackReturns, EndCallback, worker
  <2> QED BY <1>2, <1>3, <1>5, <1>6, <1>7, <2>1, SubQuiet DEF Begun
<1>9. CASE HandOver(l)
  <2>1. /\ UNCHANGED <<conn, queue, poller, work, closeCalls, revived, torn, fault>>
        /\ holds'.conn = c
    BY <1>9 DEF HandOver, c
  <2> QED BY <1>2, <1>3, <1>6, <1>7, <2>1, SubQuiet DEF Begun
<1>10. ASSUME NEW d \in Conns, Send(l, d) PROVE Kept'
  <2>1. /\ conn' = [conn EXCEPT ![c].output = TRUE, ![c].events = @ \cup {"write"}]
        /\ poller' = EnableWriting(c)
        /\ UNCHANGED <<queue, work, holds, closeCalls, revived, torn, fault>>
    BY <1>10 DEF Send, InCallback, worker, c
  <2>2. Alike(conn', conn, c, conn[c].state)
    BY <1>0, <1>2, <2>1, ConnChanges, Zenon DEF Same
  <2> QED BY <1>2, <1>3, <1>6, <2>1, <2>2, SubQuiet DEF Begun
<1>11. ASSUME NEW d \in Conns, ShutdownLater(l, d) PROVE Kept'
  <2>1. /\ conn' = [conn EXCEPT ![c].state = "Disconnecting", ![c].events = @ \cup {"write"}]
        /\ poller' = EnableWriting(c) /\ conn[c].state = "Connected"
        /\ UNCHANGED <<queue, work, holds, closeCalls, revived, torn, fault>>
    BY <1>11 DEF ShutdownLater, InCallback, worker, c
  <2>2. Alike(conn', conn, c, "Disconnecting")
    BY <1>0, <1>2, <2>1, ConnChanges, Zenon
  <2> QED BY <1>2, <1>3, <1>6, <2>1, <2>2, SubQuiet DEF Early
<1>12. ASSUME NEW d \in Conns, ShutdownNow(l, d) PROVE Kept'
  <2>1. /\ conn' = [conn EXCEPT ![c].state = "Disconnecting"]
        /\ poller' = Forget(poller, conn[c].sockfd) /\ conn[c].state = "Connected"
        /\ work' = [work EXCEPT ![l].at = "shut"]
        /\ UNCHANGED <<queue, holds, closeCalls, revived, torn, fault>>
    BY <1>12 DEF ShutdownNow, InCallback, worker, c
  <2>2. Alike(conn', conn, c, "Disconnecting")
    BY <1>0, <1>2, <2>1, ConnChanges, Zenon
  <2>3. /\ \A k \in Loops \ {l} : work'[k] = work[k]
        /\ work'[l].at = "shut" /\ work'[l].conn = c
    BY <1>4, <2>1
  <2> QED BY <1>2, <1>3, <1>6, <2>1, <2>2, <2>3, SubQuiet, ZenonT(30) DEF Early
<1>13. ASSUME NEW d \in Conns, ForceClose(l, d) PROVE Kept'
  <2>1. /\ conn' = [conn EXCEPT ![c].state = "Disconnected", ![c].events = {}]
        /\ poller' = Forget(WithEvents(c, {}), conn[c].sockfd) /\ conn[c].state # "Disconnected"
        /\ work' = [work EXCEPT ![l].at = "forced"]
        /\ UNCHANGED <<queue, holds, closeCalls, revived, torn, fault>>
    BY <1>13 DEF ForceClose, InCallback, worker, c
  <2>2. Alike(conn', conn, c, "Disconnected")
    BY <1>0, <1>2, <2>1, ConnChanges, Zenon
  <2>3. /\ \A k \in Loops \ {l} : work'[k] = work[k]
        /\ work'[l].at = "forced" /\ work'[l].conn = c
    BY <1>4, <2>1
  <2>4. Routine /\ Follows(c)
    BY <1>2, <1>3, <1>6, <2>1, <2>2, <2>3, SubStep DEF Early
  <2>5. Once'
    BY <1>0, <1>2, <2>1, <2>2, <2>3, OnceBegins
  <2> QED BY <1>2, <2>4, <2>5, RoutineKeeps, FollowsUnderway DEF Kept
<1>14. ASSUME Resume(l), work[l].at \in {"shut", "rawShut", "forced", "rawForced"}
       PROVE  /\ \A k \in Loops \ {l} : work'[k] = work[k]
              /\ \/ work'[l].at = "idle"
                 \/ work'[l].at \notin {"establish", "forced", "rawForced"} /\ work'[l].conn = c
  <2>1. CASE work' = [work EXCEPT ![l].at = "callback"]
    BY <1>4, <2>1
  <2>2. CASE work' = [work EXCEPT ![l] = Idle]
    BY <1>5, <2>2
  <2> QED BY <1>14, <2>1, <2>2 DEF Resume
<1>15. CASE ShutdownDone(l)
  <2>1. /\ conn' = [conn EXCEPT ![c].sockfd = Invalid, ![c].state = "Disconnected"]
        /\ Resume(l) /\ work[l].at \in {"shut", "rawShut"} /\ (fault' = "none" => fault = "none")
        /\ UNCHANGED <<queue, poller, holds, closeCalls, revived, torn>>
    BY <1>15, Zenon DEF ShutdownDone, Touch, At, worker, c
  <2>2. Alike(conn', conn, c, "Disconnected")
    BY <1>0, <1>2, <2>1, ConnChanges, Zenon
  <2>3. /\ \A k \in Loops \ {l} : work'[k] = work[k]
        /\ \/ work'[l].at = "idle"
           \/ work'[l].at \notin {"establish", "forced", "rawForced"} /\ work'[l].conn = c
    BY <1>14, <2>1
  <2> QED BY <1>2, <1>3, <1>6, <2>1, <2>2, <2>3, SubQuiet DEF Early
<1>16. CASE ForceCloseDone(l)
  <2>1. /\ conn' = [conn EXCEPT ![c].sockfd = Invalid] /\ queue' = Post(queue, MainLoop, "Remove", c)
        /\ closeCalls' = [closeCalls EXCEPT ![c] = @ + 1]
        /\ Resume(l) /\ work[l].at \in {"forced", "rawForced"} /\ (fault' = "none" => fault = "none")
        /\ UNCHANGED <<poller, holds, revived, torn>>
    BY <1>16, ZenonT(30) DEF ForceCloseDone, Touch, At, worker, c
  <2>2. Alike(conn', conn, c, conn[c].state)
    BY <1>0, <1>2, <2>1, ConnChanges, Zenon DEF Same
  <2>3. /\ \A k \in Loops \ {l} : work'[k] = work[k]
        /\ \/ work'[l].at = "idle"
           \/ work'[l].at \notin {"establish", "forced", "rawForced"} /\ work'[l].conn = c
    BY <1>14, <2>1
  <2>4. Posts(MainLoop, "Remove", c)
    BY <1>2, <2>1 DEF Posts, Functor
  <2>5. Queued(c) /\ \A d \in Conns \ {c} : closeCalls'[d] = closeCalls[d]
    BY <1>0, <2>1, <2>4 DEF Queued, Typed, CountType
  <2>6. Routine /\ Follows(c)
    BY <1>2, <1>3, <2>1, <2>2, <2>3, <2>4, <2>5, SubStep DEF Begun
  <2>7. Once'
    <3>1. Forcing(l, c)
      BY <2>1 DEF Forcing, c
    <3>2. work'[l].at \notin {"forced", "rawForced"}
      BY <2>3
    <3> QED BY <1>0, <1>2, <2>1, <2>2, <2>3, <3>1, <3>2, OnceEnds
  <2> QED BY <1>2, <2>6, <2>7, RoutineKeeps, FollowsUnderway DEF Kept
<1>17. CASE CloseSocket(l)
  <2>1. /\ UNCHANGED <<conn, queue, holds, closeCalls, revived, torn>>
        /\ poller' = Forget(poller, conn[c].sockfd) /\ (fault' = "none" => fault = "none")
        /\ work' = [work EXCEPT ![l].at = "closed"]
    BY <1>17, Zenon DEF CloseSocket, Touch, worker, c, At, Free
  <2>2. /\ \A k \in Loops \ {l} : work'[k] = work[k]
        /\ work'[l].at = "closed" /\ work'[l].conn = c
    BY <1>4, <2>1
  <2> QED BY <1>2, <1>3, <1>6, <1>7, <2>1, <2>2, SubQuiet DEF Begun
<1>18. CASE InvalidateSocket(l)
  <2>1. /\ conn' = [conn EXCEPT ![c].sockfd = Invalid] /\ (fault' = "none" => fault = "none")
        /\ UNCHANGED <<queue, poller, holds, closeCalls, revived, torn>>
        /\ \/ work' = [work EXCEPT ![l] = [at |-> "again", conn |-> c]]
           \/ work' = [work EXCEPT ![l] = Idle]
    BY <1>18, Zenon DEF InvalidateSocket, Touch, ClosedNumber, worker, c, At, Free
  <2>2. Alike(conn', conn, c, conn[c].state)
    BY <1>0, <1>2, <2>1, ConnChanges, Zenon DEF Same
  <2>3. /\ \A k \in Loops \ {l} : work'[k] = work[k]
        /\ \/ work'[l].at = "idle"
           \/ work'[l].at = "again" /\ work'[l].conn = c
    <3>1. CASE work' = [work EXCEPT ![l] = Idle]
      BY <1>5, <3>1
    <3>2. CASE work' = [work EXCEPT ![l] = [at |-> "again", conn |-> c]]
      BY <1>0, <3>2 DEF WorkType
    <3> QED BY <2>1, <3>1, <3>2
  <2> QED BY <1>2, <1>3, <1>6, <2>1, <2>2, <2>3, SubQuiet DEF Begun
<1>19. CASE CloseAgain(l)
  <2>1. /\ HandleClose(l, c, FALSE) /\ UNCHANGED <<torn, worker>>
        /\ (fault' = "none" => fault = "none")
    BY <1>19, Zenon DEF CloseAgain, Touch, c, At, Free
  <2> QED BY <1>2, <2>1, HandleCloseKeeps
<1> QED
  BY <1>8, <1>9, <1>10, <1>11, <1>12, <1>13, <1>15, <1>16, <1>17, <1>18, <1>19

\* The application's thread.
LEMMA WorkerKeeps ==
    ASSUME Typed, Kept,
           \/ \E call \in OtherCalls : TestState(call)
           \/ StoreState \/ PostCall \/ DropPointer
    PROVE  Kept'
<1> DEFINE c == holds.conn
<1>0. /\ conn \in ConnType /\ Named /\ MainLoop \in Loops
      /\ "Disconnecting" \in States /\ {} \in SUBSET {"read", "write"} /\ TRUE \in BOOLEAN
  BY DEF Typed, Kept, Loops, States
<1>1. c \in Conns /\ Begun(c) /\ conn[c].chfd \in Fds /\ conn[c].loop \in SubLoops
  <2>1. holds.at \in {"has", "tested", "stored"}
    BY DEF TestState, StoreState, PostCall, DropPointer
  <2>2. holds # Nothing /\ holds.at # "nothing"
    BY <2>1 DEF Nothing
  <2>3. c \in Conns
    BY <2>2, HoldsConn DEF Typed
  <2>4. Begun(c)
    BY <1>0, <2>2 DEF Named
  <2> QED BY <1>0, <2>3, <2>4, BegunNumber
<1>2. PollerGoes(poller, c)
  BY <1>1, PollerNames
<1>3. conn' = conn => Alike(conn', conn, c, conn[c].state)
  BY <1>0 DEF Alike
<1>4. /\ UNCHANGED <<work, poller, closeCalls, torn, fault>> /\ revived \subseteq revived'
  BY DEF TestState, StoreState, PostCall, DropPointer, Revives
<1>5. holds' = Nothing \/ holds'.conn = c
  <2>1. CASE StoreState
    <3>1. holds' = [holds EXCEPT !.at = "stored"] /\ holds.at = "tested" /\ holds \in Holding
      BY <2>1 DEF StoreState, Typed
    <3>2. holds \in [at : {"tested", "stored"}, conn : Conns, call : DOMAIN Posted]
      BY <3>1 DEF Holding
    <3> QED BY <3>1, <3>2
  <2>2. CASE ~StoreState
    BY <2>2 DEF TestState, PostCall, DropPointer
  <2> QED BY <2>1, <2>2
\* The step of a thread that runs no loop.
<1>6. ASSUME NEW s, Alike(conn', conn, c, s), s \notin Early, Queued(c),
             conn[c].state = "Disconnected" => s = "Disconnected" \/ c \in revived'
      PROVE  Kept'
  <2>1. Routine
    BY <1>0, <1>1, <1>2, <1>4, <1>5, <1>6, StepOf
  <2>2. Follows(c)
    BY <1>4, <1>6 DEF Follows
  <2>3. Quiet
    <3>1. \A d \in Conns \ revived' :
             conn[d].state = "Disconnected" => conn'[d].state = "Disconnected"
      BY <1>6 DEF Alike
    <3> QED BY <1>4, <3>1 DEF Quiet
  <2> QED BY <1>1, <2>1, <2>2, <2>3, QuietStep
<1> HIDE DEF c
<1>7. ASSUME NEW call \in OtherCalls, TestState(call) PROVE Kept'
  <2>1. conn' = conn /\ queue' = queue
    BY <1>7 DEF TestState
  <2> QED BY <1>1, <1>3, <1>6, <2>1 DEF Begun, Queued
<1>8. CASE StoreState
  <2>1. /\ conn' = [conn EXCEPT ![c].state = "Disconnecting"] /\ queue' = queue
        /\ conn[c].state = "Disconnected" => c \in revived'
    BY <1>8 DEF StoreState, Revives, c
  <2>2. Alike(conn', conn, c, "Disconnecting")
    BY <1>0, <1>1, <2>1, ConnChanges, Zenon
  <2> QED BY <1>1, <1>6, <2>1, <2>2 DEF Early, Queued
<1>9. CASE PostCall
  <2>1. /\ conn' = conn /\ queue' = Post(queue, conn[c].loop, Posted[holds.call], c)
        /\ holds.call \in DOMAIN Posted
    BY <1>9, HoldsConn DEF PostCall, Typed, c
  <2>2. Posted[holds.call] \in RawCalls
    BY <2>1 DEF RawCalls
  <2>3. conn[c].loop \in Loops /\ conn[c].loop # MainLoop
    BY <1>1 DEF Loops, SubLoops, MainLoop
  <2>4. Posts(conn[c].loop, Posted[holds.call], c)
    BY <1>1, <2>1, <2>2 DEF Posts, Functor
  <2>5. Queued(c)
    BY <2>2, <2>3, <2>4 DEF Queued
  <2> QED BY <1>1, <1>3, <1>6, <2>1, <2>5 DEF Begun
<1>10. CASE DropPointer
  <2>1. conn' = conn /\ queue' = queue
    BY <1>10 DEF DropPointer
  <2> QED BY <1>1, <1>3, <1>6, <2>1 DEF Begun, Queued
<1> QED BY <1>7, <1>8, <1>9, <1>10

\* The destructor, on any thread: it only takes channels out.
LEMMA DestructKeeps ==
    ASSUME Typed, Kept, NEW l \in Threads, Destruct(l)
    PROVE  Kept'
<1> DEFINE c == dying[l]
<1>1. /\ UNCHANGED <<conn, queue, work, holds, closeCalls, revived, torn>> /\ fault = "none"
      /\ poller' = Forget(Unregistered(c), conn[c].sockfd)
  BY DEF Destruct, worker
<1>2. c \in Conns
  BY DEF Destruct, Typed, DyingType
<1>3. \A k \in SubLoops, f \in Fds : poller'[k].map[f] \in {poller[k].map[f], None}
  <2>1. conn[c].events # {} => conn[c].chfd \in Fds
    BY <1>2 DEF Kept, Named
  <2>2. Unregistered(c) \in PollerType
    BY <1>2, <2>1, WithEventsType DEF Unregistered, Typed
  <2>3. \A k \in SubLoops, f \in Fds : Unregistered(c)[k].map[f] \in {poller[k].map[f], None}
    <3>1. CASE conn[c].events = {}
      BY <3>1 DEF Unregistered
    <3>2. CASE conn[c].events # {}
      <4> SUFFICES ASSUME NEW k \in SubLoops, NEW f \in Fds
                   PROVE  WithEvents(c, {})[k].map[f] \in {poller[k].map[f], None}
        BY <3>2 DEF Unregistered
      <4>1. poller[k] \in PollerRecord
        BY DEF Typed, PollerType
      <4>2. \/ WithEvents(c, {})[k] = poller[k]
            \/ WithEvents(c, {})[k] = RemoveChannel(poller[k], conn[c].chfd)
        BY DEF WithEvents, UpdateChannel, Typed, PollerType
      <4>3. RemoveChannel(poller[k], conn[c].chfd).map[f] \in {poller[k].map[f], None}
        BY <4>1 DEF RemoveChannel, PollerRecord
      <4> QED BY <4>2, <4>3
    <3> QED BY <3>1, <3>2
  <2>4. \A k \in SubLoops : Forget(Unregistered(c), conn[c].sockfd)[k].map = Unregistered(c)[k].map
    <3> DEFINE p == Unregistered(c)
    <3>1. \A k \in SubLoops : p[k] \in PollerRecord
      BY <2>2 DEF PollerType
    <3> HIDE DEF p
    <3>2. \A k \in SubLoops : Forget(p, conn[c].sockfd)[k].map = p[k].map
      BY <3>1 DEF Forget, Forgotten, PollerRecord
    <3> QED BY <3>2 DEF p
  <2> QED BY <1>1, <2>3, <2>4
<1>4. Routine
  BY <1>1, <1>3 DEF Routine, Onward
<1>5. Follows(c)
  BY <1>1 DEF Follows, Queued
<1>6. Quiet
  BY <1>1 DEF Quiet
<1> QED BY <1>2, <1>4, <1>5, <1>6, QuietStep

-----------------------------------------------------------------------------
(* The steps of an accept, where a connection begins.                      *)

LEMMA AcceptKeeps ==
    ASSUME Typed, Kept, NEW c \in Conns, NEW f \in Fds, Accept(c, f)
    PROVE  Kept'
<1>0. /\ MainLoop \in Loops /\ conn \in ConnType /\ work \in WorkType /\ Named /\ Establishing
      /\ nextLoop + 1 \in SubLoops
  BY DEF Loops, SubLoops, Typed, Kept
<1>1. /\ conn[c].state = "Unborn" /\ conn' = [conn EXCEPT ![c] = Constructed(f, nextLoop + 1)]
      /\ work' = [work EXCEPT ![MainLoop] = [at |-> "establish", conn |-> c]]
      /\ work[MainLoop] = Idle
      /\ UNCHANGED <<queue, holds, revived, poller, fault, closeCalls, torn>>
  BY DEF Accept, IsIdle, worker
<1>2. /\ \A d \in Conns \ {c} : conn'[d] = conn[d]
      /\ conn'[c].chfd = f /\ conn'[c].loop = nextLoop + 1 /\ conn'[c].state = "Connecting"
  BY <1>0, <1>1 DEF ConnType, Constructed
<1>3. /\ \A l \in Loops \ {MainLoop} : work'[l] = work[l]
      /\ work'[MainLoop].at = "establish" /\ work'[MainLoop].conn = c
  BY <1>0, <1>1 DEF WorkType
\* Whatever was under way is under way for somebody else.
<1>4. \A d \in Conns : /\ Begun(d) => conn'[d].state \notin Early
                       /\ conn[d].state = "Connecting" => d # c /\ conn'[d].state = "Connecting"
  BY <1>1, <1>2 DEF Begun, Early
<1>5. \A l \in Loops : \A i \in DOMAIN queue[l] : queue[l][i].conn \in Conns
  <2>1. \A l \in Loops : \A i \in DOMAIN queue[l] : queue[l][i] \in Functor
    BY ElementOfSeq, LenProperties DEF Typed, QueueType
  <2> QED BY <2>1 DEF Functor
<1>6. Named'
  <2>1. \A d \in Conns :
           \/ conn'[d].chfd \in Fds /\ conn'[d].loop \in SubLoops
           \/ conn'[d].state = "Unborn" /\ conn'[d].events = {}
    BY <1>0, <1>2 DEF Named
  <2>2. \A l \in Loops : \A i \in DOMAIN queue'[l] :
           /\ queue'[l][i].call # "ConnectEstablished" => conn'[queue'[l][i].conn].state \notin Early
           /\ l = MainLoop => queue'[l][i].call = "Remove"
    BY <1>0, <1>1, <1>4, <1>5 DEF Named
  <2>3. \A l \in Loops :
           /\ work'[l].at \notin {"idle", "establish"} => conn'[work'[l].conn].state \notin Early
           /\ work'[l].at = "establish" => l = MainLoop
    <3>1. ASSUME NEW l \in Loops \ {MainLoop}
          PROVE  /\ work[l].at \notin {"idle", "establish"} => conn'[work[l].conn].state \notin Early
                 /\ work[l].at # "establish"
      BY <1>0, <1>4, BusyWith DEF Named
    <3> QED BY <1>3, <3>1
  <2>4. holds' # Nothing => conn'[holds'.conn].state \notin Early
    <3>1. holds # Nothing => holds.conn \in Conns /\ Begun(holds.conn)
      <4>1. holds.at = "nothing" => holds = Nothing
        BY DEF Typed, Holding, Nothing
      <4> QED BY <1>0, <4>1, HoldsConn DEF Typed, Named
    <3> QED BY <1>1, <1>4, <3>1
  <2>5. \A l \in SubLoops, g \in Fds : poller'[l].map[g] # None => conn'[poller'[l].map[g]].state \notin Early
    <3>1. \A l \in SubLoops, g \in Fds : poller[l].map[g] # None =>
             poller[l].map[g] \in Conns /\ Begun(poller[l].map[g])
      BY <1>0 DEF Typed, PollerType, PollerRecord, Named
    <3> QED BY <1>1, <1>4, <3>1
  <2> QED BY <2>1, <2>2, <2>3, <2>4, <2>5 DEF Named, Begun
<1>7. Establishing'
  <2>1. \A l \in Loops : \A i \in DOMAIN queue[l] : queue[l][i].call = "ConnectEstablished" =>
           queue[l][i].conn # c /\ conn'[queue[l][i].conn].state = "Connecting"
    BY <1>0, <1>4, <1>5 DEF Establishing
  <2> QED BY <1>0, <1>1, <1>2, <1>3, <2>1 DEF Establishing
<1>8. Follows(c) /\ Quiet
  BY <1>1, <1>2, <1>3 DEF Follows, Queued, Quiet, Idle
<1> QED BY <1>6, <1>7, <1>8, QuietOnce, FollowsUnderway DEF Kept

LEMMA PostEstablishedKeeps ==
    ASSUME Typed, Kept, PostEstablished
    PROVE  Kept'
<1> DEFINE c == work[MainLoop].conn
<1>0. /\ MainLoop \in Loops /\ work \in WorkType /\ Named /\ Establishing
      /\ work[MainLoop].at = "establish"
  BY DEF Loops, Typed, Kept, PostEstablished, At
<1>1. c \in Conns /\ conn[c].state = "Connecting" /\ conn[c].loop \in SubLoops
  <2>1. c \in Conns /\ conn[c].state = "Connecting"
    BY <1>0, WorkConn DEF WorkType, Establishing
  <2> QED BY <1>0, <2>1 DEF Named
<1>2. /\ UNCHANGED <<conn, holds, revived, poller, fault, closeCalls, torn>>
      /\ queue' = Post(queue, conn[c].loop, "ConnectEstablished", c)
      /\ work' = [work EXCEPT ![MainLoop] = Idle]
  BY DEF PostEstablished, worker
<1>3. work'[MainLoop].at = "idle" /\ \A l \in Loops \ {MainLoop} : work'[l] = work[l]
  BY <1>0, <1>2 DEF WorkType, Idle
<1>4. conn[c].loop \in Loops \ {MainLoop} /\ Posts(conn[c].loop, "ConnectEstablished", c)
  BY <1>1, <1>2 DEF Loops, SubLoops, MainLoop, Posts, Functor
<1>5. \A l \in Loops : \A i \in DOMAIN queue'[l] :
         \/ i \in DOMAIN queue[l] /\ queue'[l][i] = queue[l][i]
         \/ /\ l = conn[c].loop /\ i = Len(queue[conn[c].loop]) + 1
            /\ queue'[l][i] = [call |-> "ConnectEstablished", conn |-> c]
  BY <1>1, <1>4, QueueSources, SMTT(30)
<1>6. \A l \in Loops : \A i \in DOMAIN queue[l] :
         queue[l][i].call = "ConnectEstablished" => queue[l][i].conn # c
  BY <1>0 DEF Establishing
<1>7. Named'
  <2>1. \A l \in Loops : \A i \in DOMAIN queue'[l] :
           /\ queue'[l][i].call # "ConnectEstablished" => conn[queue'[l][i].conn].state \notin Early
           /\ l = MainLoop => queue'[l][i].call = "Remove"
    BY <1>0, <1>4, <1>5 DEF Named, Begun
  <2>2. \A l \in Loops :
           /\ work'[l].at \notin {"idle", "establish"} => conn[work'[l].conn].state \notin Early
           /\ work'[l].at = "establish" => l = MainLoop
    BY <1>0, <1>3 DEF Named, Begun
  <2>3. /\ \A d \in Conns :
              \/ conn[d].chfd \in Fds /\ conn[d].loop \in SubLoops
              \/ conn[d].state = "Unborn" /\ conn[d].events = {}
        /\ holds # Nothing => conn[holds.conn].state \notin Early
        /\ \A k \in SubLoops, g \in Fds :
              poller[k].map[g] # None => conn[poller[k].map[g]].state \notin Early
    BY <1>0 DEF Named, Begun
  <2> HIDE DEF c
  <2> QED BY <1>2, <2>1, <2>2, <2>3 DEF Named, Begun
<1> HIDE DEF c
<1>8. Establishing'
  <2>1. \A l \in Loops : \A i \in DOMAIN queue'[l] :
           queue'[l][i].call = "ConnectEstablished" => conn'[queue'[l][i].conn].state = "Connecting"
    BY <1>0, <1>1, <1>2, <1>5 DEF Establishing
  <2>2. \A l, k \in Loops : \A i \in DOMAIN queue'[l], j \in DOMAIN queue'[k] :
           queue'[l][i].call = "ConnectEstablished" /\ queue'[k][j] = queue'[l][i] => l = k /\ i = j
    BY <1>0, <1>5, <1>6 DEF Establishing
  <2> QED BY <1>3, <2>1, <2>2 DEF Establishing
<1>9. Follows(c) /\ Quiet
  BY <1>0, <1>2, <1>3, <1>4 DEF Follows, Quiet
<1> QED BY <1>1, <1>7, <1>8, <1>9, QuietOnce, FollowsUnderway DEF Kept

LEMMA ConnectEstablishedKeeps ==
    ASSUME Typed, Kept, NEW l \in SubLoops, ConnectEstablished(l)
    PROVE  Kept'
<1> DEFINE h == Head(queue[l])
           c == h.conn
<1>0. /\ l \in Loops /\ MainLoop \in Loops /\ l # MainLoop
      /\ conn \in ConnType /\ work \in WorkType /\ Named /\ Establishing
      /\ "Connected" \in States /\ {"read"} \in SUBSET {"read", "write"} /\ TRUE \in BOOLEAN
  BY DEF Loops, SubLoops, MainLoop, Typed, Kept, States
<1>1. /\ queue[l] # <<>> /\ h.call = "ConnectEstablished"
      /\ conn' = [conn EXCEPT ![c].state = "Connected", ![c].events = {"read"}]
      /\ poller' = WithEvents(c, {"read"})
      /\ work' = [work EXCEPT ![l] = [at |-> "callback", conn |-> c, handler |-> FALSE]]
      /\ Pops(l)
      /\ UNCHANGED <<holds, revived, fault, closeCalls, torn>>
  BY DEF ConnectEstablished, NextFunctor, worker, Pops
<1>2. /\ h \in Functor /\ c \in Conns /\ conn[c].state = "Connecting" /\ conn[c].chfd \in Fds
      /\ conn[c].loop \in SubLoops
      /\ 1 \in DOMAIN queue[l] /\ h = queue[l][1]
  <2>1. Len(queue[l]) \in Nat \ {0} /\ h = queue[l][1] /\ queue[l] \in Seq(Functor)
    BY <1>0, <1>1, TailElements DEF Typed, QueueType
  <2>2. 1 \in DOMAIN queue[l]
    BY <2>1, LenProperties
  <2>3. /\ h \in Functor /\ c \in Conns /\ conn[c].chfd \in Fds /\ conn[c].loop \in SubLoops
        /\ h.call = "ConnectEstablished" => conn[c].state = "Connecting"
    BY <1>0, <1>1, HeadNames
  <2> QED BY <1>1, <2>1, <2>2, <2>3
<1>3. PollerGoes(poller', c)
  BY <1>1, <1>2, PollerNames
<1>4. Alike(conn', conn, c, "Connected")
  <2> HIDE DEF c
  <2> QED BY <1>0, <1>1, <1>2, ConnChanges, Zenon
<1> HIDE DEF c, h
<1>5. /\ \A d \in Conns \ {c} : conn'[d] = conn[d]
      /\ conn'[c].state = "Connected" /\ conn'[c].chfd = conn[c].chfd /\ conn'[c].loop = conn[c].loop
  BY <1>4 DEF Alike
<1>6. /\ \A k \in Loops \ {l} : work'[k] = work[k]
      /\ work'[l].at = "callback" /\ work'[l].conn = c
  BY <1>0, <1>1 DEF WorkType
<1>7. \A d \in Conns : /\ Begun(d) => conn'[d].state \notin Early
                       /\ conn[d].state = "Connecting" /\ d # c => conn'[d].state = "Connecting"
  BY <1>2, <1>5 DEF Begun, Early
<1>8. \A k \in Loops : \A i \in DOMAIN queue[k] : queue[k][i] \in Functor /\ queue[k][i].conn \in Conns
  <2>1. \A k \in Loops : \A i \in DOMAIN queue[k] : queue[k][i] \in Functor
    BY ElementOfSeq, LenProperties DEF Typed, QueueType
  <2> QED BY <2>1 DEF Functor
\* The functors that go on waiting; none establishes c again.
<1>9. \A k \in Loops : \A i \in DOMAIN queue'[k] :
         \E j \in DOMAIN queue[k] :
            /\ queue'[k][i] = queue[k][j]
            /\ queue[k][j].call = "ConnectEstablished" => queue[k][j].conn # c
  <2> SUFFICES ASSUME NEW k \in Loops, NEW i \in DOMAIN queue'[k]
               PROVE  \E j \in DOMAIN queue[k] :
                         /\ queue'[k][i] = queue[k][j]
                         /\ queue[k][j].call = "ConnectEstablished" => queue[k][j].conn # c
    OBVIOUS
  <2> DEFINE j == IF k = l THEN i + 1 ELSE i
  <2>1. j \in DOMAIN queue[k] /\ queue'[k][i] = queue[k][j]
    BY <1>0, <1>1, QueueSources
  <2>2. k = l => j # 1
    <3>1. queue' \in QueueType
      BY <1>0, <1>1, TailElements DEF Pops, Typed
    <3>2. i \in 1 .. Len(queue'[k]) /\ Len(queue'[k]) \in Nat
      BY <3>1, LenProperties DEF QueueType
    <3> QED BY <3>2
  <2> HIDE DEF j
  <2>3. ASSUME queue[k][j].call = "ConnectEstablished", queue[k][j].conn = c PROVE FALSE
    <3>1. queue[k][j] = h
      <4>1. h.conn = c
        BY DEF c
      <4> QED BY <1>1, <1>2, <1>8, <2>1, <2>3, <4>1 DEF Functor
    <3>2. k = l /\ j = 1
      BY <1>0, <1>1, <1>2, <2>1, <3>1 DEF Establishing
    <3> QED BY <2>2, <3>2
  <2> QED BY <2>1, <2>3
<1>10. Named'
  <2>1. \A d \in Conns :
           \/ conn'[d].chfd \in Fds /\ conn'[d].loop \in SubLoops
           \/ conn'[d].state = "Unborn" /\ conn'[d].events = {}
    BY <1>0, <1>2, <1>5 DEF Named
  <2>2. \A k \in Loops : \A i \in DOMAIN queue'[k] :
           /\ queue'[k][i].call # "ConnectEstablished" => conn'[queue'[k][i].conn].state \notin Early
           /\ k = MainLoop => queue'[k][i].call = "Remove"
    <3>1. \A k \in Loops : \A j \in DOMAIN queue[k] :
             /\ queue[k][j].call # "ConnectEstablished" => conn'[queue[k][j].conn].state \notin Early
             /\ k = MainLoop => queue[k][j].call = "Remove"
      BY <1>0, <1>7, <1>8 DEF Named
    <3> QED BY <1>9, <3>1
  <2>3. \A k \in Loops :
           /\ work'[k].at \notin {"idle", "establish"} => conn'[work'[k].conn].state \notin Early
           /\ work'[k].at = "establish" => k = MainLoop
    <3>1. ASSUME NEW k \in Loops
          PROVE  /\ work[k].at \notin {"idle", "establish"} => conn'[work[k].conn].state \notin Early
                 /\ work[k].at = "establish" => k = MainLoop
      BY <1>0, <1>7, BusyWith DEF Named
    <3> QED BY <1>5, <1>6, <3>1 DEF Early
  <2>4. holds' # Nothing => conn'[holds'.conn].state \notin Early
    <3>1. holds # Nothing => holds.conn \in Conns /\ Begun(holds.conn)
      <4>1. holds.at = "nothing" => holds = Nothing
        BY DEF Typed, Holding, Nothing
      <4> QED BY <1>0, <4>1, HoldsConn DEF Typed, Named
    <3> QED BY <1>1, <1>7, <3>1
  <2>5. \A k \in SubLoops, g \in Fds : poller'[k].map[g] # None => conn'[poller'[k].map[g]].state \notin Early
    <3>1. \A k \in SubLoops, g \in Fds : poller[k].map[g] # None =>
             poller[k].map[g] \in Conns /\ Begun(poller[k].map[g])
      BY <1>0 DEF Typed, PollerType, PollerRecord, Named
    <3>2. \A k \in SubLoops, g \in Fds : poller'[k].map[g] \in {poller[k].map[g], None, c}
      BY <1>3 DEF PollerGoes
    <3> QED BY <1>5, <1>7, <3>1, <3>2 DEF Early
  <2> QED BY <2>1, <2>2, <2>3, <2>4, <2>5 DEF Named, Begun
<1>11. Establishing'
  <2>1. \A k \in Loops : \A i \in DOMAIN queue'[k] :
           queue'[k][i].call = "ConnectEstablished" => conn'[queue'[k][i].conn].state = "Connecting"
    <3>1. \A k \in Loops : \A j \in DOMAIN queue[k] :
             queue[k][j].call = "ConnectEstablished" => conn[queue[k][j].conn].state = "Connecting"
      BY <1>0 DEF Establishing
    <3> QED BY <1>7, <1>8, <1>9, <3>1
  <2>2. \A k, m \in Loops : \A i \in DOMAIN queue'[k], j \in DOMAIN queue'[m] :
           queue'[k][i].call = "ConnectEstablished" /\ queue'[m][j] = queue'[k][i] => k = m /\ i = j
    BY <1>0, <1>1, PopUnique
  <2>3. work'[MainLoop].at = "establish" =>
           /\ conn'[work'[MainLoop].conn].state = "Connecting"
           /\ \A k \in Loops : \A i \in DOMAIN queue'[k] :
                 queue'[k][i].call = "ConnectEstablished" => queue'[k][i].conn # work'[MainLoop].conn
    <3> SUFFICES ASSUME work'[MainLoop].at = "establish"
                 PROVE  /\ conn'[work[MainLoop].conn].state = "Connecting"
                        /\ \A k \in Loops : \A i \in DOMAIN queue'[k] :
                              queue'[k][i].call = "ConnectEstablished" =>
                                 queue'[k][i].conn # work[MainLoop].conn
      BY <1>0, <1>6
    <3>1. work[MainLoop].at = "establish" /\ work[MainLoop].conn \in Conns
      BY <1>0, <1>6, WorkConn DEF WorkType
    <3>2. /\ conn[work[MainLoop].conn].state = "Connecting"
          /\ \A k \in Loops : \A j \in DOMAIN queue[k] :
                queue[k][j].call = "ConnectEstablished" => queue[k][j].conn # work[MainLoop].conn
      BY <1>0, <3>1 DEF Establishing
    <3>3. work[MainLoop].conn # c
      BY <1>0, <1>1, <1>2, <3>2 DEF c
    <3> QED BY <1>7, <1>9, <3>1, <3>2, <3>3
  <2> QED BY <2>1, <2>2, <2>3 DEF Establishing
<1>12. Queued(c)
  <2>1. Head(queue[l]).call = "ConnectEstablished"
    BY <1>1 DEF h
  <2> QED BY <1>0, <1>1, <2>1 DEF Queued
<1>13. Follows(c) /\ Quiet
  <2>1. work'[MainLoop] = work[MainLoop]
    BY <1>0, <1>6
  <2>2. Quiet
    BY <1>1, <1>2, <1>5, <1>6 DEF Quiet
  <2> QED BY <1>1, <1>12, <2>1, <2>2 DEF Follows
<1> QED BY <1>2, <1>10, <1>11, <1>13, QuietOnce, FollowsUnderway DEF Kept

-----------------------------------------------------------------------------
LEMMA InitInv == Init => IInv
<1> SUFFICES ASSUME Init PROVE IInv
  OBVIOUS
<1> USE DEF Init
<1>1. Typed
  <2>1. conn \in ConnType
    BY DEF ConnType, ConnRecord, States, Loops
  <2>2. queue \in QueueType /\ work \in WorkType
    BY EmptySeq DEF QueueType, WorkType, Work, Idle
  <2>3. poller \in PollerType
    BY DEF PollerType, PollerRecord, NewPoller
  <2> QED
    BY <2>1, <2>2, <2>3 DEF Typed, EntryType, DyingType, CountType, Faults, Holding, Nothing
<1>2. \A l \in Loops : DOMAIN queue[l] = {} /\ work[l] = Idle
  OBVIOUS
<1>3. Named /\ Establishing
  <2>1. MainLoop \in Loops
    BY DEF Loops
  <2> QED BY <1>2, <2>1 DEF Named, Establishing, Idle, NewPoller
<1>4. Once
  BY <1>2 DEF Once, Forcing, Idle
<1>5. Underway
  BY DEF Underway
<1> QED BY <1>1, <1>3, <1>4, <1>5 DEF IInv

LEMMA InvStep == IInv /\ [Next]_vars => IInv'
<1> SUFFICES ASSUME IInv, [Next]_vars PROVE IInv'
  OBVIOUS
<1>1. Typed /\ Kept /\ Named /\ Establishing
  BY DEF IInv, Kept
<1>2. Typed'
  BY <1>1, TypeStep
<1>3. Kept'
  <2>1. CASE UNCHANGED vars
    <3>1. UNCHANGED <<conn, queue, work, poller, fault, holds, closeCalls, torn, revived>>
      BY <2>1 DEF vars
    <3>2. Named'
      BY <1>1, <3>1 DEF Named, Begun
    <3>3. Establishing'
      BY <1>1, <3>1 DEF Establishing
    <3>4. Once'
      BY <1>1, <3>1 DEF Kept, Once, Forcing
    <3>5. Underway'
      BY <1>1, <3>1 DEF Kept, Underway
    <3> QED BY <3>2, <3>3, <3>4, <3>5 DEF Kept
  <2>2. MainLoop \in Threads /\ Worker \in Threads /\ SubLoops \subseteq Threads
    BY DEF Threads, Loops
  <2> QED
    BY <1>1, <2>1, <2>2, AcceptKeeps, PostEstablishedKeeps, ConnectEstablishedKeeps, MainKeeps,
       FunctorsKeep, HandlersKeep, ContinueKeeps, WorkerKeeps, DestructKeeps
    DEF Next, MainContinue, WorkerContinue, Continue, Functors
<1> QED BY <1>2, <1>3 DEF IInv, Kept

LEMMA Invariance == Spec => []IInv
BY InitInv, InvStep, PTL DEF Spec

-----------------------------------------------------------------------------
\* Every variable keeps its type, whatever the number of connections, of
\* descriptors and of sub loops; in particular only channels with a number are
\* ever handed to a poller.
THEOREM TypeCorrect == Spec => []TypeOK
<1>1. IInv => TypeOK
  BY TypedIsTypeOK DEF IInv
<1> QED BY <1>1, Invariance, PTL

\* The close callback of a connection runs at most once, though HandleClose can
\* be entered twice by one event and ForceClose can come in between, unless a
\* call from outside put the connection on again when it had closed.
THEOREM ClosedOnceCorrect == Spec => []ClosedOnce
<1>1. IInv => ClosedOnce
  BY DEF IInv, Once, ClosedOnce
<1> QED BY <1>1, Invariance, PTL

\* From the close callback until ConnectDestroyed has run, the next stage of the
\* removal waits in the queue of the main loop or of the connection's own loop,
\* or the main loop is between the two.
THEOREM RemovalUnderwayCorrect == Spec => []RemovalUnderway
<1>1. IInv => RemovalUnderway
  BY DEF IInv, Underway, RemovalUnderway
<1> QED BY <1>1, Invariance, PTL

-----------------------------------------------------------------------------
(* Who still refers to a connection that has been let go, and who owns a   *)
(* descriptor: the rest of the invariant, which stands on what is above.   *)

USE InvalidAssumption

\* A connection that runs into one of the three races.
Excused == lost \cup late \cup revived

\* What a thread does or has waiting belongs to connections of its own loop;
\* what names a connection names one that was accepted, by its own number.
Placed ==
    /\ \A l \in SubLoops : \A i \in DOMAIN queue[l] : conn[queue[l][i].conn].loop = l
    /\ \A l \in SubLoops :
          /\ work[l].at # "idle" => conn[work[l].conn].loop = l
          /\ work[l].at \notin {"establish", "destroy", "release"}
    /\ work[MainLoop].at \in {"idle", "establish", "destroy", "release"}
    /\ \A f \in Fds : connections[f] # None =>
          conn[connections[f]].chfd = f /\ conn[connections[f]].state # "Unborn"
    /\ \A c \in Conns : Gone(c) \/ c \in torn \cup lost => conn[c].state # "Unborn"
    /\ \A c \in Conns : conn[c].sockfd \in {Invalid, conn[c].chfd}

\* m_fd_to_channel names channels by their own number, in their own loop, as
\* long as they want events; epoll watches no number that is not in there.
Mapped ==
    \A l \in SubLoops, f \in Fds :
        /\ poller[l].map[f] # None =>
              LET c == poller[l].map[f]
              IN  conn[c].chfd = f /\ conn[c].loop = l /\ conn[c].events # {}
        /\ f \in poller[l].epoll => poller[l].map[f] # None

\* What is owned is not destroyed, nor about to be; a connection is destroyed
\* once, and its channel is nowhere then.
Owned ==
    /\ \A c \in Conns : Held(c, connections, queue, work, holds) /\ Gone(c) =>
          fault = "use after free" /\ c \in Excused
    /\ \A c \in Conns : Gone(c) => c \in torn \cup lost
    /\ fault = "use after free" => Excused # {}
    /\ \A l \in Threads : dying[l] # None =>
          /\ dying[l] \notin freed
          /\ \A k \in Threads : dying[k] = dying[l] => k = l
    /\ fault = "none" => \A l \in SubLoops, f \in Fds : poller[l].map[f] \notin freed

\* A removal begins with a close callback.
Counted ==
    \A c \in Conns : closeCalls[c] = 0 =>
        /\ c \notin torn
        /\ work[MainLoop].at \in {"destroy", "release"} => work[MainLoop].conn # c
        /\ \A l \in Loops : \A i \in DOMAIN queue[l] :
              queue[l][i].call \in {"Remove", "ConnectDestroyed"} => queue[l][i].conn # c

\* Until then the connection has its entry, unless it lost it.
EntryKept ==
    \A c \in Conns \ lost : conn[c].state # "Unborn" /\ closeCalls[c] = 0 =>
        connections[conn[c].chfd] = c

\* From then on its channel is off.
Quieted ==
    \A c \in Conns \ revived :
        closeCalls[c] > 0 \/ (\E l \in Loops : Forcing(l, c)) =>
            conn[c].state = "Disconnected" /\ conn[c].events = {}

\* No call from outside waits behind ConnectDestroyed, but a late one.
Behind ==
    \A l \in SubLoops : \A j \in DOMAIN queue[l] :
        queue[l][j].call \in RawCalls =>
            /\ queue[l][j].conn \in torn => queue[l][j].conn \in late
            /\ \A i \in 1 .. j - 1 :
                  queue[l][i] = [call |-> "ConnectDestroyed", conn |-> queue[l][j].conn] =>
                      queue[l][j].conn \in late

\* After ConnectDestroyed the loop does nothing more for the connection.
TornQuiet ==
    \A c \in torn \ (late \cup revived), l \in SubLoops :
        work[l].at # "idle" => work[l].conn # c

\* Whatever ends a connection finds it no longer Connected.
Ended(c) == conn[c].state \in {"Disconnecting", "Disconnected"}
Ending == {"closing", "closed", "again", "shut", "forced", "rawShut", "rawForced"}
EndingCalls == {"ShutdownInLoop", "ForceCloseInLoop"}
PastConnected ==
    /\ \A l \in Loops : work[l].at \in Ending => Ended(work[l].conn)
    /\ holds.at = "stored" /\ holds.call # "Send" => Ended(holds.conn)
    /\ \A l \in Loops : \A i \in DOMAIN queue[l] :
          queue[l][i].call \in EndingCalls => Ended(queue[l][i].conn)

\* A number that is set is an open socket of the connection, unless its loop is
\* between close(fd) and the assignment, or the destructor of a connection that
\* had lost its entry closed it.
HalfClosed(c) ==
    \E l \in SubLoops :
        work[l].at \in {"closed", "shut", "forced", "rawShut", "rawForced"} /\ work[l].conn = c
Closing(c) == HalfClosed(c) \/ \E l \in SubLoops : work[l].at = "closing" /\ work[l].conn = c
Stolen(fd) == \E d \in lost \cap freed : conn[d].chfd = fd
Sockets ==
    /\ fault = "none" =>
          \A c \in Conns \ freed : conn[c].sockfd # Invalid =>
              kernel[conn[c].sockfd] = c \/ HalfClosed(c) \/ Stolen(conn[c].sockfd)
    /\ \A c \in Conns : conn[c].state = "Disconnected" /\ conn[c].sockfd # Invalid => Closing(c)
    /\ \A c \in torn : conn[c].sockfd = Invalid
    /\ \A c \in Conns : conn[c].state \in {"Connecting", "Connected"} =>
          conn[c].sockfd = conn[c].chfd

SInv == /\ Placed /\ Mapped /\ Owned /\ Counted /\ EntryKept /\ Quieted /\ Behind
        /\ TornQuiet /\ PastConnected /\ Sockets
Inv == IInv /\ SInv

-----------------------------------------------------------------------------
(* What the invariant says of a connection that has been let go.           *)

LEMMA QueueFunctor ==
    ASSUME Typed, NEW l \in Loops, NEW i \in DOMAIN queue[l]
    PROVE  queue[l][i] \in Functor /\ queue[l][i].conn \in Conns
<1>1. queue[l] \in Seq(Functor) /\ DOMAIN queue[l] = 1 .. Len(queue[l])
  BY LenProperties DEF Typed, QueueType
<1>2. queue[l][i] \in Functor
  BY <1>1, ElementOfSeq
<1> QED BY <1>2 DEF Functor

\* Each stage of the removal owns the connection, and so does the entry before.
LEMMA Anchored ==
    ASSUME Typed, Named, Underway, EntryKept, NEW c \in Conns, conn[c].state # "Unborn"
    PROVE  c \in torn \cup lost \/ Held(c, connections, queue, work, holds)
<1>1. CASE closeCalls[c] = 0 /\ c \notin lost
  <2>1. conn[c].chfd \in Fds /\ connections[conn[c].chfd] = c
    BY <1>1 DEF EntryKept, Named
  <2> QED BY <2>1 DEF Held
<1>2. CASE closeCalls[c] # 0
  <2>1. closeCalls[c] > 0
    BY <1>2 DEF Typed, CountType
  <2>2. CASE work[MainLoop] = [at |-> "destroy", conn |-> c]
    <3>1. MainLoop \in Loops
      BY DEF Loops
    <3> QED BY <2>2, <3>1 DEF Held
  <2>3. ASSUME NEW l \in Loops, NEW i \in DOMAIN queue[l], queue[l][i].conn = c,
               queue[l][i].call \in {"Remove", "ConnectDestroyed"}
        PROVE  Held(c, connections, queue, work, holds)
    BY <2>3 DEF Held, Owning
  <2> QED BY <2>1, <2>2, <2>3 DEF Underway
<1> QED BY <1>1, <1>2

LEMMA GoneTorn ==
    ASSUME Inv, NEW c \in Conns, Gone(c)
    PROVE  /\ c \in torn \cup lost
           /\ fault = "none" \/ c \notin Excused => ~Held(c, connections, queue, work, holds)
BY Zenon DEF Inv, SInv, Owned

\* No loop is busy with it ...
LEMMA GoneWork ==
    ASSUME Inv, NEW c \in Conns, Gone(c), c \notin Excused, NEW l \in Loops,
           work[l].at # "idle"
    PROVE  work[l].conn # c
<1>1. c \in torn /\ ~Held(c, connections, queue, work, holds)
  BY GoneTorn DEF Excused
<1>2. CASE l \in SubLoops
  BY <1>1, <1>2 DEF Inv, SInv, TornQuiet, Excused
<1>3. CASE l = MainLoop
  <2>1. work[l].at \in {"establish", "destroy", "release"}
    BY <1>3 DEF Inv, SInv, Placed
  <2> QED BY <1>1, <2>1 DEF Held
<1> QED BY <1>2, <1>3 DEF Loops

\* ... no call from outside waits for it ...
LEMMA GoneRaw ==
    ASSUME Inv, NEW c \in Conns, Gone(c),
           NEW l \in SubLoops, NEW i \in DOMAIN queue[l],
           queue[l][i].call \in RawCalls, queue[l][i].conn = c
    PROVE  c \in lost \cup late
<1>1. c \in torn \cup lost
  BY GoneTorn
<1> QED BY <1>1 DEF Inv, SInv, Behind

\* ... and no poller holds its channel.
LEMMA GoneMap ==
    ASSUME Inv, NEW c \in Conns, Gone(c), c \notin Excused,
           NEW l \in SubLoops, NEW f \in Fds
    PROVE  poller[l].map[f] # c
<1>1. c \in torn
  BY GoneTorn DEF Excused
<1>2. closeCalls[c] \in Nat /\ closeCalls[c] # 0
  BY <1>1 DEF Inv, IInv, SInv, Typed, CountType, Counted
<1>3. conn[c].events = {}
  BY <1>2 DEF Inv, SInv, Quieted, Excused
<1>4. c # None
  OBVIOUS
<1> QED BY <1>3, <1>4 DEF Inv, SInv, Mapped

-----------------------------------------------------------------------------
(* The properties, from the invariant.                                     *)

LEMMA InvDies == Inv => DiesTornDown
<1> SUFFICES ASSUME Inv, NEW c \in Conns \ (lost \cup late \cup revived), Gone(c)
             PROVE  /\ c \in torn
                    /\ \A l \in SubLoops, f \in Fds : poller[l].map[f] # c
                    /\ \A l \in Loops : work[l] # Idle => work[l].conn # c
  BY DEF DiesTornDown
<1>1. c \in Conns /\ c \notin Excused
  BY DEF Excused
<1>2. c \in torn
  BY <1>1, GoneTorn DEF Excused
<1>3. \A l \in Loops : work[l] # Idle => work[l].at # "idle"
  BY DEF Inv, IInv, Typed, WorkType, Work, Idle
<1> QED BY <1>1, <1>2, <1>3, GoneMap, GoneWork

LEMMA InvPoller == Inv => PollerConsistent
<1> SUFFICES ASSUME Inv, fault = "none", NEW l \in SubLoops, NEW f \in Fds
             PROVE  /\ poller[l].map[f] # None =>
                          LET c == poller[l].map[f]
                          IN  c \notin freed /\ conn[c].chfd = f /\ conn[c].loop = l
                    /\ f \in poller[l].epoll => poller[l].map[f] # None
  BY DEF PollerConsistent
<1> QED BY DEF Inv, SInv, Mapped, Owned

LEMMA InvOwns == Inv => OwnsDescriptor
<1> SUFFICES ASSUME Inv, fault = "none", NEW c \in Conns \ freed,
                    conn[c].state \in {"Connecting", "Connected"}
             PROVE  kernel[conn[c].sockfd] = c \/ \E d \in lost \cap freed :
                                                     conn[d].chfd = conn[c].sockfd
  BY DEF OwnsDescriptor
<1>1. ~HalfClosed(c)
  <2>1. \A l \in SubLoops : work[l].at \in Ending => Ended(work[l].conn)
    BY DEF Inv, SInv, PastConnected, Loops
  <2> QED BY <2>1 DEF HalfClosed, Ending, Ended
<1>2. conn[c].sockfd # Invalid
  <2>1. conn[c].chfd \in Fds
    BY DEF Inv, IInv, Named
  <2> QED BY <2>1 DEF Inv, SInv, Sockets
<1> QED BY <1>1, <1>2 DEF Inv, SInv, Sockets, Stolen

LEMMA InvPosted == Inv => PostedCallsSafe
<1> SUFFICES ASSUME Inv, NEW l \in SubLoops, NEW i \in DOMAIN queue[l],
                    queue[l][i].call \in RawCalls, Gone(queue[l][i].conn)
             PROVE  queue[l][i].conn \in lost \cup late
  BY DEF PostedCallsSafe
<1>1. queue[l][i].conn \in Conns
  BY QueueFunctor DEF Inv, IInv, Loops
<1> QED BY <1>1, GoneRaw

LEMMA InvFree == Inv => NoOtherUseAfterFree
BY Zenon DEF Inv, SInv, Owned, NoOtherUseAfterFree, Excused

-----------------------------------------------------------------------------
(* What a step on behalf of connection c, whose loop is l, does.  All are  *)
(* of this kind but an accept, the posting of the establishment, the       *)
(* removal of an entry and a destructor.                                   *)

Half == {"closed", "shut", "forced", "rawShut", "rawForced"}
Busy == Half \cup {"callback", "again", "closing"}
Off(c) == conn[c].state = "Disconnected" /\ conn[c].events = {}

\* A step forward of c in its life: its number and its loop stay.
ConnForm(c) ==
    /\ Alike(conn', conn, c, conn'[c].state)
    /\ conn'[c].state # "Unborn"
    /\ conn'[c].sockfd \in {conn[c].sockfd, Invalid}
    /\ Ended(c) => Ended(c)'
    /\ conn'[c].sockfd # conn[c].sockfd => Ended(c)'

\* Loop l begins, ends or goes on with something for c.
Attends(l, c) ==
    /\ work[l].at # "idle" => work[l].at \in Busy /\ work[l].conn = c
    /\ work'[l].at # "idle" =>
          /\ work'[l].at \in Busy /\ work'[l].conn = c
          /\ c \in torn' => c \in late \cup revived'
    /\ work'[l].at \in Ending => Ended(c)'

WorkForm(l, c) ==
    /\ \A k \in SubLoops \ {l} : work'[k] = work[k]
    /\ work'[l] = work[l] \/ Attends(l, c)
    /\ \/ work'[MainLoop] = work[MainLoop]
       \/ /\ work[MainLoop].at \in {"destroy", "release"} /\ work[MainLoop].conn = c
          /\ \/ work'[MainLoop].at = "idle"
             \/ work'[MainLoop].at = "release" /\ work'[MainLoop].conn = c

QueueForm(l, c) ==
    \/ queue' = queue
    \/ Pops(l) /\ Head(queue[l]).conn = c
    \/ Posts(MainLoop, "Remove", c) /\ closeCalls'[c] # 0
    \/ Posts(l, "ConnectDestroyed", c) /\ closeCalls[c] # 0
    \/ \E call \in RawCalls :
          /\ Posts(l, call, c)
          /\ TornSoon(c) => c \in late'
          /\ call \in EndingCalls => Ended(c)

TornForm(l, c) ==
    \/ torn' = torn
    \/ /\ torn' = torn \cup {c}
       /\ Pops(l) /\ Head(queue[l]) = [call |-> "ConnectDestroyed", conn |-> c]
       /\ conn'[c].sockfd = Invalid /\ work'[l].at = "idle"

\* A step that counts a close callback is the one that turns the channel off, or
\* comes after it.
CountForm(l, c) ==
    /\ \/ closeCalls' = closeCalls
       \/ closeCalls' = [closeCalls EXCEPT ![c] = @ + 1]
    /\ \/ Off(c)'
       \/ /\ Forcing(l, c) \/ (closeCalls' = closeCalls /\ ~Forcing(l, c)')
          /\ Off(c) => Off(c)' \/ c \in revived'

SocketForm(l, c) ==
    /\ \/ kernel' = kernel
          /\ (conn'[c].sockfd = Invalid \/ (HalfClosed(c) => HalfClosed(c)'))
       \/ /\ KernelClose(conn[c].sockfd) /\ ~HalfClosed(c)
          /\ conn'[c].sockfd = Invalid \/ HalfClosed(c)'
    /\ conn'[c].state = "Disconnected" =>
          \/ conn'[c].sockfd = Invalid \/ Closing(c)'
          \/ conn[c].state = "Disconnected" /\ (Closing(c) => Closing(c)')

\* The entry of c's number in l's poller becomes empty, stays, or is c's.
PollerForm(l, c) ==
    LET fd == conn[c].chfd IN
    /\ \A k \in SubLoops, f \in Fds : k # l \/ f # fd =>
          /\ poller'[k].map[f] = poller[k].map[f]
          /\ f \in poller'[k].epoll => f \in poller[k].epoll
    /\ \/ poller'[l].map[fd] = None /\ fd \notin poller'[l].epoll
       \/ /\ poller'[l].map[fd] = poller[l].map[fd]
          /\ fd \in poller'[l].epoll => fd \in poller[l].epoll
          /\ conn'[c].events = {} => conn[c].events = {}
       \/ poller'[l].map[fd] = c /\ conn'[c].events # {}

\* Thread t may let go of c.  The memory of a destroyed connection is touched, or
\* its last reference goes at the end of a callback of a handler.
FaultForm(t, c) ==
    /\ dying[t] = None /\ (dying' = dying \/ LetGo(t, c))
    /\ Gone(c) => fault' = "use after free" /\ c \in Excused
    /\ fault' = "use after free" =>
          Gone(c) \/ (dying' # dying /\ torn' = torn /\ t \in SubLoops
                       /\ work[t].at = "callback" /\ work[t].conn = c)

StepForm(t, l, c) ==
    /\ t \in Threads /\ c \in Conns /\ l \in SubLoops
    /\ conn[c].loop = l /\ conn[c].chfd \in Fds /\ conn[c].state # "Unborn"
    /\ fault = "none"
    /\ ConnForm(c) /\ WorkForm(l, c) /\ QueueForm(l, c) /\ TornForm(l, c)
    /\ CountForm(l, c) /\ SocketForm(l, c) /\ PollerForm(l, c) /\ FaultForm(t, c)
    /\ UNCHANGED <<connections, freed, lost>>
    /\ late' \in {late, late \cup {c}} /\ revived' \in {revived, revived \cup {c}}
    /\ \/ holds' = holds
       \/ holds' = Nothing
       \/ holds'.conn = c
          /\ (holds'.at = "stored" /\ holds'.call # "Send" => Ended(c)')

\* What does not change, or only one way.
LEMMA StepFrame ==
    ASSUME Inv, IInv', NEW t, NEW l, NEW c, StepForm(t, l, c)
    PROVE  /\ c \in Conns /\ l \in SubLoops /\ l \in Loops /\ l # MainLoop /\ MainLoop \in Loops
           /\ SubLoops \subseteq Loops
           /\ \A d \in Conns \ {c} : conn'[d] = conn[d] /\ closeCalls'[d] = closeCalls[d]
           /\ \A d \in Conns :
                 /\ conn'[d].chfd = conn[d].chfd /\ conn'[d].loop = conn[d].loop
                 /\ (conn'[d].state = "Unborn") <=> (conn[d].state = "Unborn")
                 /\ Ended(d) => Ended(d)'
                 /\ closeCalls'[d] = 0 => closeCalls[d] = 0
           /\ torn \subseteq torn' /\ late \subseteq late' /\ revived \subseteq revived'
<1>1. /\ c \in Conns /\ l \in SubLoops /\ l \in Loops /\ l # MainLoop /\ MainLoop \in Loops
      /\ SubLoops \subseteq Loops
  BY DEF StepForm, Loops, SubLoops, MainLoop
<1>2. /\ \A d \in Conns \ {c} : conn'[d] = conn[d]
      /\ conn'[c].chfd = conn[c].chfd /\ conn'[c].loop = conn[c].loop
      /\ conn'[c].state # "Unborn" /\ conn[c].state # "Unborn"
      /\ Ended(c) => Ended(c)'
  BY DEF StepForm, ConnForm, Alike
<1>3. \A d \in Conns : Ended(d) => Ended(d)'
  BY <1>2 DEF Ended
<1>4. closeCalls \in CountType /\ (closeCalls' = closeCalls
                                 \/ closeCalls' = [closeCalls EXCEPT ![c] = @ + 1])
  BY DEF Inv, IInv, Typed, StepForm, CountForm
<1>5. \A d \in Conns : closeCalls'[d] = 0 => closeCalls[d] = 0
  BY <1>1, <1>4 DEF CountType
<1>6. \A d \in Conns \ {c} : closeCalls'[d] = closeCalls[d]
  BY <1>1, <1>4 DEF CountType
<1>7. torn \subseteq torn' /\ late \subseteq late' /\ revived \subseteq revived'
  BY DEF StepForm, TornForm
<1> QED BY <1>1, <1>2, <1>3, <1>5, <1>6, <1>7

\* Where a functor of the next state was before, in its order, or what is new.
LEMMA StepQueue ==
    ASSUME Inv, NEW t, NEW l, NEW c, StepForm(t, l, c), NEW k \in Loops, NEW i \in DOMAIN queue'[k]
    PROVE  \/ i \in DOMAIN queue[k] /\ queue'[k][i] = queue[k][i] /\ ~(k = l /\ Pops(l))
           \/ /\ k = l /\ Pops(l) /\ Head(queue[l]).conn = c
              /\ i + 1 \in DOMAIN queue[k] /\ queue'[k][i] = queue[k][i + 1]
           \/ /\ queue'[k][i].conn = c /\ ~Pops(l)
              /\ \/ /\ k = MainLoop /\ queue'[k][i].call = "Remove" /\ closeCalls'[c] # 0
                 \/ /\ k = l /\ queue'[k][i].call = "ConnectDestroyed" /\ closeCalls[c] # 0
                    /\ i = Len(queue[k]) + 1
                 \/ /\ k = l /\ queue'[k][i].call \in RawCalls /\ i = Len(queue[k]) + 1
                    /\ \A j \in 1 .. i - 1 : queue'[k][j] = queue[k][j]
                    /\ TornSoon(c) => c \in late'
                    /\ queue'[k][i].call \in EndingCalls => Ended(c)
<1>0. Typed /\ l \in Loops /\ MainLoop \in Loops /\ c \in Conns
  BY DEF Inv, IInv, StepForm, Loops
<1>1. CASE queue' = queue
  <2>1. ~Pops(l)
    <3> SUFFICES ASSUME Pops(l) PROVE FALSE
      OBVIOUS
    <3>1. Len(queue'[l]) = Len(queue[l]) - 1 /\ Len(queue[l]) \in Nat
      BY <1>0, TailElements DEF Pops, Typed
    <3> QED BY <1>1, <3>1
  <2> QED BY <1>1, <2>1
<1>2. CASE Pops(l) /\ Head(queue[l]).conn = c
  BY <1>0, <1>2, QueueSources
<1>3. ASSUME NEW m \in Loops, NEW call, Posts(m, call, c)
      PROVE  /\ ~Pops(l)
             /\ \/ i \in DOMAIN queue[k] /\ queue'[k][i] = queue[k][i]
                \/ /\ k = m /\ i = Len(queue[m]) + 1
                   /\ queue'[k][i].call = call /\ queue'[k][i].conn = c
                   /\ \A j \in 1 .. i - 1 : queue'[k][j] = queue[k][j]
  <2>1. /\ Len(queue'[m]) = Len(queue[m]) + 1
        /\ \A j \in 1 .. Len(queue[m]) : queue'[m][j] = queue[m][j]
        /\ \A n \in Loops \ {m} : queue'[n] = queue[n]
    BY <1>0, <1>3, PostElements DEF Posts, Typed
  <2>2. Len(queue[m]) \in Nat /\ Len(queue[l]) \in Nat
    BY <1>0, LenProperties DEF Typed, QueueType
  <2>3. Pops(l) => Len(queue'[l]) = Len(queue[l]) - 1
    BY <1>0, TailElements DEF Pops, Typed
  <2>4. ~Pops(l)
    BY <1>0, <2>1, <2>2, <2>3
  <2>5. \/ i \in DOMAIN queue[k] /\ queue'[k][i] = queue[k][i]
        \/ k = m /\ i = Len(queue[m]) + 1 /\ queue'[k][i] = [call |-> call, conn |-> c]
    BY <1>0, <1>3, QueueSources
  <2>6. CASE i \in DOMAIN queue[k] /\ queue'[k][i] = queue[k][i]
    BY <2>4, <2>6
  <2>7. CASE k = m /\ i = Len(queue[m]) + 1 /\ queue'[k][i] = [call |-> call, conn |-> c]
    <3>1. \A j \in 1 .. i - 1 : queue'[k][j] = queue[k][j]
      BY <2>1, <2>2, <2>7
    <3> QED BY <2>4, <2>7, <3>1
  <2> QED BY <2>5, <2>6, <2>7
<1>4. CASE Posts(MainLoop, "Remove", c) /\ closeCalls'[c] # 0
  BY <1>0, <1>3, <1>4
<1>5. CASE Posts(l, "ConnectDestroyed", c) /\ closeCalls[c] # 0
  BY <1>0, <1>3, <1>5
<1>6. ASSUME NEW call \in RawCalls, Posts(l, call, c), TornSoon(c) => c \in late',
             call \in EndingCalls => Ended(c)
      PROVE  \/ i \in DOMAIN queue[k] /\ queue'[k][i] = queue[k][i] /\ ~(k = l /\ Pops(l))
             \/ /\ queue'[k][i].conn = c /\ ~Pops(l)
                /\ k = l /\ queue'[k][i].call \in RawCalls /\ i = Len(queue[k]) + 1
                /\ \A j \in 1 .. i - 1 : queue'[k][j] = queue[k][j]
                /\ TornSoon(c) => c \in late'
                /\ queue'[k][i].call \in EndingCalls => Ended(c)
  BY <1>0, <1>3, <1>6
<1>7. QueueForm(l, c)
  BY DEF StepForm
<1> QED BY <1>1, <1>2, <1>4, <1>5, <1>6, <1>7 DEF QueueForm

\* Who is owned after the step was before, or is c; who is gone then was before,
\* or is c and no longer owned.
LEMMA StepHeld ==
    ASSUME Inv, IInv', NEW t, NEW l, NEW c, StepForm(t, l, c), NEW d \in Conns \ {c}
    PROVE  Held(d, connections', queue', work', holds') => Held(d, connections, queue, work, holds)
<1>0. c \in Conns /\ l \in Loops /\ SubLoops \subseteq Loops /\ connections' = connections
        /\ (holds' = holds \/ holds' = Nothing \/ holds'.conn = c)
  BY StepFrame DEF StepForm
<1>1. ASSUME holds' # Nothing, holds'.conn = d
      PROVE  Held(d, connections, queue, work, holds)
  BY <1>0, <1>1 DEF Held
<1>2. ASSUME NEW k \in Loops, NEW i \in DOMAIN queue'[k], queue'[k][i].conn = d,
             queue'[k][i].call \in Owning
      PROVE  Held(d, connections, queue, work, holds)
  <2>1. \E j \in DOMAIN queue[k] : queue'[k][i] = queue[k][j]
    BY <1>2, StepQueue
  <2> QED BY <1>2, <2>1 DEF Held
<1>3. ASSUME NEW k \in Loops,
             work'[k].at \in {"callback", "forced", "shut", "establish", "destroy", "release"},
             work'[k].conn = d
      PROVE  Held(d, connections, queue, work, holds)
  <2>1. work'[k] = work[k] \/ work'[k].at = "idle" \/ work'[k].conn = c
    BY DEF StepForm, WorkForm, Attends, Loops
  <2>2. work'[k] = work[k]
    BY <1>3, <2>1
  <2> QED BY <1>3, <2>2 DEF Held
<1>4. (\E f \in Fds : connections'[f] = d) => Held(d, connections, queue, work, holds)
  BY <1>0 DEF Held
<1> QED BY <1>1, <1>2, <1>3, <1>4 DEF Held

LEMMA StepGone ==
    ASSUME Inv, NEW t, NEW l, NEW c, StepForm(t, l, c), NEW d \in Conns, Gone(d)'
    PROVE  \/ Gone(d)
           \/ /\ d = c /\ dying' = [dying EXCEPT ![t] = c] /\ t \in Threads
              /\ ~Held(c, connections', queue', work', holds')
<1>1. freed' = freed /\ t \in Threads /\ dying \in DyingType
        /\ (dying' = dying \/ LetGo(t, c))
  BY Zenon DEF StepForm, FaultForm, Inv, IInv, Typed
<1>2. CASE dying' = dying
  BY <1>1, <1>2 DEF Gone
<1>3. CASE LetGo(t, c) /\ dying' # dying
  <2>1. dying' = [dying EXCEPT ![t] = c] /\ ~Held(c, connections', queue', work', holds')
    BY <1>3 DEF LetGo
  <2>2. \A k \in Threads : dying'[k] = d => d = c \/ dying[k] = d
    BY <1>1, <2>1 DEF DyingType
  <2>3. Gone(d) \/ d = c
    BY <1>1, <2>2 DEF Gone
  <2> QED BY <1>1, <2>1, <2>3
<1> QED BY <1>1, <1>2, <1>3

-----------------------------------------------------------------------------
(* Such a step keeps the invariant.                                        *)

LEMMA StepPlaced ==
    ASSUME Inv, IInv', NEW t, NEW l, NEW c, StepForm(t, l, c)
    PROVE  Placed'
<1>0. /\ c \in Conns /\ l \in SubLoops /\ l # MainLoop /\ SubLoops \subseteq Loops
      /\ \A d \in Conns : /\ conn'[d].chfd = conn[d].chfd /\ conn'[d].loop = conn[d].loop
                          /\ (conn'[d].state = "Unborn") <=> (conn[d].state = "Unborn")
      /\ \A d \in Conns \ {c} : conn'[d] = conn[d]
      /\ conn[c].loop = l /\ conn[c].state # "Unborn"
      /\ connections' = connections /\ lost' = lost
      /\ Placed /\ Typed
  BY StepFrame DEF StepForm, Inv, IInv, SInv
<1>1. ASSUME NEW k \in SubLoops, NEW i \in DOMAIN queue'[k]
      PROVE  conn'[queue'[k][i].conn].loop = k
  <2>1. CASE queue'[k][i].conn = c /\ k = l
    BY <1>0, <2>1
  <2>2. ASSUME NEW j \in DOMAIN queue[k], queue'[k][i] = queue[k][j]
        PROVE  conn'[queue'[k][i].conn].loop = k
    BY <1>0, <2>2, QueueFunctor DEF Placed
  <2>3. k \in Loops /\ k # MainLoop
    BY DEF SubLoops, MainLoop, Loops
  <2> QED BY <2>1, <2>2, <2>3, StepQueue
<1>2. ASSUME NEW k \in SubLoops
      PROVE  /\ work'[k].at # "idle" => conn'[work'[k].conn].loop = k
             /\ work'[k].at \notin {"establish", "destroy", "release"}
  <2>1. CASE work'[k] = work[k]
    <3>1. work[k].at # "idle" => work[k].conn \in Conns
      BY <1>0, WorkConn DEF Typed, WorkType
    <3> QED BY <1>0, <2>1, <3>1 DEF Placed
  <2>2. CASE k = l /\ Attends(l, c)
    BY <1>0, <2>2 DEF Attends, Busy, Half
  <2> QED BY <2>1, <2>2 DEF StepForm, WorkForm
<1>3. work'[MainLoop].at \in {"idle", "establish", "destroy", "release"}
  BY <1>0 DEF StepForm, WorkForm, Placed
<1>4. \A f \in Fds : connections'[f] # None =>
         conn'[connections'[f]].chfd = f /\ conn'[connections'[f]].state # "Unborn"
  BY <1>0 DEF Placed, Typed, EntryType
<1>5. ASSUME NEW d \in Conns, Gone(d)' \/ d \in torn' \cup lost'
      PROVE  conn'[d].state # "Unborn"
  <2>1. Gone(d) \/ d \in torn \cup lost \/ d = c
    BY <1>0, <1>5, StepGone DEF StepForm, TornForm
  <2> QED BY <1>0, <2>1 DEF Placed
<1>6. \A d \in Conns : conn'[d].sockfd \in {Invalid, conn'[d].chfd}
  <2>1. conn'[c].sockfd \in {conn[c].sockfd, Invalid}
    BY DEF StepForm, ConnForm
  <2> QED BY <1>0, <2>1 DEF Placed
<1> QED BY <1>1, <1>2, <1>3, <1>4, <1>5, <1>6 DEF Placed

LEMMA StepMapped ==
    ASSUME Inv, IInv', NEW t, NEW l, NEW c, StepForm(t, l, c)
    PROVE  Mapped'
<1> DEFINE fd == conn[c].chfd
<1>0. /\ c \in Conns /\ l \in SubLoops /\ fd \in Fds /\ conn[c].loop = l
      /\ \A d \in Conns : conn'[d].chfd = conn[d].chfd /\ conn'[d].loop = conn[d].loop
      /\ \A d \in Conns \ {c} : conn'[d] = conn[d]
      /\ PollerForm(l, c) /\ Mapped
  BY StepFrame DEF StepForm, Inv, SInv
<1>1. \A k \in SubLoops, f \in Fds : poller[k].map[f] \in Conns \cup {None}
  BY DEF Inv, IInv, Typed, PollerType, PollerRecord
<1> SUFFICES ASSUME NEW k \in SubLoops, NEW f \in Fds
             PROVE  /\ poller'[k].map[f] # None =>
                          LET d == poller'[k].map[f]
                          IN  conn'[d].chfd = f /\ conn'[d].loop = k /\ conn'[d].events # {}
                    /\ f \in poller'[k].epoll => poller'[k].map[f] # None
  BY DEF Mapped
<1>2. CASE k # l \/ f # fd
  <2>1. /\ poller'[k].map[f] = poller[k].map[f]
        /\ f \in poller'[k].epoll => f \in poller[k].epoll
    BY <1>0, <1>2 DEF PollerForm
  <2>2. ASSUME poller[k].map[f] # None
        PROVE  poller[k].map[f] \in Conns \ {c}
    BY <1>0, <1>1, <1>2, <2>2, SMTT(30) DEF Mapped
  <2> QED BY <1>0, <2>1, <2>2 DEF Mapped
<1>3. CASE k = l /\ f = fd
  <2>1. CASE poller'[l].map[fd] = None /\ fd \notin poller'[l].epoll
    BY <1>3, <2>1
  <2>2. CASE /\ poller'[l].map[fd] = poller[l].map[fd]
             /\ fd \in poller'[l].epoll => fd \in poller[l].epoll
             /\ conn'[c].events = {} => conn[c].events = {}
    <3>1. poller[l].map[fd] # None => poller[l].map[fd] \in Conns
      BY <1>0, <1>1
    <3>2. fd \in poller[l].epoll => poller[l].map[fd] # None
      BY <1>0 DEF Mapped
    <3>3. ASSUME NEW d \in Conns, d = poller[l].map[fd], d # None
          PROVE  conn'[d].chfd = fd /\ conn'[d].loop = l /\ conn'[d].events # {}
      <4>1. conn[d].chfd = fd /\ conn[d].loop = l /\ conn[d].events # {}
        BY <1>0, <3>3, SMTT(30) DEF Mapped
      <4>2. CASE d = c
        BY <1>0, <2>2, <4>1, <4>2
      <4>3. CASE d # c
        BY <1>0, <4>1, <4>3
      <4> QED BY <4>2, <4>3
    <3> HIDE DEF fd
    <3> QED BY <1>3, <2>2, <3>1, <3>2, <3>3
  <2>3. CASE poller'[l].map[fd] = c /\ conn'[c].events # {}
    <3>1. c # None
      BY <1>0
    <3> QED BY <1>0, <1>3, <2>3, <3>1
  <2> QED BY <1>0, <2>1, <2>2, <2>3 DEF PollerForm
<1> QED BY <1>2, <1>3

LEMMA StepCounted ==
    ASSUME Inv, IInv', NEW t, NEW l, NEW c, StepForm(t, l, c)
    PROVE  Counted'
<1>0. /\ c \in Conns /\ l \in Loops /\ MainLoop \in Loops
      /\ \A d \in Conns : closeCalls'[d] = 0 => closeCalls[d] = 0
      /\ Counted /\ Typed
  BY StepFrame DEF Inv, IInv, SInv
<1> SUFFICES ASSUME NEW d \in Conns, closeCalls'[d] = 0
             PROVE  /\ d \notin torn'
                    /\ work'[MainLoop].at \in {"destroy", "release"} => work'[MainLoop].conn # d
                    /\ \A k \in Loops : \A i \in DOMAIN queue'[k] :
                          queue'[k][i].call \in {"Remove", "ConnectDestroyed"} =>
                             queue'[k][i].conn # d
  BY DEF Counted
<1>1. /\ closeCalls[d] = 0 /\ d \notin torn
      /\ work[MainLoop].at \in {"destroy", "release"} => work[MainLoop].conn # d
      /\ \A k \in Loops : \A i \in DOMAIN queue[k] :
            queue[k][i].call \in {"Remove", "ConnectDestroyed"} => queue[k][i].conn # d
  BY <1>0 DEF Counted
<1>2. d \notin torn'
  <2>1. CASE Pops(l) /\ Head(queue[l]) = [call |-> "ConnectDestroyed", conn |-> c]
    <3>1. Head(queue[l]) = queue[l][1] /\ 1 \in DOMAIN queue[l]
      BY <1>0, <2>1, TailElements, LenProperties DEF Pops, Typed, QueueType
    <3>2. c # d
      BY <1>0, <1>1, <2>1, <3>1
    <3> QED BY <1>1, <3>2 DEF StepForm, TornForm
  <2> QED BY <1>1, <2>1 DEF StepForm, TornForm
<1>3. work'[MainLoop].at \in {"destroy", "release"} => work'[MainLoop].conn # d
  BY <1>1 DEF StepForm, WorkForm
<1>4. ASSUME NEW k \in Loops, NEW i \in DOMAIN queue'[k],
             queue'[k][i].call \in {"Remove", "ConnectDestroyed"}
      PROVE  queue'[k][i].conn # d
  <2>1. \/ \E j \in DOMAIN queue[k] : queue'[k][i] = queue[k][j]
        \/ queue'[k][i].conn = c /\ (closeCalls'[c] # 0 \/ closeCalls[c] # 0)
    <3>1. queue'[k][i].call \notin RawCalls
      BY <1>4 DEF RawCalls, Posted
    <3> QED BY <3>1, StepQueue
  <2> QED BY <1>1, <1>4, <2>1
<1> QED BY <1>2, <1>3, <1>4

LEMMA StepEntryKept ==
    ASSUME Inv, IInv', NEW t, NEW l, NEW c, StepForm(t, l, c)
    PROVE  EntryKept'
<1>1. \A d \in Conns : /\ conn'[d].chfd = conn[d].chfd
                       /\ conn'[d].state # "Unborn" => conn[d].state # "Unborn"
                       /\ closeCalls'[d] = 0 => closeCalls[d] = 0
  BY StepFrame
<1>2. connections' = connections /\ lost' = lost /\ EntryKept
  BY DEF StepForm, Inv, SInv
<1> QED BY <1>1, <1>2 DEF EntryKept

LEMMA StepQuieted ==
    ASSUME Inv, IInv', NEW t, NEW l, NEW c, StepForm(t, l, c)
    PROVE  Quieted'
<1>0. /\ c \in Conns /\ l \in SubLoops /\ l \in Loops /\ l # MainLoop
      /\ \A d \in Conns \ {c} : conn'[d] = conn[d] /\ closeCalls'[d] = closeCalls[d]
      /\ revived \subseteq revived' /\ CountForm(l, c) /\ Quieted
  BY StepFrame DEF StepForm, Inv, SInv
<1>1. ASSUME NEW d \in Conns, NEW k \in Loops, Forcing(k, d)', ~Forcing(k, d)
      PROVE  d = c /\ k = l
  <2>1. \/ work'[k] = work[k]
        \/ k = l /\ Attends(l, c)
        \/ k = MainLoop /\ work'[k].at \in {"idle", "release"}
    <3>1. WorkForm(l, c) /\ k \in {MainLoop} \cup SubLoops
      BY DEF StepForm, Loops
    <3>2. CASE k = MainLoop
      BY <3>1, <3>2 DEF WorkForm
    <3>3. CASE k \in SubLoops
      BY <3>1, <3>3 DEF WorkForm
    <3> QED BY <3>1, <3>2, <3>3
  <2>2. k = l /\ Attends(l, c)
    BY <1>1, <2>1 DEF Forcing
  <2> QED BY <1>1, <2>2 DEF Forcing, Attends
<1> SUFFICES ASSUME NEW d \in Conns \ revived',
                    closeCalls'[d] > 0 \/ (\E k \in Loops : Forcing(k, d)')
             PROVE  Off(d)'
  BY DEF Quieted, Off
<1>2. closeCalls[d] > 0 \/ (\E k \in Loops : Forcing(k, d)) => Off(d)
  BY <1>0 DEF Quieted, Off
<1>3. CASE d # c
  <2>1. Off(d)
    BY <1>0, <1>1, <1>2, <1>3
  <2> QED BY <1>0, <1>3, <2>1 DEF Off
<1>4. CASE d = c /\ ~Off(c)'
  <2>1. /\ Forcing(l, c) \/ (closeCalls' = closeCalls /\ ~Forcing(l, c)')
        /\ Off(c) => Off(c)' \/ c \in revived'
    BY <1>0, <1>4 DEF CountForm
  <2>2. Off(c)
    BY <1>0, <1>1, <1>2, <1>4, <2>1
  <2> QED BY <1>4, <2>1, <2>2
<1> QED BY <1>3, <1>4

LEMMA StepBehind ==
    ASSUME Inv, IInv', NEW t, NEW l, NEW c, StepForm(t, l, c)
    PROVE  Behind'
<1>0. /\ c \in Conns /\ l \in SubLoops /\ l \in Loops /\ SubLoops \subseteq Loops
      /\ MainLoop \notin SubLoops /\ conn[c].loop = l
      /\ torn \subseteq torn' /\ late \subseteq late'
      /\ Behind /\ Placed /\ Typed
  <2>1. MainLoop \notin SubLoops
    BY DEF MainLoop, SubLoops
  <2> QED BY <2>1, StepFrame DEF StepForm, Inv, IInv, SInv
<1> SUFFICES ASSUME NEW k \in SubLoops, NEW j \in DOMAIN queue'[k],
                    queue'[k][j].call \in RawCalls
             PROVE  /\ queue'[k][j].conn \in torn' => queue'[k][j].conn \in late'
                    /\ \A i \in 1 .. j - 1 :
                          queue'[k][i] = [call |-> "ConnectDestroyed", conn |-> queue'[k][j].conn]
                             => queue'[k][j].conn \in late'
  BY Zenon DEF Behind
<1> DEFINE d == queue'[k][j].conn
           CD(b) == [call |-> "ConnectDestroyed", conn |-> b]
<1>1. k \in Loops /\ {"Remove", "ConnectDestroyed"} \cap RawCalls = {}
  BY <1>0 DEF RawCalls, Posted
<1>2. /\ queue \in QueueType /\ queue' \in QueueType /\ Len(queue[k]) \in Nat
      /\ DOMAIN queue[k] = 1 .. Len(queue[k]) /\ DOMAIN queue'[k] = 1 .. Len(queue'[k])
      /\ Len(queue'[k]) \in Nat
  BY <1>1, LenProperties DEF Inv, IInv, Typed, QueueType
<1>3. \/ torn' = torn
      \/ torn' = torn \cup {c} /\ Pops(l) /\ Head(queue[l]) = CD(c)
  BY DEF StepForm, TornForm
<1>4. CASE j \in DOMAIN queue[k] /\ queue'[k][j] = queue[k][j] /\ ~(k = l /\ Pops(l))
  <2>1. /\ conn[d].loop = k
        /\ d \in torn => d \in late
        /\ \A i \in 1 .. j - 1 : queue[k][i] = CD(d) => d \in late
    BY <1>0, <1>4 DEF Placed, Behind
  <2>2. d \in torn' => d \in torn
    <3> HIDE DEF d
    <3> QED BY <1>0, <1>3, <1>4, <2>1
  <2>3. ASSUME NEW i \in 1 .. j - 1, queue'[k][i] = CD(d)
        PROVE  queue[k][i] = CD(d)
    <3>1. i \in DOMAIN queue'[k] /\ i # Len(queue[k]) + 1
      BY <1>2, <1>4
    <3>2. queue'[k][i].call = "ConnectDestroyed"
      BY <2>3
    <3> HIDE DEF d
    <3> QED BY <1>0, <1>1, <1>4, <2>3, <3>1, <3>2, StepQueue
  <2> QED BY <1>0, <2>1, <2>2, <2>3
<1>5. CASE /\ k = l /\ Pops(l) /\ j + 1 \in DOMAIN queue[k]
           /\ queue'[k][j] = queue[k][j + 1]
  <2>1. /\ d \in torn => d \in late
        /\ \A i \in 1 .. (j + 1) - 1 : queue[k][i] = CD(d) => d \in late
    <3> DEFINE m == j + 1
    <3>1. m \in DOMAIN queue[k] /\ queue[k][m] = queue'[k][j]
      BY <1>5
    <3> HIDE DEF m
    <3>2. /\ d \in torn => d \in late
          /\ \A i \in 1 .. m - 1 : queue[k][i] = CD(d) => d \in late
      BY <1>0, <3>1 DEF Behind
    <3> QED BY <3>2 DEF m
  <2>2. Head(queue[k]) = queue[k][1]
    BY <1>0, <1>5, TailElements DEF Pops, Typed
  <2>3. 1 \in 1 .. (j + 1) - 1 /\ j \in Nat
    BY <1>2
  <2>4. d \in torn' => d \in late
    <3> HIDE DEF d
    <3> QED BY <1>3, <1>5, <2>1, <2>2, <2>3
  <2>5. ASSUME NEW i \in 1 .. j - 1, queue'[k][i] = CD(d)
        PROVE  i + 1 \in 1 .. (j + 1) - 1 /\ queue[k][i + 1] = CD(d)
    <3>1. i \in DOMAIN queue'[k] /\ i + 1 \in 1 .. (j + 1) - 1
      BY <1>2, <2>3
    <3> HIDE DEF d
    <3> QED BY <1>1, <1>5, <2>5, <3>1, StepQueue
  <2> QED BY <1>0, <2>1, <2>4, <2>5
<1>6. CASE /\ k = l /\ d = c /\ j = Len(queue[k]) + 1 /\ ~Pops(l)
           /\ \A i \in 1 .. j - 1 : queue'[k][i] = queue[k][i]
           /\ TornSoon(c) => c \in late'
  <2>1. c \in torn' => TornSoon(c)
    BY <1>3, <1>6 DEF TornSoon
  <2>2. ASSUME NEW i \in 1 .. j - 1, queue'[k][i] = CD(c)
        PROVE  TornSoon(c)
    <3>1. i \in DOMAIN queue[k] /\ queue[k][i] = CD(c)
      BY <1>2, <1>6, <2>2
    <3> QED BY <1>0, <1>6, <3>1 DEF TornSoon
  <2> QED BY <1>6, <2>1, <2>2
<1> QED BY <1>0, <1>1, <1>4, <1>5, <1>6, StepQueue

LEMMA StepTornQuiet ==
    ASSUME Inv, IInv', NEW t, NEW l, NEW c, StepForm(t, l, c)
    PROVE  TornQuiet'
<1>0. /\ c \in Conns /\ l \in SubLoops /\ TornQuiet /\ Placed
      /\ late \subseteq late' /\ revived \subseteq revived' /\ conn[c].loop = l
  BY StepFrame DEF Inv, SInv, StepForm
<1> SUFFICES ASSUME NEW d \in torn' \ (late' \cup revived'), NEW k \in SubLoops,
                    work'[k].at # "idle", work'[k].conn = d
             PROVE  FALSE
  BY DEF TornQuiet
<1>1. CASE work'[k] = work[k] /\ d \in torn
  BY <1>0, <1>1 DEF TornQuiet
<1>2. CASE work'[k] = work[k] /\ d \notin torn
  <2>1. d = c /\ work'[l].at = "idle"
    BY <1>2 DEF StepForm, TornForm
  <2>2. k = l
    BY <1>0, <1>2, <2>1 DEF Placed
  <2> QED BY <2>1, <2>2
<1>3. CASE k = l /\ Attends(l, c)
  BY <1>3 DEF Attends, StepForm
<1> QED BY <1>1, <1>2, <1>3 DEF StepForm, WorkForm

LEMMA StepPast ==
    ASSUME Inv, IInv', NEW t, NEW l, NEW c, StepForm(t, l, c)
    PROVE  PastConnected'
<1>0. /\ c \in Conns /\ l \in Loops /\ \A d \in Conns : Ended(d) => Ended(d)'
      /\ PastConnected /\ Typed
  BY StepFrame DEF Inv, IInv, SInv
<1>1. ASSUME NEW k \in Loops, work'[k].at \in Ending
      PROVE  Ended(work[k].conn)' /\ work[k].conn' \in Conns
  <2>1. CASE work'[k] = work[k]
    <3>1. work[k].conn \in Conns
      BY <1>0, <1>1, <2>1, WorkConn DEF Typed, WorkType, Ending
    <3>2. Ended(work[k].conn)
      BY <1>0, <1>1, <2>1 DEF PastConnected
    <3> DEFINE d == work[k].conn
    <3>3. conn'[d].state \in {"Disconnecting", "Disconnected"}
      <4>1. \A e \in Conns : Ended(e) => conn'[e].state \in {"Disconnecting", "Disconnected"}
        BY <1>0 DEF Ended
      <4> QED BY <3>1, <3>2, <4>1
    <3> QED BY <2>1, <3>1, <3>3 DEF Ended
  <2>2. CASE k = l /\ Attends(l, c)
    <3>1. work'[k].conn = c /\ Ended(c)'
      BY <1>1, <2>2 DEF Attends, Ending
    <3> QED BY <1>0, <3>1 DEF Ended
  <2>3. CASE k = MainLoop
    BY <1>1, <2>1, <2>3 DEF StepForm, WorkForm, Ending
  <2> QED BY <2>1, <2>2, <2>3 DEF StepForm, WorkForm, Loops
<1>2. holds'.at = "stored" /\ holds'.call # "Send" => Ended(holds.conn)'
  <2>1. CASE holds' = holds
    <3>1. holds.at = "stored" => holds.conn \in Conns
      BY <1>0, HoldsConn DEF Typed
    <3>2. \A e \in Conns : Ended(e) => conn'[e].state \in {"Disconnecting", "Disconnected"}
      BY <1>0 DEF Ended
    <3> QED BY <1>0, <2>1, <3>1, <3>2 DEF PastConnected, Ended
  <2>2. CASE holds' = Nothing
    BY <2>2 DEF Nothing
  <2>3. CASE holds' # holds /\ holds' # Nothing
    <3>1. /\ holds'.conn = c
          /\ holds'.at = "stored" /\ holds'.call # "Send" => Ended(c)'
      BY <2>3 DEF StepForm
    <3> QED BY <3>1 DEF Ended
  <2> QED BY <2>1, <2>2, <2>3
<1>3. ASSUME NEW k \in Loops, NEW i \in DOMAIN queue'[k], queue'[k][i].call \in EndingCalls
      PROVE  conn'[queue'[k][i].conn].state \in {"Disconnecting", "Disconnected"}
  <2>0. \A e \in Conns : Ended(e) => conn'[e].state \in {"Disconnecting", "Disconnected"}
    BY <1>0 DEF Ended
  <2>1. ASSUME NEW j \in DOMAIN queue[k], queue'[k][i] = queue[k][j]
        PROVE  conn'[queue'[k][i].conn].state \in {"Disconnecting", "Disconnected"}
    BY <1>0, <1>3, <2>0, <2>1, QueueFunctor DEF PastConnected
  <2>2. queue'[k][i].call \notin {"Remove", "ConnectDestroyed"}
    BY <1>3 DEF EndingCalls
  <2> QED BY <1>0, <1>3, <2>0, <2>1, <2>2, StepQueue
<1> QED BY <1>1, <1>2, <1>3 DEF PastConnected, Ended

\* The loops' hold on the socket of another connection.
LEMMA StepHalf ==
    ASSUME Inv, IInv', NEW t, NEW l, NEW c, StepForm(t, l, c), NEW d \in Conns \ {c}
    PROVE  /\ HalfClosed(d) => HalfClosed(d)'
           /\ Closing(d) => Closing(d)'
<1>1. ASSUME NEW k \in SubLoops, work[k].at # "idle", work[k].conn = d
      PROVE  work'[k] = work[k]
  <2>1. CASE k = l /\ Attends(l, c)
    BY <1>1, <2>1 DEF Attends
  <2> QED BY <2>1 DEF StepForm, WorkForm
<1>2. HalfClosed(d) => HalfClosed(d)'
  BY <1>1 DEF HalfClosed
<1>3. (\E k \in SubLoops : work[k].at = "closing" /\ work[k].conn = d)
         => \E k \in SubLoops : work'[k].at = "closing" /\ work'[k].conn = d
  BY <1>1
<1> QED BY <1>2, <1>3 DEF Closing

LEMMA StepSockets ==
    ASSUME Inv, IInv', NEW t, NEW l, NEW c, StepForm(t, l, c)
    PROVE  Sockets'
<1>0. /\ c \in Conns /\ freed' = freed /\ lost' = lost /\ fault = "none"
      /\ conn'[c].sockfd \in {conn[c].sockfd, Invalid}
      /\ \A d \in Conns : conn'[d].chfd = conn[d].chfd /\ (Ended(d) => Ended(d)')
      /\ \A d \in Conns \ {c} : conn'[d] = conn[d]
      /\ conn'[c].sockfd # conn[c].sockfd => Ended(c)'
      /\ torn' = torn \/ (torn' = torn \cup {c} /\ conn'[c].sockfd = Invalid)
      /\ SocketForm(l, c) /\ Sockets /\ Typed /\ Typed'
      /\ conn[c].state # "Unborn" /\ conn'[c].state # "Unborn"
  <2>1. StepForm(t, l, c) /\ ConnForm(c) /\ TornForm(l, c) /\ IInv /\ SInv
    BY DEF StepForm, Inv
  <2>2. c \in Conns /\ freed' = freed /\ lost' = lost /\ fault = "none" /\ SocketForm(l, c)
          /\ conn[c].state # "Unborn"
    BY <2>1 DEF StepForm
  <2>3. torn' = torn \/ (torn' = torn \cup {c} /\ conn'[c].sockfd = Invalid)
    BY <2>1 DEF TornForm
  <2> QED BY <2>1, <2>2, <2>3, StepFrame DEF ConnForm, IInv, SInv
<1>1. \A fd : Stolen(fd) <=> Stolen(fd)'
  BY <1>0 DEF Stolen, Typed
<1>2. Gone(c) => fault' # "none"
  BY Zenon DEF StepForm, FaultForm
<1>3. ASSUME NEW d \in Conns \ freed', fault' = "none", conn'[d].sockfd # Invalid
      PROVE  kernel'[conn'[d].sockfd] = d \/ HalfClosed(d)' \/ Stolen(conn[d].sockfd)'
  <2>0. conn'[d].sockfd = conn[d].sockfd /\ conn[d].sockfd \in Fds
    <3>1. conn[d].sockfd \in Fds \cup {Invalid}
      BY <1>0 DEF Typed, ConnType, ConnRecord
    <3> QED BY <1>0, <1>3, <3>1
  <2>1. kernel[conn[d].sockfd] = d \/ HalfClosed(d) \/ Stolen(conn[d].sockfd)
    BY <1>0, <1>3, <2>0 DEF Sockets
  <2>2. CASE Stolen(conn[d].sockfd)
    BY <1>1, <2>0, <2>2 DEF Stolen
  <2>3. CASE HalfClosed(d) /\ d # c
    BY <2>3, StepHalf
  <2>4. CASE HalfClosed(c) /\ d = c
    BY <1>0, <1>3, <2>4 DEF SocketForm
  <2>5. CASE kernel[conn[d].sockfd] = d /\ kernel' = kernel
    BY <2>0, <2>5
  <2>6. CASE kernel[conn[d].sockfd] = d /\ KernelClose(conn[c].sockfd)
                /\ ~HalfClosed(c) /\ (conn'[c].sockfd = Invalid \/ HalfClosed(c)')
    <3>1. CASE d = c
      BY <1>3, <2>6, <3>1
    <3>2. CASE d # c /\ conn[d].sockfd # conn[c].sockfd
      BY <2>0, <2>6, <3>2 DEF KernelClose
    <3>3. CASE d # c /\ conn[d].sockfd = conn[c].sockfd
      <4>1. c \notin freed
        BY <1>2, <1>3 DEF Gone
      <4>2. Stolen(conn[c].sockfd)
        BY <1>0, <2>0, <2>6, <3>3, <4>1 DEF Sockets
      <4> QED BY <2>2, <3>3, <4>2
    <3> QED BY <3>1, <3>2, <3>3
  <2> QED BY <1>0, <2>1, <2>2, <2>3, <2>4, <2>5, <2>6 DEF SocketForm
<1>4. ASSUME NEW d \in Conns, conn'[d].state = "Disconnected", conn'[d].sockfd # Invalid
      PROVE  Closing(d)'
  <2>1. CASE d # c
    BY <1>0, <1>4, <2>1, StepHalf DEF Sockets
  <2>2. CASE d = c
    <3>1. conn[c].sockfd # Invalid
      BY <1>0, <1>4, <2>2
    <3> QED BY <1>0, <1>4, <2>2, <3>1 DEF SocketForm, Sockets
  <2> QED BY <2>1, <2>2
<1>5. \A d \in torn' : conn'[d].sockfd = Invalid
  <2>1. torn \subseteq Conns
    BY <1>0 DEF Typed
  <2> QED BY <1>0, <2>1 DEF Sockets
<1>6. ASSUME NEW d \in Conns, conn'[d].state \in {"Connecting", "Connected"}
      PROVE  conn'[d].sockfd = conn'[d].chfd
  <2>1. ~Ended(d)'
    BY <1>6 DEF Ended
  <2>2. conn[d].state \in {"Connecting", "Connected"}
    <3>1. CASE d = c
      <4>1. conn[c].state \in States
        BY <1>0 DEF Typed, ConnType, ConnRecord
      <4> QED BY <1>0, <2>1, <3>1, <4>1 DEF Ended, States
    <3> QED BY <1>0, <1>6, <3>1
  <2> QED BY <1>0, <2>1, <2>2 DEF Sockets
<1> QED BY <1>3, <1>4, <1>5, <1>6 DEF Sockets

\* Anchored, of the state after a step.
LEMMA AnchoredNext ==
    ASSUME IInv', EntryKept', NEW c \in Conns, conn'[c].state # "Unborn"
    PROVE  c \in torn' \cup lost' \/ Held(c, connections', queue', work', holds')
<1>0. MainLoop \in Loops /\ Typed' /\ Named' /\ Underway'
  BY DEF Loops, IInv
<1>1. CASE closeCalls'[c] = 0 /\ c \notin lost'
  <2>1. conn'[c].chfd \in Fds /\ connections'[conn'[c].chfd] = c
    BY <1>0, <1>1 DEF EntryKept, Named
  <2> QED BY <2>1 DEF Held
<1>2. CASE closeCalls'[c] # 0
  <2>1. closeCalls'[c] > 0
    BY <1>0, <1>2 DEF Typed, CountType
  <2>2. CASE work'[MainLoop] = [at |-> "destroy", conn |-> c]
    BY <1>0, <2>2 DEF Held
  <2>3. ASSUME NEW l \in Loops, NEW i \in DOMAIN queue'[l], queue'[l][i].conn = c,
               queue'[l][i].call \in {"Remove", "ConnectDestroyed"}
        PROVE  Held(c, connections', queue', work', holds')
    BY <2>3 DEF Held, Owning
  <2> QED BY <1>0, <2>1, <2>2, <2>3 DEF Underway
<1> QED BY <1>1, <1>2

LEMMA StepOwned ==
    ASSUME Inv, IInv', NEW t, NEW l, NEW c, StepForm(t, l, c), EntryKept'
    PROVE  Owned'
<1> DEFINE Uaf == fault = "use after free"
           UafNext == fault' = "use after free"
<1>0. /\ c \in Conns /\ t \in Threads /\ l \in SubLoops /\ conn[c].chfd \in Fds
      /\ fault = "none" /\ ~Uaf /\ freed' = freed /\ lost' = lost
      /\ torn \subseteq torn' /\ late \subseteq late' /\ revived \subseteq revived'
      /\ conn'[c].state # "Unborn"
      /\ dying[t] = None /\ dying \in DyingType /\ freed \subseteq Conns
      /\ FaultForm(t, c) /\ PollerForm(l, c) /\ Inv /\ Owned
  <2>1. /\ c \in Conns /\ t \in Threads /\ l \in SubLoops /\ conn[c].chfd \in Fds
        /\ fault = "none" /\ freed' = freed /\ lost' = lost
        /\ FaultForm(t, c) /\ PollerForm(l, c) /\ ConnForm(c)
    BY DEF StepForm
  <2>2. dying[t] = None /\ conn'[c].state # "Unborn"
    BY <2>1, Zenon DEF FaultForm, ConnForm
  <2> QED BY <2>1, <2>2, StepFrame DEF Inv, IInv, SInv, Typed
<1>1. Excused \subseteq Excused'
  BY <1>0 DEF Excused
<1>2. Gone(c) => UafNext /\ c \in Excused'
  BY <1>0, <1>1, Zenon DEF FaultForm
<1>3. ASSUME NEW d \in Conns, Held(d, connections', queue', work', holds'), Gone(d)'
      PROVE  UafNext /\ d \in Excused'
  <2>1. Gone(d)
    BY <1>3, StepGone
  <2>2. CASE d # c
    <3>1. Held(d, connections, queue, work, holds)
      BY <1>3, <2>2, StepHeld
    <3> QED BY <1>0, <2>1, <3>1, Zenon DEF Owned
  <2> QED BY <1>2, <2>1, <2>2, Zenon
<1>4. ASSUME NEW d \in Conns, Gone(d)'
      PROVE  d \in torn' \cup lost'
  <2>1. CASE Gone(d)
    BY <1>0, <2>1 DEF Owned
  <2>2. CASE d = c /\ ~Held(c, connections', queue', work', holds')
    BY <1>0, <2>2, AnchoredNext
  <2> QED BY <1>4, <2>1, <2>2, StepGone
<1>5. ASSUME UafNext PROVE Excused' # {}
  <2>1. CASE Gone(c)
    BY <1>2, <2>1, Zenon
  <2>2. CASE /\ dying' # dying /\ torn' = torn /\ t \in SubLoops
             /\ work[t].at = "callback" /\ work[t].conn = c
    <3>1. dying' = [dying EXCEPT ![t] = c]
      BY <1>0, <2>2, Zenon DEF FaultForm, LetGo
    <3>2. Gone(c)'
      BY <1>0, <3>1 DEF Gone, DyingType
    <3>3. c \in torn \cup lost
      BY <1>0, <1>4, <2>2, <3>2
    <3>4. c \in torn => c \in late \cup revived
      BY <1>0, <2>2 DEF Inv, SInv, TornQuiet
    <3>5. c \in Excused
      BY <3>3, <3>4 DEF Excused
    <3> QED BY <1>1, <3>5
  <2> QED BY <1>0, <1>5, <2>1, <2>2, Zenon DEF FaultForm
<1>6. ASSUME NEW k \in Threads, dying'[k] # None
      PROVE  /\ dying'[k] \notin freed'
             /\ \A m \in Threads : dying'[m] = dying'[k] => m = k
  <2>1. CASE dying' = dying
    BY <1>0, <1>6, <2>1 DEF Owned
  <2>2. CASE dying' # dying
    <3>1. dying' = [dying EXCEPT ![t] = c] /\ ~Gone(c)
      BY <1>0, <2>2, Zenon DEF FaultForm, LetGo
    <3>2. c \notin freed /\ \A m \in Threads : dying[m] # c
      BY <3>1 DEF Gone
    <3>3. \A m \in Threads : dying'[m] = IF m = t THEN c ELSE dying[m]
      BY <1>0, <3>1 DEF DyingType
    <3> QED BY <1>0, <1>6, <3>2, <3>3 DEF Owned
  <2> QED BY <2>1, <2>2
<1>7. ASSUME fault' = "none", NEW k \in SubLoops, NEW f \in Fds
      PROVE  poller'[k].map[f] \notin freed'
  <2>1. c \notin freed
    BY <1>2, <1>7 DEF Gone
  <2>2. poller'[k].map[f] \in {poller[k].map[f], None, c}
    BY <1>0 DEF PollerForm
  <2>3. poller[k].map[f] \notin freed /\ None \notin freed
    BY <1>0 DEF Owned
  <2> QED BY <1>0, <2>1, <2>2, <2>3
<1> QED BY <1>3, <1>4, <1>5, <1>6, <1>7, Zenon DEF Owned

LEMMA StepKeeps ==
    ASSUME Inv, IInv', NEW t, NEW l, NEW c, StepForm(t, l, c)
    PROVE  SInv'
<1>1. EntryKept'
  BY StepEntryKept
<1> QED BY <1>1, StepPlaced, StepMapped, StepOwned, StepCounted, StepQuieted, StepBehind,
           StepTornQuiet, StepPast, StepSockets DEF SInv

-----------------------------------------------------------------------------
(* The steps of a sub loop have that form.                                 *)

\* The fields of c after its assignments: state, events and number.
Becomes(g, f, c, s, ev, fd) ==
    Alike(g, f, c, s) /\ g[c].events = ev /\ g[c].sockfd = fd

LEMMA ConnBecomes ==
    ASSUME conn \in ConnType, NEW c \in Conns, NEW st \in States,
           NEW ev \in SUBSET {"read", "write"}, NEW out \in BOOLEAN
    PROVE  LET s == conn[c].state
               e == conn[c].events
               fd == conn[c].sockfd
           IN  /\ Becomes(conn, conn, c, s, e, fd)
               /\ Becomes([conn EXCEPT ![c].sockfd = Invalid], conn, c, s, e, Invalid)
               /\ Becomes([conn EXCEPT ![c].events = @ \cup {"write"}], conn, c,
                          s, e \cup {"write"}, fd)
               /\ Becomes([conn EXCEPT ![c].output = out, ![c].events = @ \cup {"write"}],
                          conn, c, s, e \cup {"write"}, fd)
               /\ Becomes([conn EXCEPT ![c].output = out, ![c].events = @ \ {"write"}],
                          conn, c, s, e \ {"write"}, fd)
               /\ Becomes([conn EXCEPT ![c].state = st], conn, c, st, e, fd)
               /\ Becomes([conn EXCEPT ![c].sockfd = Invalid, ![c].state = st], conn, c,
                          st, e, Invalid)
               /\ Becomes([conn EXCEPT ![c].state = st, ![c].events = ev], conn, c, st, ev, fd)
               /\ Becomes([conn EXCEPT ![c].state = st, ![c].events = ev, ![c].sockfd = Invalid],
                          conn, c, st, ev, Invalid)
               /\ Becomes([conn EXCEPT ![c].state = st, ![c].events = @ \cup {"write"}],
                          conn, c, st, e \cup {"write"}, fd)
<1> DEFINE To(g, f, s, e, fd) == Becomes(g, f, c, s, e, fd)
<1>1. \A f \in ConnType :
         To([f EXCEPT ![c].state = st], f, st, f[c].events, f[c].sockfd)
  BY SMTT(30) DEF Becomes, Alike, ConnType, ConnRecord
<1>2. \A f \in ConnType :
         To([f EXCEPT ![c].sockfd = Invalid], f, f[c].state, f[c].events, Invalid)
  BY DEF Becomes, Alike, ConnType, ConnRecord
<1>3. \A f \in ConnType :
         To([f EXCEPT ![c].events = ev], f, f[c].state, ev, f[c].sockfd)
  BY DEF Becomes, Alike, ConnType, ConnRecord
<1>4. \A f \in ConnType :
         To([f EXCEPT ![c].output = out], f, f[c].state, f[c].events, f[c].sockfd)
  BY DEF Becomes, Alike, ConnType, ConnRecord
<1>5. \A f \in ConnType :
         To([f EXCEPT ![c].events = @ \cup {"write"}], f, f[c].state,
            f[c].events \cup {"write"}, f[c].sockfd)
  BY DEF Becomes, Alike, ConnType, ConnRecord
<1>6. \A f \in ConnType :
         To([f EXCEPT ![c].events = @ \ {"write"}], f, f[c].state,
            f[c].events \ {"write"}, f[c].sockfd)
  BY DEF Becomes, Alike, ConnType, ConnRecord
<1>7. \A h, g, f, s, e, fd, s2, e2, fd2 :
         To(g, f, s, e, fd) /\ To(h, g, s2, e2, fd2) => To(h, f, s2, e2, fd2)
  BY DEF Becomes, Alike
<1>8. \A g, f, s, e, fd : To(g, f, s, e, fd) =>
         g \in ConnType /\ g[c].state = s /\ g[c].events = e /\ g[c].sockfd = fd
  BY DEF Becomes, Alike
<1>9. conn \in ConnType /\ To(conn, conn, conn[c].state, conn[c].events, conn[c].sockfd)
  BY DEF Becomes, Alike
<1> DEFINE s0 == conn[c].state
           e0 == conn[c].events
           fd0 == conn[c].sockfd
<1> HIDE DEF To
<1>10. To([conn EXCEPT ![c].sockfd = Invalid, ![c].state = st], conn, st, e0, Invalid)
  <2> DEFINE g == [conn EXCEPT ![c].sockfd = Invalid]
  <2>1. To(g, conn, s0, e0, Invalid)
    BY <1>2, <1>9
  <2> HIDE DEF g
  <2>2. To([g EXCEPT ![c].state = st], g, st, e0, Invalid)
    BY <1>1, <1>8, <2>1
  <2>3. To([g EXCEPT ![c].state = st], conn, st, e0, Invalid)
    BY <1>7, <2>1, <2>2
  <2> QED BY <2>3 DEF g
<1>11. /\ To([conn EXCEPT ![c].state = st, ![c].events = ev], conn, st, ev, fd0)
       /\ To([conn EXCEPT ![c].state = st, ![c].events = ev, ![c].sockfd = Invalid], conn,
             st, ev, Invalid)
       /\ To([conn EXCEPT ![c].state = st, ![c].events = @ \cup {"write"}], conn,
             st, e0 \cup {"write"}, fd0)
  <2> DEFINE g == [conn EXCEPT ![c].state = st]
             h == [g EXCEPT ![c].events = ev]
  <2>1. To(g, conn, st, e0, fd0)
    BY <1>1, <1>9
  <2> HIDE DEF g
  <2>2. To(h, g, st, ev, fd0) /\ To([g EXCEPT ![c].events = @ \cup {"write"}], g, st,
                                      e0 \cup {"write"}, fd0)
    <3>1. g \in ConnType /\ g[c].state = st /\ g[c].events = e0 /\ g[c].sockfd = fd0
      BY <1>8, <2>1
    <3>2. /\ To(h, g, g[c].state, ev, g[c].sockfd)
          /\ To([g EXCEPT ![c].events = @ \cup {"write"}], g, g[c].state,
                g[c].events \cup {"write"}, g[c].sockfd)
      BY <1>3, <1>5, <3>1
    <3> QED BY <3>1, <3>2
  <2>3. To(h, conn, st, ev, fd0)
    <3> HIDE DEF h
    <3> QED BY <1>7, <2>1, <2>2
  <2>4. To([g EXCEPT ![c].events = @ \cup {"write"}], conn, st, e0 \cup {"write"}, fd0)
    BY <1>7, <2>1, <2>2
  <2> HIDE DEF h
  <2>5. To([h EXCEPT ![c].sockfd = Invalid], h, st, ev, Invalid)
    BY <1>2, <1>8, <2>3
  <2>6. To([h EXCEPT ![c].sockfd = Invalid], conn, st, ev, Invalid)
    BY <1>7, <2>3, <2>5
  <2> QED BY <2>3, <2>4, <2>6 DEF g, h
<1>12. /\ To([conn EXCEPT ![c].output = out, ![c].events = @ \cup {"write"}], conn,
             s0, e0 \cup {"write"}, fd0)
       /\ To([conn EXCEPT ![c].output = out, ![c].events = @ \ {"write"}], conn,
             s0, e0 \ {"write"}, fd0)
  <2> DEFINE g == [conn EXCEPT ![c].output = out]
  <2>1. To(g, conn, s0, e0, fd0)
    BY <1>4, <1>9
  <2> HIDE DEF g
  <2>2. /\ To([g EXCEPT ![c].events = @ \cup {"write"}], g, s0, e0 \cup {"write"}, fd0)
        /\ To([g EXCEPT ![c].events = @ \ {"write"}], g, s0, e0 \ {"write"}, fd0)
    <3>1. g \in ConnType /\ g[c].state = s0 /\ g[c].events = e0 /\ g[c].sockfd = fd0
      BY <1>8, <2>1
    <3>2. /\ To([g EXCEPT ![c].events = @ \cup {"write"}], g, g[c].state,
                g[c].events \cup {"write"}, g[c].sockfd)
          /\ To([g EXCEPT ![c].events = @ \ {"write"}], g, g[c].state,
                g[c].events \ {"write"}, g[c].sockfd)
      BY <1>5, <1>6, <3>1
    <3> QED BY <3>1, <3>2
  <2>3. /\ To([g EXCEPT ![c].events = @ \cup {"write"}], conn, s0, e0 \cup {"write"}, fd0)
        /\ To([g EXCEPT ![c].events = @ \ {"write"}], conn, s0, e0 \ {"write"}, fd0)
    BY <1>7, <2>1, <2>2
  <2> QED BY <2>3 DEF g
<1>13. /\ To([conn EXCEPT ![c].sockfd = Invalid], conn, s0, e0, Invalid)
       /\ To([conn EXCEPT ![c].events = @ \cup {"write"}], conn, s0, e0 \cup {"write"}, fd0)
       /\ To([conn EXCEPT ![c].state = st], conn, st, e0, fd0)
  BY <1>1, <1>2, <1>5, <1>9
<1> QED BY <1>9, <1>10, <1>11, <1>12, <1>13 DEF To

\* PollerForm, for the poller p and the events ev of c to come.
PollerTo(p, c, ev) ==
    LET fd == conn[c].chfd
        l == conn[c].loop
    IN  /\ \A k \in SubLoops, f \in Fds : k # l \/ f # fd =>
              /\ p[k].map[f] = poller[k].map[f]
              /\ f \in p[k].epoll => f \in poller[k].epoll
        /\ \/ p[l].map[fd] = None /\ fd \notin p[l].epoll
           \/ /\ p[l].map[fd] = poller[l].map[fd]
              /\ fd \in p[l].epoll => fd \in poller[l].epoll
              /\ ev = {} => conn[c].events = {}
           \/ p[l].map[fd] = c /\ ev # {}

LEMMA PollerPieces ==
    ASSUME Typed, NEW c \in Conns, conn[c].chfd \in Fds, conn[c].loop \in SubLoops
    PROVE  /\ PollerTo(poller, c, conn[c].events)
           /\ \A ev : PollerTo(WithEvents(c, ev), c, ev)
           /\ PollerTo(EnableWriting(c), c, conn[c].events \cup {"write"})
           /\ \A p \in PollerType : \A fd, ev : PollerTo(p, c, ev) => PollerTo(Forget(p, fd), c, ev)
           /\ \A ev : WithEvents(c, ev) \in PollerType
<1> DEFINE l == conn[c].loop
           fd == conn[c].chfd
<1>0. poller \in PollerType /\ \A k \in SubLoops : poller[k] \in PollerRecord
  BY DEF Typed, PollerType
<1>1. \A ev : PollerTo(poller, c, ev) \/ (ev = {} /\ conn[c].events # {})
  BY DEF PollerTo
<1>2. ASSUME NEW ev PROVE PollerTo(WithEvents(c, ev), c, ev)
  <2> DEFINE open == kernel[fd] # None
             u == UpdateChannel(poller[l], fd, c, ev, open)
             p == WithEvents(c, ev)
  <2>1. p = [poller EXCEPT ![l] = u]
    BY SMTT(30) DEF WithEvents
  <2> HIDE DEF open
  <2>2. \/ u.map[fd] = None /\ fd \notin u.epoll
        \/ u = poller[l] /\ ev # {}
        \/ u.map[fd] = c /\ ev # {}
    BY <1>0 DEF UpdateChannel, RemoveChannel, PollerRecord
  <2>3. \A f \in Fds \ {fd} :
           u.map[f] = poller[l].map[f] /\ (f \in u.epoll => f \in poller[l].epoll)
    BY <1>0 DEF UpdateChannel, RemoveChannel, PollerRecord
  <2> HIDE DEF u, p
  <2>4. p[l] = u /\ \A k \in SubLoops \ {l} : p[k] = poller[k]
    BY <1>0, <2>1 DEF PollerType
  <2>5. \A k \in SubLoops, f \in Fds : k # l \/ f # fd =>
              /\ p[k].map[f] = poller[k].map[f]
              /\ f \in p[k].epoll => f \in poller[k].epoll
    BY <2>3, <2>4
  <2>6. PollerTo(p, c, ev)
    BY <2>2, <2>4, <2>5 DEF PollerTo
  <2> QED BY <2>6 DEF p
<1>3. PollerTo(EnableWriting(c), c, conn[c].events \cup {"write"})
  BY <1>1, <1>2 DEF EnableWriting
<1>4. ASSUME NEW p \in PollerType, NEW n, NEW ev, PollerTo(p, c, ev)
      PROVE  PollerTo(Forget(p, n), c, ev)
  <2>1. \A k \in SubLoops : Forget(p, n)[k].map = p[k].map
                              /\ Forget(p, n)[k].epoll \subseteq p[k].epoll
    BY DEF Forget, Forgotten, PollerType, PollerRecord
  <2> DEFINE q == Forget(p, n)
  <2> HIDE DEF q
  <2>2. PollerTo(q, c, ev)
    BY <1>4, <2>1, SMTT(30) DEF PollerTo, q
  <2> QED BY <2>2 DEF q
<1>5. \A ev : WithEvents(c, ev) \in PollerType
  BY WithEventsType
<1> QED BY <1>1, <1>2, <1>3, <1>4, <1>5

\* Whether a loop holds c's socket shows in what c's own loop does.
LEMMA HalfAt ==
    ASSUME Inv, IInv', NEW l \in SubLoops, NEW c \in Conns, conn[c].loop = l,
           \A k \in SubLoops \ {l} : work'[k] = work[k],
           work[l].at # "idle" => work[l].conn = c, work'[l].at # "idle" => work'[l].conn = c
    PROVE  /\ HalfClosed(c) <=> work[l].at \in Half
           /\ HalfClosed(c)' <=> work'[l].at \in Half
           /\ Closing(c) <=> work[l].at \in Half \cup {"closing"}
           /\ Closing(c)' <=> work'[l].at \in Half \cup {"closing"}
<1>1. \A k \in SubLoops : work[k].at # "idle" /\ work[k].conn = c => k = l
  BY DEF Inv, SInv, Placed
<1>2. \A k \in SubLoops : work'[k].at # "idle" /\ work'[k].conn = c => k = l
  BY <1>1
<1>3. (HalfClosed(c) <=> work[l].at \in Half) /\ (HalfClosed(c)' <=> work'[l].at \in Half)
  BY <1>1, <1>2 DEF HalfClosed, Half
<1>4. /\ (\E k \in SubLoops : work[k].at = "closing" /\ work[k].conn = c) <=> work[l].at = "closing"
      /\ (\E k \in SubLoops : work'[k].at = "closing" /\ work'[k].conn = c)
            <=> work'[l].at = "closing"
  BY <1>1, <1>2
<1>5. Half \cap {"closing"} = {}
  BY DEF Half
<1> QED BY <1>3, <1>4 DEF Closing

\* A step of loop l on behalf of c, from work at a to work at b, after which c's
\* state is s, its events ev and its number n.
Turn(l, c, a, b) ==
    /\ \A k \in Loops \ {l} : work'[k] = work[k]
    /\ work[l].at = a /\ (a # "idle" => a \in Busy /\ work[l].conn = c)
    /\ work'[l].at = b /\ (b # "idle" => b \in Busy /\ work'[l].conn = c)
    /\ \/ b = "idle" \/ a # "idle"
       \/ c \in torn => c \in late \cup revived

Counts(c, a, b, s, ev) ==
    /\ \/ closeCalls' = closeCalls
       \/ closeCalls' = [closeCalls EXCEPT ![c] = @ + 1]
    /\ \/ s = "Disconnected" /\ ev = {}
       \/ /\ \/ a \in {"forced", "rawForced"}
             \/ closeCalls' = closeCalls /\ b \notin {"forced", "rawForced"}
          /\ Off(c) => (s = "Disconnected" /\ ev = {}) \/ c \in revived'

SocketGoes(c, a, b, s, n) ==
    /\ \/ kernel' = kernel /\ (n = Invalid \/ a \notin Half \/ b \in Half)
       \/ KernelClose(conn[c].sockfd) /\ a \notin Half /\ (n = Invalid \/ b \in Half)
    /\ s = "Disconnected" =>
          \/ n = Invalid \/ b \in Half \cup {"closing"}
          \/ conn[c].state = "Disconnected" /\ a \notin Half \cup {"closing"}

LoopsOwn(l, c) ==
    /\ l \in SubLoops /\ c \in Conns /\ conn[c].loop = l /\ conn[c].chfd \in Fds
    /\ conn[c].state # "Unborn" /\ fault = "none" /\ dying[l] = None

Rest(c) ==
    /\ UNCHANGED <<connections, freed, lost, late>>
    /\ revived' \in {revived, revived \cup {c}}
    /\ holds' = holds \/ holds' = [at |-> "has", conn |-> c]

LEMMA TurnForm ==
    ASSUME Inv, IInv', NEW l, NEW c, LoopsOwn(l, c),
           NEW s \in States \ {"Unborn"}, NEW ev, NEW n \in {conn[c].sockfd, Invalid},
           Becomes(conn', conn, c, s, ev, n), NEW a, NEW b, Turn(l, c, a, b),
           Ended(c) \/ n # conn[c].sockfd \/ b \in Ending =>
               s \in {"Disconnecting", "Disconnected"},
           Counts(c, a, b, s, ev), SocketGoes(c, a, b, s, n), PollerTo(poller', c, ev),
           QueueForm(l, c), TornForm(l, c), FaultForm(l, c), Rest(c)
    PROVE  StepForm(l, l, c)
<1>0. /\ l \in SubLoops /\ c \in Conns /\ conn[c].loop = l /\ l \in Loops /\ l \in Threads
      /\ l # MainLoop /\ MainLoop \in Loops /\ SubLoops \subseteq Loops
  BY DEF LoopsOwn, Loops, SubLoops, MainLoop, Threads
<1>1. /\ Alike(conn', conn, c, s) /\ conn'[c].state = s /\ conn'[c].events = ev
      /\ conn'[c].sockfd = n
  BY DEF Becomes, Alike
<1>2. ConnForm(c)
  BY <1>1 DEF ConnForm, Ended
<1>3. WorkForm(l, c)
  <2>1. /\ \A k \in SubLoops \ {l} : work'[k] = work[k]
        /\ work'[MainLoop] = work[MainLoop]
    BY <1>0 DEF Turn
  <2>2. Attends(l, c)
    <3>1. b # "idle" /\ c \in torn' => c \in late \cup revived'
      <4>1. b # "idle" => torn' = torn
        BY DEF TornForm, Turn
      <4>2. a # "idle" /\ c \in torn => c \in late \cup revived
        BY <1>0 DEF Turn, Inv, SInv, TornQuiet
      <4>3. revived \subseteq revived'
        BY DEF Rest
      <4> QED BY <4>1, <4>2, <4>3 DEF Turn
    <3>2. b \in Ending => Ended(c)'
      BY <1>1 DEF Ended
    <3> QED BY <3>1, <3>2 DEF Turn, Attends
  <2> QED BY <2>1, <2>2 DEF WorkForm
<1>4. /\ HalfClosed(c) <=> a \in Half
      /\ HalfClosed(c)' <=> b \in Half
      /\ Closing(c) <=> a \in Half \cup {"closing"}
      /\ Closing(c)' <=> b \in Half \cup {"closing"}
  BY <1>0, HalfAt DEF Turn
<1>5. SocketForm(l, c)
  BY <1>1, <1>4 DEF SocketForm, SocketGoes
<1>6. CountForm(l, c)
  <2>1. /\ Off(c)' <=> (s = "Disconnected" /\ ev = {})
        /\ a \in {"forced", "rawForced"} => Forcing(l, c)
        /\ b \notin {"forced", "rawForced"} => ~Forcing(l, c)'
    BY <1>1 DEF Off, Forcing, Turn
  <2> QED BY <2>1 DEF CountForm, Counts
<1>7. PollerForm(l, c)
  BY <1>0, <1>1 DEF PollerForm, PollerTo
<1>8. /\ holds' = holds
         \/ (holds'.conn = c /\ (holds'.at = "stored" /\ holds'.call # "Send" => Ended(c)'))
      /\ late' \in {late, late \cup {c}} /\ revived' \in {revived, revived \cup {c}}
      /\ UNCHANGED <<connections, freed, lost>>
  BY DEF Rest
<1>9. conn[c].chfd \in Fds /\ conn[c].state # "Unborn" /\ fault = "none"
  BY DEF LoopsOwn
<1> QED BY <1>0, <1>2, <1>3, <1>5, <1>6, <1>7, <1>8, <1>9 DEF StepForm

\* Touching c's memory, in the middle of something for it or not destroyed yet.
LEMMA TouchForm ==
    ASSUME Inv, NEW l, NEW c, LoopsOwn(l, c), dying' = dying,
           Touch(c) \/ (fault' = fault /\ ~Gone(c)), Gone(c) => c \in Excused
    PROVE  FaultForm(l, c)
BY Zenon DEF FaultForm, Touch, LoopsOwn

LEMMA BusyGone ==
    ASSUME Inv, NEW l \in SubLoops, work[l].at # "idle"
    PROVE  /\ LoopsOwn(l, work[l].conn) <=> (fault = "none" /\ dying[l] = None)
           /\ work[l].at \in Busy
           /\ Gone(work[l].conn) => work[l].conn \in Excused
           /\ work[l].at \in {"callback", "shut", "forced"} /\ fault = "none" => ~Gone(work[l].conn)
<1> DEFINE c == work[l].conn
<1>0. l \in Loops /\ Typed /\ Named /\ Placed /\ Owned /\ work[l] \in Work
  BY DEF Inv, IInv, SInv, Loops, Typed, WorkType
<1>1. c \in Conns /\ conn[c].loop = l
  BY <1>0, WorkConn DEF Placed
<1>2. work[l].at \in Busy
  BY <1>0 DEF Placed, Work, Busy, Half
<1>3. Begun(c)
  BY <1>0, <1>2, BusyWith DEF Busy, Half
<1>4. conn[c].chfd \in Fds /\ conn[c].state # "Unborn"
  BY <1>0, <1>1, <1>3, BegunNumber DEF Begun, Early
<1>5. Gone(c) => c \in Excused
  BY <1>0, <1>1, GoneWork
<1>6. work[l].at \in {"callback", "shut", "forced"} => Held(c, connections, queue, work, holds)
  BY <1>0 DEF Held
<1>7. work[l].at \in {"callback", "shut", "forced"} /\ fault = "none" => ~Gone(c)
  BY <1>0, <1>1, <1>6 DEF Owned
<1> HIDE DEF c
<1> QED BY <1>1, <1>2, <1>4, <1>5, <1>7 DEF LoopsOwn, c

\* The head of an idle loop's queue.
LEMMA HeadOwn ==
    ASSUME Inv, NEW l \in SubLoops, IsIdle(l), queue[l] # <<>>
    PROVE  LET c == Head(queue[l]).conn
               call == Head(queue[l]).call
           IN  /\ LoopsOwn(l, c) /\ work[l].at = "idle"
               /\ Head(queue[l]) = [call |-> call, conn |-> c]
               /\ call \in RawCalls => /\ Gone(c) => c \in Excused
                                       /\ c \in torn => c \in late
                                       /\ Begun(c)
               /\ call \in {"ConnectEstablished", "ConnectDestroyed"} => ~Gone(c)
               /\ call \in EndingCalls => Ended(c)
               /\ call = "ConnectDestroyed" => closeCalls[c] # 0 /\ Begun(c)
               /\ call = "ConnectEstablished" =>
                     conn[c].state = "Connecting" /\ (c \in torn => c \in revived)
<1> DEFINE e == Head(queue[l])
<1>0. /\ l \in Loops /\ Typed /\ Named /\ Establishing /\ Once /\ SInv /\ fault = "none"
      /\ dying[l] = None /\ work[l].at = "idle"
  BY DEF Loops, Inv, IInv, IsIdle, Free, Idle
<1>1. e \in Functor /\ e = queue[l][1] /\ 1 \in DOMAIN queue[l]
  BY <1>0, TailElements, LenProperties DEF Typed, QueueType
<1>2. /\ e.conn \in Conns /\ conn[e.conn].chfd \in Fds /\ conn[e.conn].state # "Unborn"
      /\ e = [call |-> e.call, conn |-> e.conn]
      /\ e.call = "ConnectEstablished" => conn[e.conn].state = "Connecting"
      /\ e.call # "ConnectEstablished" => Begun(e.conn)
  BY <1>0, <1>1, HeadNames DEF Functor, Begun, Early
<1> DEFINE c == e.conn
<1> HIDE DEF e
<1>3. conn[c].loop = l
  BY <1>0, <1>1 DEF SInv, Placed
<1>4. LoopsOwn(l, c)
  BY <1>0, <1>2, <1>3 DEF LoopsOwn
<1>5. ASSUME e.call \in RawCalls
      PROVE  (Gone(c) => c \in Excused) /\ (c \in torn => c \in late)
  <2>1. Gone(c) => c \in lost \cup late
    BY <1>1, <1>2, <1>5, GoneRaw
  <2> QED BY <1>0, <1>1, <1>5, <2>1 DEF Excused, SInv, Behind
<1>6. e.call \in {"ConnectEstablished", "ConnectDestroyed"} => ~Gone(c)
  <2>1. e.call \in {"ConnectEstablished", "ConnectDestroyed"} =>
           Held(c, connections, queue, work, holds)
    BY <1>0, <1>1 DEF Held, Owning
  <2> QED BY <1>0, <1>2, <2>1 DEF SInv, Owned
<1>7. e.call \in EndingCalls => Ended(c)
  BY <1>0, <1>1 DEF SInv, PastConnected
<1>8. e.call = "ConnectDestroyed" => closeCalls[c] # 0
  BY <1>0, <1>1, <1>2 DEF SInv, Counted
<1>9. e.call = "ConnectEstablished" => (c \in torn => c \in revived)
  <2>1. c \in torn => closeCalls[c] > 0
    BY <1>0, <1>2 DEF SInv, Counted, Typed, CountType
  <2> QED BY <1>0, <1>2, <2>1 DEF Once
<1>10. e.call \in RawCalls => e.call # "ConnectEstablished"
  BY DEF RawCalls, Posted
<1> HIDE DEF c
<1>11. e.call \in RawCalls => Begun(c)
  BY <1>2, <1>10 DEF c
<1>12. /\ e.call = "ConnectDestroyed" => Begun(c)
       /\ e.call = "ConnectEstablished" => conn[c].state = "Connecting"
       /\ e = [call |-> e.call, conn |-> c]
  BY <1>2 DEF c
<1> QED BY <1>0, <1>4, <1>5, <1>6, <1>7, <1>8, <1>9, <1>11, <1>12 DEF c, e

\* A connection a poll reports.
LEMMA ReadyOwn ==
    ASSUME Inv, NEW l \in SubLoops, NEW c \in Conns, Ready(l, c)
    PROVE  /\ LoopsOwn(l, c) /\ work[l].at = "idle" /\ Begun(c) /\ conn[c].events # {}
           /\ Gone(c) => c \in Excused
           /\ c \in torn => c \in late \cup revived
<1>0. /\ l \in Loops /\ Typed /\ Named /\ SInv /\ fault = "none"
      /\ dying[l] = None /\ work[l].at = "idle"
  BY DEF Loops, Inv, IInv, Ready, IsIdle, Free, Idle
<1>1. PICK f \in poller[l].epoll : poller[l].map[f] = c
  BY DEF Ready
<1>2. f \in Fds /\ c # None
  BY <1>0, <1>1 DEF Typed, PollerType, PollerRecord
<1>3. conn[c].chfd = f /\ conn[c].loop = l /\ conn[c].events # {}
  BY <1>0, <1>1, <1>2 DEF SInv, Mapped
<1>4. Begun(c)
  BY <1>0, ReadyNames
<1>5. LoopsOwn(l, c)
  BY <1>0, <1>2, <1>3, <1>4 DEF LoopsOwn, Begun, Early
<1>6. Gone(c) => c \in Excused
  BY <1>1, <1>2, GoneMap
<1>7. c \in torn => c \in revived
  <2>1. c \in torn => closeCalls[c] > 0
    BY <1>0 DEF SInv, Counted, Typed, CountType
  <2> QED BY <1>0, <1>3, <2>1 DEF SInv, Quieted
<1> QED BY <1>0, <1>3, <1>4, <1>5, <1>6, <1>7

\* What every step of a loop on behalf of c may use.
LEMMA OwnPieces ==
    ASSUME Inv, NEW l, NEW c, LoopsOwn(l, c)
    PROVE  /\ l \in Loops /\ l \in SubLoops /\ c \in Conns /\ conn \in ConnType /\ work \in WorkType
           /\ conn[c].state \in States \ {"Unborn"} /\ conn[c].events \in SUBSET {"read", "write"}
           /\ PollerTo(poller, c, conn[c].events)
           /\ \A ev : PollerTo(WithEvents(c, ev), c, ev)
           /\ PollerTo(EnableWriting(c), c, conn[c].events \cup {"write"})
           /\ \A fd : PollerTo(Forget(poller, fd), c, conn[c].events)
           /\ \A ev, fd : PollerTo(Forget(WithEvents(c, ev), fd), c, ev)
<1>0. /\ l \in SubLoops /\ l \in Loops /\ c \in Conns
      /\ conn[c].chfd \in Fds /\ conn[c].loop \in SubLoops
      /\ Typed /\ poller \in PollerType /\ conn \in ConnType /\ work \in WorkType
      /\ conn[c].state # "Unborn"
  BY DEF LoopsOwn, Loops, Inv, IInv, Typed
<1>1. conn[c].state \in States /\ conn[c].events \in SUBSET {"read", "write"}
  BY <1>0 DEF ConnType, ConnRecord
<1>2. /\ PollerTo(poller, c, conn[c].events)
      /\ \A ev : PollerTo(WithEvents(c, ev), c, ev)
      /\ PollerTo(EnableWriting(c), c, conn[c].events \cup {"write"})
      /\ \A p \in PollerType : \A fd, ev : PollerTo(p, c, ev) => PollerTo(Forget(p, fd), c, ev)
      /\ \A ev : WithEvents(c, ev) \in PollerType
  BY <1>0, PollerPieces
<1> QED BY <1>0, <1>1, <1>2

\* The functors.
LEMMA EstablishedForm ==
    ASSUME Inv, IInv', NEW l \in SubLoops, ConnectEstablished(l)
    PROVE  \E c : StepForm(l, l, c)
<1> DEFINE c == Head(queue[l]).conn
<1>1. /\ IsIdle(l) /\ queue[l] # <<>> /\ Head(queue[l]).call = "ConnectEstablished"
      /\ conn' = [conn EXCEPT ![c].state = "Connected", ![c].events = {"read"}]
      /\ poller' = WithEvents(c, {"read"})
      /\ work' = [work EXCEPT ![l] = [at |-> "callback", conn |-> c, handler |-> FALSE]]
      /\ queue' = [queue EXCEPT ![l] = Tail(@)]
      /\ UNCHANGED <<connections, kernel, dying, freed, fault, closeCalls, torn, lost, holds,
                     late, revived>>
  BY DEF ConnectEstablished, NextFunctor, worker
<1>2. /\ LoopsOwn(l, c) /\ work[l].at = "idle" /\ conn[c].state = "Connecting" /\ ~Gone(c)
      /\ c \in torn => c \in revived
  BY <1>1, HeadOwn
<1>3. Pops(l) /\ Head(queue[l]).conn = c
  BY <1>1 DEF Pops
<1> HIDE DEF c
<1>4. /\ conn \in ConnType /\ work \in WorkType /\ c \in Conns /\ l \in Loops
      /\ PollerTo(poller', c, {"read"})
  BY <1>1, <1>2, OwnPieces, Zenon
<1>5. Becomes(conn', conn, c, "Connected", {"read"}, conn[c].sockfd)
  <2>1. "Connected" \in States /\ {"read"} \in SUBSET {"read", "write"} /\ TRUE \in BOOLEAN
    BY DEF States
  <2> QED BY <1>1, <1>4, <2>1, ConnBecomes, Zenon
<1>6. Turn(l, c, "idle", "callback")
  <2>1. /\ \A k \in Loops \ {l} : work'[k] = work[k]
        /\ work'[l].at = "callback" /\ work'[l].conn = c
    BY <1>1, <1>4 DEF WorkType
  <2> QED BY <1>2, <2>1 DEF Turn, Busy
<1>7. Counts(c, "idle", "callback", "Connected", {"read"})
  BY <1>1, <1>2 DEF Counts, Off
<1>8. SocketGoes(c, "idle", "callback", "Connected", conn[c].sockfd)
  BY <1>1 DEF SocketGoes, Half
<1>9. QueueForm(l, c) /\ TornForm(l, c) /\ Rest(c)
  BY <1>1, <1>3 DEF QueueForm, TornForm, Rest
<1>10. FaultForm(l, c)
  BY <1>1, <1>2, TouchForm
<1>11. "Connected" \in States \ {"Unborn"} /\ ~Ended(c) /\ "callback" \notin Ending
  BY <1>2 DEF States, Ended, Ending
<1>12. StepForm(l, l, c)
  BY <1>2, <1>4, <1>5, <1>6, <1>7, <1>8, <1>9, <1>10, <1>11, TurnForm
<1> QED BY <1>12

LEMMA DestroyedForm ==
    ASSUME Inv, IInv', NEW l \in SubLoops, ConnectDestroyed(l)
    PROVE  \E c : StepForm(l, l, c)
<1> DEFINE c == Head(queue[l]).conn
           open == conn[c].state \in {"Connected", "Disconnecting"}
           s == IF open THEN "Disconnected" ELSE conn[c].state
           ev == IF open THEN {} ELSE conn[c].events
           n == IF open THEN Invalid ELSE conn[c].sockfd
<1>1. /\ IsIdle(l) /\ queue[l] # <<>> /\ Head(queue[l]).call = "ConnectDestroyed"
      /\ conn' = IF open
                 THEN [conn EXCEPT ![c].state = "Disconnected", ![c].events = {},
                                   ![c].sockfd = Invalid]
                 ELSE conn
      /\ poller' = IF open THEN Forget(WithEvents(c, {}), conn[c].sockfd) ELSE poller
      /\ IF open THEN KernelClose(conn[c].sockfd) ELSE UNCHANGED kernel
      /\ torn' = torn \cup {c}
      /\ c \notin freed => fault' = "none"
      /\ queue' = [queue EXCEPT ![l] = Tail(@)]
      /\ LetGo(l, c)
      /\ UNCHANGED <<connections, work, freed, closeCalls, lost, holds, late, revived>>
  BY ZenonT(30) DEF ConnectDestroyed, NextFunctor, worker
<1>2. /\ LoopsOwn(l, c) /\ work[l].at = "idle" /\ closeCalls[c] # 0 /\ Begun(c) /\ ~Gone(c)
      /\ Head(queue[l]) = [call |-> "ConnectDestroyed", conn |-> c]
  BY <1>1, HeadOwn, ZenonT(30)
<1>3. Pops(l) /\ Head(queue[l]).conn = c
  BY <1>1, Zenon DEF Pops
<1> HIDE DEF c
<1>4. /\ conn \in ConnType /\ c \in Conns /\ l \in Loops
      /\ conn[c].state \in States \ {"Unborn"}
      /\ PollerTo(poller, c, conn[c].events)
      /\ \A fd : PollerTo(Forget(WithEvents(c, {}), fd), c, {})
  BY <1>2, OwnPieces
<1>5. Becomes(conn', conn, c, s, ev, n)
  <2>1. "Disconnected" \in States /\ {} \in SUBSET {"read", "write"} /\ TRUE \in BOOLEAN
    BY DEF States
  <2>2. CASE open
    <3>1. Becomes([conn EXCEPT ![c].state = "Disconnected", ![c].events = {},
                               ![c].sockfd = Invalid],
                  conn, c, "Disconnected", {}, Invalid)
      BY <1>4, <2>1, ConnBecomes, Zenon
    <3>2. conn' = [conn EXCEPT ![c].state = "Disconnected", ![c].events = {},
                               ![c].sockfd = Invalid]
      BY <1>1, <2>2
    <3> QED BY <2>2, <3>1, <3>2
  <2>3. CASE ~open
    BY <1>1, <1>4, <2>1, <2>3, ConnBecomes, Zenon
  <2> QED BY <2>2, <2>3
<1>6. s = "Disconnected" /\ n = Invalid
  <2>1. CASE ~open
    <3>1. conn[c].state = "Disconnected"
      BY <1>2, <1>4, <2>1 DEF States, Begun, Early
    <3>2. ~Closing(c)
      <4>1. \A k \in SubLoops : work[k].at # "idle" /\ work[k].conn = c => k = l
        BY <1>2 DEF Inv, SInv, Placed, LoopsOwn
      <4> QED BY <1>2, <4>1 DEF Closing, HalfClosed
    <3>3. conn[c].sockfd = Invalid
      BY <1>4, <3>1, <3>2 DEF Inv, SInv, Sockets
    <3> QED BY <2>1, <3>1, <3>3
  <2> QED BY <2>1
<1>7. Turn(l, c, "idle", "idle")
  BY <1>1, <1>2 DEF Turn
<1>8. Counts(c, "idle", "idle", s, ev)
  BY <1>1 DEF Counts, Off
<1>9. SocketGoes(c, "idle", "idle", s, n)
  BY <1>1, <1>6 DEF SocketGoes, Half
<1>10. QueueForm(l, c) /\ Rest(c)
  BY <1>1, <1>3 DEF QueueForm, Rest
<1>11. conn'[c].sockfd = Invalid
  BY <1>5, <1>6 DEF Becomes
<1>12. TornForm(l, c)
  BY <1>1, <1>2, <1>3, <1>11 DEF TornForm
<1>13. FaultForm(l, c)
  <2>1. fault' = "none"
    BY <1>1, <1>2 DEF Gone
  <2> QED BY <1>1, <1>2, <2>1 DEF FaultForm, LoopsOwn
<1>14. PollerTo(poller', c, ev)
  BY <1>1, <1>4
<1>15. /\ s \in States \ {"Unborn"} /\ n \in {conn[c].sockfd, Invalid}
       /\ s \in {"Disconnecting", "Disconnected"}
  BY <1>6 DEF States
<1> HIDE DEF s, ev, n, open
<1>16. StepForm(l, l, c)
  BY <1>2, <1>5, <1>7, <1>8, <1>9, <1>10, <1>12, <1>13, <1>14, <1>15, TurnForm
<1> QED BY <1>16

LEMMA SendInLoopForm ==
    ASSUME Inv, IInv', NEW l \in SubLoops, SendInLoop(l)
    PROVE  \E c : StepForm(l, l, c)
<1> DEFINE c == Head(queue[l]).conn
           open == conn[c].state = "Connected"
           ev == IF open THEN conn[c].events \cup {"write"} ELSE conn[c].events
<1>1. /\ IsIdle(l) /\ queue[l] # <<>> /\ Head(queue[l]).call \in RawCalls
      /\ IF open
         THEN /\ conn' = [conn EXCEPT ![c].output = TRUE, ![c].events = @ \cup {"write"}]
              /\ poller' = EnableWriting(c)
         ELSE UNCHANGED <<conn, poller>>
      /\ Touch(c)
      /\ queue' = [queue EXCEPT ![l] = Tail(@)]
      /\ UNCHANGED <<connections, work, kernel, dying, freed, closeCalls, torn, lost, holds,
                     late, revived>>
  <2>1. /\ RunsPosted(l, "Send")
        /\ IF open
           THEN /\ conn' = [conn EXCEPT ![c].output = TRUE, ![c].events = @ \cup {"write"}]
                /\ poller' = EnableWriting(c)
           ELSE UNCHANGED <<conn, poller>>
        /\ UNCHANGED <<work, kernel, worker>>
    BY DEF SendInLoop
  <2>2. Posted["Send"] \in RawCalls
    BY DEF RawCalls, Posted
  <2> HIDE DEF open
  <2> QED BY <2>1, <2>2 DEF RunsPosted, NextFunctor, worker
<1>2. /\ LoopsOwn(l, c) /\ work[l].at = "idle"
      /\ Gone(c) => c \in Excused
  BY <1>1, HeadOwn
<1>3. Pops(l) /\ Head(queue[l]).conn = c
  BY <1>1 DEF Pops
<1> HIDE DEF c
<1>4. /\ conn \in ConnType /\ c \in Conns /\ l \in Loops
      /\ conn[c].state \in States \ {"Unborn"}
      /\ PollerTo(poller, c, conn[c].events)
      /\ PollerTo(EnableWriting(c), c, conn[c].events \cup {"write"})
  BY <1>2, OwnPieces
<1>5. Becomes(conn', conn, c, conn[c].state, ev, conn[c].sockfd)
  <2>1. "Connected" \in States /\ {} \in SUBSET {"read", "write"} /\ TRUE \in BOOLEAN
    BY DEF States
  <2>2. CASE open
    BY <1>1, <1>4, <2>1, <2>2, ConnBecomes, ZenonT(30)
  <2>3. CASE ~open
    BY <1>1, <1>4, <2>1, <2>3, ConnBecomes, Zenon
  <2> QED BY <2>2, <2>3
<1>6. Turn(l, c, "idle", "idle")
  BY <1>1, <1>2 DEF Turn
<1>7. Counts(c, "idle", "idle", conn[c].state, ev)
  <2>1. Off(c) => ~open
    BY DEF Off
  <2> QED BY <1>1, <2>1 DEF Counts, Off
<1>8. SocketGoes(c, "idle", "idle", conn[c].state, conn[c].sockfd)
  BY <1>1 DEF SocketGoes, Half
<1>9. QueueForm(l, c) /\ TornForm(l, c) /\ Rest(c)
  BY <1>1, <1>3 DEF QueueForm, TornForm, Rest
<1>10. FaultForm(l, c)
  BY <1>1, <1>2, TouchForm
<1>11. PollerTo(poller', c, ev)
  BY <1>1, <1>4
<1>12. Ended(c) => conn[c].state \in {"Disconnecting", "Disconnected"}
  BY DEF Ended
<1>13. "idle" \notin Ending
  BY DEF Ending
<1> HIDE DEF ev, open
<1>14. StepForm(l, l, c)
  BY <1>2, <1>4, <1>5, <1>6, <1>7, <1>8, <1>9, <1>10, <1>11, <1>12, <1>13, TurnForm
<1> QED BY <1>14

LEMMA ShutdownInLoopForm ==
    ASSUME Inv, IInv', NEW l \in SubLoops, ShutdownInLoop(l)
    PROVE  \E c : StepForm(l, l, c)
<1> DEFINE c == Head(queue[l]).conn
           s == conn[c].state
           n == conn[c].sockfd
<1>1. /\ IsIdle(l) /\ queue[l] # <<>> /\ Head(queue[l]).call = "ShutdownInLoop"
      /\ Touch(c)
      /\ queue' = [queue EXCEPT ![l] = Tail(@)]
      /\ UNCHANGED <<connections, dying, freed, closeCalls, torn, lost, holds, late>>
  BY DEF ShutdownInLoop, RunsPosted, NextFunctor, worker, Posted
<1>2. \/ /\ conn' = [conn EXCEPT ![c].events = @ \cup {"write"}]
         /\ poller' = EnableWriting(c)
         /\ Revives(c)
         /\ UNCHANGED <<work, kernel>>
      \/ /\ poller' = Forget(poller, n)
         /\ KernelClose(n)
         /\ work' = [work EXCEPT ![l] = [at |-> "rawShut", conn |-> c]]
         /\ UNCHANGED <<conn, revived>>
  BY DEF ShutdownInLoop, worker
<1>3. Head(queue[l]).call \in RawCalls /\ Head(queue[l]).call \in EndingCalls
  BY <1>1 DEF RawCalls, Posted, EndingCalls
<1>4. /\ LoopsOwn(l, c) /\ work[l].at = "idle" /\ Ended(c)
      /\ Gone(c) => c \in Excused
      /\ c \in torn => c \in late
  BY <1>1, <1>3, HeadOwn
<1>5. Pops(l) /\ Head(queue[l]).conn = c
  BY <1>1 DEF Pops
<1> HIDE DEF c
<1>6. /\ conn \in ConnType /\ work \in WorkType /\ c \in Conns /\ l \in Loops
      /\ s \in States \ {"Unborn"}
      /\ PollerTo(EnableWriting(c), c, conn[c].events \cup {"write"})
      /\ \A fd : PollerTo(Forget(poller, fd), c, conn[c].events)
  BY <1>4, OwnPieces
<1>7. /\ QueueForm(l, c) /\ TornForm(l, c) /\ FaultForm(l, c)
      /\ s \in {"Disconnecting", "Disconnected"}
  <2>1. FaultForm(l, c)
    BY <1>1, <1>4, TouchForm
  <2> QED BY <1>1, <1>4, <1>5, <2>1 DEF QueueForm, TornForm, Ended
<1>8. CASE /\ conn' = [conn EXCEPT ![c].events = @ \cup {"write"}]
           /\ poller' = EnableWriting(c)
           /\ Revives(c)
           /\ UNCHANGED <<work, kernel>>
  <2> DEFINE ev == conn[c].events \cup {"write"}
  <2>1. Becomes(conn', conn, c, s, ev, n)
    <3>1. "Connected" \in States /\ {} \in SUBSET {"read", "write"} /\ TRUE \in BOOLEAN
      BY DEF States
    <3> QED BY <1>6, <1>8, <3>1, ConnBecomes, Zenon
  <2>2. Turn(l, c, "idle", "idle")
    BY <1>4, <1>8 DEF Turn
  <2>3. Off(c) => c \in revived'
    BY <1>8 DEF Off, Revives
  <2>4. Counts(c, "idle", "idle", s, ev)
    BY <1>1, <2>3 DEF Counts
  <2>5. SocketGoes(c, "idle", "idle", s, n)
    BY <1>8 DEF SocketGoes, Half
  <2>6. Rest(c)
    BY <1>1, <1>8 DEF Rest, Revives
  <2>7. PollerTo(poller', c, ev)
    BY <1>6, <1>8
  <2> HIDE DEF s, ev, n
  <2>8. n \in {conn[c].sockfd, Invalid}
    BY DEF n
  <2>9. StepForm(l, l, c)
    BY <1>4, <1>6, <1>7, <2>1, <2>2, <2>4, <2>5, <2>6, <2>7, <2>8, TurnForm
  <2> QED BY <2>9
<1>9. CASE /\ poller' = Forget(poller, n)
           /\ KernelClose(n)
           /\ work' = [work EXCEPT ![l] = [at |-> "rawShut", conn |-> c]]
           /\ UNCHANGED <<conn, revived>>
  <2> DEFINE ev == conn[c].events
  <2>1. Becomes(conn', conn, c, s, ev, n)
    BY <1>6, <1>9 DEF Becomes, Alike
  <2>2. Turn(l, c, "idle", "rawShut")
    <3>1. /\ \A k \in Loops \ {l} : work'[k] = work[k]
          /\ work'[l].at = "rawShut" /\ work'[l].conn = c
      BY <1>6, <1>9 DEF WorkType
    <3> QED BY <1>4, <3>1 DEF Turn, Busy, Half
  <2>3. Counts(c, "idle", "rawShut", s, ev)
    BY <1>1 DEF Counts, Off
  <2>4. SocketGoes(c, "idle", "rawShut", s, n)
    BY <1>9 DEF SocketGoes, Half
  <2>5. Rest(c)
    BY <1>1, <1>9 DEF Rest
  <2>6. PollerTo(poller', c, ev)
    BY <1>6, <1>9
  <2> HIDE DEF s, ev, n
  <2>7. n \in {conn[c].sockfd, Invalid}
    BY DEF n
  <2>8. StepForm(l, l, c)
    BY <1>4, <1>6, <1>7, <2>1, <2>2, <2>3, <2>4, <2>5, <2>6, <2>7, TurnForm
  <2> QED BY <2>8
<1> QED BY <1>2, <1>8, <1>9

LEMMA ForceCloseInLoopForm ==
    ASSUME Inv, IInv', NEW l \in SubLoops, ForceCloseInLoop(l)
    PROVE  \E c : StepForm(l, l, c)
<1> DEFINE c == Head(queue[l]).conn
           n == conn[c].sockfd
<1>1. /\ IsIdle(l) /\ queue[l] # <<>> /\ Head(queue[l]).call = "ForceCloseInLoop"
      /\ Touch(c)
      /\ queue' = [queue EXCEPT ![l] = Tail(@)]
      /\ UNCHANGED <<connections, dying, freed, closeCalls, torn, lost, holds, late, revived>>
  BY DEF ForceCloseInLoop, RunsPosted, NextFunctor, worker, Posted
<1>2. \/ /\ conn' = [conn EXCEPT ![c].state = "Disconnected", ![c].events = {}]
         /\ poller' = Forget(WithEvents(c, {}), n)
         /\ KernelClose(n)
         /\ work' = [work EXCEPT ![l] = [at |-> "rawForced", conn |-> c]]
      \/ UNCHANGED <<conn, poller, kernel, work>>
  BY DEF ForceCloseInLoop
<1>3. Head(queue[l]).call \in RawCalls /\ Head(queue[l]).call \in EndingCalls
  BY <1>1 DEF RawCalls, Posted, EndingCalls
<1>4. /\ LoopsOwn(l, c) /\ work[l].at = "idle" /\ Ended(c)
      /\ Gone(c) => c \in Excused
      /\ c \in torn => c \in late
  BY <1>1, <1>3, HeadOwn
<1>5. Pops(l) /\ Head(queue[l]).conn = c
  BY <1>1 DEF Pops
<1> HIDE DEF c
<1>6. /\ conn \in ConnType /\ work \in WorkType /\ c \in Conns /\ l \in Loops
      /\ conn[c].state \in States \ {"Unborn"}
      /\ PollerTo(poller, c, conn[c].events)
      /\ \A fd : PollerTo(Forget(WithEvents(c, {}), fd), c, {})
  BY <1>4, OwnPieces
<1>7. /\ QueueForm(l, c) /\ TornForm(l, c) /\ FaultForm(l, c) /\ Rest(c)
      /\ conn[c].state \in {"Disconnecting", "Disconnected"}
  <2>1. FaultForm(l, c)
    BY <1>1, <1>4, TouchForm
  <2> QED BY <1>1, <1>4, <1>5, <2>1 DEF QueueForm, TornForm, Ended, Rest
<1>8. CASE /\ conn' = [conn EXCEPT ![c].state = "Disconnected", ![c].events = {}]
           /\ poller' = Forget(WithEvents(c, {}), n)
           /\ KernelClose(n)
           /\ work' = [work EXCEPT ![l] = [at |-> "rawForced", conn |-> c]]
  <2>0. /\ "Disconnected" \in States \ {"Unborn"}
        /\ {} \in SUBSET {"read", "write"} /\ TRUE \in BOOLEAN
    BY DEF States
  <2>1. Becomes(conn', conn, c, "Disconnected", {}, n)
    BY <1>6, <1>8, <2>0, ConnBecomes, Zenon
  <2>2. Turn(l, c, "idle", "rawForced")
    <3>1. /\ \A k \in Loops \ {l} : work'[k] = work[k]
          /\ work'[l].at = "rawForced" /\ work'[l].conn = c
      BY <1>6, <1>8 DEF WorkType
    <3> QED BY <1>4, <3>1 DEF Turn, Busy, Half
  <2>3. Counts(c, "idle", "rawForced", "Disconnected", {})
    BY <1>1 DEF Counts
  <2>4. SocketGoes(c, "idle", "rawForced", "Disconnected", n)
    BY <1>8 DEF SocketGoes, Half
  <2>5. PollerTo(poller', c, {})
    BY <1>6, <1>8
  <2>6. n \in {conn[c].sockfd, Invalid}
    OBVIOUS
  <2> HIDE DEF n
  <2>7. StepForm(l, l, c)
    BY <1>4, <1>6, <1>7, <2>0, <2>1, <2>2, <2>3, <2>4, <2>5, <2>6, TurnForm
  <2> QED BY <2>7
<1>9. CASE UNCHANGED <<conn, poller, kernel, work>>
  <2> DEFINE s == conn[c].state
             ev == conn[c].events
  <2>1. Becomes(conn', conn, c, s, ev, n)
    BY <1>6, <1>9 DEF Becomes, Alike
  <2>2. Turn(l, c, "idle", "idle")
    BY <1>4, <1>9 DEF Turn
  <2>3. Counts(c, "idle", "idle", s, ev)
    BY <1>1 DEF Counts, Off
  <2>4. SocketGoes(c, "idle", "idle", s, n)
    BY <1>9 DEF SocketGoes, Half
  <2>5. PollerTo(poller', c, ev)
    BY <1>6, <1>9
  <2>6. n \in {conn[c].sockfd, Invalid} /\ s \in States \ {"Unborn"}
          /\ s \in {"Disconnecting", "Disconnected"}
    BY <1>6, <1>7
  <2> HIDE DEF s, ev, n
  <2>7. StepForm(l, l, c)
    BY <1>4, <1>6, <1>7, <2>1, <2>2, <2>3, <2>4, <2>5, <2>6, TurnForm
  <2> QED BY <2>7
<1> QED BY <1>2, <1>8, <1>9

\* HandleClose, from a poll or for the second time.
LEMMA HandleCloseForm ==
    ASSUME Inv, IInv', NEW l, NEW c, LoopsOwn(l, c), NEW again, HandleClose(l, c, again),
           NEW a \in {"idle", "again"}, work[l].at = a, a # "idle" => work[l].conn = c,
           a = "idle" => (c \in torn => c \in late \cup revived),
           FaultForm(l, c), UNCHANGED <<connections, kernel, freed, torn, lost, worker>>
    PROVE  StepForm(l, l, c)
<1> DEFINE n == conn[c].sockfd
<1>1. /\ conn \in ConnType /\ work \in WorkType /\ c \in Conns /\ l \in Loops
      /\ conn[c].state \in States \ {"Unborn"}
      /\ PollerTo(poller, c, conn[c].events) /\ PollerTo(WithEvents(c, {}), c, {})
  BY OwnPieces
<1>2. /\ TornForm(l, c) /\ Rest(c) /\ a \in Busy \cup {"idle"} /\ a \notin Half
      /\ closeCalls \in CountType
  BY DEF TornForm, Rest, Busy, Half, worker, Inv, IInv, Typed
<1>3. n \in {conn[c].sockfd, Invalid}
  OBVIOUS
<1>4. CASE MustClose(c)
  <2>1. /\ conn' = [conn EXCEPT ![c].state = "Disconnected", ![c].events = {}]
        /\ poller' = WithEvents(c, {})
        /\ queue' = Post(queue, MainLoop, "Remove", c)
        /\ closeCalls' = [closeCalls EXCEPT ![c] = @ + 1]
        /\ work' = [work EXCEPT ![l] = [at |-> "closing", conn |-> c, again |-> again]]
    BY <1>4 DEF HandleClose
  <2>2. /\ "Disconnected" \in States \ {"Unborn"}
        /\ {} \in SUBSET {"read", "write"} /\ TRUE \in BOOLEAN
    BY DEF States
  <2>3. Becomes(conn', conn, c, "Disconnected", {}, n)
    BY <1>1, <2>1, <2>2, ConnBecomes, Zenon
  <2>4. Turn(l, c, a, "closing")
    <3>1. /\ \A k \in Loops \ {l} : work'[k] = work[k]
          /\ work'[l].at = "closing" /\ work'[l].conn = c
      BY <1>1, <2>1 DEF WorkType
    <3>2. "closing" \in Busy
      BY DEF Busy
    <3> QED BY <1>2, <3>1, <3>2 DEF Turn
  <2>5. Counts(c, a, "closing", "Disconnected", {})
    BY <2>1 DEF Counts
  <2>6. SocketGoes(c, a, "closing", "Disconnected", n)
    BY <1>2 DEF SocketGoes
  <2>7. QueueForm(l, c)
    <3>1. closeCalls'[c] # 0
      BY <1>1, <1>2, <2>1 DEF CountType
    <3>2. [call |-> "Remove", conn |-> c] \in Functor
      BY <1>1 DEF Functor
    <3> QED BY <2>1, <3>1, <3>2 DEF QueueForm, Posts
  <2>8. PollerTo(poller', c, {})
    BY <1>1, <2>1
  <2> HIDE DEF n
  <2>9. StepForm(l, l, c)
    BY <1>2, <1>3, <2>2, <2>3, <2>4, <2>5, <2>6, <2>7, <2>8, TurnForm
  <2> QED BY <2>9
<1>5. CASE ~MustClose(c)
  <2> DEFINE ev == conn[c].events
  <2>1. /\ UNCHANGED <<conn, poller, queue, closeCalls>> /\ work' = [work EXCEPT ![l] = Idle]
        /\ conn[c].state = "Disconnected"
    BY <1>5 DEF HandleClose, MustClose
  <2>2. "Disconnected" \in States \ {"Unborn"}
    BY DEF States
  <2>3. Becomes(conn', conn, c, "Disconnected", ev, n)
    BY <1>1, <2>1 DEF Becomes, Alike
  <2>4. Turn(l, c, a, "idle")
    <3>1. /\ \A k \in Loops \ {l} : work'[k] = work[k]
          /\ work'[l].at = "idle"
      BY <1>1, <2>1 DEF WorkType, Idle
    <3> QED BY <1>2, <3>1 DEF Turn
  <2>5. Counts(c, a, "idle", "Disconnected", ev)
    BY <2>1 DEF Counts, Off
  <2>6. SocketGoes(c, a, "idle", "Disconnected", n)
    BY <1>2, <2>1 DEF SocketGoes
  <2>7. QueueForm(l, c)
    BY <2>1 DEF QueueForm
  <2>8. PollerTo(poller', c, ev)
    BY <1>1, <2>1
  <2> HIDE DEF n, ev
  <2>9. StepForm(l, l, c)
    BY <1>2, <1>3, <2>2, <2>3, <2>4, <2>5, <2>6, <2>7, <2>8, TurnForm
  <2> QED BY <2>9
<1> QED BY <1>4, <1>5

LEMMA HandlersForm ==
    ASSUME Inv, IInv', NEW l \in SubLoops, NEW c \in Conns,
           \/ Dangling(l, c) \/ HandleRead(l, c) \/ HandleWrite(l, c)
           \/ \E again \in BOOLEAN : PeerCloses(l, c, again)
    PROVE  StepForm(l, l, c)
<1> DEFINE s == conn[c].state
           n == conn[c].sockfd
<1>1. Ready(l, c)
  BY Zenon DEF Dangling, HandleRead, HandleWrite, PeerCloses
<1>2. /\ LoopsOwn(l, c) /\ work[l].at = "idle" /\ Begun(c) /\ conn[c].events # {}
      /\ Gone(c) => c \in Excused
      /\ c \in torn => c \in late \cup revived
  BY <1>1, ReadyOwn
<1>3. /\ conn \in ConnType /\ work \in WorkType /\ l \in Loops
      /\ conn[c].state \in States \ {"Unborn"}
      /\ PollerTo(poller, c, conn[c].events) /\ \A ev : PollerTo(WithEvents(c, ev), c, ev)
  BY <1>2, OwnPieces
<1>4. n \in {conn[c].sockfd, Invalid} /\ (Ended(c) => s \in {"Disconnecting", "Disconnected"})
        /\ "idle" \notin Ending /\ "callback" \notin Ending /\ ~Off(c)
  BY <1>2 DEF Ended, Ending, Off
<1>5. Becomes(conn, conn, c, s, conn[c].events, n)
  BY <1>3 DEF Becomes, Alike
<1>6. s \in States \ {"Unborn"} /\ n = conn[c].sockfd
  BY <1>3
<1>7. CASE Dangling(l, c)
  <2>1. /\ fault' = "use after free" /\ Gone(c)
        /\ UNCHANGED <<conn, connections, queue, work, poller, kernel, dying, freed, closeCalls,
                       torn, lost, holds, late, revived>>
    BY <1>7, Zenon DEF Dangling, worker
  <2>2. Touch(c)
    BY <2>1, Zenon DEF Touch
  <2>3. FaultForm(l, c)
    BY <1>2, <2>1, <2>2, TouchForm, Zenon
  <2>4. Turn(l, c, "idle", "idle") /\ Counts(c, "idle", "idle", s, conn[c].events)
    BY <1>2, <1>4, <2>1, Zenon DEF Turn, Counts
  <2>5. SocketGoes(c, "idle", "idle", s, n)
    BY <2>1, Zenon DEF SocketGoes, Half
  <2>6. QueueForm(l, c) /\ TornForm(l, c) /\ Rest(c)
    BY <2>1, Zenon DEF QueueForm, TornForm, Rest
  <2>7. Becomes(conn', conn, c, s, conn[c].events, n) /\ PollerTo(poller', c, conn[c].events)
    BY <1>3, <1>5, <2>1, Zenon
  <2> HIDE DEF s, n
  <2> QED BY <1>2, <1>4, <1>6, <2>3, <2>4, <2>5, <2>6, <2>7, TurnForm
<1>8. CASE HandleRead(l, c) \/ HandleWrite(l, c)
  <2> DEFINE ev == conn'[c].events
  <2>1. /\ ~Gone(c) /\ work' = [work EXCEPT ![l] = Handler(c)]
        /\ UNCHANGED <<connections, queue, kernel, dying, freed, fault, closeCalls,
                       torn, lost, holds, late, revived>>
    BY <1>8 DEF HandleRead, HandleWrite, worker
  <2>2. FaultForm(l, c)
    BY <1>2, <2>1, TouchForm
  <2>3. Becomes(conn', conn, c, s, ev, n) /\ PollerTo(poller', c, ev)
    <3>1. CASE HandleRead(l, c)
      <4>1. conn' = conn /\ poller' = poller
        BY <3>1 DEF HandleRead
      <4> QED BY <1>3, <1>5, <4>1
    <3>2. CASE HandleWrite(l, c)
      <4>1. /\ conn' = [conn EXCEPT ![c].output = FALSE, ![c].events = @ \ {"write"}]
            /\ poller' = WithEvents(c, conn[c].events \ {"write"})
        BY <3>2 DEF HandleWrite
      <4>2. Becomes(conn', conn, c, s, conn[c].events \ {"write"}, n)
        <5>1. "Connected" \in States /\ {} \in SUBSET {"read", "write"} /\ FALSE \in BOOLEAN
          BY DEF States
        <5> QED BY <1>3, <4>1, <5>1, ConnBecomes, Zenon
      <4>3. ev = conn[c].events \ {"write"}
        BY <4>2 DEF Becomes
      <4> HIDE DEF ev, s, n
      <4> QED BY <1>3, <4>1, <4>2, <4>3
    <3> QED BY <1>8, <3>1, <3>2
  <2>4. Turn(l, c, "idle", "callback")
    <3>1. /\ \A k \in Loops \ {l} : work'[k] = work[k]
          /\ work'[l].at = "callback" /\ work'[l].conn = c
      BY <1>3, <2>1 DEF WorkType, Handler
    <3> QED BY <1>2, <3>1 DEF Turn, Busy
  <2>5. Counts(c, "idle", "callback", s, ev)
    BY <1>4, <2>1 DEF Counts
  <2>6. SocketGoes(c, "idle", "callback", s, n)
    BY <2>1 DEF SocketGoes, Half
  <2>7. QueueForm(l, c) /\ TornForm(l, c) /\ Rest(c)
    BY <2>1 DEF QueueForm, TornForm, Rest
  <2> HIDE DEF s, n, ev
  <2> QED BY <1>2, <1>4, <1>6, <2>2, <2>3, <2>4, <2>5, <2>6, <2>7, TurnForm
<1>9. ASSUME NEW again \in BOOLEAN, PeerCloses(l, c, again) PROVE StepForm(l, l, c)
  <2>1. /\ HandleClose(l, c, again) /\ ~Gone(c)
        /\ UNCHANGED <<connections, kernel, dying, freed, fault, torn, lost, worker>>
    BY <1>9 DEF PeerCloses
  <2>2. FaultForm(l, c)
    BY <1>2, <2>1, TouchForm
  <2> QED BY <1>2, <2>1, <2>2, HandleCloseForm
<1> QED BY <1>7, <1>8, <1>9

\* The middle of something a loop does for c.
LEMMA BusyOwn ==
    ASSUME Inv, NEW l \in SubLoops, Free(l), work[l].at # "idle"
    PROVE  LET c == work[l].conn
           IN  /\ LoopsOwn(l, c) /\ work[l] \in Work /\ work[l].at \in Busy
               /\ Gone(c) => c \in Excused
               /\ work[l].at \in {"callback", "shut", "forced"} => ~Gone(c)
               /\ work[l].at \in Ending => conn[c].state \in {"Disconnecting", "Disconnected"}
<1>1. l \in Loops /\ fault = "none" /\ dying[l] = None /\ work[l] \in Work
  BY DEF Free, Loops, Inv, IInv, Typed, WorkType
<1>2. work[l].at \in Ending => Ended(work[l].conn)
  BY <1>1 DEF Inv, SInv, PastConnected
<1> QED BY <1>1, <1>2, BusyGone DEF Ended

\* A turn that neither posts nor tears down, nor closes for good.
LEMMA QuietTurn ==
    ASSUME UNCHANGED <<connections, queue, freed, torn, lost, holds, late, revived>>, NEW l, NEW c
    PROVE  QueueForm(l, c) /\ TornForm(l, c) /\ Rest(c)
BY DEF QueueForm, TornForm, Rest

\* What the loop is at changes, but not for whom.
LEMMA TurnTo ==
    ASSUME Inv, NEW l, NEW c, LoopsOwn(l, c), work[l].at \in Busy, work[l].conn = c,
           NEW b, \/ work' = [work EXCEPT ![l].at = b] /\ b \in Busy
                  \/ work' = [work EXCEPT ![l] = Idle] /\ b = "idle"
    PROVE  Turn(l, c, work[l].at, b)
<1>1. /\ l \in Loops /\ work \in WorkType /\ work[l] \in Work /\ work[l].at # "idle"
      /\ DOMAIN work = Loops
  BY OwnPieces DEF WorkType, Busy, Half
<1>2. [work[l] EXCEPT !.at = b].at = b /\ [work[l] EXCEPT !.at = b].conn = c
  BY <1>1, WorkMoves
<1>3. \A k \in Loops \ {l} : work'[k] = work[k]
  BY <1>1 DEF WorkType
<1>4. CASE work' = [work EXCEPT ![l].at = b] /\ b \in Busy
  <2>1. work'[l] = [work[l] EXCEPT !.at = b]
    BY <1>1, <1>4 DEF WorkType
  <2> QED BY <1>1, <1>2, <1>3, <1>4, <2>1 DEF Turn
<1>5. CASE work' = [work EXCEPT ![l] = Idle] /\ b = "idle"
  <2>1. work'[l] = Idle
    BY <1>1, <1>5 DEF WorkType
  <2> QED BY <1>1, <1>3, <1>5, <2>1 DEF Turn, Idle
<1> QED BY <1>4, <1>5

\* The calls of a callback.
LEMMA CallsForm ==
    ASSUME Inv, IInv', NEW l \in SubLoops, NEW c \in Conns,
           Send(l, c) \/ ShutdownLater(l, c) \/ ShutdownNow(l, c) \/ ForceClose(l, c)
    PROVE  StepForm(l, l, c)
<1> DEFINE s == conn[c].state
           n == conn[c].sockfd
           w == conn[c].events \cup {"write"}
<1>1. /\ InCallback(l, c) /\ Free(l) /\ work[l].at = "callback" /\ work[l].conn = c
      /\ UNCHANGED <<connections, queue, dying, freed, fault, closeCalls, torn, lost, holds,
                     late, revived>>
  BY DEF Send, ShutdownLater, ShutdownNow, ForceClose, InCallback, At, worker
<1>2. /\ LoopsOwn(l, c) /\ "callback" \in Busy /\ ~Gone(c)
  BY <1>1, BusyOwn
<1>3. /\ conn \in ConnType /\ c \in Conns /\ l \in Loops
      /\ s \in States \ {"Unborn"}
      /\ PollerTo(EnableWriting(c), c, w)
      /\ \A fd : PollerTo(Forget(poller, fd), c, conn[c].events)
      /\ \A fd : PollerTo(Forget(WithEvents(c, {}), fd), c, {})
  BY <1>2, OwnPieces
<1>4. /\ QueueForm(l, c) /\ TornForm(l, c) /\ Rest(c) /\ FaultForm(l, c)
      /\ n \in {conn[c].sockfd, Invalid} /\ n = conn[c].sockfd
  BY <1>1, <1>2, QuietTurn, TouchForm
<1>5. /\ {"Connected", "Disconnecting", "Disconnected"} \subseteq States \ {"Unborn"}
      /\ {} \in SUBSET {"read", "write"} /\ TRUE \in BOOLEAN /\ "Connected" \in States
      /\ {"Disconnecting", "Disconnected"} \subseteq States
      /\ "callback" \notin Ending /\ "callback" \notin Half /\ {"shut", "forced"} \subseteq Half
      /\ {"shut", "forced"} \subseteq Busy
  BY DEF States, Ending, Half, Busy
<1>6. CASE Send(l, c)
  <2>1. /\ s = "Connected" /\ poller' = EnableWriting(c) /\ UNCHANGED <<work, kernel>>
        /\ conn' = [conn EXCEPT ![c].output = TRUE, ![c].events = @ \cup {"write"}]
    BY <1>6 DEF Send
  <2>2. Becomes(conn', conn, c, s, w, n)
    BY <1>3, <1>5, <2>1, ConnBecomes, Zenon
  <2>3. Turn(l, c, "callback", "callback")
    BY <1>1, <1>2, <2>1 DEF Turn
  <2>4. Counts(c, "callback", "callback", s, w) /\ SocketGoes(c, "callback", "callback", s, n)
    BY <1>1, <1>5, <2>1 DEF Counts, SocketGoes, Off
  <2>5. PollerTo(poller', c, w) /\ ~Ended(c)
    BY <1>3, <2>1 DEF Ended
  <2> HIDE DEF s, n, w
  <2> QED BY <1>2, <1>3, <1>4, <1>5, <2>2, <2>3, <2>4, <2>5, TurnForm
<1>7. CASE ShutdownLater(l, c)
  <2>1. /\ s = "Connected" /\ poller' = EnableWriting(c) /\ UNCHANGED <<work, kernel>>
        /\ conn' = [conn EXCEPT ![c].state = "Disconnecting", ![c].events = @ \cup {"write"}]
    BY <1>7 DEF ShutdownLater
  <2>2. Becomes(conn', conn, c, "Disconnecting", w, n)
    BY <1>3, <1>5, <2>1, ConnBecomes, Zenon
  <2>3. Turn(l, c, "callback", "callback")
    BY <1>1, <1>2, <2>1 DEF Turn
  <2>4. /\ Counts(c, "callback", "callback", "Disconnecting", w)
        /\ SocketGoes(c, "callback", "callback", "Disconnecting", n)
    BY <1>1, <1>5, <2>1 DEF Counts, SocketGoes, Off
  <2>5. PollerTo(poller', c, w)
    BY <1>3, <2>1
  <2> HIDE DEF s, n, w
  <2> QED BY <1>2, <1>4, <1>5, <2>2, <2>3, <2>4, <2>5, TurnForm
<1>8. CASE ShutdownNow(l, c)
  <2> DEFINE ev == conn[c].events
  <2>1. /\ s = "Connected" /\ poller' = Forget(poller, n) /\ KernelClose(n)
        /\ conn' = [conn EXCEPT ![c].state = "Disconnecting"]
        /\ work' = [work EXCEPT ![l].at = "shut"]
    BY <1>8 DEF ShutdownNow
  <2>2. Becomes(conn', conn, c, "Disconnecting", ev, n)
    BY <1>3, <1>5, <2>1, ConnBecomes, Zenon
  <2>3. Turn(l, c, "callback", "shut")
    <3>1. Turn(l, c, work[l].at, "shut")
      BY <1>1, <1>2, <1>5, <2>1, TurnTo
    <3> QED BY <1>1, <3>1
  <2>4. /\ Counts(c, "callback", "shut", "Disconnecting", ev)
        /\ SocketGoes(c, "callback", "shut", "Disconnecting", n)
    BY <1>1, <1>5, <2>1 DEF Counts, SocketGoes, Off
  <2>5. PollerTo(poller', c, ev)
    BY <1>3, <2>1
  <2> HIDE DEF s, n, ev
  <2> QED BY <1>2, <1>4, <1>5, <2>2, <2>3, <2>4, <2>5, TurnForm
<1>9. CASE ForceClose(l, c)
  <2>1. /\ poller' = Forget(WithEvents(c, {}), n) /\ KernelClose(n)
        /\ conn' = [conn EXCEPT ![c].state = "Disconnected", ![c].events = {}]
        /\ work' = [work EXCEPT ![l].at = "forced"]
    BY <1>9 DEF ForceClose
  <2>2. Becomes(conn', conn, c, "Disconnected", {}, n)
    BY <1>3, <1>5, <2>1, ConnBecomes, Zenon
  <2>3. Turn(l, c, "callback", "forced")
    <3>1. Turn(l, c, work[l].at, "forced")
      BY <1>1, <1>2, <1>5, <2>1, TurnTo
    <3> QED BY <1>1, <3>1
  <2>4. /\ Counts(c, "callback", "forced", "Disconnected", {})
        /\ SocketGoes(c, "callback", "forced", "Disconnected", n)
    BY <1>1, <1>5, <2>1 DEF Counts, SocketGoes
  <2>5. PollerTo(poller', c, {})
    BY <1>3, <2>1
  <2> HIDE DEF s, n
  <2> QED BY <1>2, <1>4, <1>5, <2>2, <2>3, <2>4, <2>5, TurnForm
<1> QED BY <1>6, <1>7, <1>8, <1>9

\* The ends of what a call began, and of HandleClose.
LEMMA ResumeTurn ==
    ASSUME Inv, NEW l, NEW c, LoopsOwn(l, c), work[l].conn = c,
           work[l].at \in {"shut", "rawShut", "forced", "rawForced"}, Resume(l)
    PROVE  \E b \in {"callback", "idle"} : Turn(l, c, work[l].at, b)
<1>1. work[l].at \in Busy /\ "callback" \in Busy
  BY DEF Busy, Half
<1>2. CASE work[l].at \in {"shut", "forced"}
  <2>1. work' = [work EXCEPT ![l].at = "callback"]
    BY <1>2 DEF Resume
  <2>2. Turn(l, c, work[l].at, "callback")
    BY <1>1, <2>1, TurnTo
  <2> QED BY <2>2
<1>3. CASE work[l].at \notin {"shut", "forced"}
  <2>1. work' = [work EXCEPT ![l] = Idle]
    BY <1>3 DEF Resume
  <2>2. Turn(l, c, work[l].at, "idle")
    BY <1>1, <2>1, TurnTo
  <2> QED BY <2>2
<1> QED BY <1>2, <1>3

LEMMA ShutdownDoneForm ==
    ASSUME Inv, IInv', NEW l \in SubLoops, ShutdownDone(l)
    PROVE  \E c : StepForm(l, l, c)
<1> DEFINE c == work[l].conn
           ev == conn[c].events
           a == work[l].at
<1>1. /\ Free(l) /\ a \in {"shut", "rawShut"} /\ Touch(c)
      /\ conn' = [conn EXCEPT ![c].sockfd = Invalid, ![c].state = "Disconnected"]
      /\ Resume(l)
      /\ UNCHANGED <<connections, queue, poller, kernel, dying, freed, closeCalls, torn, lost,
                     holds, late, revived>>
  BY DEF ShutdownDone, At, worker
<1>2. LoopsOwn(l, c) /\ (Gone(c) => c \in Excused)
  BY <1>1, BusyOwn
<1>3. PICK b \in {"callback", "idle"} : Turn(l, c, a, b)
  BY <1>1, <1>2, ResumeTurn
<1> HIDE DEF c
<1>4. /\ conn \in ConnType /\ c \in Conns /\ PollerTo(poller, c, ev)
      /\ "Disconnected" \in States \ {"Unborn"} /\ "Disconnected" \in States
      /\ Invalid \in {conn[c].sockfd, Invalid}
      /\ {} \in SUBSET {"read", "write"} /\ TRUE \in BOOLEAN
  BY <1>2, OwnPieces DEF States
<1>5. Becomes(conn', conn, c, "Disconnected", ev, Invalid)
  BY <1>1, <1>4, ConnBecomes, Zenon
<1>6. Counts(c, a, b, "Disconnected", ev)
  BY <1>1, <1>3 DEF Counts, Off
<1>7. SocketGoes(c, a, b, "Disconnected", Invalid)
  BY <1>1 DEF SocketGoes
<1>8. QueueForm(l, c) /\ TornForm(l, c) /\ Rest(c) /\ FaultForm(l, c)
  BY <1>1, <1>2, QuietTurn, TouchForm
<1>9. PollerTo(poller', c, ev)
  BY <1>1, <1>4
<1> HIDE DEF a, ev
<1>10. StepForm(l, l, c)
  BY <1>2, <1>3, <1>4, <1>5, <1>6, <1>7, <1>8, <1>9, TurnForm
<1> QED BY <1>10

LEMMA ForceCloseDoneForm ==
    ASSUME Inv, IInv', NEW l \in SubLoops, ForceCloseDone(l)
    PROVE  \E c : StepForm(l, l, c)
<1> DEFINE c == work[l].conn
           ev == conn[c].events
           s == conn[c].state
           a == work[l].at
<1>1. /\ Free(l) /\ a \in {"forced", "rawForced"} /\ Touch(c)
      /\ conn' = [conn EXCEPT ![c].sockfd = Invalid]
      /\ queue' = Post(queue, MainLoop, "Remove", c)
      /\ closeCalls' = [closeCalls EXCEPT ![c] = @ + 1]
      /\ Resume(l)
      /\ UNCHANGED <<connections, poller, kernel, dying, freed, torn, lost,
                     holds, late, revived>>
  BY DEF ForceCloseDone, At, worker
<1>2. /\ LoopsOwn(l, c) /\ (Gone(c) => c \in Excused)
      /\ s \in {"Disconnecting", "Disconnected"}
  BY <1>1, BusyOwn DEF Ending
<1>3. PICK b \in {"callback", "idle"} : Turn(l, c, a, b)
  BY <1>1, <1>2, ResumeTurn
<1> HIDE DEF c
<1>4. /\ conn \in ConnType /\ c \in Conns /\ PollerTo(poller, c, ev)
      /\ s \in States \ {"Unborn"} /\ s \in States
      /\ Invalid \in {conn[c].sockfd, Invalid}
      /\ {} \in SUBSET {"read", "write"} /\ TRUE \in BOOLEAN
  BY <1>2, OwnPieces, Zenon
<1>5. Becomes(conn', conn, c, s, ev, Invalid)
  BY <1>1, <1>4, ConnBecomes, Zenon
<1>6. Counts(c, a, b, s, ev)
  BY <1>1 DEF Counts, Off
<1>7. SocketGoes(c, a, b, s, Invalid)
  BY <1>1 DEF SocketGoes
<1>8. QueueForm(l, c)
  <2>1. closeCalls'[c] # 0
    BY <1>1, <1>4 DEF CountType, Inv, IInv, Typed
  <2>2. [call |-> "Remove", conn |-> c] \in Functor
    BY <1>4 DEF Functor
  <2> QED BY <1>1, <2>1, <2>2 DEF QueueForm, Posts
<1>9. TornForm(l, c) /\ Rest(c) /\ FaultForm(l, c)
  <2>1. FaultForm(l, c)
    BY <1>1, <1>2, TouchForm
  <2> QED BY <1>1, <2>1 DEF TornForm, Rest
<1>10. PollerTo(poller', c, ev)
  BY <1>1, <1>4
<1> HIDE DEF a, ev, s
<1>11. StepForm(l, l, c)
  BY <1>2, <1>3, <1>4, <1>5, <1>6, <1>7, <1>8, <1>9, <1>10, TurnForm
<1> QED BY <1>11

LEMMA CloseSocketForm ==
    ASSUME Inv, IInv', NEW l \in SubLoops, CloseSocket(l)
    PROVE  \E c : StepForm(l, l, c)
<1> DEFINE c == work[l].conn
           ev == conn[c].events
           s == conn[c].state
           n == conn[c].sockfd
<1>1. /\ Free(l) /\ work[l].at = "closing" /\ Touch(c)
      /\ KernelClose(n) /\ poller' = Forget(poller, n)
      /\ work' = [work EXCEPT ![l].at = "closed"]
      /\ UNCHANGED <<conn, connections, queue, dying, freed, closeCalls, torn, lost,
                     holds, late, revived>>
  BY DEF CloseSocket, At, worker
<1>2. /\ LoopsOwn(l, c) /\ (Gone(c) => c \in Excused) /\ work[l].at \in Busy
      /\ s \in {"Disconnecting", "Disconnected"}
  BY <1>1, BusyOwn DEF Ending
<1>3. Turn(l, c, "closing", "closed")
  <2>1. "closed" \in Busy
    BY DEF Busy, Half
  <2>2. Turn(l, c, work[l].at, "closed")
    BY <1>1, <1>2, <2>1, TurnTo
  <2> QED BY <1>1, <2>2
<1> HIDE DEF c
<1>4. /\ conn \in ConnType /\ c \in Conns /\ s \in States \ {"Unborn"}
      /\ n \in {conn[c].sockfd, Invalid}
      /\ \A fd : PollerTo(Forget(poller, fd), c, ev)
  BY <1>2, OwnPieces
<1>5. Becomes(conn', conn, c, s, ev, n)
  BY <1>1, <1>4 DEF Becomes, Alike
<1>6. Counts(c, "closing", "closed", s, ev)
  BY <1>1 DEF Counts, Off
<1>7. SocketGoes(c, "closing", "closed", s, n)
  BY <1>1 DEF SocketGoes, Half
<1>8. QueueForm(l, c) /\ TornForm(l, c) /\ Rest(c) /\ FaultForm(l, c)
  BY <1>1, <1>2, QuietTurn, TouchForm
<1>9. PollerTo(poller', c, ev)
  BY <1>1, <1>4
<1> HIDE DEF ev, s, n
<1>10. StepForm(l, l, c)
  BY <1>2, <1>3, <1>4, <1>5, <1>6, <1>7, <1>8, <1>9, TurnForm
<1> QED BY <1>10

LEMMA InvalidateForm ==
    ASSUME Inv, IInv', NEW l \in SubLoops, InvalidateSocket(l)
    PROVE  \E c : StepForm(l, l, c)
<1> DEFINE c == work[l].conn
           ev == conn[c].events
           s == conn[c].state
           b == IF work[l].again THEN "again" ELSE "idle"
<1>1. /\ Free(l) /\ work[l].at = "closed" /\ Touch(c)
      /\ conn' = [conn EXCEPT ![c].sockfd = Invalid]
      /\ work' = [work EXCEPT ![l] = IF work[l].again THEN [at |-> "again", conn |-> c] ELSE Idle]
      /\ UNCHANGED <<connections, queue, poller, kernel, dying, freed, closeCalls, torn, lost,
                     holds, late, revived>>
  <2>1. \A fd : ClosedNumber(fd) = Invalid
    BY DEF ClosedNumber
  <2> QED BY <2>1 DEF InvalidateSocket, At, worker
<1>2. /\ LoopsOwn(l, c) /\ (Gone(c) => c \in Excused) /\ work[l].at \in Busy
      /\ s \in {"Disconnecting", "Disconnected"}
  BY <1>1, BusyOwn DEF Ending
<1> HIDE DEF c
<1>3. /\ conn \in ConnType /\ work \in WorkType /\ c \in Conns /\ l \in Loops
      /\ s \in States \ {"Unborn"} /\ s \in States
      /\ Invalid \in {conn[c].sockfd, Invalid} /\ PollerTo(poller, c, ev)
      /\ {} \in SUBSET {"read", "write"} /\ TRUE \in BOOLEAN
  BY <1>2, OwnPieces
<1>4. Turn(l, c, "closed", b)
  <2>1. /\ \A k \in Loops \ {l} : work'[k] = work[k]
        /\ work'[l] = IF work[l].again THEN [at |-> "again", conn |-> c] ELSE Idle
    BY <1>1, <1>3 DEF WorkType
  <2>2. work'[l].at = b /\ (b # "idle" => work'[l].conn = c)
    BY <2>1 DEF Idle
  <2>3. b # "idle" => b \in Busy
    BY DEF Busy
  <2>4. work[l].conn = c
    BY DEF c
  <2> HIDE DEF b
  <2> QED BY <1>1, <1>2, <2>1, <2>2, <2>3, <2>4 DEF Turn
<1>5. Becomes(conn', conn, c, s, ev, Invalid)
  BY <1>1, <1>3, ConnBecomes, Zenon
<1>6. Counts(c, "closed", b, s, ev)
  BY <1>1 DEF Counts, Off
<1>7. SocketGoes(c, "closed", b, s, Invalid)
  BY <1>1 DEF SocketGoes
<1>8. QueueForm(l, c) /\ TornForm(l, c) /\ Rest(c) /\ FaultForm(l, c)
  BY <1>1, <1>2, QuietTurn, TouchForm
<1>9. PollerTo(poller', c, ev)
  BY <1>1, <1>3
<1> HIDE DEF ev, s, b
<1>10. StepForm(l, l, c)
  BY <1>2, <1>3, <1>4, <1>5, <1>6, <1>7, <1>8, <1>9, TurnForm
<1> QED BY <1>10

LEMMA CloseAgainForm ==
    ASSUME Inv, IInv', NEW l \in SubLoops, CloseAgain(l)
    PROVE  \E c : StepForm(l, l, c)
<1> DEFINE c == work[l].conn
<1>1. /\ Free(l) /\ work[l].at = "again" /\ Touch(c) /\ HandleClose(l, c, FALSE)
      /\ UNCHANGED <<connections, kernel, dying, freed, torn, lost, worker>>
  BY DEF CloseAgain, At
<1>2. LoopsOwn(l, c) /\ (Gone(c) => c \in Excused)
  BY <1>1, BusyOwn
<1>3. work[l].conn = c
  OBVIOUS
<1> HIDE DEF c
<1>4. FaultForm(l, c)
  BY <1>1, <1>2, TouchForm
<1>5. StepForm(l, l, c)
  BY <1>1, <1>2, <1>3, <1>4, HandleCloseForm
<1> QED BY <1>5

\* A callback returns, or hands its pointer to the application's thread.
LEMMA CallbackForm ==
    ASSUME Inv, IInv', NEW l \in SubLoops, CallbackReturns(l) \/ HandOver(l)
    PROVE  \E c : StepForm(l, l, c)
<1> DEFINE c == work[l].conn
           ev == conn[c].events
           s == conn[c].state
           n == conn[c].sockfd
<1>1. /\ Free(l) /\ work[l].at = "callback"
      /\ UNCHANGED <<conn, connections, queue, poller, kernel, freed, closeCalls, torn, lost,
                     late, revived>>
  BY DEF CallbackReturns, HandOver, At, worker
<1>2. \/ holds' = holds /\ EndCallback(l)
      \/ holds' = [at |-> "has", conn |-> c] /\ UNCHANGED <<work, dying, fault>>
  BY DEF CallbackReturns, HandOver, worker
<1>3. LoopsOwn(l, c) /\ ~Gone(c) /\ work[l].at \in Busy /\ work[l].conn = c
  BY <1>1, BusyOwn
<1>4. PICK b \in {"callback", "idle"} : Turn(l, c, "callback", b)
  <2>1. CASE EndCallback(l)
    <3>1. work' = [work EXCEPT ![l] = Idle]
      BY <2>1, Zenon DEF EndCallback
    <3>2. Turn(l, c, work[l].at, "idle")
      BY <1>3, <3>1, TurnTo
    <3> QED BY <1>1, <3>2
  <2>2. CASE work' = work
    <3>1. Turn(l, c, "callback", "callback")
      BY <1>1, <1>3, <2>2 DEF Turn
    <3> QED BY <3>1
  <2> QED BY <1>2, <2>1, <2>2
<1>5. FaultForm(l, c)
  <2>1. dying[l] = None /\ fault = "none"
    BY <1>3 DEF LoopsOwn
  <2>2. CASE EndCallback(l)
    <3>1. LetGo(l, c) /\ (fault' = "use after free" => dying' # dying)
      BY <2>1, <2>2, Zenon DEF EndCallback
    <3> QED BY <1>1, <1>3, <2>1, <3>1, Zenon DEF FaultForm
  <2>3. CASE UNCHANGED <<dying, fault>>
    BY <1>3, <2>1, <2>3 DEF FaultForm
  <2> QED BY <1>2, <2>2, <2>3
<1> HIDE DEF c
<1>6. /\ conn \in ConnType /\ c \in Conns /\ s \in States \ {"Unborn"}
      /\ n \in {conn[c].sockfd, Invalid} /\ n = conn[c].sockfd /\ PollerTo(poller, c, ev)
      /\ "callback" \notin Ending /\ "idle" \notin Ending /\ b \notin Ending
      /\ Ended(c) => s \in {"Disconnecting", "Disconnected"}
  BY <1>3, OwnPieces DEF Ending, Ended
<1>7. Becomes(conn', conn, c, s, ev, n)
  BY <1>1, <1>6 DEF Becomes, Alike
<1>8. Counts(c, "callback", b, s, ev)
  BY <1>1 DEF Counts, Off
<1>9. SocketGoes(c, "callback", b, s, n)
  BY <1>1 DEF SocketGoes, Half
<1>10. QueueForm(l, c) /\ TornForm(l, c) /\ Rest(c)
  BY <1>1, <1>2 DEF QueueForm, TornForm, Rest
<1>11. PollerTo(poller', c, ev)
  BY <1>1, <1>6
<1> HIDE DEF ev, s, n
<1>12. StepForm(l, l, c)
  BY <1>3, <1>4, <1>5, <1>6, <1>7, <1>8, <1>9, <1>10, <1>11, TurnForm
<1> QED BY <1>12

-----------------------------------------------------------------------------
(* So do the steps of the application's thread and those of the main loop  *)
(* that keep m_connections.                                                *)

LEMMA AsideForm ==
    ASSUME Inv, IInv', NEW t \in Threads, NEW c \in Conns, Begun(c), ~Gone(c),
           fault = "none", dying[t] = None, dying' = dying \/ LetGo(t, c),
           \/ conn' = conn
           \/ /\ conn' = [conn EXCEPT ![c].state = "Disconnecting"]
              /\ revived' = IF conn[c].state = "Disconnected" THEN revived \cup {c} ELSE revived,
           \A k \in SubLoops : work'[k] = work[k],
           \/ work'[MainLoop] = work[MainLoop]
           \/ /\ work[MainLoop].at \in {"destroy", "release"} /\ work[MainLoop].conn = c
              /\ \/ work'[MainLoop].at = "idle"
                 \/ work'[MainLoop].at = "release" /\ work'[MainLoop].conn = c,
           QueueForm(conn[c].loop, c),
           UNCHANGED <<connections, poller, kernel, freed, fault, closeCalls, torn, lost>>,
           late' \in {late, late \cup {c}}, revived' \in {revived, revived \cup {c}},
           \/ holds' = holds
           \/ holds' = Nothing
           \/ holds'.conn = c
              /\ (holds'.at = "stored" /\ holds'.call # "Send" => Ended(c)')
    PROVE  StepForm(t, conn[c].loop, c)
<1> DEFINE l == conn[c].loop
<1>1. l \in SubLoops /\ conn[c].chfd \in Fds /\ conn[c].state # "Unborn" /\ conn \in ConnType
  BY BegunNumber DEF Inv, IInv, Begun, Early, Typed
<1>2. \E s : Becomes(conn', conn, c, s, conn[c].events, conn[c].sockfd)
              /\ s \in {conn[c].state, "Disconnecting"}
              /\ (conn[c].state = "Disconnected" /\ s # "Disconnected" => c \in revived')
  <2>1. CASE conn' = conn
    <3>1. Becomes(conn', conn, c, conn[c].state, conn[c].events, conn[c].sockfd)
      BY <1>1, <2>1 DEF Becomes, Alike
    <3> QED BY <3>1
  <2>2. CASE conn' # conn
    <3>1. "Disconnecting" \in States /\ {} \in SUBSET {"read", "write"} /\ TRUE \in BOOLEAN
      BY DEF States
    <3>2. Becomes([conn EXCEPT ![c].state = "Disconnecting"], conn, c, "Disconnecting",
                  conn[c].events, conn[c].sockfd)
      BY <1>1, <3>1, ConnBecomes, Zenon
    <3>3. conn' = [conn EXCEPT ![c].state = "Disconnecting"]
      BY <2>2
    <3>4. conn[c].state = "Disconnected" => c \in revived'
      BY <2>2
    <3> QED BY <3>2, <3>3, <3>4
  <2> QED BY <2>1, <2>2
<1>3. PICK s : /\ Becomes(conn', conn, c, s, conn[c].events, conn[c].sockfd)
               /\ s \in {conn[c].state, "Disconnecting"}
               /\ (conn[c].state = "Disconnected" /\ s # "Disconnected" => c \in revived')
  BY <1>2
<1>4. /\ Alike(conn', conn, c, s) /\ conn'[c].state = s /\ conn'[c].events = conn[c].events
      /\ conn'[c].sockfd = conn[c].sockfd
  BY <1>3 DEF Becomes, Alike
<1> HIDE DEF l
<1>5. ConnForm(c)
  BY <1>1, <1>3, <1>4 DEF ConnForm, Ended
<1>6. WorkForm(l, c)
  BY <1>1 DEF WorkForm
<1>7. TornForm(l, c)
  BY DEF TornForm
<1>8. CountForm(l, c)
  <2>1. Forcing(l, c) <=> Forcing(l, c)'
    <3>1. work'[l] = work[l]
      BY <1>1
    <3>2. l' = l
      BY <1>4, <1>1 DEF l, Alike
    <3> QED BY <3>1, <3>2 DEF Forcing
  <2>2. Off(c) => Off(c)' \/ c \in revived'
    BY <1>3, <1>4 DEF Off
  <2>3. closeCalls' = closeCalls
    OBVIOUS
  <2> QED BY <2>1, <2>2, <2>3 DEF CountForm, Off
<1>9. SocketForm(l, c)
  <2>1. (HalfClosed(c) <=> HalfClosed(c)') /\ (Closing(c) => Closing(c)')
    BY DEF HalfClosed, Closing
  <2>2. kernel' = kernel
    OBVIOUS
  <2> QED BY <1>3, <1>4, <2>1, <2>2 DEF SocketForm
<1>10. PollerForm(l, c)
  BY <1>4 DEF PollerForm
<1>11. FaultForm(t, c)
  BY DEF FaultForm
<1>12. QueueForm(l, c) /\ l = conn[c].loop
  BY DEF l
<1> QED BY <1>1, <1>5, <1>6, <1>7, <1>8, <1>9, <1>10, <1>11, <1>12 DEF StepForm

LEMMA WorkerForm ==
    ASSUME Inv, IInv',
           \/ \E call \in OtherCalls : TestState(call)
           \/ StoreState \/ PostCall \/ DropPointer
    PROVE  \E c, l : StepForm(Worker, l, c)
<1>1. /\ Worker \in Threads /\ Typed /\ Named /\ fault = "none" /\ dying[Worker] = None
      /\ holds.at \in {"has", "tested", "stored"} /\ holds \in Holding
      /\ UNCHANGED <<connections, work, poller, kernel, freed, fault, closeCalls, torn, lost>>
  BY DEF Threads, Inv, IInv, Typed, TestState, StoreState, PostCall, DropPointer, Free
<1>2. PICK c \in Conns : /\ c = holds.conn /\ Begun(c) /\ holds # Nothing
                         /\ holds.at = "stored" => holds.call \in DOMAIN Posted
  BY <1>1, HoldsConn DEF Named, Nothing
<1>3. ~Gone(c)
  BY <1>1, <1>2 DEF Inv, SInv, Owned, Held
<1>4. /\ \A k \in SubLoops : work'[k] = work[k]
      /\ work'[MainLoop] = work[MainLoop]
  BY <1>1
<1>5. ASSUME NEW call \in OtherCalls, TestState(call) PROVE StepForm(Worker, conn[c].loop, c)
  <2>1. /\ UNCHANGED <<conn, queue, dying, late, revived>> /\ holds'.conn = c
        /\ holds'.at = "stored" => holds'.call = "Send"
    BY <1>2, <1>5 DEF TestState
  <2>2. QueueForm(conn[c].loop, c)
    BY <2>1 DEF QueueForm
  <2> QED BY <1>1, <1>2, <1>3, <1>4, <2>1, <2>2, AsideForm
<1>6. CASE StoreState
  <2>1. /\ conn' = [conn EXCEPT ![c].state = "Disconnecting"]
        /\ revived' = IF conn[c].state = "Disconnected" THEN revived \cup {c} ELSE revived
        /\ holds' = [holds EXCEPT !.at = "stored"] /\ holds.at = "tested"
        /\ UNCHANGED <<queue, dying, late>>
    BY <1>2, <1>6 DEF StoreState, Revives
  <2>2. holds \in [at : {"tested", "stored"}, conn : Conns, call : DOMAIN Posted]
    BY <1>1, <2>1 DEF Holding
  <2>3. holds'.conn = c
    BY <1>2, <2>1, <2>2
  <2>4. QueueForm(conn[c].loop, c)
    BY <2>1 DEF QueueForm
  <2>5. Ended(c)'
    <3>1. conn'[c].state = "Disconnecting"
      BY <1>1, <1>2, <2>1 DEF Typed, ConnType, ConnRecord
    <3> QED BY <3>1 DEF Ended
  <2> QED BY <1>1, <1>2, <1>3, <1>4, <2>1, <2>3, <2>4, <2>5, AsideForm
<1>7. CASE PostCall
  <2> DEFINE l == conn[c].loop
             call == Posted[holds.call]
  <2>1. /\ queue' = Post(queue, l, call, c) /\ holds.at = "stored"
        /\ late' = IF TornSoon(c) THEN late \cup {c} ELSE late
        /\ holds' = [at |-> "has", conn |-> c]
        /\ UNCHANGED <<conn, dying, revived>>
    BY <1>2, <1>7 DEF PostCall
  <2>2. call \in RawCalls
    BY <1>2, <2>1 DEF RawCalls
  <2>3. call \in EndingCalls => Ended(c)
    <3>1. holds.call # "Send" => Ended(c)
      BY <1>2, <2>1 DEF Inv, SInv, PastConnected
    <3>2. holds.call = "Send" => call \notin EndingCalls
      BY DEF Posted, EndingCalls
    <3> QED BY <3>1, <3>2
  <2>4. [call |-> call, conn |-> c] \in Functor
    BY <1>2, <2>2 DEF Functor
  <2> HIDE DEF call
  <2>5. QueueForm(l, c)
    <3>1. Posts(l, call, c) /\ (TornSoon(c) => c \in late')
      BY <2>1, <2>4 DEF Posts
    <3> QED BY <2>2, <2>3, <3>1 DEF QueueForm
  <2>6. late' \in {late, late \cup {c}} /\ holds'.conn = c /\ holds'.at # "stored"
    BY <2>1
  <2> QED BY <1>1, <1>2, <1>3, <1>4, <2>1, <2>5, <2>6, AsideForm
<1>8. CASE DropPointer
  <2>1. holds' = Nothing /\ LetGo(Worker, c) /\ UNCHANGED <<conn, queue, late, revived>>
    BY <1>2, <1>8 DEF DropPointer
  <2>2. QueueForm(conn[c].loop, c)
    BY <2>1 DEF QueueForm
  <2> QED BY <1>1, <1>2, <1>3, <1>4, <2>1, <2>2, AsideForm
<1> QED BY <1>5, <1>6, <1>7, <1>8

LEMMA MainForm ==
    ASSUME Inv, IInv', PostDestroyed \/ ReleaseLambda
    PROVE  \E c, l : StepForm(MainLoop, l, c)
<1> DEFINE c == work[MainLoop].conn
           l == conn[c].loop
<1>1. /\ MainLoop \in Threads /\ MainLoop \in Loops /\ Typed /\ Named /\ fault = "none"
      /\ dying[MainLoop] = None /\ work \in WorkType /\ MainLoop \notin SubLoops
      /\ work[MainLoop].at \in {"destroy", "release"} /\ work[MainLoop] \in Work
      /\ UNCHANGED <<conn, connections, poller, kernel, freed, fault, closeCalls, torn, lost,
                     holds, late, revived>>
  BY DEF Threads, Loops, MainLoop, SubLoops, Inv, IInv, Typed, WorkType, PostDestroyed,
         ReleaseLambda, At, Free, worker
<1>2. c \in Conns /\ Begun(c)
  BY <1>1, BusyWith
<1>3. ~Gone(c)
  BY <1>1, <1>2 DEF Inv, SInv, Owned, Held
<1>4. \A k \in SubLoops : work'[k] = work[k]
  BY <1>1 DEF PostDestroyed, ReleaseLambda, WorkType, Loops
<1>5. CASE PostDestroyed
  <2>1. /\ queue' = Post(queue, l, "ConnectDestroyed", c) /\ work[MainLoop].at = "destroy"
        /\ work' = [work EXCEPT ![MainLoop].at = "release"] /\ dying' = dying
    BY <1>5 DEF PostDestroyed, At
  <2>2. work'[MainLoop] = [work[MainLoop] EXCEPT !.at = "release"]
    BY <1>1, <2>1 DEF WorkType
  <2>3. work'[MainLoop].at = "release" /\ work'[MainLoop].conn = c
    BY <1>1, <2>2, WorkMoves
  <2>4. closeCalls[c] # 0
    BY <1>1, <1>2 DEF Inv, SInv, Counted
  <2>5. [call |-> "ConnectDestroyed", conn |-> c] \in Functor
    BY <1>2 DEF Functor
  <2>6. work[MainLoop].conn = c
    OBVIOUS
  <2> HIDE DEF c
  <2>7. QueueForm(l, c)
    BY <2>1, <2>4, <2>5 DEF QueueForm, Posts
  <2>8. StepForm(MainLoop, conn[c].loop, c)
    BY <1>1, <1>2, <1>3, <1>4, <2>1, <2>3, <2>6, <2>7, AsideForm
  <2> QED BY <2>8
<1>6. CASE ReleaseLambda
  <2>1. /\ queue' = queue /\ LetGo(MainLoop, c)
        /\ work' = [work EXCEPT ![MainLoop] = Idle]
    BY <1>6 DEF ReleaseLambda
  <2>2. work'[MainLoop].at = "idle"
    BY <1>1, <2>1 DEF WorkType, Idle
  <2>3. work[MainLoop].conn = c
    OBVIOUS
  <2> HIDE DEF c
  <2>4. QueueForm(l, c)
    BY <2>1 DEF QueueForm
  <2>5. StepForm(MainLoop, conn[c].loop, c)
    BY <1>1, <1>2, <1>3, <1>4, <2>1, <2>2, <2>3, <2>4, AsideForm
  <2> QED BY <2>5
<1> QED BY <1>5, <1>6

-----------------------------------------------------------------------------
(* The other steps, of the main loop and of a destructor.                  *)

\* Nothing is under way for a connection that is not accepted yet.
LEMMA NamesAccepted ==
    ASSUME Inv
    PROVE  /\ \A l \in Loops : \A i \in DOMAIN queue[l] :
                 queue[l][i].conn \in Conns /\ conn[queue[l][i].conn].state # "Unborn"
           /\ \A l \in Loops : work[l].at # "idle" =>
                 work[l].conn \in Conns /\ conn[work[l].conn].state # "Unborn"
           /\ \A l \in SubLoops, f \in Fds : poller[l].map[f] # None =>
                 poller[l].map[f] \in Conns /\ conn[poller[l].map[f]].state # "Unborn"
           /\ holds # Nothing => holds.conn \in Conns /\ conn[holds.conn].state # "Unborn"
           /\ \A f \in Fds : connections[f] # None =>
                 connections[f] \in Conns /\ conn[connections[f]].state # "Unborn"
<1>0. Typed /\ Named /\ Establishing /\ Placed
  BY DEF Inv, IInv, SInv
<1>1. ASSUME NEW l \in Loops, NEW i \in DOMAIN queue[l]
      PROVE  queue[l][i].conn \in Conns /\ conn[queue[l][i].conn].state # "Unborn"
  <2>1. queue[l][i].conn \in Conns
    BY <1>0, <1>1, QueueFunctor
  <2> QED BY <1>0, <1>1, <2>1 DEF Named, Establishing, Begun, Early
<1>2. ASSUME NEW l \in Loops, work[l].at # "idle"
      PROVE  work[l].conn \in Conns /\ conn[work[l].conn].state # "Unborn"
  <2>1. work[l].conn \in Conns
    BY <1>0, <1>2, WorkConn DEF Typed, WorkType
  <2>2. work[l].at # "establish" => conn[work[l].conn].state # "Unborn"
    BY <1>0, <1>2 DEF Named, Begun, Early
  <2>3. work[l].at = "establish" => l = MainLoop
    BY <1>0 DEF Named
  <2> QED BY <1>0, <2>1, <2>2, <2>3 DEF Establishing
<1>3. ASSUME NEW l \in SubLoops, NEW f \in Fds, poller[l].map[f] # None
      PROVE  poller[l].map[f] \in Conns /\ conn[poller[l].map[f]].state # "Unborn"
  BY <1>0, <1>3 DEF Typed, PollerType, PollerRecord, Named, Begun, Early
<1>4. holds # Nothing => holds.conn \in Conns /\ conn[holds.conn].state # "Unborn"
  <2>1. holds # Nothing => holds.at # "nothing"
    BY <1>0 DEF Typed, Holding, Nothing
  <2> QED BY <1>0, <2>1, HoldsConn DEF Typed, Named, Begun, Early
<1>5. \A f \in Fds : connections[f] # None =>
         connections[f] \in Conns /\ conn[connections[f]].state # "Unborn"
  BY <1>0 DEF Placed, Typed, EntryType
<1> QED BY <1>1, <1>2, <1>3, <1>4, <1>5

\* The sub loops' work stays; what is accepted stays as it was.
RestForm ==
    /\ UNCHANGED <<closeCalls, torn, late, revived, holds>> /\ lost \subseteq lost'
    /\ \A d \in Conns : conn[d].state # "Unborn" => conn'[d] = conn[d]
    /\ \A l \in SubLoops : work'[l] = work[l]
    /\ work'[MainLoop].at \in {"idle", "establish", "destroy", "release"}
    /\ work'[MainLoop].at \in {"destroy", "release"} => closeCalls[work'[MainLoop].conn] # 0
    /\ \A l \in SubLoops : \A i \in DOMAIN queue'[l] :
          \/ i \in DOMAIN queue[l] /\ queue'[l][i] = queue[l][i]
          \/ /\ queue'[l][i].call = "ConnectEstablished"
             /\ conn'[queue'[l][i].conn].loop = l
    /\ \A i \in DOMAIN queue'[MainLoop] :
          \E j \in DOMAIN queue[MainLoop] : queue'[MainLoop][i] = queue[MainLoop][j]
    /\ \A f \in Fds : connections'[f] # None =>
          conn'[connections'[f]].chfd = f /\ conn'[connections'[f]].state # "Unborn"
    /\ \A d \in Conns : Gone(d)' \/ d \in lost' => conn'[d].state # "Unborn"
    /\ \A d \in Conns : conn'[d].sockfd \in {Invalid, conn'[d].chfd}

LEMMA RestPlaced ==
    ASSUME Inv, IInv', RestForm
    PROVE  Placed'
<1>0. MainLoop \in Loops /\ SubLoops \subseteq Loops /\ Placed /\ Typed /\ MainLoop \notin SubLoops
  BY DEF Loops, Inv, IInv, SInv, MainLoop, SubLoops
<1>1. ASSUME NEW l \in SubLoops, NEW i \in DOMAIN queue'[l]
      PROVE  conn'[queue'[l][i].conn].loop = l
  <2>1. CASE i \in DOMAIN queue[l] /\ queue'[l][i] = queue[l][i]
    <3>1. queue[l][i].conn \in Conns /\ conn[queue[l][i].conn].state # "Unborn"
      BY <1>0, <2>1, NamesAccepted
    <3>2. conn'[queue[l][i].conn] = conn[queue[l][i].conn]
      BY <3>1 DEF RestForm
    <3> QED BY <1>0, <2>1, <3>2 DEF Placed
  <2> QED BY <2>1 DEF RestForm
<1>2. ASSUME NEW l \in SubLoops
      PROVE  /\ work'[l].at # "idle" => conn'[work'[l].conn].loop = l
             /\ work'[l].at \notin {"establish", "destroy", "release"}
  <2>1. work'[l] = work[l] /\ work[l].at \notin {"establish", "destroy", "release"}
    BY <1>0 DEF RestForm, Placed
  <2>2. CASE work[l].at # "idle"
    <3>1. work[l].conn \in Conns /\ conn[work[l].conn].state # "Unborn"
      BY <1>0, <2>2, NamesAccepted
    <3>2. conn'[work[l].conn] = conn[work[l].conn]
      BY <3>1 DEF RestForm
    <3> QED BY <1>0, <2>1, <2>2, <3>2 DEF Placed
  <2> QED BY <2>1, <2>2
<1>3. work'[MainLoop].at \in {"idle", "establish", "destroy", "release"}
  BY DEF RestForm
<1>4. \A f \in Fds : connections'[f] # None =>
         conn'[connections'[f]].chfd = f /\ conn'[connections'[f]].state # "Unborn"
  BY DEF RestForm
<1>5. ASSUME NEW d \in Conns, Gone(d)' \/ d \in torn' \cup lost' PROVE conn'[d].state # "Unborn"
  <2>1. d \in torn => conn[d].state # "Unborn"
    BY <1>0 DEF Placed
  <2> QED BY <1>5, <2>1 DEF RestForm
<1>6. \A d \in Conns : conn'[d].sockfd \in {Invalid, conn'[d].chfd}
  BY DEF RestForm
<1> QED BY <1>1, <1>2, <1>3, <1>4, <1>5, <1>6 DEF Placed

LEMMA RestCounted ==
    ASSUME Inv, IInv', RestForm
    PROVE  Counted' /\ Quieted'
<1>0. MainLoop \in Loops /\ SubLoops \subseteq Loops /\ Counted /\ Quieted /\ Typed
        /\ closeCalls' = closeCalls /\ torn' = torn /\ revived' = revived
        /\ Loops = {MainLoop} \cup SubLoops
  BY DEF Loops, Inv, IInv, SInv, RestForm
<1>1. ASSUME NEW d \in Conns, closeCalls[d] = 0
      PROVE  /\ d \notin torn'
             /\ work'[MainLoop].at \in {"destroy", "release"} => work'[MainLoop].conn # d
             /\ \A l \in Loops : \A i \in DOMAIN queue'[l] :
                   queue'[l][i].call \in {"Remove", "ConnectDestroyed"} => queue'[l][i].conn # d
  <2>1. ASSUME NEW l \in Loops, NEW i \in DOMAIN queue'[l],
               queue'[l][i].call \in {"Remove", "ConnectDestroyed"}
        PROVE  queue'[l][i].conn # d
    <3>1. \E j \in DOMAIN queue[l] : queue'[l][i] = queue[l][j]
      BY <1>0, <2>1 DEF RestForm
    <3> QED BY <1>0, <1>1, <2>1, <3>1 DEF Counted
  <2>2. work'[MainLoop].at \in {"destroy", "release"} => work'[MainLoop].conn # d
    BY <1>1 DEF RestForm
  <2> QED BY <1>0, <1>1, <2>1, <2>2 DEF Counted
<1>2. ASSUME NEW d \in Conns \ revived,
             closeCalls[d] > 0 \/ (\E l \in Loops : Forcing(l, d)')
      PROVE  conn'[d].state = "Disconnected" /\ conn'[d].events = {}
  <2>1. \A l \in Loops : Forcing(l, d)' => Forcing(l, d)
    BY <1>0 DEF RestForm, Forcing
  <2>2. conn[d].state = "Disconnected" /\ conn[d].events = {}
    BY <1>0, <1>2, <2>1 DEF Quieted
  <2>3. conn'[d] = conn[d]
    BY <2>2 DEF RestForm
  <2> QED BY <2>2, <2>3
<1>3. Counted'
  BY <1>0, <1>1 DEF Counted
<1> QED BY <1>0, <1>2, <1>3 DEF Quieted

LEMMA RestBehind ==
    ASSUME Inv, IInv', RestForm
    PROVE  Behind' /\ TornQuiet' /\ PastConnected'
<1>0. MainLoop \in Loops /\ SubLoops \subseteq Loops /\ Typed /\ Typed'
        /\ Behind /\ TornQuiet /\ PastConnected
        /\ UNCHANGED <<torn, late, revived, holds>> /\ Loops = {MainLoop} \cup SubLoops
  BY DEF Loops, Inv, IInv, SInv, RestForm
<1>1. ASSUME NEW l \in SubLoops, NEW j \in DOMAIN queue'[l], queue'[l][j].call \in RawCalls
      PROVE  /\ queue'[l][j].conn \in torn' => queue'[l][j].conn \in late'
             /\ \A i \in 1 .. j - 1 :
                   queue'[l][i] = [call |-> "ConnectDestroyed", conn |-> queue'[l][j].conn] =>
                      queue'[l][j].conn \in late'
  <2>1. j \in DOMAIN queue[l] /\ queue'[l][j] = queue[l][j]
    BY <1>1 DEF RestForm, RawCalls, Posted
  <2>2. ASSUME NEW i \in 1 .. j - 1,
               queue'[l][i] = [call |-> "ConnectDestroyed", conn |-> queue'[l][j].conn]
        PROVE  queue[l][i] = queue'[l][i]
    <3>1. Len(queue'[l]) \in Nat /\ DOMAIN queue'[l] = 1 .. Len(queue'[l])
      BY <1>0, LenProperties DEF Typed, QueueType
    <3>2. i \in DOMAIN queue'[l]
      BY <1>1, <2>2, <3>1
    <3> QED BY <2>2, <3>2 DEF RestForm
  <2> QED BY <1>0, <1>1, <2>1, <2>2 DEF Behind
<1>2. TornQuiet'
  BY <1>0 DEF TornQuiet, RestForm
<1>3. ASSUME NEW d \in Conns, Ended(d) PROVE conn'[d].state \in {"Disconnecting", "Disconnected"}
  BY <1>3 DEF Ended, RestForm
<1>4. ASSUME NEW l \in Loops, work'[l].at \in Ending
      PROVE  conn'[work'[l].conn].state \in {"Disconnecting", "Disconnected"}
  <2>1. l \in SubLoops /\ work'[l] = work[l]
    BY <1>0, <1>4 DEF RestForm, Ending
  <2>2. work[l].conn \in Conns
    BY <1>0, <1>4, <2>1, NamesAccepted DEF Ending
  <2> QED BY <1>0, <1>3, <1>4, <2>1, <2>2 DEF PastConnected
<1>5. holds.at = "stored" /\ holds.call # "Send" =>
         conn'[holds.conn].state \in {"Disconnecting", "Disconnected"}
  <2>1. holds.at = "stored" => holds.conn \in Conns
    BY <1>0, HoldsConn DEF Typed
  <2> QED BY <1>0, <1>3, <2>1 DEF PastConnected
<1>6. ASSUME NEW l \in Loops, NEW i \in DOMAIN queue'[l], queue'[l][i].call \in EndingCalls
      PROVE  conn'[queue'[l][i].conn].state \in {"Disconnecting", "Disconnected"}
  <2>1. PICK j \in DOMAIN queue[l] : queue'[l][i] = queue[l][j]
    BY <1>0, <1>6 DEF RestForm, EndingCalls
  <2>2. queue[l][j].conn \in Conns
    BY <1>0, <2>1, QueueFunctor
  <2> QED BY <1>0, <1>3, <1>6, <2>1, <2>2 DEF PastConnected
<1>7. PastConnected'
  BY <1>0, <1>4, <1>5, <1>6 DEF PastConnected, Ended
<1> QED BY <1>1, <1>2, <1>7 DEF Behind

\* Thread t may let go of v.
LEMMA RestOwned ==
    ASSUME Inv, IInv', RestForm, EntryKept', fault = "none", fault' \in {"none", "assert"},
           UNCHANGED <<poller, freed>>,
           NEW t \in Threads, NEW v, dying[t] = None, dying' = dying \/ LetGo(t, v),
           \A d \in Conns : Held(d, connections', queue', work', holds') =>
               Held(d, connections, queue, work, holds) \/ ~Gone(d)
    PROVE  Owned'
<1>0. Owned /\ Typed /\ dying \in DyingType /\ freed \subseteq Conns
        /\ torn' = torn /\ lost \subseteq lost' /\ fault' # "use after free"
  BY Zenon DEF Inv, IInv, SInv, Typed, RestForm
<1>1. CASE dying' = dying
  <2>1. \A d \in Conns : Gone(d)' <=> Gone(d)
    BY <1>1 DEF Gone
  <2>2. \A d \in Conns : ~(Held(d, connections', queue', work', holds') /\ Gone(d)')
    BY <1>0, <2>1, Zenon DEF Owned
  <2>3. \A d \in Conns : Gone(d)' => d \in torn' \cup lost'
    BY <1>0, <2>1, Zenon DEF Owned
  <2>4. \A k \in Threads : dying'[k] # None =>
           /\ dying'[k] \notin freed'
           /\ \A m \in Threads : dying'[m] = dying'[k] => m = k
    BY <1>0, <1>1, Zenon DEF Owned
  <2>5. \A l \in SubLoops, f \in Fds : poller'[l].map[f] \notin freed'
    BY <1>0, Zenon DEF Owned
  <2> QED BY <1>0, <2>2, <2>3, <2>4, <2>5, Zenon DEF Owned
<1>2. CASE dying' # dying
  <2>1. /\ dying' = [dying EXCEPT ![t] = v] /\ v \in Conns /\ ~Gone(v)
        /\ ~Held(v, connections', queue', work', holds')
    BY <1>2 DEF LetGo
  <2>2. \A m \in Threads : dying'[m] = IF m = t THEN v ELSE dying[m]
    BY <1>0, <2>1, Zenon DEF DyingType
  <2>3. \A d \in Conns : Gone(d)' => Gone(d) \/ d = v
    BY <2>2 DEF Gone
  <2>4. \A d \in Conns : ~(Held(d, connections', queue', work', holds') /\ Gone(d)')
    BY <1>0, <2>1, <2>3, Zenon DEF Owned
  <2>5. ASSUME NEW d \in Conns, Gone(d)' PROVE d \in torn' \cup lost'
    <3>1. CASE Gone(d)
      BY <1>0, <3>1, Zenon DEF Owned
    <3>2. conn'[d].state # "Unborn"
      BY <2>5 DEF RestForm
    <3> QED BY <2>1, <2>3, <2>5, <3>1, <3>2, AnchoredNext
  <2>6. v \notin freed /\ \A m \in Threads : dying[m] # v
    BY <2>1 DEF Gone
  <2>7. ASSUME NEW k \in Threads, dying'[k] # None
        PROVE  /\ dying'[k] \notin freed'
               /\ \A m \in Threads : dying'[m] = dying'[k] => m = k
    BY <1>0, <2>2, <2>6, <2>7, Zenon DEF Owned
  <2>8. \A l \in SubLoops, f \in Fds : poller'[l].map[f] \notin freed'
    BY <1>0, Zenon DEF Owned
  <2> QED BY <1>0, <2>4, <2>5, <2>7, <2>8, Zenon DEF Owned
<1> QED BY <1>1, <1>2

LEMMA RestMapped ==
    ASSUME Inv, RestForm, UNCHANGED poller
    PROVE  Mapped'
<1> SUFFICES ASSUME NEW l \in SubLoops, NEW f \in Fds
             PROVE  /\ poller[l].map[f] # None =>
                          LET c == poller[l].map[f]
                          IN  conn'[c].chfd = f /\ conn'[c].loop = l /\ conn'[c].events # {}
                    /\ f \in poller[l].epoll => poller[l].map[f] # None
  BY DEF Mapped
<1>1. ASSUME poller[l].map[f] # None
      PROVE  conn'[poller[l].map[f]] = conn[poller[l].map[f]]
  BY <1>1, NamesAccepted DEF RestForm
<1> QED BY <1>1 DEF Inv, SInv, Mapped

\* A new functor of a sub loop, or none.
LEMMA PostEstablishedSafe ==
    ASSUME Inv, IInv', PostEstablished
    PROVE  SInv'
<1> DEFINE c == work[MainLoop].conn
           l == conn[c].loop
<1>1. /\ MainLoop \in Threads /\ MainLoop \in Loops /\ Typed /\ Named /\ fault = "none"
      /\ dying[MainLoop] = None /\ work \in WorkType /\ MainLoop \notin SubLoops
      /\ SubLoops \subseteq Loops
      /\ work[MainLoop].at = "establish"
      /\ queue' = Post(queue, l, "ConnectEstablished", c)
      /\ work' = [work EXCEPT ![MainLoop] = Idle]
      /\ UNCHANGED <<conn, connections, poller, kernel, freed, fault, closeCalls, torn, lost,
                     holds, late, revived, dying>>
      /\ queue \in QueueType /\ Owned /\ Placed /\ Sockets /\ EntryKept
  BY DEF Threads, Loops, MainLoop, SubLoops, Inv, IInv, SInv, Typed, PostEstablished, At, Free,
         worker
<1>2. c \in Conns /\ conn[c].state # "Unborn" /\ l \in SubLoops
  <2>1. c \in Conns /\ conn[c].state # "Unborn"
    BY <1>1, NamesAccepted
  <2> QED BY <1>1, <2>1 DEF Named
<1>3. /\ Posts(l, "ConnectEstablished", c)
      /\ \A k \in Loops : \A i \in DOMAIN queue'[k] :
            \/ i \in DOMAIN queue[k] /\ queue'[k][i] = queue[k][i]
            \/ k = l /\ queue'[k][i] = [call |-> "ConnectEstablished", conn |-> c]
  <2>1. [call |-> "ConnectEstablished", conn |-> c] \in Functor
    BY <1>2 DEF Functor
  <2>2. Posts(l, "ConnectEstablished", c)
    BY <1>1, <2>1 DEF Posts
  <2> HIDE DEF c
  <2> QED BY <1>1, <1>2, <2>2, QueueSources
<1>4. work'[MainLoop].at = "idle" /\ \A k \in Loops \ {MainLoop} : work'[k] = work[k]
  BY <1>1 DEF WorkType, Idle
<1>5. RestForm
  <2>1. ASSUME NEW k \in SubLoops, NEW i \in DOMAIN queue'[k]
        PROVE  \/ i \in DOMAIN queue[k] /\ queue'[k][i] = queue[k][i]
               \/ queue'[k][i].call = "ConnectEstablished" /\ conn'[queue'[k][i].conn].loop = k
    <3>1. conn'[c].loop = l /\ k \in Loops
      BY <1>1, SMTT(30)
    <3> HIDE DEF c, l
    <3> QED BY <1>3, <3>1
  <2>2. \A i \in DOMAIN queue'[MainLoop] :
           \E j \in DOMAIN queue[MainLoop] : queue'[MainLoop][i] = queue[MainLoop][j]
    BY <1>1, <1>2, <1>3
  <2>3. \A d \in Conns : (Gone(d)' => Gone(d)) /\ conn'[d].sockfd \in {Invalid, conn'[d].chfd}
    BY <1>1 DEF Placed, Gone
  <2>4. \A d \in Conns : Gone(d)' \/ d \in lost' => conn'[d].state # "Unborn"
    BY <1>1, <2>3 DEF Placed
  <2>5. \A f \in Fds : connections'[f] # None =>
          conn'[connections'[f]].chfd = f /\ conn'[connections'[f]].state # "Unborn"
    BY <1>1 DEF Placed
  <2>6. \A k \in SubLoops : work'[k] = work[k]
    BY <1>1, <1>4
  <2>7. UNCHANGED <<closeCalls, torn, late, revived, holds>> /\ lost \subseteq lost'
          /\ \A d \in Conns : conn[d].state # "Unborn" => conn'[d] = conn[d]
    BY <1>1
  <2> QED BY <1>4, <2>1, <2>2, <2>3, <2>4, <2>5, <2>6, <2>7 DEF RestForm
<1>6. EntryKept'
  BY <1>1 DEF EntryKept
<1>7. Owned'
  <2>1. ASSUME NEW d \in Conns, Held(d, connections', queue', work', holds')
        PROVE  Held(d, connections, queue, work, holds)
    <3>1. Held(c, connections, queue, work, holds)
      BY <1>1 DEF Held
    <3>2. ASSUME NEW k \in Loops, NEW i \in DOMAIN queue'[k], queue'[k][i].conn = d,
                 queue'[k][i].call \in Owning
          PROVE  Held(d, connections, queue, work, holds)
      BY <1>3, <3>1, <3>2 DEF Held
    <3>3. ASSUME NEW k \in Loops, work'[k].conn = d,
             work'[k].at \in {"callback", "forced", "shut", "establish", "destroy", "release"}
          PROVE  Held(d, connections, queue, work, holds)
      BY <1>4, <3>3 DEF Held
    <3>4. (\E f \in Fds : connections'[f] = d) \/ (holds' # Nothing /\ holds'.conn = d)
             => Held(d, connections, queue, work, holds)
      BY <1>1 DEF Held
    <3> QED BY <2>1, <3>2, <3>3, <3>4 DEF Held
  <2> QED BY <1>1, <1>5, <1>6, <2>1, RestOwned
<1>8. Sockets'
  <2>1. \A d \in Conns : (HalfClosed(d)' <=> HalfClosed(d)) /\ (Closing(d)' <=> Closing(d))
    BY <1>1, <1>4 DEF HalfClosed, Closing
  <2>2. \A fd : Stolen(fd)' <=> Stolen(fd)
    BY <1>1 DEF Stolen
  <2> QED BY <1>1, <2>1, <2>2 DEF Sockets
<1> QED BY <1>1, <1>5, <1>6, <1>7, <1>8, RestPlaced, RestMapped, RestCounted, RestBehind DEF SInv

\* A new connection takes the entry of its number.
LEMMA AcceptSafe ==
    ASSUME Inv, IInv', NEW c \in Conns, NEW f \in Fds, Accept(c, f)
    PROVE  SInv'
<1> DEFINE v == connections[f]
<1>1. /\ MainLoop \in Threads /\ MainLoop \in Loops /\ Typed /\ Named /\ fault = "none"
      /\ dying[MainLoop] = None /\ work \in WorkType /\ MainLoop \notin SubLoops
      /\ SubLoops \subseteq Loops
      /\ work[MainLoop].at = "idle" /\ conn[c].state = "Unborn"
      /\ kernel[f] = None /\ kernel' = [kernel EXCEPT ![f] = c]
      /\ conn' = [conn EXCEPT ![c] = Constructed(f, nextLoop + 1)]
      /\ connections' = [connections EXCEPT ![f] = c]
      /\ work' = [work EXCEPT ![MainLoop] = [at |-> "establish", conn |-> c]]
      /\ lost' = lost \cup {d \in {v} \cap Conns : closeCalls[d] = 0}
      /\ LetGo(MainLoop, v)
      /\ UNCHANGED <<queue, poller, freed, fault, closeCalls, torn, holds, late, revived>>
      /\ conn \in ConnType /\ connections \in EntryType /\ kernel \in EntryType
      /\ dying \in DyingType
      /\ Owned /\ Placed /\ Sockets /\ EntryKept
  BY DEF Threads, Loops, MainLoop, SubLoops, Inv, IInv, SInv, Typed, Accept, Accepts, IsIdle,
         Idle, Free, worker, Lose
<1>2. /\ \A d \in Conns \ {c} : conn'[d] = conn[d]
      /\ conn'[c].state = "Connecting" /\ conn'[c].sockfd = f /\ conn'[c].chfd = f
      /\ \A d \in Conns : conn[d].state # "Unborn" => d # c
  BY <1>1 DEF ConnType, Constructed
<1>3. /\ \A g \in Fds : connections'[g] = (IF g = f THEN c ELSE connections[g])
      /\ \A g \in Fds : kernel'[g] = (IF g = f THEN c ELSE kernel[g])
      /\ work'[MainLoop] = [at |-> "establish", conn |-> c]
      /\ \A k \in Loops \ {MainLoop} : work'[k] = work[k]
  BY <1>1 DEF EntryType, WorkType
<1>4. ~Gone(c) /\ c \notin torn \cup lost /\ v # c
  BY <1>1 DEF Placed
<1> HIDE DEF v
<1>5. \A d \in Conns : Gone(d)' => Gone(d) \/ (d = v /\ v \in Conns /\ conn[v].state # "Unborn")
  <2>1. \A m \in Threads : dying'[m] \in {dying[m], v}
    BY <1>1 DEF LetGo, DyingType
  <2>2. v \in Conns => conn[v].state # "Unborn"
    BY <1>1, NamesAccepted DEF v
  <2>3. \A d \in Conns : Gone(d)' => Gone(d) \/ d = v
    BY <1>1, <2>1 DEF Gone
  <2> QED BY <2>2, <2>3
<1>6. RestForm
  <2>1. \A d \in Conns : conn'[d].sockfd \in {Invalid, conn'[d].chfd}
    BY <1>1, <1>2 DEF Placed
  <2>2. v \in Conns => conn[v].state # "Unborn"
    BY <1>1, NamesAccepted DEF v
  <2>3. \A d \in Conns : Gone(d)' \/ d \in lost' => conn'[d].state # "Unborn"
    <3>1. \A d \in Conns : Gone(d)' \/ d \in lost' => conn[d].state # "Unborn"
      BY <1>1, <1>5, <2>2 DEF Placed
    <3> QED BY <1>2, <3>1
  <2>4. \A g \in Fds : connections'[g] # None =>
          conn'[connections'[g]].chfd = g /\ conn'[connections'[g]].state # "Unborn"
    <3> SUFFICES ASSUME NEW g \in Fds, connections'[g] # None
                 PROVE  conn'[connections'[g]].chfd = g /\ conn'[connections'[g]].state # "Unborn"
      OBVIOUS
    <3>1. CASE g = f
      BY <1>2, <1>3, <3>1
    <3>2. CASE g # f
      <4>1. connections'[g] = connections[g]
        BY <1>3, <3>2
      <4>2. connections[g] \in Conns /\ conn[connections[g]].state # "Unborn"
        BY <4>1, NamesAccepted
      <4>3. conn[connections[g]].chfd = g
        BY <1>1, <4>1 DEF Placed
      <4> QED BY <1>2, <4>1, <4>2, <4>3
    <3> QED BY <3>1, <3>2
  <2>5. \A k \in SubLoops : work'[k] = work[k]
    BY <1>1, <1>3
  <2>6. work'[MainLoop].at = "establish"
    BY <1>3
  <2>7. UNCHANGED <<closeCalls, torn, late, revived, holds, queue>> /\ lost \subseteq lost'
          /\ \A d \in Conns : conn[d].state # "Unborn" => conn'[d] = conn[d]
    BY <1>1, <1>2
  <2> QED BY <2>1, <2>3, <2>4, <2>5, <2>6, <2>7 DEF RestForm
<1>7. EntryKept'
  <2> SUFFICES ASSUME NEW d \in Conns \ lost', conn'[d].state # "Unborn", closeCalls[d] = 0
               PROVE  connections'[conn'[d].chfd] = d
    BY <1>1 DEF EntryKept
  <2>1. CASE d = c
    BY <1>2, <1>3, <2>1
  <2>2. CASE d # c
    <3>1. conn'[d] = conn[d] /\ d # v
      BY <1>1, <1>2, <2>2
    <3>2. connections[conn[d].chfd] = d /\ conn[d].chfd \in Fds
      BY <1>1, <3>1 DEF EntryKept, Named
    <3>3. conn[d].chfd # f
      BY <3>1, <3>2 DEF v
    <3> QED BY <1>3, <3>1, <3>2, <3>3
  <2> QED BY <2>1, <2>2
<1>8. Owned'
  <2>1. ASSUME NEW d \in Conns \ {c}, Held(d, connections', queue', work', holds')
        PROVE  Held(d, connections, queue, work, holds)
    <3>1. ASSUME NEW k \in Loops, work'[k].conn = d,
             work'[k].at \in {"callback", "forced", "shut", "establish", "destroy", "release"}
          PROVE  Held(d, connections, queue, work, holds)
      BY <1>3, <3>1 DEF Held
    <3>2. (\E g \in Fds : connections'[g] = d) => Held(d, connections, queue, work, holds)
      BY <1>3 DEF Held
    <3>3. ASSUME NEW k \in Loops, NEW i \in DOMAIN queue'[k], queue'[k][i].conn = d,
                 queue'[k][i].call \in Owning
          PROVE  Held(d, connections, queue, work, holds)
      BY <1>1, <3>3 DEF Held
    <3>4. (holds' # Nothing /\ holds'.conn = d) => Held(d, connections, queue, work, holds)
      BY <1>1 DEF Held
    <3> QED BY <2>1, <3>1, <3>2, <3>3, <3>4 DEF Held
  <2>2. fault' \in {"none", "assert"} /\ UNCHANGED <<poller, freed>>
    BY <1>1
  <2> QED BY <1>1, <1>4, <1>6, <1>7, <2>1, <2>2, RestOwned
<1>9. Sockets'
  <2> DEFINE StolenNext(fd) == \E d \in lost' \cap freed' : conn'[d].chfd = fd
  <2>1. \A d \in Conns : (HalfClosed(d)' <=> HalfClosed(d)) /\ (Closing(d)' <=> Closing(d))
    BY <1>1, <1>3 DEF HalfClosed, Closing
  <2>2. \A fd : Stolen(fd) => StolenNext(fd)
    <3> SUFFICES ASSUME NEW fd, NEW d \in lost \cap freed, conn[d].chfd = fd
                 PROVE  StolenNext(fd)
      BY DEF Stolen
    <3>1. d \in Conns /\ d # c /\ d \in lost' \cap freed'
      BY <1>1, <1>4 DEF Typed
    <3>2. conn'[d].chfd = fd
      BY <1>2, <3>1
    <3> QED BY <3>1, <3>2
  <2> HIDE DEF StolenNext
  <2>3. ASSUME NEW d \in Conns \ freed, conn'[d].sockfd # Invalid
        PROVE  kernel'[conn'[d].sockfd] = d \/ HalfClosed(d)' \/ StolenNext(conn'[d].sockfd)
    <3>1. CASE d = c
      BY <1>2, <1>3, <3>1
    <3>2. CASE d # c
      <4> DEFINE n == conn[d].sockfd
      <4>1. conn'[d].sockfd = n
        BY <1>2, <3>2
      <4> HIDE DEF n
      <4>2. kernel[n] = d \/ HalfClosed(d) \/ Stolen(n)
        BY <1>1, <2>3, <4>1 DEF Sockets, n
      <4>3. n \in Fds
        <5>1. n = conn[d].chfd /\ n \in Fds \cup {Invalid}
          BY <1>1, <2>3, <4>1 DEF Placed, n, ConnType, ConnRecord
        <5> QED BY <2>3, <4>1, <5>1
      <4>4. kernel[n] = d => kernel'[n] = d
        <5>1. d # None
          OBVIOUS
        <5> QED BY <1>1, <1>3, <4>3, <5>1
      <4> QED BY <2>1, <2>2, <4>1, <4>2, <4>4
    <3> QED BY <3>1, <3>2
  <2>4. ASSUME NEW d \in Conns, conn'[d].state = "Disconnected", conn'[d].sockfd # Invalid
        PROVE  Closing(d)'
    <3>1. d # c
      BY <1>2, <2>4
    <3> QED BY <1>1, <1>2, <2>1, <2>4, <3>1 DEF Sockets
  <2>5. \A d \in torn' : conn'[d].sockfd = Invalid
    <3>1. torn \subseteq Conns \ {c}
      BY <1>1, <1>4 DEF Typed
    <3> QED BY <1>1, <1>2, <3>1 DEF Sockets
  <2>6. \A d \in Conns : conn'[d].state \in {"Connecting", "Connected"} =>
           conn'[d].sockfd = conn'[d].chfd
    BY <1>1, <1>2 DEF Sockets
  <2> QED BY <1>1, <2>3, <2>4, <2>5, <2>6 DEF Sockets, Stolen, StolenNext
<1>10. Mapped'
  BY <1>1, <1>6, RestMapped
<1> QED BY <1>6, <1>7, <1>8, <1>9, <1>10, RestPlaced, RestCounted, RestBehind DEF SInv

\* The entry of a number is erased, whoever has it.
LEMMA RemoveSafe ==
    ASSUME Inv, IInv', Remove
    PROVE  SInv'
<1> DEFINE c == Head(queue[MainLoop]).conn
           fd == conn[c].sockfd
           v == IF fd = Invalid THEN None ELSE connections[fd]
<1>1. /\ MainLoop \in Threads /\ MainLoop \in Loops /\ Typed /\ Named /\ fault = "none"
      /\ dying[MainLoop] = None /\ work \in WorkType /\ MainLoop \notin SubLoops
      /\ SubLoops \subseteq Loops /\ Loops = {MainLoop} \cup SubLoops
      /\ work[MainLoop].at = "idle" /\ queue[MainLoop] # <<>>
      /\ connections \in EntryType /\ dying \in DyingType
      /\ Owned /\ Placed /\ Sockets /\ EntryKept /\ Counted
  <2>1. /\ Loops = {MainLoop} \cup SubLoops /\ Threads = Loops \cup {Worker}
        /\ MainLoop \notin SubLoops
    BY DEF Threads, Loops, MainLoop, SubLoops
  <2>2. /\ queue[MainLoop] # <<>> /\ fault = "none" /\ dying[MainLoop] = None
        /\ work[MainLoop].at = "idle"
    <3>1. IsIdle(MainLoop) /\ queue[MainLoop] # <<>>
      BY ZenonT(30) DEF Remove
    <3> QED BY <3>1 DEF IsIdle, Idle, Free
  <2> QED BY <2>1, <2>2 DEF Inv, IInv, SInv, Typed
<1>2. /\ connections' = [f \in Fds |-> IF f = fd THEN None ELSE connections[f]]
      /\ queue' = [queue EXCEPT ![MainLoop] = Tail(@)]
      /\ fault' \in {"none", "assert"}
      /\ work' = [work EXCEPT ![MainLoop] = [at |-> "destroy", conn |-> c]]
      /\ lost' = lost \cup {d \in {IF v = c THEN None ELSE v} \cap Conns : closeCalls[d] = 0}
      /\ LetGo(MainLoop, v)
      /\ UNCHANGED <<conn, poller, kernel, freed, closeCalls, torn, holds, late, revived>>
  BY ZenonT(30) DEF Remove, AfterErase, Lose, worker
<1>3. /\ 1 \in DOMAIN queue[MainLoop] /\ queue[MainLoop][1] = Head(queue[MainLoop])
      /\ Pops(MainLoop)
  <2>1. queue[MainLoop] \in Seq(Functor)
    BY <1>1 DEF Typed, QueueType
  <2>2. 1 \in DOMAIN queue[MainLoop] /\ queue[MainLoop][1] = Head(queue[MainLoop])
    BY <1>1, <2>1, TailElements, LenProperties
  <2> QED BY <1>1, <1>2, <2>2, Zenon DEF Pops
<1>4. Head(queue[MainLoop]).call = "Remove" /\ c \in Conns /\ conn[c].state # "Unborn"
  BY <1>1, <1>3, NamesAccepted DEF Named
<1>5. closeCalls[c] # 0 /\ Held(c, connections, queue, work, holds)
  BY <1>1, <1>3, <1>4 DEF Counted, Held, Owning
<1>6. \A k \in Loops : \A i \in DOMAIN queue'[k] :
         /\ \E j \in DOMAIN queue[k] : queue'[k][i] = queue[k][j]
         /\ k # MainLoop => i \in DOMAIN queue[k] /\ queue'[k][i] = queue[k][i]
  BY <1>1, <1>3, QueueSources
<1> HIDE DEF c, v
<1>7. /\ \A g \in Fds : connections'[g] = (IF g = fd THEN None ELSE connections[g])
      /\ work'[MainLoop] = [at |-> "destroy", conn |-> c]
      /\ \A k \in Loops \ {MainLoop} : work'[k] = work[k]
  BY <1>1, <1>2 DEF WorkType
<1>8. v \in Conns => conn[v].state # "Unborn"
  <2>1. CASE fd = Invalid
    BY <2>1 DEF v
  <2>2. CASE fd # Invalid
    <3>1. v = connections[fd] /\ fd \in Fds
      BY <1>1, <1>4, <2>2 DEF v, Typed, ConnType, ConnRecord
    <3> QED BY <3>1, NamesAccepted
  <2> QED BY <2>1, <2>2
<1>9. RestForm
  <2>1. \A m \in Threads : dying'[m] \in {dying[m], v}
    BY <1>1, <1>2 DEF LetGo, DyingType
  <2>2. \A d \in Conns : Gone(d)' => Gone(d) \/ d = v
    BY <1>2, <2>1 DEF Gone
  <2>3. \A d \in Conns : Gone(d)' \/ d \in lost' => conn'[d].state # "Unborn"
    BY <1>1, <1>2, <1>8, <2>2 DEF Placed
  <2>4. \A g \in Fds : connections'[g] # None =>
          conn'[connections'[g]].chfd = g /\ conn'[connections'[g]].state # "Unborn"
    BY <1>1, <1>2, <1>7 DEF Placed
  <2>5. \A d \in Conns : conn'[d].sockfd \in {Invalid, conn'[d].chfd}
    BY <1>1, <1>2 DEF Placed
  <2>6. work'[MainLoop].at = "destroy" /\ closeCalls[work'[MainLoop].conn] # 0
    BY <1>5, <1>7
  <2>7. /\ \A k \in SubLoops : work'[k] = work[k]
        /\ \A l \in SubLoops : \A i \in DOMAIN queue'[l] :
              i \in DOMAIN queue[l] /\ queue'[l][i] = queue[l][i]
        /\ \A i \in DOMAIN queue'[MainLoop] :
              \E j \in DOMAIN queue[MainLoop] : queue'[MainLoop][i] = queue[MainLoop][j]
    BY <1>1, <1>6, <1>7
  <2>8. UNCHANGED <<closeCalls, torn, late, revived, holds>> /\ lost \subseteq lost'
          /\ \A d \in Conns : conn[d].state # "Unborn" => conn'[d] = conn[d]
    BY <1>2
  <2> QED BY <2>3, <2>4, <2>5, <2>6, <2>7, <2>8 DEF RestForm
<1>10. EntryKept'
  <2> SUFFICES ASSUME NEW d \in Conns \ lost', conn[d].state # "Unborn", closeCalls[d] = 0
               PROVE  connections'[conn[d].chfd] = d
    BY <1>2 DEF EntryKept
  <2>1. d # c /\ d \notin lost
    BY <1>2, <1>5
  <2>2. connections[conn[d].chfd] = d /\ conn[d].chfd \in Fds
    BY <1>1, <2>1 DEF EntryKept, Named
  <2>3. conn[d].chfd # fd
    <3>1. SUFFICES ASSUME conn[d].chfd = fd PROVE FALSE
      OBVIOUS
    <3>2. v = d
      BY <2>2, <3>1 DEF v
    <3> QED BY <1>2, <2>1, <3>2
  <2> QED BY <1>7, <2>2, <2>3
<1>11. Owned'
  <2>1. ASSUME NEW d \in Conns, Held(d, connections', queue', work', holds')
        PROVE  Held(d, connections, queue, work, holds)
    <3>1. ASSUME NEW k \in Loops, work'[k].conn = d,
             work'[k].at \in {"callback", "forced", "shut", "establish", "destroy", "release"}
          PROVE  Held(d, connections, queue, work, holds)
      <4>1. CASE k = MainLoop
        <5>1. d = c
          BY <1>7, <3>1, <4>1
        <5> QED BY <1>5, <5>1
      <4>2. CASE k # MainLoop
        BY <1>7, <3>1, <4>2 DEF Held
      <4> QED BY <4>1, <4>2
    <3>2. (\E g \in Fds : connections'[g] = d) => Held(d, connections, queue, work, holds)
      <4>1. d # None
        OBVIOUS
      <4> QED BY <1>7, <4>1 DEF Held
    <3>3. ASSUME NEW k \in Loops, NEW i \in DOMAIN queue'[k], queue'[k][i].conn = d,
                 queue'[k][i].call \in Owning
          PROVE  Held(d, connections, queue, work, holds)
      <4>1. PICK j \in DOMAIN queue[k] : queue'[k][i] = queue[k][j]
        BY <1>6
      <4> QED BY <3>3, <4>1 DEF Held
    <3>4. (holds' # Nothing /\ holds'.conn = d) => Held(d, connections, queue, work, holds)
      BY <1>2 DEF Held
    <3> QED BY <2>1, <3>1, <3>2, <3>3, <3>4 DEF Held
  <2>2. UNCHANGED <<poller, freed>>
    BY <1>2
  <2> QED BY <1>1, <1>2, <1>9, <1>10, <2>1, <2>2, RestOwned
<1>12. Sockets'
  <2>1. \A d \in Conns : (HalfClosed(d)' <=> HalfClosed(d)) /\ (Closing(d)' <=> Closing(d))
    BY <1>1, <1>7 DEF HalfClosed, Closing
  <2> DEFINE StolenNext(n) == \E d \in lost' \cap freed' : conn'[d].chfd = n
  <2>2. \A n : Stolen(n) => StolenNext(n)
    BY <1>2 DEF Stolen
  <2> HIDE DEF StolenNext
  <2>3. \A d \in Conns \ freed : conn[d].sockfd # Invalid =>
           kernel[conn[d].sockfd] = d \/ HalfClosed(d)' \/ StolenNext(conn[d].sockfd)
    BY <1>1, <2>1, <2>2 DEF Sockets
  <2> QED BY <1>1, <1>2, <2>1, <2>3 DEF Sockets, Stolen, StolenNext
<1>13. Mapped'
  BY <1>2, <1>9, RestMapped
<1> QED BY <1>9, <1>10, <1>11, <1>12, <1>13, RestPlaced, RestCounted, RestBehind DEF SInv

\* The destructor of a connection that was let go.
LEMMA DestructSafe ==
    ASSUME Inv, IInv', NEW t \in Threads, Destruct(t)
    PROVE  SInv'
<1> DEFINE c == dying[t]
           fd == conn[c].sockfd
           l == conn[c].loop
           n == conn[c].chfd
<1>0. fault' # "use after free"
  BY DEF Destruct
<1>1. /\ fault = "none" /\ c # None
      /\ poller' = Forget(Unregistered(c), fd) /\ KernelClose(fd)
      /\ freed' = freed \cup {c} /\ dying' = [dying EXCEPT ![t] = None]
      /\ UNCHANGED <<conn, connections, queue, work, closeCalls, torn, lost, holds, late, revived>>
  BY DEF Destruct, worker
<1>2. /\ Typed /\ Named /\ dying \in DyingType /\ poller \in PollerType /\ kernel \in EntryType
      /\ Owned /\ Placed /\ Sockets /\ Mapped /\ SInv /\ conn \in ConnType
  BY DEF Inv, IInv, SInv, Typed
<1>3. /\ c \in Conns /\ Gone(c) /\ c \notin freed /\ c \in torn \cup lost
      /\ conn[c].state # "Unborn" /\ n \in Fds /\ l \in SubLoops
      /\ \A m \in Threads : dying[m] = c => m = t
  <2>1. c \in Conns /\ Gone(c)
    BY <1>1, <1>2 DEF Gone, DyingType
  <2>2. c \notin freed /\ \A m \in Threads : dying[m] = c => m = t
    BY <1>1, <1>2 DEF Owned
  <2>3. c \in torn \cup lost
    BY <1>2, <2>1, Zenon DEF Owned
  <2>4. conn[c].state # "Unborn"
    BY <1>2, <2>1 DEF Placed
  <2> QED BY <1>2, <2>1, <2>2, <2>3, <2>4 DEF Named
<1> HIDE DEF c, fd
<1>4. \A m \in Threads : dying'[m] = IF m = t THEN None ELSE dying[m]
  BY <1>1, <1>2 DEF DyingType
<1>5. \A d \in Conns : Gone(d)' <=> Gone(d)
  <2>1. \A d \in Conns : Gone(d)' => Gone(d)
    BY <1>1, <1>3, <1>4 DEF Gone
  <2>2. ASSUME NEW d \in Conns, Gone(d), d # c PROVE Gone(d)'
    <3>1. CASE d \in freed
      BY <1>1, <3>1 DEF Gone
    <3>2. ASSUME NEW m \in Threads, dying[m] = d PROVE Gone(d)'
      <4>1. m # t
        BY <2>2, <3>2 DEF c
      <4> QED BY <1>4, <3>2, <4>1 DEF Gone
    <3> QED BY <2>2, <3>1, <3>2 DEF Gone
  <2>3. c \in freed'
    BY <1>1
  <2>4. \A d \in Conns : d = c => Gone(d)'
    BY <2>3 DEF Gone
  <2> QED BY <2>1, <2>2, <2>4
\* Its channel leaves the poller.
<1>6. PollerTo(poller', c, {})
  <2>1. /\ PollerTo(poller, c, conn[c].events)
        /\ \A ev : PollerTo(WithEvents(c, ev), c, ev)
        /\ \A p \in PollerType : \A k, ev : PollerTo(p, c, ev) => PollerTo(Forget(p, k), c, ev)
        /\ \A ev : WithEvents(c, ev) \in PollerType
    BY <1>2, <1>3, PollerPieces
  <2>2. Unregistered(c) \in PollerType /\ PollerTo(Unregistered(c), c, {})
    <3>1. CASE conn[c].events = {}
      <4>1. Unregistered(c) = poller
        BY <3>1 DEF Unregistered
      <4> QED BY <1>2, <2>1, <3>1, <4>1
    <3>2. CASE conn[c].events # {}
      <4>1. Unregistered(c) = WithEvents(c, {})
        BY <3>2 DEF Unregistered
      <4> QED BY <2>1, <4>1
    <3> QED BY <3>1, <3>2
  <2> QED BY <1>1, <2>1, <2>2
<1>7. /\ \A k \in SubLoops, f \in Fds :
            /\ poller'[k].map[f] \in {poller[k].map[f], None}
            /\ f \in poller'[k].epoll => f \in poller[k].epoll
      /\ \A k \in SubLoops, f \in Fds : f \in poller'[k].epoll =>
            poller'[k].map[f] = poller[k].map[f]
      /\ \A k \in SubLoops, f \in Fds : poller'[k].map[f] # c
  <2>1. /\ \A k \in SubLoops, f \in Fds : k # l \/ f # n =>
              /\ poller'[k].map[f] = poller[k].map[f]
              /\ f \in poller'[k].epoll => f \in poller[k].epoll
        /\ \/ poller'[l].map[n] = None /\ n \notin poller'[l].epoll
           \/ /\ poller'[l].map[n] = poller[l].map[n]
              /\ n \in poller'[l].epoll => n \in poller[l].epoll
              /\ conn[c].events = {}
    BY <1>6 DEF PollerTo
  <2>2. \A k \in SubLoops, f \in Fds : poller[k].map[f] = c =>
           k = l /\ f = n /\ conn[c].events # {}
    BY <1>2, <1>3 DEF Mapped
  <2> HIDE DEF l, n
  <2>3. c # None
    BY <1>1
  <2> QED BY <2>1, <2>2, <2>3
<1>8. Mapped'
  <2> SUFFICES ASSUME NEW k \in SubLoops, NEW f \in Fds
               PROVE  /\ poller'[k].map[f] # None =>
                            LET d == poller'[k].map[f]
                            IN  conn[d].chfd = f /\ conn[d].loop = k /\ conn[d].events # {}
                      /\ f \in poller'[k].epoll => poller'[k].map[f] # None
    BY <1>1 DEF Mapped
  <2>1. poller'[k].map[f] # None => poller'[k].map[f] = poller[k].map[f]
    BY <1>7
  <2>2. f \in poller'[k].epoll => f \in poller[k].epoll /\ poller'[k].map[f] = poller[k].map[f]
    BY <1>7
  <2> QED BY <1>2, <2>1, <2>2 DEF Mapped
<1>9. Owned'
  <2>1. \A d \in Conns : Held(d, connections', queue', work', holds') <=>
                         Held(d, connections, queue, work, holds)
    BY <1>1 DEF Held
  <2>2. \A d \in Conns : ~(Held(d, connections', queue', work', holds') /\ Gone(d)')
    BY <1>1, <1>2, <1>5, <2>1 DEF Owned
  <2>3. \A d \in Conns : Gone(d)' => d \in torn' \cup lost'
    BY <1>1, <1>2, <1>5 DEF Owned
  <2>4. ASSUME NEW k \in Threads, dying'[k] # None
        PROVE  /\ dying'[k] \notin freed'
               /\ \A m \in Threads : dying'[m] = dying'[k] => m = k
    <3>1. k # t /\ dying'[k] = dying[k]
      BY <1>4, <2>4
    <3>2. dying[k] # c
      BY <1>3, <3>1
    <3>3. /\ dying[k] \notin freed
          /\ \A m \in Threads : dying[m] = dying[k] => m = k
      BY <1>2, <2>4, <3>1, Zenon DEF Owned
    <3>4. \A m \in Threads : dying'[m] = dying'[k] => dying[m] = dying[k]
      BY <1>4, <2>4, <3>1
    <3> QED BY <1>1, <3>1, <3>2, <3>3, <3>4
  <2>5. \A k \in SubLoops, f \in Fds : poller'[k].map[f] \notin freed'
    <3>1. None \notin freed
      BY <1>2 DEF Typed
    <3>2. \A k \in SubLoops, f \in Fds : poller[k].map[f] \notin freed
      BY <1>1, <1>2 DEF Owned
    <3> QED BY <1>1, <1>7, <3>1, <3>2
  <2> QED BY <1>0, <2>2, <2>3, <2>4, <2>5, Zenon DEF Owned
<1>10. Sockets'
  <2>1. \A d \in Conns : (HalfClosed(d)' <=> HalfClosed(d)) /\ (Closing(d)' <=> Closing(d))
    BY <1>1 DEF HalfClosed, Closing
  <2> DEFINE StolenNext(m) == \E d \in lost' \cap freed' : conn'[d].chfd = m
  <2>2. \A m : Stolen(m) => StolenNext(m)
    BY <1>1 DEF Stolen
  <2>3. fd # Invalid => StolenNext(fd)
    <3>1. fd # Invalid => fd = n /\ c \notin torn
      BY <1>2, <1>3 DEF Placed, Sockets, fd
    <3> QED BY <1>1, <1>3, <3>1
  <2> HIDE DEF StolenNext
  <2>4. ASSUME NEW d \in Conns \ freed', conn[d].sockfd # Invalid
        PROVE  kernel'[conn[d].sockfd] = d \/ HalfClosed(d)' \/ StolenNext(conn[d].sockfd)
    <3>1. kernel[conn[d].sockfd] = d \/ HalfClosed(d) \/ Stolen(conn[d].sockfd)
      BY <1>1, <1>2, <2>4 DEF Sockets
    <3>2. conn[d].sockfd \in Fds
      BY <1>2, <2>4 DEF ConnType, ConnRecord
    <3>3. conn[d].sockfd # fd => kernel'[conn[d].sockfd] = kernel[conn[d].sockfd]
      BY <1>1, <3>2 DEF KernelClose
    <3> QED BY <2>1, <2>2, <2>3, <2>4, <3>1, <3>3
  <2> QED BY <1>1, <1>2, <2>1, <2>4 DEF Sockets, Stolen, StolenNext
<1>11. Placed'
  BY <1>1, <1>2, <1>5 DEF Placed
<1>12. Counted' /\ EntryKept' /\ Behind'
  BY <1>1, <1>2 DEF SInv, Counted, EntryKept, Behind
<1>13. Quieted' /\ TornQuiet'
  BY <1>1, <1>2 DEF SInv, Quieted, TornQuiet, Forcing
<1>14. PastConnected'
  BY <1>1, <1>2 DEF SInv, PastConnected, Ended
<1> QED BY <1>8, <1>9, <1>10, <1>11, <1>12, <1>13, <1>14 DEF SInv

LEMMA StutterSafe ==
    ASSUME Inv, UNCHANGED vars
    PROVE  SInv'
<1>1. /\ UNCHANGED <<conn, connections, queue, work, poller, kernel, dying>>
      /\ UNCHANGED <<freed, fault, holds, closeCalls, torn, lost, late, revived>>
      /\ Placed /\ Mapped /\ Owned /\ Counted /\ EntryKept /\ Quieted /\ Behind
      /\ TornQuiet /\ PastConnected /\ Sockets
  BY DEF vars, Inv, SInv
<1>2. \A d \in Conns : Gone(d)' <=> Gone(d)
  BY <1>1 DEF Gone
<1>3. Placed' /\ Mapped'
  BY <1>1, <1>2 DEF Placed, Mapped
<1>4. Counted' /\ EntryKept'
  BY <1>1 DEF Counted, EntryKept
<1>5. Behind'
  BY <1>1 DEF Behind
<1>6. Owned'
  <2>1. \A d \in Conns : Held(d, connections', queue', work', holds') <=>
                         Held(d, connections, queue, work, holds)
    BY <1>1 DEF Held
  <2>2. Excused' = Excused
    BY <1>1 DEF Excused
  <2> QED BY <1>1, <1>2, <2>1, <2>2, Zenon DEF Owned
<1>7. Quieted' /\ TornQuiet' /\ PastConnected'
  BY <1>1 DEF Quieted, TornQuiet, PastConnected, Forcing, Ended
<1>8. Sockets'
  BY <1>1 DEF Sockets, HalfClosed, Closing, Stolen
<1> QED BY <1>3, <1>6, <1>7, <1>8, <1>4, <1>5 DEF SInv

-----------------------------------------------------------------------------
(* The invariant, and what it implies.                                     *)

LEMMA InitSafe == Init => SInv
<1> SUFFICES ASSUME Init PROVE SInv
  OBVIOUS
<1>1. /\ \A c \in Conns : /\ conn[c].state = "Unborn" /\ conn[c].sockfd = Invalid
                          /\ conn[c].chfd = Invalid /\ conn[c].events = {}
                          /\ closeCalls[c] = 0
      /\ \A l \in Loops : queue[l] = <<>> /\ work[l].at = "idle"
      /\ \A f \in Fds : connections[f] = None
      /\ freed = {} /\ torn = {} /\ lost = {} /\ holds = Nothing
      /\ \A t \in Threads : dying[t] = None
  BY DEF Init, Idle
<1>0. fault = "none" /\ fault # "use after free"
  BY DEF Init
<1>2. \A l \in SubLoops, f \in Fds : poller[l].map[f] = None /\ f \notin poller[l].epoll
  BY DEF Init, NewPoller
<1>3. \A c \in Conns : ~Gone(c)
  BY <1>1 DEF Gone
<1>4. MainLoop \in Loops /\ SubLoops \subseteq Loops /\ \A l \in Loops : DOMAIN queue[l] = {}
  BY <1>1 DEF Loops
<1>5. Placed
  BY <1>1, <1>3, <1>4 DEF Placed
<1>6. Mapped
  BY <1>2 DEF Mapped
<1>7. Owned
  BY <1>0, <1>1, <1>2, <1>3 DEF Owned
<1>8. Counted /\ EntryKept
  BY <1>1, <1>4 DEF Counted, EntryKept
<1>9. Quieted
  BY <1>1 DEF Quieted, Forcing
<1>10. Behind /\ TornQuiet
  BY <1>1, <1>4 DEF Behind, TornQuiet
<1>11. PastConnected
  BY <1>1, <1>4 DEF PastConnected, Nothing, Ending
<1>12. Sockets
  BY <1>1 DEF Sockets
<1> QED BY <1>5, <1>6, <1>7, <1>8, <1>9, <1>10, <1>11, <1>12 DEF SInv

LEMMA StepSafe == Inv /\ [Next]_vars => Inv'
<1> SUFFICES ASSUME Inv, [Next]_vars PROVE Inv'
  OBVIOUS
<1>0. IInv'
  BY InvStep DEF Inv
<1> SUFFICES SInv'
  BY <1>0 DEF Inv
<1>1. ASSUME NEW c \in Conns, NEW f \in Fds, Accept(c, f) PROVE SInv'
  BY <1>0, <1>1, AcceptSafe
<1>2. CASE Remove
  BY <1>0, <1>2, RemoveSafe
<1>3. ASSUME NEW t \in Threads, Destruct(t) PROVE SInv'
  BY <1>0, <1>3, DestructSafe
<1>4. CASE MainContinue
  <2>1. CASE PostEstablished
    BY <1>0, <2>1, PostEstablishedSafe
  <2>2. CASE PostDestroyed \/ ReleaseLambda
    <3>1. \E c, l : StepForm(MainLoop, l, c)
      BY <1>0, <2>2, MainForm
    <3> QED BY <1>0, <3>1, StepKeeps
  <2>3. MainLoop \in Threads
    BY DEF Threads, Loops
  <2> QED BY <1>3, <1>4, <2>1, <2>2, <2>3 DEF MainContinue
<1>5. ASSUME NEW l \in SubLoops, \E c : StepForm(l, l, c) PROVE SInv'
  BY <1>0, <1>5, StepKeeps
<1>6. ASSUME NEW l \in SubLoops, Functors(l) PROVE SInv'
  <2>1. \E c : StepForm(l, l, c)
    BY <1>0, <1>6, EstablishedForm, DestroyedForm, SendInLoopForm, ShutdownInLoopForm,
       ForceCloseInLoopForm DEF Functors
  <2> QED BY <1>5, <2>1
<1>7. ASSUME NEW l \in SubLoops, Continue(l) PROVE SInv'
  <2>1. CASE Destruct(l)
    <3>1. l \in Threads
      BY DEF Threads, Loops
    <3> QED BY <1>3, <2>1, <3>1
  <2>2. ASSUME NEW c \in Conns,
               Send(l, c) \/ ShutdownLater(l, c) \/ ShutdownNow(l, c) \/ ForceClose(l, c)
        PROVE  SInv'
    <3>1. StepForm(l, l, c)
      BY <1>0, <2>2, CallsForm
    <3> QED BY <1>5, <3>1
  <2>3. CASE \/ CallbackReturns(l) \/ ShutdownDone(l) \/ ForceCloseDone(l)
             \/ CloseSocket(l) \/ InvalidateSocket(l) \/ CloseAgain(l)
    <3>1. \E c : StepForm(l, l, c)
      BY <1>0, <2>3, CallbackForm, ShutdownDoneForm, ForceCloseDoneForm, CloseSocketForm,
         InvalidateForm, CloseAgainForm
    <3> QED BY <1>5, <3>1
  <2> QED BY <1>7, <2>1, <2>2, <2>3 DEF Continue
<1>8. ASSUME NEW l \in SubLoops, NEW c \in Conns,
             \/ Dangling(l, c) \/ HandleRead(l, c) \/ HandleWrite(l, c)
             \/ \E again \in BOOLEAN : PeerCloses(l, c, again)
      PROVE  SInv'
  <2>1. StepForm(l, l, c)
    BY <1>0, <1>8, HandlersForm
  <2> QED BY <1>5, <2>1
<1>9. ASSUME NEW l \in SubLoops, HandOver(l) PROVE SInv'
  <2>1. \E c : StepForm(l, l, c)
    BY <1>0, <1>9, CallbackForm
  <2> QED BY <1>5, <2>1
<1>10. CASE \/ \E call \in OtherCalls : TestState(call)
            \/ StoreState \/ PostCall \/ DropPointer
  <2>1. \E c, l : StepForm(Worker, l, c)
    BY <1>0, <1>10, WorkerForm
  <2> QED BY <1>0, <2>1, StepKeeps
<1>11. CASE WorkerContinue
  <2>1. Worker \in Threads
    BY DEF Threads
  <2> QED BY <1>3, <1>10, <1>11, <2>1 DEF WorkerContinue
<1>12. CASE UNCHANGED vars
  BY <1>12, StutterSafe
<1> QED BY <1>1, <1>2, <1>4, <1>6, <1>7, <1>8, <1>9, <1>10, <1>11, <1>12 DEF Next

LEMMA SafetyInvariance == Spec => []Inv
<1>1. Init => Inv
  BY InitInv, InitSafe DEF Inv
<1> QED BY <1>1, StepSafe, PTL DEF Spec

\* A connection that is not in one of the three races is destroyed only after
\* ConnectDestroyed ran for it, when no poller has its channel and no thread is
\* in the middle of something for it.
THEOREM DiesTornDownCorrect == Spec => []DiesTornDown
BY SafetyInvariance, InvDies, PTL

\* EpollPoller::Poll never finds a destroyed channel in m_fd_to_channel, nor a
\* descriptor that is not there.
THEOREM PollerConsistentCorrect == Spec => []PollerConsistent
BY SafetyInvariance, InvPoller, PTL

\* The descriptor of a connection in service is that of its own open socket,
\* unless the destructor of one that had lost its entry closed it.
THEOREM OwnsDescriptorCorrect == Spec => []OwnsDescriptor
BY SafetyInvariance, InvOwns, PTL

\* A call posted with a bare this finds the connection alive, unless it came
\* after ConnectDestroyed had been posted or the connection had lost its entry.
THEOREM PostedCallsSafeCorrect == Spec => []PostedCallsSafe
BY SafetyInvariance, InvPosted, PTL

\* A destroyed connection is used only after one of the three races.
THEOREM NoOtherUseAfterFreeCorrect == Spec => []NoOtherUseAfterFree
BY SafetyInvariance, InvFree, PTL
=============================================================================
