------------------------------ MODULE TcpServer ------------------------------
(***************************************************************************)
(* A multi-threaded TcpServer and the connections it manages: the accept   *)
(* path on the main loop, each TcpConnection and its Channel on one of the *)
(* sub loops, the epoll poller of every loop, and the descriptor table of  *)
(* the kernel, where a closed number is handed out again.                  *)
(*                                                                         *)
(* A loop runs one handler or functor at a time; its functors are the      *)
(* first-in first-out queue EventLoop.tla is shown to implement.  The      *)
(* application calls Send, Shutdown and ForceClose from the callbacks of   *)
(* the connection; a callback may also hand its TcpConnectionPtr to one    *)
(* thread of the application, which makes those calls from outside and     *)
(* drops the pointer when it likes.                                        *)
(***************************************************************************)
EXTENDS EpollPoller, Sequences

CONSTANTS
    Conns,      \* the clients that connect, each once
    Fds,        \* the descriptor numbers the kernel hands out
    ThreadNum,  \* m_thread_num, the number of sub loops
    AppCalls,   \* what the application's callbacks call
    OtherCalls, \* what the application's own thread calls on a connection
    MaxCalls,   \* bound: how many calls that thread makes
    Asserts     \* whether assert() is compiled in (no NDEBUG)

ASSUME TcpServerAssumption ==
    /\ ThreadNum \in Nat \ {0}
    /\ AppCalls \cup OtherCalls \subseteq {"Send", "Shutdown", "ForceClose"}
    /\ MaxCalls \in Nat
    /\ Asserts \in BOOLEAN
    /\ None \notin Conns

Invalid == "invalid"       \* INVALID_SOCKET_VALUE, never the number of a descriptor
ASSUME InvalidAssumption == Invalid \notin Fds

MainLoop == 0
SubLoops == 1 .. ThreadNum
Loops == {MainLoop} \cup SubLoops
Worker == ThreadNum + 1    \* the application's thread, which runs no loop
Threads == Loops \cup {Worker}

States == {"Unborn", "Connecting", "Connected", "Disconnecting", "Disconnected"}

\* The lambdas passed to RunInLoop.  The server's capture a TcpConnectionPtr,
\* those of a connection's own calls the bare this.
Posted == [Send |-> "SendInLoop", Shutdown |-> "ShutdownInLoop",
           ForceClose |-> "ForceCloseInLoop"]
RawCalls == {Posted[call] : call \in DOMAIN Posted}
Functor == [call : {"ConnectEstablished", "Remove", "ConnectDestroyed"} \cup RawCalls,
            conn : Conns]

\* What a loop thread is in the middle of.  handler: the callback was called
\* by a handler of the Channel, not by ConnectEstablished.  again:
\* Channel::HandleEvent will run the close callback once more.
Work == [at : {"idle"}]
          \cup [at : {"establish", "destroy", "release", "again", "rawForced", "rawShut"},
                 conn : Conns]
          \cup [at : {"callback", "forced", "shut"}, conn : Conns, handler : BOOLEAN]
          \cup [at : {"closing", "closed"}, conn : Conns, again : BOOLEAN]
Idle == [at |-> "idle"]

\* What the application's thread does with the pointer it was given: has it,
\* has tested m_state for a call, has stored m_state.
Holding == [at : {"nothing"}] \cup [at : {"has"}, conn : Conns]
             \cup [at : {"tested", "stored"}, conn : Conns, call : DOMAIN Posted]
Nothing == [at |-> "nothing"]

VARIABLES
    conn,         \* per connection: m_state, m_socket's fd, the Channel's fd,
                  \* its loop, m_events, and whether m_output_buffer holds data
    connections,  \* m_connections: descriptor -> connection
    queue,        \* the functors waiting in each loop
    work,         \* what each loop thread is doing
    poller,       \* per sub loop: m_fd_to_channel and the kernel's epoll set
    kernel,       \* the connection whose socket is open under each number
    nextLoop,     \* m_next_loop_idx % m_thread_num
    dying,        \* the TcpConnection each thread is about to destroy
    freed,        \* the TcpConnections whose destructor has run
    fault,        \* "none", "assert", "abort" or "use after free"
    holds,        \* the pointer the application's thread holds, and its call
    calls,        \* how many calls it has begun
    closeCalls,   \* history: how often each close callback ran
    torn,         \* history: the connections ConnectDestroyed ran for
    lost,         \* history: those whose entry went for the sake of another
                  \* connection before their own close callback ran
    late,         \* history: those called from outside when ConnectDestroyed
                  \* had been posted
    revived       \* history: those a call from outside put on again when they
                  \* had closed

vars == <<conn, connections, queue, work, poller, kernel, nextLoop, dying, freed,
          fault, holds, calls, closeCalls, torn, lost, late, revived>>

worker == <<holds, calls, late, revived>>

Init ==
    /\ conn = [c \in Conns |-> [state |-> "Unborn", sockfd |-> Invalid,
                                chfd |-> Invalid, loop |-> MainLoop,
                                events |-> {}, output |-> FALSE]]
    /\ connections = [f \in Fds |-> None]
    /\ queue = [l \in Loops |-> <<>>]
    /\ work = [l \in Loops |-> Idle]
    /\ poller = [l \in SubLoops |-> NewPoller(Fds)]
    /\ kernel = [f \in Fds |-> None]
    /\ nextLoop = 0
    /\ dying = [l \in Threads |-> None]
    /\ freed = {}
    /\ fault = "none"
    /\ closeCalls = [c \in Conns |-> 0]
    /\ torn = {}
    /\ lost = {} /\ late = {} /\ revived = {}
    /\ holds = Nothing
    /\ calls = 0

-----------------------------------------------------------------------------
(* Pieces of the handlers.                                                 *)

\* Poller state after c's channel got the events ev.
BugNotRemoved(c, ev) ==
    IF ev = {} THEN poller
    ELSE [poller EXCEPT ![conn[c].loop] = UpdateChannel(@, conn[c].chfd, c, ev, TRUE)]
WithEvents(c, ev) ==
    [poller EXCEPT ![conn[c].loop] =
        UpdateChannel(@, conn[c].chfd, c, ev, kernel[conn[c].chfd] # None)]

\* EnableWriting, unless IsWriting says it is on already.
EnableWriting(c) ==
    IF "write" \in conn[c].events THEN poller
    ELSE WithEvents(c, conn[c].events \cup {"write"})

\* close(fd): the number is free again and every epoll set forgets it.
KernelClose(fd) == kernel' = [f \in Fds |-> IF f = fd THEN None ELSE kernel[f]]
Forget(p, fd) == [l \in SubLoops |-> Forgotten(p[l], fd)]

\* The lambdas that capture a TcpConnectionPtr, and who keeps a TcpConnection
\* alive, given m_connections, the queues, the threads' work and what the
\* application's thread holds: an entry, such a lambda, the argument of a
\* callback, or that pointer.
BugRawCapture == {"ConnectEstablished", "Remove"}
Owning == {"ConnectEstablished", "Remove", "ConnectDestroyed"}

Held(c, entries, q, w, h) ==
    \/ h # Nothing /\ h.conn = c
    \/ \E f \in Fds : entries[f] = c
    \/ \E l \in Loops : \E i \in DOMAIN q[l] : q[l][i].conn = c /\ q[l][i].call \in Owning
    \/ \E l \in Loops :
          /\ w[l].at \in {"callback", "forced", "shut", "establish", "destroy", "release"}
          /\ w[l].conn = c

Gone(c) == c \in freed \/ \E l \in Threads : dying[l] = c

\* Thread l lets go of a reference to c; if it was the last one, c's
\* destructor comes next.
LetGo(l, c) ==
    dying' = IF c \in Conns /\ ~Gone(c)
                 /\ ~Held(c, connections', queue', work', holds')
             THEN [dying EXCEPT ![l] = c]
             ELSE dying

\* The callback thread l was in is over and its TcpConnectionPtr goes.  If it
\* was the last one, the handler that called the callback returns into a
\* destroyed object.
EndCallback(l) ==
    /\ work' = [work EXCEPT ![l] = Idle]
    /\ LetGo(l, work[l].conn)
    /\ fault' = IF work[l].handler /\ dying' # dying THEN "use after free" ELSE fault

\* What touching c's memory does.
Touch(c) == fault' = IF Gone(c) THEN "use after free" ELSE fault

\* RunInLoop(functor) on another thread's loop.
Post(q, l, call, c) == [q EXCEPT ![l] = Append(@, [call |-> call, conn |-> c])]

\* Thread l may take its next step, a destructor it owes comes first.
Free(l) == fault = "none" /\ dying[l] = None
IsIdle(l) == Free(l) /\ work[l] = Idle
At(l, at) == Free(l) /\ work[l].at = at

-----------------------------------------------------------------------------
(* The main loop.                                                          *)

\* NextLoop: m_next_loop_idx.fetch_add(1) % m_thread_num.
NextLoop(i) == (i + 1) % ThreadNum

\* c's entry is overwritten or erased for another connection.
Lose(c) == lost' = lost \cup {d \in {c} \cap Conns : closeCalls[d] = 0}

\* Acceptor::HandleAccept: accept() hands out a number that is not in use.
Accepts(c, f) ==
    /\ kernel[f] = None
    /\ kernel' = [kernel EXCEPT ![f] = c]

\* A TcpConnection as its constructor leaves it.
Constructed(f, l) ==
    [state |-> "Connecting", sockfd |-> f, chfd |-> f, loop |-> l, events |-> {},
     output |-> FALSE]

\* HandleNewConnection: the new connection gets the next sub loop and takes
\* the entry of its descriptor, whoever had it ...
Accept(c, f) ==
    /\ IsIdle(MainLoop)
    /\ conn[c].state = "Unborn"
    /\ Accepts(c, f)
    /\ conn' = [conn EXCEPT ![c] = Constructed(f, nextLoop + 1)]
    /\ nextLoop' = NextLoop(nextLoop)
    /\ connections' = [connections EXCEPT ![f] = c]
    /\ work' = [work EXCEPT ![MainLoop] = [at |-> "establish", conn |-> c]]
    /\ Lose(connections[f])
    /\ UNCHANGED <<queue, worker>>
    /\ LetGo(MainLoop, connections[f])
    /\ UNCHANGED <<poller, freed, fault, closeCalls, torn>>

\* ... and is established by its own loop.
PostEstablished ==
    /\ At(MainLoop, "establish")
    /\ LET c == work[MainLoop].conn
       IN  queue' = Post(queue, conn[c].loop, "ConnectEstablished", c)
    /\ work' = [work EXCEPT ![MainLoop] = Idle]
    /\ UNCHANGED <<conn, connections, poller, kernel, nextLoop, dying, freed, fault,
                   closeCalls, torn, lost, worker>>

\* The lambda of HandleRemoveConnection: it reads the descriptor from the
\* connection, whose own thread may be closing it, and erases by that key ...
BugOnlyIfErased(erased, c) ==
    [at |-> IF erased THEN "destroy" ELSE "release", conn |-> c]
AfterErase(erased, c) == [at |-> "destroy", conn |-> c]

Remove ==
    /\ IsIdle(MainLoop)
    /\ queue[MainLoop] # <<>>
    /\ UNCHANGED worker
    /\ LET c == Head(queue[MainLoop]).conn
           fd == conn[c].sockfd
           victim == IF fd = Invalid THEN None ELSE connections[fd]
       IN  /\ connections' = [f \in Fds |-> IF f = fd THEN None ELSE connections[f]]
           /\ queue' = [queue EXCEPT ![MainLoop] = Tail(@)]
           /\ fault' = IF Asserts /\ victim = None THEN "assert" ELSE "none"
           /\ work' = [work EXCEPT ![MainLoop] = AfterErase(victim # None, c)]
           /\ Lose(IF victim = c THEN None ELSE victim)
           /\ LetGo(MainLoop, victim)
    /\ UNCHANGED <<conn, poller, kernel, nextLoop, freed, closeCalls, torn>>

\* ... has the connection destroyed by its own loop ...
PostDestroyed ==
    /\ At(MainLoop, "destroy")
    /\ LET c == work[MainLoop].conn
       IN  /\ queue' = Post(queue, conn[c].loop, "ConnectDestroyed", c)
           /\ work' = [work EXCEPT ![MainLoop].at = "release"]
    /\ UNCHANGED <<conn, connections, poller, kernel, nextLoop, dying, freed, fault,
                   closeCalls, torn, lost, worker>>

\* ... and the lambda, with its TcpConnectionPtr, is destroyed.
ReleaseLambda ==
    /\ At(MainLoop, "release")
    /\ work' = [work EXCEPT ![MainLoop] = Idle]
    /\ UNCHANGED <<connections, queue, worker>>
    /\ LetGo(MainLoop, work[MainLoop].conn)
    /\ UNCHANGED <<conn, poller, kernel, nextLoop, freed, fault, closeCalls, torn, lost>>

-----------------------------------------------------------------------------
(* The functors and the events of a sub loop.                              *)

NextFunctor(l, call) ==
    /\ IsIdle(l)
    /\ queue[l] # <<>>
    /\ Head(queue[l]).call = call

\* TcpConnection::ConnectEstablished, up to the connection callback.
ConnectEstablished(l) ==
    /\ NextFunctor(l, "ConnectEstablished")
    /\ LET c == Head(queue[l]).conn IN
       /\ conn' = [conn EXCEPT ![c].state = "Connected", ![c].events = {"read"}]
       /\ poller' = WithEvents(c, {"read"})
       /\ work' = [work EXCEPT ![l] = [at |-> "callback", conn |-> c, handler |-> FALSE]]
    /\ queue' = [queue EXCEPT ![l] = Tail(@)]
    /\ UNCHANGED <<connections, kernel, nextLoop, dying, freed, fault, closeCalls, torn,
                   lost, worker>>

\* TcpConnection::ConnectDestroyed.
ConnectDestroyed(l) ==
    /\ NextFunctor(l, "ConnectDestroyed")
    /\ LET c == Head(queue[l]).conn
           open == conn[c].state \in {"Connected", "Disconnecting"}
       IN  /\ conn' = IF open
                      THEN [conn EXCEPT ![c].state = "Disconnected", ![c].events = {},
                                        ![c].sockfd = Invalid]
                      ELSE conn
           /\ poller' = IF open THEN Forget(WithEvents(c, {}), conn[c].sockfd) ELSE poller
           /\ IF open THEN KernelClose(conn[c].sockfd) ELSE UNCHANGED kernel
           /\ torn' = torn \cup {c}
           /\ fault' = IF c \in freed THEN "use after free" ELSE "none"
           /\ queue' = [queue EXCEPT ![l] = Tail(@)]
           /\ UNCHANGED <<connections, work, worker>>
           /\ LetGo(l, c)
    /\ UNCHANGED <<nextLoop, freed, closeCalls, lost>>

\* HandleClose as far as the close callback, which posts to the main loop.
BugCloseAgain(c) == TRUE
MustClose(c) == conn[c].state # "Disconnected"

HandleClose(l, c, again) ==
    IF MustClose(c)
    THEN /\ conn' = [conn EXCEPT ![c].state = "Disconnected", ![c].events = {}]
         /\ poller' = WithEvents(c, {})
         /\ queue' = Post(queue, MainLoop, "Remove", c)
         /\ closeCalls' = [closeCalls EXCEPT ![c] = @ + 1]
         /\ work' = [work EXCEPT ![l] = [at |-> "closing", conn |-> c, again |-> again]]
    ELSE /\ work' = [work EXCEPT ![l] = Idle]
         /\ UNCHANGED <<conn, poller, queue, closeCalls>>

\* Poll found a descriptor ready, and m_fd_to_channel says whose channel that
\* is: nobody can check whether it still exists.
Ready(l, c) ==
    /\ IsIdle(l)
    /\ \E f \in poller[l].epoll : poller[l].map[f] = c

Dangling(l, c) ==
    /\ Ready(l, c) /\ Gone(c)
    /\ fault' = "use after free"
    /\ UNCHANGED <<conn, connections, queue, work, poller, kernel, nextLoop, dying,
                   freed, closeCalls, torn, lost, worker>>

\* POLLHUP, or a read that finds the end of the stream or an error, or a
\* failing write: HandleClose.  POLLERR: HandleError, then HandleClose again.
PeerCloses(l, c, again) ==
    /\ Ready(l, c) /\ ~Gone(c)
    /\ HandleClose(l, c, again)
    /\ UNCHANGED <<connections, kernel, nextLoop, dying, freed, fault, torn, lost, worker>>

Handler(c) == [at |-> "callback", conn |-> c, handler |-> TRUE]

\* HandleRead with data: the message callback.
HandleRead(l, c) ==
    /\ Ready(l, c) /\ ~Gone(c)
    /\ "read" \in conn[c].events
    /\ work' = [work EXCEPT ![l] = Handler(c)]
    /\ UNCHANGED <<conn, connections, queue, poller, kernel, nextLoop, dying, freed,
                   fault, closeCalls, torn, lost, worker>>

\* HandleWrite that empties m_output_buffer: the write-complete callback.  A
\* write that leaves data behind, or finds the state not Connected, changes
\* nothing.
HandleWrite(l, c) ==
    /\ Ready(l, c) /\ ~Gone(c)
    /\ "write" \in conn[c].events
    /\ conn[c].state = "Connected"
    /\ conn[c].output
    /\ conn' = [conn EXCEPT ![c].output = FALSE, ![c].events = @ \ {"write"}]
    /\ poller' = WithEvents(c, conn[c].events \ {"write"})
    /\ work' = [work EXCEPT ![l] = Handler(c)]
    /\ UNCHANGED <<connections, queue, kernel, nextLoop, dying, freed, fault, closeCalls,
                   torn, lost, worker>>

-----------------------------------------------------------------------------
(* The callback of connection c, on thread l, and the calls it makes.      *)

InCallback(l, c) == At(l, "callback") /\ work[l].conn = c

\* The callback returns; so does a call that finds the connection in no state
\* to serve it.
CallbackReturns(l) ==
    /\ At(l, "callback")
    /\ UNCHANGED <<connections, queue, worker>>
    /\ EndCallback(l)
    /\ UNCHANGED <<conn, poller, kernel, nextLoop, freed, closeCalls, torn, lost>>

\* Send, hence SendInLoop: the data waits for a write event.
Send(l, c) ==
    /\ InCallback(l, c) /\ "Send" \in AppCalls
    /\ conn[c].state = "Connected"
    /\ conn' = [conn EXCEPT ![c].output = TRUE, ![c].events = @ \cup {"write"}]
    /\ poller' = EnableWriting(c)
    /\ UNCHANGED <<connections, queue, work, kernel, nextLoop, dying, freed, fault,
                   closeCalls, torn, lost, worker>>

\* Shutdown with data to send: ShutdownInLoop waits for the write event.
ShutdownLater(l, c) ==
    /\ InCallback(l, c) /\ "Shutdown" \in AppCalls
    /\ conn[c].state = "Connected" /\ conn[c].output
    /\ conn' = [conn EXCEPT ![c].state = "Disconnecting", ![c].events = @ \cup {"write"}]
    /\ poller' = EnableWriting(c)
    /\ UNCHANGED <<connections, queue, work, kernel, nextLoop, dying, freed, fault,
                   closeCalls, torn, lost, worker>>

\* Shutdown with nothing to send: ShutdownInLoop closes the socket ...
ShutdownNow(l, c) ==
    /\ InCallback(l, c) /\ "Shutdown" \in AppCalls
    /\ conn[c].state = "Connected" /\ ~conn[c].output
    /\ conn' = [conn EXCEPT ![c].state = "Disconnecting"]
    /\ poller' = Forget(poller, conn[c].sockfd)
    /\ KernelClose(conn[c].sockfd)
    /\ work' = [work EXCEPT ![l].at = "shut"]
    /\ UNCHANGED <<connections, queue, nextLoop, dying, freed, fault, closeCalls, torn,
                   lost, worker>>

\* After ShutdownInLoop or ForceCloseInLoop: back to the callback that called
\* it, or on to the next functor.
Resume(l) ==
    work' = IF work[l].at \in {"shut", "forced"}
            THEN [work EXCEPT ![l].at = "callback"]
            ELSE [work EXCEPT ![l] = Idle]

\* ... forgets its number and is done: the channel stays where it is and
\* nobody tells the server.
ShutdownDone(l) ==
    /\ At(l, "shut") \/ At(l, "rawShut")
    /\ Touch(work[l].conn)
    /\ conn' = [conn EXCEPT ![work[l].conn].sockfd = Invalid,
                            ![work[l].conn].state = "Disconnected"]
    /\ Resume(l)
    /\ UNCHANGED <<connections, queue, poller, kernel, nextLoop, dying, freed, closeCalls,
                   torn, lost, worker>>

\* ForceClose, hence ForceCloseInLoop: channel off, close(fd) ...
ForceClose(l, c) ==
    /\ InCallback(l, c) /\ "ForceClose" \in AppCalls
    /\ conn[c].state \in {"Connected", "Disconnecting"}
    /\ conn' = [conn EXCEPT ![c].state = "Disconnected", ![c].events = {}]
    /\ poller' = Forget(WithEvents(c, {}), conn[c].sockfd)
    /\ KernelClose(conn[c].sockfd)
    /\ work' = [work EXCEPT ![l].at = "forced"]
    /\ UNCHANGED <<connections, queue, nextLoop, dying, freed, fault, closeCalls, torn,
                   lost, worker>>

\* ... the number forgotten, then the close callback.
ForceCloseDone(l) ==
    /\ At(l, "forced") \/ At(l, "rawForced")
    /\ LET c == work[l].conn IN
       /\ Touch(c)
       /\ conn' = [conn EXCEPT ![c].sockfd = Invalid]
       /\ queue' = Post(queue, MainLoop, "Remove", c)
       /\ closeCalls' = [closeCalls EXCEPT ![c] = @ + 1]
    /\ Resume(l)
    /\ UNCHANGED <<connections, poller, kernel, nextLoop, dying, freed, torn, lost, worker>>

-----------------------------------------------------------------------------
(* The calls of the application's thread: the test of m_state and the      *)
(* store of Disconnecting happen there, whatever the connection's own      *)
(* thread does meanwhile; the rest is posted with a bare this.             *)

\* A callback hands its TcpConnectionPtr over.
HandOver(l) ==
    /\ At(l, "callback")
    /\ holds = Nothing /\ OtherCalls # {} /\ calls < MaxCalls
    /\ holds' = [at |-> "has", conn |-> work[l].conn]
    /\ UNCHANGED <<conn, connections, queue, work, poller, kernel, nextLoop, dying, freed,
                   fault, calls, closeCalls, torn, lost, late, revived>>

\* Shutdown and Send want Connected, ForceClose also takes Disconnecting.
Serves(call, state) ==
    state \in {"Connected"} \cup (IF call = "ForceClose" THEN {"Disconnecting"} ELSE {})

TestState(call) ==
    /\ Free(Worker) /\ holds.at = "has" /\ calls < MaxCalls
    /\ Serves(call, conn[holds.conn].state)
    /\ holds' = [at |-> IF call = "Send" THEN "stored" ELSE "tested",
                 conn |-> holds.conn, call |-> call]
    /\ calls' = calls + 1
    /\ UNCHANGED <<conn, connections, queue, work, poller, kernel, nextLoop, dying, freed,
                   fault, closeCalls, torn, lost, late, revived>>

Revives(c) ==
    revived' = IF conn[c].state = "Disconnected" THEN revived \cup {c} ELSE revived

StoreState ==
    /\ Free(Worker) /\ holds.at = "tested"
    /\ conn' = [conn EXCEPT ![holds.conn].state = "Disconnecting"]
    /\ Revives(holds.conn)
    /\ holds' = [holds EXCEPT !.at = "stored"]
    /\ UNCHANGED <<connections, queue, work, poller, kernel, nextLoop, dying, freed, fault,
                   calls, closeCalls, torn, lost, late>>

\* Whether nothing but its own pointer keeps a caller's connection alive.
TornSoon(c) ==
    \/ c \in torn
    \/ \E i \in DOMAIN queue[conn[c].loop] :
          queue[conn[c].loop][i] = [call |-> "ConnectDestroyed", conn |-> c]

PostCall ==
    /\ Free(Worker) /\ holds.at = "stored"
    /\ LET c == holds.conn IN
       /\ queue' = Post(queue, conn[c].loop, Posted[holds.call], c)
       /\ late' = IF TornSoon(c) THEN late \cup {c} ELSE late
       /\ holds' = [at |-> "has", conn |-> c]
    /\ UNCHANGED <<conn, connections, work, poller, kernel, nextLoop, dying, freed, fault,
                   calls, closeCalls, torn, lost, revived>>

DropPointer ==
    /\ Free(Worker) /\ holds.at = "has"
    /\ holds' = Nothing
    /\ UNCHANGED <<connections, queue, work>>
    /\ LetGo(Worker, holds.conn)
    /\ UNCHANGED <<conn, poller, kernel, nextLoop, freed, fault, calls, closeCalls, torn,
                   lost, late, revived>>

\* What the connection's thread does with such a call when its turn comes.
RunsPosted(l, call) ==
    /\ NextFunctor(l, Posted[call])
    /\ Touch(Head(queue[l]).conn)
    /\ queue' = [queue EXCEPT ![l] = Tail(@)]
    /\ UNCHANGED <<connections, nextLoop, dying, freed, closeCalls, torn, lost>>

SendInLoop(l) ==
    /\ RunsPosted(l, "Send")
    /\ LET c == Head(queue[l]).conn
       IN  IF conn[c].state = "Connected"
           THEN /\ conn' = [conn EXCEPT ![c].output = TRUE,
                                        ![c].events = @ \cup {"write"}]
                /\ poller' = EnableWriting(c)
           ELSE UNCHANGED <<conn, poller>>
    /\ UNCHANGED <<work, kernel, worker>>

\* ShutdownInLoop does not look at m_state.
ShutdownInLoop(l) ==
    /\ RunsPosted(l, "Shutdown")
    /\ LET c == Head(queue[l]).conn
       IN  IF conn[c].output
           THEN /\ conn' = [conn EXCEPT ![c].events = @ \cup {"write"}]
                /\ poller' = EnableWriting(c)
                /\ Revives(c)
                /\ UNCHANGED <<work, kernel, holds, calls, late>>
           ELSE /\ poller' = Forget(poller, conn[c].sockfd)
                /\ KernelClose(conn[c].sockfd)
                /\ work' = [work EXCEPT ![l] = [at |-> "rawShut", conn |-> c]]
                /\ UNCHANGED <<conn, worker>>

ForceCloseInLoop(l) ==
    /\ RunsPosted(l, "ForceClose")
    /\ LET c == Head(queue[l]).conn
       IN  IF conn[c].state \in {"Connected", "Disconnecting"}
           THEN /\ conn' = [conn EXCEPT ![c].state = "Disconnected", ![c].events = {}]
                /\ poller' = Forget(WithEvents(c, {}), conn[c].sockfd)
                /\ KernelClose(conn[c].sockfd)
                /\ work' = [work EXCEPT ![l] = [at |-> "rawForced", conn |-> c]]
           ELSE UNCHANGED <<conn, poller, kernel, work>>
    /\ UNCHANGED worker

-----------------------------------------------------------------------------
(* The end of HandleClose, on the connection's thread, after the close     *)
(* callback: Socket::Close is close(fd) and then the assignment of         *)
(* INVALID_SOCKET_VALUE.                                                   *)

CloseSocket(l) ==
    /\ At(l, "closing")
    /\ LET c == work[l].conn IN
       /\ Touch(c)
       /\ KernelClose(conn[c].sockfd)
       /\ poller' = Forget(poller, conn[c].sockfd)
    /\ work' = [work EXCEPT ![l].at = "closed"]
    /\ UNCHANGED <<conn, connections, queue, nextLoop, dying, freed, closeCalls, torn,
                   lost, worker>>

BugKeepNumber(fd) == fd
ClosedNumber(fd) == Invalid

InvalidateSocket(l) ==
    /\ At(l, "closed")
    /\ LET c == work[l].conn IN
       /\ Touch(c)
       /\ conn' = [conn EXCEPT ![c].sockfd = ClosedNumber(@)]
       /\ work' = [work EXCEPT ![l] = IF work[l].again THEN [at |-> "again", conn |-> c]
                                      ELSE Idle]
    /\ UNCHANGED <<connections, queue, poller, kernel, nextLoop, dying, freed, closeCalls,
                   torn, lost, worker>>

\* Channel::HandleEvent after an error: the close callback once more.
CloseAgain(l) ==
    /\ At(l, "again")
    /\ Touch(work[l].conn)
    /\ HandleClose(l, work[l].conn, FALSE)
    /\ UNCHANGED <<connections, kernel, nextLoop, dying, freed, torn, lost, worker>>

\* ~Channel unregisters what is still registered.
Unregistered(c) == IF conn[c].events = {} THEN poller ELSE WithEvents(c, {})

\* ~TcpConnection with its members, on the thread that let go last.  ~Channel
\* aborts off the loop's thread; ~Socket closes what is still open.
Destruct(l) ==
    /\ fault = "none" /\ dying[l] # None
    /\ LET c == dying[l]
           fd == conn[c].sockfd
       IN  /\ fault' = IF Asserts /\ conn[c].state # "Disconnected" THEN "assert"
                       ELSE IF conn[c].events # {} /\ l # conn[c].loop THEN "abort"
                       ELSE "none"
           /\ poller' = Forget(Unregistered(c), fd)
           /\ KernelClose(fd)
           /\ freed' = freed \cup {c}
    /\ dying' = [dying EXCEPT ![l] = None]
    /\ UNCHANGED <<conn, connections, queue, work, nextLoop, closeCalls, torn, lost,
                   worker>>

-----------------------------------------------------------------------------
Functors(l) ==
    \/ ConnectEstablished(l) \/ ConnectDestroyed(l)
    \/ SendInLoop(l) \/ ShutdownInLoop(l) \/ ForceCloseInLoop(l)

\* The application's thread goes on with what it has begun.
WorkerContinue == StoreState \/ PostCall \/ Destruct(Worker)

Continue(l) ==
    \/ CallbackReturns(l)
    \/ \E c \in Conns : Send(l, c) \/ ShutdownLater(l, c) \/ ShutdownNow(l, c)
                          \/ ForceClose(l, c)
    \/ ShutdownDone(l) \/ ForceCloseDone(l)
    \/ CloseSocket(l) \/ InvalidateSocket(l) \/ CloseAgain(l)
    \/ Destruct(l)

MainContinue == PostEstablished \/ PostDestroyed \/ ReleaseLambda \/ Destruct(MainLoop)

Next ==
    \/ \E c \in Conns, f \in Fds : Accept(c, f)
    \/ Remove
    \/ MainContinue
    \/ \E l \in SubLoops : Functors(l)
    \/ \E l \in SubLoops : Continue(l)
    \/ \E l \in SubLoops, c \in Conns :
          Dangling(l, c) \/ HandleRead(l, c) \/ HandleWrite(l, c)
    \/ \E l \in SubLoops : HandOver(l)
    \/ \E call \in OtherCalls : TestState(call)
    \/ WorkerContinue
    \/ DropPointer
    \/ \E l \in SubLoops, c \in Conns, again \in BOOLEAN : PeerCloses(l, c, again)

Spec == Init /\ [][Next]_vars

-----------------------------------------------------------------------------
(* Properties.                                                             *)

TypeOK ==
    /\ conn \in [Conns -> [state : States, sockfd : Fds \cup {Invalid},
                           chfd : Fds \cup {Invalid}, loop : Loops,
                           events : SUBSET {"read", "write"}, output : BOOLEAN]]
    /\ connections \in [Fds -> Conns \cup {None}]
    /\ queue \in [Loops -> Seq(Functor)]
    /\ work \in [Loops -> Work]
    /\ poller \in [SubLoops -> [map : [Fds -> Conns \cup {None}], epoll : SUBSET Fds]]
    /\ kernel \in [Fds -> Conns \cup {None}]
    /\ nextLoop \in 0 .. ThreadNum - 1
    /\ dying \in [Threads -> Conns \cup {None}]
    /\ freed \subseteq Conns /\ torn \subseteq Conns /\ lost \subseteq Conns
    /\ fault \in {"none", "assert", "abort", "use after free"}
    /\ closeCalls \in [Conns -> Nat]
    /\ holds \in Holding
    /\ calls \in 0 .. MaxCalls
    /\ late \subseteq Conns /\ revived \subseteq Conns

\* Shared ownership works as long as m_connections does: a connection whose
\* entry no other connection took, and no call from outside reached after its
\* close, is destroyed only after ConnectDestroyed ran on its own loop, off the
\* poller, with no handler or half-finished close of it still under way on any
\* thread.
DiesTornDown ==
    \A c \in Conns \ (lost \cup late \cup revived) :
        Gone(c) =>
            /\ c \in torn
            /\ \A l \in SubLoops, f \in Fds : poller[l].map[f] # c
            /\ \A l \in Loops : work[l] # Idle => work[l].conn # c

\* The close callback runs at most once per connection, though an error event
\* calls HandleClose twice and the application may close it as well, from its
\* callbacks or from outside, as long as no call puts it on again.
ClosedOnce == \A c \in Conns \ revived : closeCalls[c] <= 1

\* m_fd_to_channel never holds a pointer to a destroyed Channel, and every
\* descriptor epoll can report has a channel there: what the two assertions of
\* EpollPoller::Poll rely on.
PollerConsistent ==
    fault = "none" =>
        \A l \in SubLoops, f \in Fds :
            /\ poller[l].map[f] # None =>
                   LET c == poller[l].map[f]
                   IN  c \notin freed /\ conn[c].chfd = f /\ conn[c].loop = l
            /\ f \in poller[l].epoll => poller[l].map[f] # None

\* A connection in service owns the descriptor it uses: no other connection's
\* Close, begun before the kernel gave the number out again, has closed it.
\* Only the destructor of one whose entry it took can.
OwnsDescriptor ==
    fault = "none" =>
        \A c \in Conns \ freed :
            conn[c].state \in {"Connecting", "Connected"} =>
                \/ kernel[conn[c].sockfd] = c
                \/ \E d \in lost \cap freed : conn[d].chfd = conn[c].sockfd

\* A close callback is followed through: until ConnectDestroyed has run, the
\* next step of the removal is in a queue or in the main loop's hands, even when
\* m_connections had no entry to erase any more.
RemovalUnderway ==
    fault = "none" =>
        \A c \in Conns : closeCalls[c] > 0 =>
            \/ c \in torn
            \/ work[MainLoop] = [at |-> "destroy", conn |-> c]
            \/ \E l \in Loops : \E i \in DOMAIN queue[l] :
                  queue[l][i].conn = c /\ queue[l][i].call \in {"Remove", "ConnectDestroyed"}

\* A call posted with a bare this finds its connection: the pointer its caller
\* held and, after that, the ConnectDestroyed still to come keep it alive, unless
\* the call itself came after ConnectDestroyed or the entry was lost.
PostedCallsSafe ==
    \A l \in SubLoops : \A i \in DOMAIN queue[l] :
        queue[l][i].call \in RawCalls /\ Gone(queue[l][i].conn) =>
            queue[l][i].conn \in lost \cup late

\* Everything that can end in the use of a destroyed TcpConnection, on any
\* thread, is one of three races: an entry lost to another connection, a call
\* from outside posted after ConnectDestroyed, or one that puts a closed
\* connection on again.
NoOtherUseAfterFree ==
    fault = "use after free" => lost \cup late \cup revived # {}

\* No handler, functor or half-finished close ever touches a TcpConnection
\* whose destructor has run, whichever thread dropped the last pointer.
NoUseAfterFree == fault # "use after free"
=============================================================================
