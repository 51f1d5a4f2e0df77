------------------------------ MODULE TcpClient ------------------------------
(***************************************************************************)
(* A TcpClient, the connections it makes one after the other, and the      *)
(* application that uses it, all on the thread of one loop: what matters   *)
(* is which callback is inside which, who still holds a TcpConnectionPtr,  *)
(* and which descriptor number a new connection gets.                      *)
(*                                                                         *)
(* m_connecting is TRUE only inside Connect(), so it is left out, and so   *)
(* is the branch of Connect() for a connection in progress: Socket::Connect *)
(* returns a bool, which never equals kConnectInProgress (-1).             *)
(***************************************************************************)
EXTENDS EpollPoller, Sequences

CONSTANTS
    MaxConns,   \* how many TcpConnections the client ever makes
    Fds,        \* the descriptor numbers the kernel hands out
    MaxFrames   \* how deep callbacks may nest

ASSUME TcpClientAssumption ==
    /\ MaxConns \in Nat /\ MaxFrames \in Nat \ {0}
    /\ None \notin 1 .. MaxConns
    /\ "invalid" \notin Fds

Conns == 1 .. MaxConns
Invalid == "invalid"       \* INVALID_SOCKET_VALUE
UseAfterFree == "use after free"

\* A TcpConnection: m_state, m_socket's fd, the Channel's fd and m_events,
\* whether m_output_buffer holds data, and what TCP knows of the socket.
Connection ==
    [state : {"Unborn", "Connected", "Disconnecting", "Disconnected", "Freed"},
     sockfd : Fds \cup {Invalid}, chfd : Fds \cup {Invalid},
     events : SUBSET {"read", "write"}, output : BOOLEAN,
     link : {"pending", "up", "gone"}]

Unborn == [state |-> "Unborn", sockfd |-> Invalid, chfd |-> Invalid, events |-> {},
           output |-> FALSE, link |-> "pending"]

\* The callbacks under way, innermost last: the connection callback, the
\* message or write-complete callback of a handler, and the close callback
\* called by HandleClose, by ForceClose, or by the ForceClose of ~TcpClient.
Frame == [at : {"connected", "message", "closed", "forced", "dying"}, conn : Conns]

VARIABLES
    client,   \* alive, m_started, m_auto_reconnect, m_connection
    net,      \* the connections, the loop's poller, and who has each number
    stack,    \* the callbacks under way
    kept,     \* the connections the application holds a TcpConnectionPtr of
    timers,   \* the DoReconnect timers of the loop that have not run
    fault,    \* "none" or UseAfterFree
    closes,   \* history: how often each connection's close callback ran
    clashed,  \* history: connections whose number another one's channel,
              \* still registered, had when they were established
    careless  \* history: whether the application let go of a connection or of
              \* the client while the loop might still call into it

vars == <<client, net, stack, kept, timers, fault, closes, clashed, careless>>

Init ==
    /\ client = [alive |-> TRUE, started |-> FALSE, auto |-> FALSE, connection |-> None]
    /\ net = [conn |-> [c \in Conns |-> Unborn], poller |-> NewPoller(Fds),
              kernel |-> [f \in Fds |-> None]]
    /\ stack = <<>>
    /\ kept = {}
    /\ timers = 0
    /\ fault = "none"
    /\ closes = [c \in Conns |-> 0]
    /\ clashed = {}
    /\ careless = FALSE

-----------------------------------------------------------------------------
(* What a TcpConnection does to the poller and to the kernel.              *)

State(c) == net.conn[c].state
Live(c) == State(c) \in {"Connected", "Disconnecting"}

\* c's channel gets the events ev.
Watch(n, c, ev) ==
    [n EXCEPT !.conn[c].events = ev,
              !.poller = UpdateChannel(@, n.conn[c].chfd, c, ev,
                                       n.kernel[n.conn[c].chfd] # None)]

\* Socket::Close.
CloseSocket(n, c) ==
    LET fd == n.conn[c].sockfd
    IN  IF fd = Invalid THEN n
        ELSE [n EXCEPT !.kernel[fd] = None, !.poller = Forgotten(@, fd),
                       !.conn[c].sockfd = Invalid]

BugNoClose(n, c) ==
    [IF n.conn[c].events = {} THEN n ELSE Watch(n, c, {}) EXCEPT !.conn[c].state = "Freed"]

\* ~TcpConnection: ~Channel takes itself off the poller if it has events left,
\* then ~Socket closes.
Destroyed(n, c) ==
    LET off == IF n.conn[c].events = {} THEN n ELSE Watch(n, c, {})
    IN  [CloseSocket(off, c) EXCEPT !.conn[c].state = "Freed"]

\* Whether somebody still holds a TcpConnectionPtr to c.
Held(c, connection, frames, pointers) ==
    \/ connection = c
    \/ c \in pointers
    \/ \E i \in DOMAIN frames : frames[i].conn = c

\* n, once c has lost a pointer.
LetGo(n, c, connection, frames, pointers) ==
    IF c = None \/ Held(c, connection, frames, pointers) \/ n.conn[c].state = "Freed"
    THEN n ELSE Destroyed(n, c)

Top == stack[Len(stack)]
Popped == SubSeq(stack, 1, Len(stack) - 1)
Push(at, c) == Append(stack, [at |-> at, conn |-> c])

\* The application runs: in a functor or a timer of its own, or inside the
\* innermost callback.  It does not use a client it is destroying.
AppRuns == fault = "none" /\ Len(stack) < MaxFrames
Usable == AppRuns /\ client.alive /\ \A i \in DOMAIN stack : stack[i].at # "dying"
LoopIdle == fault = "none" /\ stack = <<>>

-----------------------------------------------------------------------------
(* Connecting.                                                             *)

\* Socket::Connect on the non-blocking socket: whether connect() succeeded.
SocketConnect(outcome) == outcome = "done"

\* ret == 0 in Connect(), where ret is that bool.
TakenForConnected(outcome) == ~SocketConnect(outcome)

\* HandleConnect: a new TcpConnection in place of the old one, whose
\* destructor runs, then ConnectEstablished up to the connection callback.
Opened(n, c, f, outcome) ==
    [n EXCEPT !.kernel[f] = c,
              !.conn[c] = [Unborn EXCEPT !.state = "Connected", !.sockfd = f, !.chfd = f,
                                         !.link = IF outcome = "refused" THEN "gone"
                                                  ELSE "pending"]]

BugEstablishFirst(n, c, old) ==
    LetGo(Watch(n, c, {"read"}), old, c, stack, kept)
Established(n, c, old) ==
    Watch(LetGo(n, old, c, stack, kept), c, {"read"})

\* Another connection's channel, registered under number f of n.
Rivals(n, f) == {d \in Conns : n.conn[d].chfd = f /\ n.conn[d].events # {}}

HandleConnect(c, f, outcome) ==
    LET old == client.connection
        opened == Opened(net, c, f, outcome)
    IN  /\ net' = Established(opened, c, old)
        /\ client' = [client EXCEPT !.started = TRUE, !.connection = c]
        /\ stack' = Push("connected", c)
        /\ clashed' = IF Rivals(LetGo(opened, old, c, stack, kept), f) # {}
                      THEN clashed \cup {c} ELSE clashed

\* Connect(): nothing if it was called before; otherwise a socket and a
\* non-blocking connect().  A connect() that succeeded at once is taken for a
\* failure: the socket is closed again and m_started is FALSE.
AlreadyStarted == client.started

ConnectCalled(c, f, outcome) ==
    IF AlreadyStarted \/ ~TakenForConnected(outcome)
    THEN UNCHANGED <<net, client, stack, clashed>>
    ELSE HandleConnect(c, f, outcome)

\* The next TcpConnection, and a number the kernel may give its socket.
FreshSocket(c, f) ==
    /\ State(c) = "Unborn" /\ \A d \in 1 .. c - 1 : State(d) # "Unborn"
    /\ net.kernel[f] = None

Connect(c, f, outcome) ==
    /\ Usable /\ FreshSocket(c, f)
    /\ ConnectCalled(c, f, outcome)
    /\ UNCHANGED <<kept, timers, fault, closes, careless>>

-----------------------------------------------------------------------------
(* The close callback: HandleRemoveConnection up to m_close_callback, with *)
(* n the connections as the caller left them.                              *)

HandleRemove(n, c, at) ==
    /\ client' = [client EXCEPT !.connection = None]
    /\ stack' = Push(at, c)
    /\ closes' = [closes EXCEPT ![c] = @ + 1]
    /\ net' = LetGo(n, client.connection, None, Push(at, c), kept)

\* Its end, when m_close_callback has returned.
Reconnecting == client.auto /\ client.started
RemoveDone ==
    /\ timers' = IF Reconnecting THEN timers + 1 ELSE timers
    /\ client' = [client EXCEPT !.started = Reconnecting]

\* TcpConnection::ForceClose and ForceCloseInLoop, on the loop's thread.
Off(n, c) == CloseSocket(Watch([n EXCEPT !.conn[c].state = "Disconnected"], c, {}), c)
ForcedClose(c, at) == HandleRemove(Off(net, c), c, at)

-----------------------------------------------------------------------------
(* What the application calls, on the client or on a connection it holds.  *)

Reachable ==
    kept \cup (Conns \cap {client.connection}) \cup {stack[i].conn : i \in DOMAIN stack}

Send(c) ==
    /\ AppRuns /\ c \in Reachable /\ State(c) = "Connected"
    /\ net' = [Watch(net, c, net.conn[c].events \cup {"write"}) EXCEPT !.conn[c].output = TRUE]
    /\ UNCHANGED <<client, stack, kept, timers, fault, closes, clashed, careless>>

\* TcpConnection::Shutdown and ShutdownInLoop: with nothing left to send the
\* socket is closed, and the channel stays registered.
ShutDown(c) ==
    IF State(c) # "Connected" THEN net
    ELSE IF net.conn[c].output
    THEN Watch([net EXCEPT !.conn[c].state = "Disconnecting"], c,
               net.conn[c].events \cup {"write"})
    ELSE [CloseSocket(net, c) EXCEPT !.conn[c].state = "Disconnected"]

Shutdown(c) ==
    /\ AppRuns /\ c \in Reachable
    /\ net' = ShutDown(c)
    /\ UNCHANGED <<client, stack, kept, timers, fault, closes, clashed, careless>>

Disconnect ==
    /\ Usable
    /\ client' = [client EXCEPT !.auto = FALSE, !.started = FALSE]
    /\ net' = IF client.connection = None THEN net ELSE ShutDown(client.connection)
    /\ UNCHANGED <<stack, kept, timers, fault, closes, clashed, careless>>

\* The call is made through a TcpConnectionPtr that lasts as long as it.
ForceClose(c) ==
    /\ AppRuns /\ c \in Reachable /\ Live(c)
    /\ IF client.alive
       THEN ForcedClose(c, "forced") /\ UNCHANGED fault
       ELSE fault' = UseAfterFree /\ UNCHANGED <<client, net, stack, closes>>
    /\ UNCHANGED <<kept, timers, clashed, careless>>

SetAutoReconnect(enable) ==
    /\ Usable
    /\ client' = [client EXCEPT !.auto = enable]
    /\ UNCHANGED <<net, stack, kept, timers, fault, closes, clashed, careless>>

\* GetConnection(), and the pointer stored.
Keep ==
    /\ Usable /\ client.connection # None
    /\ kept' = kept \cup {client.connection}
    /\ UNCHANGED <<client, net, stack, timers, fault, closes, clashed, careless>>

Drop(c) ==
    /\ AppRuns /\ c \in kept
    /\ kept' = kept \ {c}
    /\ net' = LetGo(net, c, client.connection, stack, kept \ {c})
    /\ careless' = (careless \/ stack # <<>> \/ State(c) # "Disconnected")
    /\ UNCHANGED <<client, stack, timers, fault, closes, clashed>>

\* What ~TcpClient's ForceClose closes at once.
BugOnlyConnected(c) == c # None /\ State(c) = "Connected"
MustForceClose(c) == c # None /\ Live(c)

\* ~TcpClient, from the loop: ForceClose on what is open, else the members go
\* at once.
DestroyClient ==
    /\ LoopIdle /\ client.alive
    /\ LET c == client.connection
       IN  IF MustForceClose(c)
           THEN ForcedClose(c, "dying")
           ELSE /\ client' = [client EXCEPT !.alive = FALSE, !.connection = None]
                /\ net' = LetGo(net, c, None, stack, kept)
                /\ UNCHANGED <<stack, closes>>
    /\ careless' = (careless \/ timers > 0 \/ client.auto
                             \/ \E d \in Conns : d # client.connection /\ Live(d))
    /\ UNCHANGED <<kept, timers, fault, clashed>>

-----------------------------------------------------------------------------
(* A callback returns.                                                     *)

Returns(at) == fault = "none" /\ stack # <<>> /\ Top.at = at
GoneAfter(c) == ~Held(c, client.connection, Popped, kept)

\* From the connection callback: HandleConnect's own pointer goes.
ConnectedReturns ==
    /\ Returns("connected")
    /\ stack' = Popped
    /\ net' = LetGo(net, Top.conn, client.connection, Popped, kept)
    /\ careless' = (careless \/ Top.conn \notin kept)
    /\ UNCHANGED <<client, kept, timers, fault, closes, clashed>>

\* From a handler's callback: HandleEvent goes on with the channel, which is
\* gone if the connection's last pointer was the callback's.
MessageReturns ==
    /\ Returns("message")
    /\ stack' = Popped
    /\ net' = LetGo(net, Top.conn, client.connection, Popped, kept)
    /\ fault' = IF GoneAfter(Top.conn) THEN UseAfterFree ELSE "none"
    /\ UNCHANGED <<client, kept, timers, closes, clashed, careless>>

\* From the close callback of HandleClose: m_socket.Close(), if there is still
\* a connection.
ClosedReturns ==
    /\ Returns("closed")
    /\ RemoveDone
    /\ stack' = Popped
    /\ net' = IF GoneAfter(Top.conn) THEN Destroyed(net, Top.conn)
              ELSE CloseSocket(net, Top.conn)
    /\ fault' = IF GoneAfter(Top.conn) THEN UseAfterFree ELSE "none"
    /\ UNCHANGED <<kept, closes, clashed, careless>>

\* From the close callback of ForceCloseInLoop.
ForcedReturns ==
    /\ Returns("forced")
    /\ RemoveDone
    /\ stack' = Popped
    /\ net' = LetGo(net, Top.conn, client.connection, Popped, kept)
    /\ UNCHANGED <<kept, fault, closes, clashed, careless>>

\* From the same, called by ~TcpClient, which holds no pointer of its own.
DyingReturns ==
    /\ Returns("dying")
    /\ timers' = IF Reconnecting THEN timers + 1 ELSE timers
    /\ client' = [client EXCEPT !.alive = FALSE, !.started = Reconnecting]
    /\ stack' = Popped
    /\ net' = LetGo(net, Top.conn, None, Popped, kept)
    /\ fault' = IF GoneAfter(Top.conn) THEN UseAfterFree ELSE "none"
    /\ UNCHANGED <<kept, closes, clashed, careless>>

-----------------------------------------------------------------------------
(* The loop: events of the connections, timers, and the network.           *)

Ready(c) == LoopIdle /\ \E f \in net.poller.epoll : net.poller.map[f] = c

\* HandleRead with data, and HandleWrite that empties m_output_buffer.  A
\* HandleWrite that finds the state not Connected changes nothing.
HandleRead(c) ==
    /\ Ready(c) /\ net.conn[c].link = "up"
    /\ stack' = Push("message", c)
    /\ UNCHANGED <<client, net, kept, timers, fault, closes, clashed, careless>>

HandleWrite(c) ==
    /\ Ready(c) /\ net.conn[c].link = "up" /\ State(c) = "Connected"
    /\ net.conn[c].output
    /\ net' = [Watch(net, c, net.conn[c].events \ {"write"}) EXCEPT !.conn[c].output = FALSE]
    /\ stack' = Push("message", c)
    /\ UNCHANGED <<client, kept, timers, fault, closes, clashed, careless>>

\* HandleClose, for the end of the stream or an error: the close callback is
\* a member of the client.
MustClose(c) == State(c) # "Disconnected"

HandleClose(c) ==
    /\ Ready(c) /\ net.conn[c].link = "gone"
    /\ MustClose(c)
    /\ IF client.alive
       THEN /\ HandleRemove(Watch([net EXCEPT !.conn[c].state = "Disconnected"], c, {}),
                            c, "closed")
            /\ UNCHANGED fault
       ELSE fault' = UseAfterFree /\ UNCHANGED <<client, net, stack, closes>>
    /\ UNCHANGED <<kept, timers, clashed, careless>>

\* IsConnected() and the test of DoReconnect, run by its timer.
IsConnected == client.connection # None /\ State(client.connection) = "Connected"

DoReconnect(c, f, outcome) ==
    /\ LoopIdle /\ timers > 0 /\ FreshSocket(c, f)
    /\ timers' = timers - 1
    /\ fault' = IF client.alive THEN "none" ELSE UseAfterFree
    /\ IF client.alive /\ client.started /\ ~IsConnected
       THEN ConnectCalled(c, f, outcome)
       ELSE UNCHANGED <<net, client, stack, clashed>>
    /\ UNCHANGED <<kept, closes, careless>>

LinkChanges(c, from, to) ==
    /\ fault = "none" /\ State(c) \notin {"Unborn", "Freed"}
    /\ net.conn[c].link = from
    /\ net' = [net EXCEPT !.conn[c].link = to]
    /\ UNCHANGED <<client, stack, kept, timers, fault, closes, clashed, careless>>

-----------------------------------------------------------------------------
Outcomes == {"done", "pending", "refused"}

Return == ConnectedReturns \/ MessageReturns \/ ClosedReturns \/ ForcedReturns \/ DyingReturns

Reconnect == \E c \in Conns, f \in Fds, outcome \in Outcomes : DoReconnect(c, f, outcome)

App ==
    \/ \E c \in Conns, f \in Fds, outcome \in Outcomes : Connect(c, f, outcome)
    \/ \E c \in Conns : Send(c) \/ Shutdown(c) \/ ForceClose(c) \/ Drop(c)
    \/ \E enable \in BOOLEAN : SetAutoReconnect(enable)
    \/ Disconnect \/ Keep \/ DestroyClient

Next ==
    \/ App
    \/ Return
    \/ Reconnect
    \/ \E c \in Conns : HandleRead(c) \/ HandleWrite(c) \/ HandleClose(c)
    \/ \E c \in Conns : LinkChanges(c, "pending", "up") \/ LinkChanges(c, "pending", "gone")
                           \/ LinkChanges(c, "up", "gone")

\* Callbacks return, and a loop whose every iteration polls and runs what has
\* expired gets to a connection that is gone and to a timer.
Fairness ==
    /\ WF_vars(Return)
    /\ SF_vars(Reconnect)
    /\ \A c \in Conns : SF_vars(HandleClose(c))

Spec == Init /\ [][Next]_vars /\ Fairness

-----------------------------------------------------------------------------
(* Properties.                                                             *)

TypeOK ==
    /\ client \in [alive : BOOLEAN, started : BOOLEAN, auto : BOOLEAN,
                   connection : Conns \cup {None}]
    /\ net \in [conn : [Conns -> Connection],
                poller : [map : [Fds -> Conns \cup {None}], epoll : SUBSET Fds],
                kernel : [Fds -> Conns \cup {None}]]
    /\ stack \in Seq(Frame) /\ Len(stack) <= MaxFrames
    /\ kept \subseteq Conns /\ clashed \subseteq Conns
    /\ timers \in Nat
    /\ fault \in {"none", UseAfterFree}
    /\ closes \in [Conns -> Nat]
    /\ careless \in BOOLEAN

\* A client that is connected is served by its loop: although Disconnect leaves
\* the old channel in the poller and the next socket gets the same number, the
\* new connection is the one registered there, its own socket is the one that
\* is watched, and no channel in the poller is a destroyed one.  (An old
\* connection the application keeps is the exception.)
Served ==
    fault = "none" =>
        /\ \A c \in Conns \ clashed :
              client.connection = c /\ State(c) = "Connected" =>
                  LET fd == net.conn[c].sockfd
                  IN  /\ net.kernel[fd] = c
                      /\ net.poller.map[fd] = c /\ fd \in net.poller.epoll
        /\ \A f \in Fds : net.poller.map[f] # None => State(net.poller.map[f]) # "Freed"

\* Every number the kernel has given out is in the hands of a connection that
\* will close it, through all the ways a connection ends.
NoLeak ==
    \A f \in Fds : net.kernel[f] # None =>
        LET c == net.kernel[f]
        IN  net.conn[c].sockfd = f /\ State(c) \notin {"Unborn", "Freed"}

\* An application that keeps every connection from its connection callback
\* until it is Disconnected and no callback is running, and destroys the client
\* with no reconnection pending, meets no use after free, whatever it calls
\* from within the callbacks and whatever the peers do.
CarefulIsSafe == fault # "none" => careless

\* Connect() reports a connection that has failed, or is not there yet, as
\* established.  A failure reaches the application all the same, through the
\* close callback, unless it let the connection go itself.
FailureReported ==
    \A c \in Conns :
        (State(c) = "Connected" /\ net.conn[c].link = "gone") ~>
            (closes[c] > 0 \/ State(c) # "Connected" \/ c \in clashed \/ fault # "none")

\* With automatic reconnection on, a client that lost its connection and has a
\* reconnection scheduled gets a connection again, unless the application
\* turned it off, or destroyed the client (or the bound on connections is met).
Reconnects ==
    (client.alive /\ Reconnecting /\ timers > 0 /\ client.connection = None) ~>
        \/ client.connection # None
        \/ ~client.alive \/ ~Reconnecting \/ fault # "none"
        \/ \A c \in Conns : State(c) # "Unborn"
=============================================================================
