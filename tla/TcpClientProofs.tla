-------------------------- MODULE TcpClientProofs --------------------------
(***************************************************************************)
(* Theorems about TcpClient, for any number of connections, descriptors    *)
(* and nested callbacks.                                                   *)
(***************************************************************************)
EXTENDS TcpClient, SequenceTheorems, TLAPS

USE TcpClientAssumption

-----------------------------------------------------------------------------
(* The invariant: what holds of the connections, the poller and the        *)
(* kernel, as predicates of a record n like the variable net.              *)

Nets ==
    [conn : [Conns -> Connection],
     poller : [map : [Fds -> Conns \cup {None}], epoll : SUBSET Fds],
     kernel : [Fds -> Conns \cup {None}]]

Open(n, c) == n.conn[c].state \in {"Connected", "Disconnecting"}

\* A connection's socket has the number of its channel, until it is closed; an
\* open connection has not closed it; what is no longer open wants no events or
\* has.
Numbered(n, c) ==
    /\ n.conn[c].sockfd \in {Invalid, n.conn[c].chfd}
    /\ n.conn[c].state = "Unborn" => n.conn[c].chfd = Invalid /\ n.conn[c].events = {}
    /\ n.conn[c].state # "Unborn" => n.conn[c].chfd \in Fds
    /\ Open(n, c) => n.conn[c].sockfd = n.conn[c].chfd
    /\ n.conn[c].state = "Disconnected" => n.conn[c].events = {} \/ n.conn[c].sockfd = Invalid
    /\ n.conn[c].state = "Freed" => n.conn[c].events = {} /\ n.conn[c].sockfd = Invalid

\* The kernel and the connections agree on who has a number, and the poller
\* names channels that want events, by their own number; what epoll watches is
\* the socket of the channel named there.
Agreed(n, f) ==
    /\ \A c \in Conns : n.kernel[f] = c <=> n.conn[c].sockfd = f
    /\ n.poller.map[f] # None =>
          n.conn[n.poller.map[f]].chfd = f /\ n.conn[n.poller.map[f]].events # {}
    /\ f \in n.poller.epoll => n.poller.map[f] # None /\ n.poller.map[f] = n.kernel[f]

\* The loop serves c, and no other channel wants events of its number.
ServedAlone(n, c) ==
    /\ "read" \in n.conn[c].events
    /\ n.poller.map[n.conn[c].chfd] = c
    /\ n.conn[c].chfd \in n.poller.epoll
    /\ \A d \in Conns \ {c} : n.conn[d].chfd = n.conn[c].chfd => n.conn[d].events = {}

\* All of it, where the connections of cl need not be served.
Sound(n, cl) ==
    /\ n \in Nets
    /\ \A c \in Conns : Numbered(n, c)
    /\ \A f \in Fds : Agreed(n, f)
    /\ \A c \in Conns \ cl : Open(n, c) => ServedAlone(n, c)

\* The callbacks under way, in any order.
Frames(s) == {s[i] : i \in DOMAIN s}

\* What somebody holds a pointer to is there.
Standing ==
    \A c \in Conns : Held(c, client.connection, stack, kept) =>
        State(c) \notin {"Unborn", "Freed"}

\* In its close callback a connection has ended.
Closing ==
    \A fr \in Frames(stack) :
        fr.at \in {"closed", "forced", "dying"} => State(fr.conn) = "Disconnected"

\* A client on its way out has no connection.
ClientGoing == ~client.alive \/ \E fr \in Frames(stack) : fr.at = "dying"
Leaving == ClientGoing => client.connection = None

\* A careful application keeps what is open, from the connection callback on,
\* and what a handler is busy with; when its client goes, nothing is open and
\* no reconnection is pending.
Careful ==
    ~careless =>
        /\ \A c \in Conns : Live(c) =>
              c \in kept \/ [at |-> "connected", conn |-> c] \in Frames(stack)
        /\ \A fr \in Frames(stack) : fr.at \in {"message", "closed", "dying"} => fr.conn \in kept
        /\ ClientGoing => timers = 0 /\ ~client.auto /\ \A c \in Conns : ~Live(c)

\* TypeOK, the part about fault left out.
Typed ==
    /\ client \in [alive : BOOLEAN, started : BOOLEAN, auto : BOOLEAN,
                   connection : Conns \cup {None}]
    /\ stack \in Seq(Frame) /\ Len(stack) <= MaxFrames
    /\ kept \subseteq Conns /\ clashed \subseteq Conns
    /\ timers \in Nat
    /\ closes \in [Conns -> Nat]
    /\ careless \in BOOLEAN

IInv ==
    /\ Typed /\ fault \in {"none", UseAfterFree}
    /\ Sound(net, clashed)
    /\ Standing /\ Closing /\ Leaving /\ Careful /\ CarefulIsSafe

-----------------------------------------------------------------------------
(* What may be done to one connection.                                     *)

\* m is n after a step of connection c: its number stays, its state does not go
\* back to open, its socket may be closed; the poller changes at its number
\* only, and not at all for a connection that has no events and no socket.
Touches(m, n, c) ==
    LET fd == n.conn[c].chfd
    IN  /\ m \in Nets
        /\ \A d \in Conns \ {c} : m.conn[d] = n.conn[d]
        /\ n.conn[c].state # "Unborn" /\ m.conn[c].state # "Unborn"
        /\ m.conn[c].chfd = fd
        /\ Open(m, c) => Open(n, c) /\ m.conn[c].sockfd = n.conn[c].sockfd
        /\ \/ m.kernel = n.kernel /\ m.conn[c].sockfd = n.conn[c].sockfd
           \/ /\ n.conn[c].sockfd # Invalid /\ m.conn[c].sockfd = Invalid
              /\ m.kernel = [n.kernel EXCEPT ![n.conn[c].sockfd] = None]
        /\ \A f \in Fds \ {fd} :
              /\ m.poller.map[f] = n.poller.map[f]
              /\ f \in m.poller.epoll <=> f \in n.poller.epoll
        /\ \/ m.poller.map[fd] \in {n.poller.map[fd], None}
           \/ m.poller.map[fd] = c
        /\ m.poller.map[fd] = c => m.conn[c].events # {}
        /\ fd \in m.poller.epoll =>
              \/ /\ fd \in n.poller.epoll /\ m.poller.map[fd] = n.poller.map[fd]
                 /\ m.kernel[fd] = n.kernel[fd]
              \/ m.poller.map[fd] = c /\ m.kernel[fd] = c
        /\ n.conn[c].events = {} /\ n.conn[c].sockfd = Invalid =>
              m.poller = n.poller /\ m.conn[c].events = {}
        /\ Open(m, c) /\ "read" \in n.conn[c].events
               /\ n.poller.map[fd] = c /\ fd \in n.poller.epoll =>
              /\ "read" \in m.conn[c].events
              /\ m.poller.map[fd] = c /\ fd \in m.poller.epoll
        /\ m.conn[c].state = "Disconnected" =>
              m.conn[c].events = {} \/ m.conn[c].sockfd = Invalid
        /\ m.conn[c].state = "Freed" => m.conn[c].events = {} /\ m.conn[c].sockfd = Invalid

LEMMA TouchesKeeps ==
    ASSUME NEW n, NEW cl, NEW c \in Conns, NEW m, Sound(n, cl), Touches(m, n, c)
    PROVE  Sound(m, cl)
<1>a. PICK fd : fd = n.conn[c].chfd
  OBVIOUS
<1>0. /\ n \in Nets /\ m \in Nets /\ c # None /\ Invalid \notin Fds
      /\ Numbered(n, c) /\ n.conn[c].state # "Unborn" /\ fd \in Fds
      /\ n.conn[c].chfd = fd /\ m.conn[c].chfd = fd
  BY <1>a DEF Sound, Numbered, Touches, Conns, Invalid
<1>1. \A d \in Conns \ {c} : m.conn[d] = n.conn[d]
  BY DEF Touches
<1>2. ASSUME NEW d \in Conns PROVE Numbered(m, d)
  <2>1. Numbered(n, d)
    BY DEF Sound
  <2>2. CASE d # c
    BY <1>1, <2>1, <2>2 DEF Numbered, Open
  <2>3. CASE d = c
    <3>1. m.conn[c].sockfd \in {Invalid, m.conn[c].chfd}
      BY <1>0 DEF Touches, Numbered
    <3>2. m.conn[c].state # "Unborn" /\ m.conn[c].chfd \in Fds
      BY <1>0 DEF Touches
    <3>3. Open(m, c) => m.conn[c].sockfd = m.conn[c].chfd
      BY <1>0 DEF Touches, Numbered
    <3>4. /\ m.conn[c].state = "Disconnected" =>
                m.conn[c].events = {} \/ m.conn[c].sockfd = Invalid
          /\ m.conn[c].state = "Freed" => m.conn[c].events = {} /\ m.conn[c].sockfd = Invalid
      BY DEF Touches
    <3> QED BY <2>3, <3>1, <3>2, <3>3, <3>4 DEF Numbered
  <2> QED BY <2>2, <2>3
<1>3. ASSUME NEW f \in Fds PROVE Agreed(m, f)
  <2>0. Agreed(n, f)
    BY DEF Sound
  <2>1. ASSUME NEW d \in Conns PROVE m.kernel[f] = d <=> m.conn[d].sockfd = f
    <3>1. n.kernel[f] = d <=> n.conn[d].sockfd = f
      BY <2>0 DEF Agreed
    <3>2. CASE m.kernel = n.kernel /\ m.conn[c].sockfd = n.conn[c].sockfd
      BY <1>1, <3>1, <3>2
    <3>3. CASE /\ n.conn[c].sockfd # Invalid /\ m.conn[c].sockfd = Invalid
               /\ m.kernel = [n.kernel EXCEPT ![n.conn[c].sockfd] = None]
      <4>1. d # None
        BY DEF Conns
      <4>2. n.kernel \in [Fds -> Conns \cup {None}]
        BY <1>0 DEF Nets
      <4>3. CASE f = n.conn[c].sockfd
        <5>1. m.kernel[f] = None /\ n.kernel[f] = c
          BY <2>0, <3>3, <4>2, <4>3 DEF Agreed
        <5> QED BY <1>0, <1>1, <3>1, <3>3, <4>1, <5>1
      <4>4. CASE f # n.conn[c].sockfd
        <5>1. m.kernel[f] = n.kernel[f]
          BY <3>3, <4>2, <4>4
        <5> QED BY <1>0, <1>1, <3>1, <3>3, <4>4, <5>1
      <4> QED BY <4>3, <4>4
    <3> QED BY <3>2, <3>3 DEF Touches
  <2>2. CASE f # fd
    <3>1. /\ m.poller.map[f] = n.poller.map[f]
          /\ f \in m.poller.epoll <=> f \in n.poller.epoll
      BY <1>a, <2>2 DEF Touches
    <3>2. n.poller.map[f] # None => n.poller.map[f] \in Conns \ {c}
      <4>1. n.poller.map[f] \in Conns \cup {None}
        BY <1>0 DEF Nets
      <4> QED BY <1>a, <2>0, <2>2, <4>1 DEF Agreed
    <3>3. m.poller.map[f] # None =>
            m.conn[m.poller.map[f]].chfd = f /\ m.conn[m.poller.map[f]].events # {}
      BY <1>1, <2>0, <3>1, <3>2 DEF Agreed
    <3>4. f \in m.poller.epoll => m.poller.map[f] # None /\ m.poller.map[f] = m.kernel[f]
      <4>1. n.conn[c].sockfd # f
        BY <1>0, <2>2 DEF Numbered
      <4>2. n.kernel \in [Fds -> Conns \cup {None}]
        BY <1>0 DEF Nets
      <4>3. m.kernel[f] = n.kernel[f]
        BY <4>1, <4>2 DEF Touches
      <4> QED BY <2>0, <3>1, <4>3 DEF Agreed
    <3> QED BY <2>1, <3>3, <3>4 DEF Agreed
  <2>3. CASE f = fd
    <3>1. m.poller.map[f] # None =>
            m.conn[m.poller.map[f]].chfd = f /\ m.conn[m.poller.map[f]].events # {}
      <4>1. CASE m.poller.map[f] = c
        BY <1>0, <2>3, <4>1 DEF Touches
      <4>2. CASE m.poller.map[f] # c /\ m.poller.map[f] # None
        <5>1. m.poller.map[f] = n.poller.map[f]
          BY <2>3, <4>2 DEF Touches
        <5>2. m.poller.map[f] \in Conns \ {c}
          BY <1>0, <4>2 DEF Nets
        <5> QED BY <1>1, <2>0, <4>2, <5>1, <5>2 DEF Agreed
      <4> QED BY <4>1, <4>2
    <3>2. f \in m.poller.epoll => m.poller.map[f] # None /\ m.poller.map[f] = m.kernel[f]
      BY <1>0, <2>0, <2>3 DEF Touches, Agreed
    <3> QED BY <2>1, <3>1, <3>2 DEF Agreed
  <2> QED BY <2>2, <2>3
<1>4. ASSUME NEW d \in Conns \ cl, Open(m, d) PROVE ServedAlone(m, d)
  <2>1. CASE d = c
    <3>1. Open(n, c)
      BY <1>4, <2>1 DEF Touches
    <3>2. ServedAlone(n, c)
      BY <2>1, <3>1 DEF Sound
    <3>3. /\ "read" \in m.conn[c].events
          /\ m.poller.map[fd] = c /\ fd \in m.poller.epoll
      BY <1>a, <1>4, <2>1, <3>2 DEF Touches, ServedAlone
    <3> QED BY <1>0, <1>1, <2>1, <3>2, <3>3 DEF ServedAlone
  <2>2. CASE d # c
    <3>1. m.conn[d] = n.conn[d]
      BY <1>1, <2>2
    <3>2. Open(n, d) /\ ServedAlone(n, d) /\ Numbered(n, d)
      BY <1>4, <3>1 DEF Sound, Open
    <3>3. CASE n.conn[d].chfd # fd
      <4>1. n.conn[d].chfd \in Fds
        BY <3>2 DEF Numbered, Open
      <4>2. /\ m.poller.map[n.conn[d].chfd] = n.poller.map[n.conn[d].chfd]
            /\ n.conn[d].chfd \in m.poller.epoll <=> n.conn[d].chfd \in n.poller.epoll
        BY <1>a, <3>3, <4>1 DEF Touches
      <4> QED BY <1>0, <1>1, <3>1, <3>2, <3>3, <4>2 DEF ServedAlone
    <3>4. CASE n.conn[d].chfd = fd
      <4>1. n.kernel[fd] = d
        BY <1>0, <3>2, <3>4 DEF Numbered, Sound, Agreed
      <4>2. n.conn[c].sockfd = Invalid
        BY <1>0, <2>2, <4>1 DEF Numbered, Sound, Agreed
      <4>3. n.conn[c].events = {}
        BY <1>a, <2>2, <3>2, <3>4 DEF ServedAlone
      <4>4. m.poller = n.poller /\ m.conn[c].events = {}
        BY <4>2, <4>3 DEF Touches
      <4> QED BY <1>1, <3>1, <3>2, <4>4 DEF ServedAlone
    <3> QED BY <3>3, <3>4
  <2> QED BY <2>1, <2>2
<1> QED BY <1>0, <1>2, <1>3, <1>4 DEF Sound

-----------------------------------------------------------------------------
(* The operators the actions are built from.                               *)

LEMMA WatchIs ==
    ASSUME NEW n \in Nets, NEW c \in Conns, NEW fd \in Fds, n.conn[c].chfd = fd,
           NEW ev \in SUBSET {"read", "write"}, NEW m, m = Watch(n, c, ev)
    PROVE  /\ m \in Nets /\ m.kernel = n.kernel
           /\ \A d \in Conns \ {c} : m.conn[d] = n.conn[d]
           /\ m.conn[c] = [n.conn[c] EXCEPT !.events = ev]
           /\ \A f \in Fds \ {fd} :
                 /\ m.poller.map[f] = n.poller.map[f]
                 /\ f \in m.poller.epoll <=> f \in n.poller.epoll
           /\ ev = {} => m.poller.map[fd] = None /\ fd \notin m.poller.epoll
           /\ ev # {} /\ n.poller.map[fd] # None => m.poller = n.poller
           /\ ev # {} /\ n.poller.map[fd] = None =>
                 /\ m.poller.map[fd] = c
                 /\ fd \in m.poller.epoll <=> fd \in n.poller.epoll \/ n.kernel[fd] # None
<1> DEFINE p == n.poller
           q == UpdateChannel(p, fd, c, ev, n.kernel[fd] # None)
<1>1. /\ m.conn = [n.conn EXCEPT ![c] = [n.conn[c] EXCEPT !.events = ev]]
      /\ m.poller = q /\ m.kernel = n.kernel
      /\ m = [conn |-> m.conn, poller |-> m.poller, kernel |-> m.kernel]
  BY DEF Watch, Nets
<1>2. p \in [map : [Fds -> Conns \cup {None}], epoll : SUBSET Fds]
  BY DEF Nets
<1>3. /\ q \in [map : [Fds -> Conns \cup {None}], epoll : SUBSET Fds]
      /\ \A f \in Fds \ {fd} : q.map[f] = p.map[f] /\ (f \in q.epoll <=> f \in p.epoll)
      /\ ev = {} => q.map[fd] = None /\ fd \notin q.epoll
      /\ ev # {} /\ p.map[fd] # None => q = p
      /\ ev # {} /\ p.map[fd] = None =>
            q.map[fd] = c /\ (fd \in q.epoll <=> fd \in p.epoll \/ n.kernel[fd] # None)
  <2> HIDE DEF p
  <2>1. CASE ev = {}
    BY <1>2, <2>1 DEF UpdateChannel, RemoveChannel
  <2>2. CASE ev # {} /\ p.map[fd] # None
    BY <1>2, <2>2 DEF UpdateChannel
  <2>3. CASE ev # {} /\ p.map[fd] = None
    BY <1>2, <2>3 DEF UpdateChannel
  <2> QED BY <2>1, <2>2, <2>3
<1> HIDE DEF q
<1>4. n.conn \in [Conns -> Connection] /\ n.kernel \in [Fds -> Conns \cup {None}]
  BY DEF Nets
<1>5. [n.conn[c] EXCEPT !.events = ev] \in Connection
  BY <1>4 DEF Connection
<1>6. m.conn \in [Conns -> Connection]
  BY <1>1, <1>4, <1>5
<1>7. m \in Nets
  BY <1>1, <1>3, <1>4, <1>6 DEF Nets
<1>8. /\ \A d \in Conns \ {c} : m.conn[d] = n.conn[d]
      /\ m.conn[c] = [n.conn[c] EXCEPT !.events = ev]
  BY <1>1, <1>4
<1> QED BY <1>1, <1>3, <1>7, <1>8

LEMMA UnwatchIs ==
    ASSUME NEW n \in Nets, NEW c \in Conns, NEW fd \in Fds, n.conn[c].chfd = fd,
           NEW m, m = Watch(n, c, {})
    PROVE  /\ m \in Nets /\ m.kernel = n.kernel
           /\ \A d \in Conns \ {c} : m.conn[d] = n.conn[d]
           /\ m.conn[c] = [n.conn[c] EXCEPT !.events = {}]
           /\ \A f \in Fds \ {fd} :
                 /\ m.poller.map[f] = n.poller.map[f]
                 /\ f \in m.poller.epoll <=> f \in n.poller.epoll
           /\ m.poller.map[fd] = None /\ fd \notin m.poller.epoll
<1>1. PICK ev \in SUBSET {"read", "write"} : ev = {}
  OBVIOUS
<1>2. m = Watch(n, c, ev)
  BY <1>1
<1>3. /\ m \in Nets /\ m.kernel = n.kernel
      /\ \A d \in Conns \ {c} : m.conn[d] = n.conn[d]
      /\ m.conn[c] = [n.conn[c] EXCEPT !.events = ev]
      /\ \A f \in Fds \ {fd} :
            /\ m.poller.map[f] = n.poller.map[f]
            /\ f \in m.poller.epoll <=> f \in n.poller.epoll
      /\ ev = {} => m.poller.map[fd] = None /\ fd \notin m.poller.epoll
  BY <1>2, WatchIs
<1> QED BY <1>1, <1>3

LEMMA CloseConn ==
    ASSUME NEW n \in Nets, NEW c \in Conns, NEW m, m = CloseSocket(n, c)
    PROVE  /\ m \in Nets
           /\ \A d \in Conns \ {c} : m.conn[d] = n.conn[d]
           /\ m.conn[c] = [n.conn[c] EXCEPT !.sockfd = Invalid]
<1> DEFINE fd == n.conn[c].sockfd
<1>1. /\ n.conn \in [Conns -> Connection] /\ n.kernel \in [Fds -> Conns \cup {None}]
      /\ n.poller \in [map : [Fds -> Conns \cup {None}], epoll : SUBSET Fds]
      /\ n.conn[c] \in Connection /\ fd \in Fds \cup {Invalid}
  BY DEF Nets, Connection
<1>2. CASE fd = Invalid
  <2>1. m = n
    BY <1>2 DEF CloseSocket
  <2>2. n.conn[c] = [n.conn[c] EXCEPT !.sockfd = Invalid]
    BY <1>1, <1>2 DEF Connection
  <2> QED BY <2>1, <2>2
<1>3. CASE fd # Invalid
  <2>1. /\ m.conn = [n.conn EXCEPT ![c] = [n.conn[c] EXCEPT !.sockfd = Invalid]]
        /\ m.poller = Forgotten(n.poller, fd) /\ m.kernel = [n.kernel EXCEPT ![fd] = None]
        /\ m = [conn |-> m.conn, poller |-> m.poller, kernel |-> m.kernel]
    BY <1>3 DEF CloseSocket, Nets
  <2> HIDE DEF fd
  <2>2. m.poller \in [map : [Fds -> Conns \cup {None}], epoll : SUBSET Fds]
    BY <1>1, <2>1 DEF Forgotten
  <2>3. [n.conn[c] EXCEPT !.sockfd = Invalid] \in Connection
    BY <1>1 DEF Connection
  <2>4. m.kernel \in [Fds -> Conns \cup {None}]
    BY <1>1, <2>1
  <2>5. /\ m.conn \in [Conns -> Connection]
        /\ \A d \in Conns \ {c} : m.conn[d] = n.conn[d]
        /\ m.conn[c] = [n.conn[c] EXCEPT !.sockfd = Invalid]
    BY <1>1, <2>1, <2>3
  <2>6. m \in Nets
    BY <2>1, <2>2, <2>4, <2>5 DEF Nets
  <2> QED BY <2>5, <2>6
<1> QED BY <1>2, <1>3

LEMMA CloseIs ==
    ASSUME NEW n \in Nets, NEW c \in Conns, NEW m, m = CloseSocket(n, c)
    PROVE  /\ m.poller.map = n.poller.map
           /\ \A f \in Fds : f \in m.poller.epoll <=> f \in n.poller.epoll /\ f # n.conn[c].sockfd
           /\ n.conn[c].sockfd = Invalid => m = n
           /\ n.conn[c].sockfd # Invalid => m.kernel = [n.kernel EXCEPT ![n.conn[c].sockfd] = None]
<1> DEFINE fd == n.conn[c].sockfd
<1>1. /\ n.poller \in [map : [Fds -> Conns \cup {None}], epoll : SUBSET Fds]
      /\ Invalid \notin Fds
  BY DEF Nets, Invalid
<1>2. CASE fd = Invalid
  <2>1. m = n
    BY <1>2 DEF CloseSocket
  <2> QED BY <1>1, <1>2, <2>1
<1>3. CASE fd # Invalid
  <2>1. /\ m.poller = Forgotten(n.poller, fd) /\ m.kernel = [n.kernel EXCEPT ![fd] = None]
    BY <1>3 DEF CloseSocket, Nets
  <2>2. m.poller.map = n.poller.map /\ m.poller.epoll = n.poller.epoll \ {fd}
    BY <1>1, <2>1 DEF Forgotten
  <2> QED BY <1>3, <2>1, <2>2
<1> QED BY <1>2, <1>3

\* m is n but for the state, the output or the link of c.
Beside(m, n, c) ==
    /\ m \in Nets /\ m.kernel = n.kernel /\ m.poller = n.poller
    /\ \A d \in Conns \ {c} : m.conn[d] = n.conn[d]
    /\ m.conn[c].chfd = n.conn[c].chfd /\ m.conn[c].sockfd = n.conn[c].sockfd
    /\ m.conn[c].events = n.conn[c].events

States == {"Unborn", "Connected", "Disconnecting", "Disconnected", "Freed"}

LEMMA BesideItself == \A n \in Nets, c \in Conns : Beside(n, n, c)
BY DEF Beside

WithState(n, c, s) == [n EXCEPT !.conn[c].state = s]
WithOutput(n, c, b) == [n EXCEPT !.conn[c].output = b]
WithLink(n, c, k) == [n EXCEPT !.conn[c].link = k]

LEMMA StateIs ==
    ASSUME NEW n \in Nets, NEW c \in Conns, NEW s \in States,
           NEW m, m = WithState(n, c, s)
    PROVE  Beside(m, n, c) /\ m.conn[c].state = s
<1>1. n.conn \in [Conns -> Connection] /\ n.conn[c] \in Connection
  BY DEF Nets
<1>2. PICK r : r = [n.conn[c] EXCEPT !.state = s]
  OBVIOUS
<1>3. /\ m.conn = [n.conn EXCEPT ![c] = r] /\ m.poller = n.poller /\ m.kernel = n.kernel
      /\ m = [conn |-> m.conn, poller |-> m.poller, kernel |-> m.kernel]
  BY <1>2 DEF Nets, WithState
<1>4. /\ r \in Connection /\ r.chfd = n.conn[c].chfd /\ r.sockfd = n.conn[c].sockfd
      /\ r.events = n.conn[c].events /\ r.state = s
  BY <1>1, <1>2 DEF Connection, States
<1>5. /\ m.conn \in [Conns -> Connection] /\ m.conn[c] = r
      /\ \A d \in Conns \ {c} : m.conn[d] = n.conn[d]
  BY <1>1, <1>3, <1>4
<1>6. m \in Nets
  BY <1>3, <1>5 DEF Nets
<1> QED BY <1>3, <1>4, <1>5, <1>6 DEF Beside

LEMMA OutputIs ==
    ASSUME NEW n \in Nets, NEW c \in Conns, NEW b \in BOOLEAN,
           NEW m, m = WithOutput(n, c, b)
    PROVE  Beside(m, n, c) /\ m.conn[c].state = n.conn[c].state
<1>1. n.conn \in [Conns -> Connection] /\ n.conn[c] \in Connection
  BY DEF Nets
<1>2. PICK r : r = [n.conn[c] EXCEPT !.output = b]
  OBVIOUS
<1>3. /\ m.conn = [n.conn EXCEPT ![c] = r] /\ m.poller = n.poller /\ m.kernel = n.kernel
      /\ m = [conn |-> m.conn, poller |-> m.poller, kernel |-> m.kernel]
  BY <1>2 DEF Nets, WithOutput
<1>4. /\ r \in Connection /\ r.chfd = n.conn[c].chfd /\ r.sockfd = n.conn[c].sockfd
      /\ r.events = n.conn[c].events /\ r.state = n.conn[c].state
  BY <1>1, <1>2 DEF Connection
<1>5. /\ m.conn \in [Conns -> Connection] /\ m.conn[c] = r
      /\ \A d \in Conns \ {c} : m.conn[d] = n.conn[d]
  BY <1>1, <1>3, <1>4
<1>6. m \in Nets
  BY <1>3, <1>5 DEF Nets
<1> QED BY <1>3, <1>4, <1>5, <1>6 DEF Beside

LEMMA LinkIs ==
    ASSUME NEW n \in Nets, NEW c \in Conns, NEW k \in {"pending", "up", "gone"},
           NEW m, m = WithLink(n, c, k)
    PROVE  Beside(m, n, c) /\ m.conn[c].state = n.conn[c].state
<1>1. n.conn \in [Conns -> Connection] /\ n.conn[c] \in Connection
  BY DEF Nets
<1>2. PICK r : r = [n.conn[c] EXCEPT !.link = k]
  OBVIOUS
<1>3. /\ m.conn = [n.conn EXCEPT ![c] = r] /\ m.poller = n.poller /\ m.kernel = n.kernel
      /\ m = [conn |-> m.conn, poller |-> m.poller, kernel |-> m.kernel]
  BY <1>2 DEF Nets, WithLink
<1>4. /\ r \in Connection /\ r.chfd = n.conn[c].chfd /\ r.sockfd = n.conn[c].sockfd
      /\ r.events = n.conn[c].events /\ r.state = n.conn[c].state
  BY <1>1, <1>2 DEF Connection
<1>5. /\ m.conn \in [Conns -> Connection] /\ m.conn[c] = r
      /\ \A d \in Conns \ {c} : m.conn[d] = n.conn[d]
  BY <1>1, <1>3, <1>4
<1>6. m \in Nets
  BY <1>3, <1>5 DEF Nets
<1> QED BY <1>3, <1>4, <1>5, <1>6 DEF Beside

\* A state, an output or a link may change as long as open stays open.
LEMMA BesideKeeps ==
    ASSUME NEW n, NEW cl, NEW c \in Conns, NEW m, Sound(n, cl), Beside(m, n, c),
           n.conn[c].state # "Unborn", m.conn[c].state = n.conn[c].state
    PROVE  Sound(m, cl)
<1>1. Numbered(n, c) /\ n.conn[c].chfd \in Fds /\ Agreed(n, n.conn[c].chfd)
  BY DEF Sound, Numbered
<1>2. n.poller.map[n.conn[c].chfd] = c => n.conn[c].events # {}
  BY <1>1 DEF Agreed, Conns
<1>3. Touches(m, n, c)
  BY <1>1, <1>2 DEF Touches, Beside, Open, Numbered
<1> QED BY <1>3, TouchesKeeps

\* An open connection asks for other events.
LEMMA ArmKeeps ==
    ASSUME NEW n, NEW cl, NEW c \in Conns, NEW ev \in SUBSET {"read", "write"},
           NEW n1, NEW w, NEW m,
           Sound(n, cl), Open(n, c), "read" \in n.conn[c].events => "read" \in ev,
           Beside(n1, n, c), w = Watch(n1, c, ev), Beside(m, w, c), Open(m, c)
    PROVE  Sound(m, cl)
<1> DEFINE fd == n.conn[c].chfd
<1>1. /\ Numbered(n, c) /\ fd \in Fds /\ Agreed(n, fd) /\ n.conn[c].sockfd = fd
      /\ n.kernel[fd] = c /\ c # None /\ n \in Nets /\ Invalid \notin Fds
  BY SMTT(30) DEF Sound, Numbered, Open, Agreed, Conns, Invalid
<1>2. n1 \in Nets /\ n1.conn[c].chfd = fd
  BY DEF Beside
<1>3. /\ w \in Nets /\ w.kernel = n1.kernel
      /\ \A d \in Conns \ {c} : w.conn[d] = n1.conn[d]
      /\ w.conn[c] = [n1.conn[c] EXCEPT !.events = ev]
      /\ \A f \in Fds \ {fd} :
            /\ w.poller.map[f] = n1.poller.map[f]
            /\ f \in w.poller.epoll <=> f \in n1.poller.epoll
      /\ ev = {} => w.poller.map[fd] = None /\ fd \notin w.poller.epoll
      /\ ev # {} /\ n1.poller.map[fd] # None => w.poller = n1.poller
      /\ ev # {} /\ n1.poller.map[fd] = None =>
            /\ w.poller.map[fd] = c
            /\ fd \in w.poller.epoll <=> fd \in n1.poller.epoll \/ n1.kernel[fd] # None
  <2> HIDE DEF fd
  <2> QED BY <1>1, <1>2, WatchIs
<1>4. w.conn[c].chfd = fd /\ w.conn[c].sockfd = fd /\ w.conn[c].events = ev
  <2>1. n1.conn[c] \in Connection /\ n1.conn[c].sockfd = fd
    BY <1>1 DEF Beside, Nets
  <2> QED BY <1>2, <1>3, <2>1 DEF Connection
<1>5. /\ m \in Nets /\ m.kernel = n.kernel /\ m.poller = w.poller
      /\ \A d \in Conns \ {c} : m.conn[d] = n.conn[d]
      /\ m.conn[c].chfd = fd /\ m.conn[c].sockfd = fd /\ m.conn[c].events = ev
      /\ n1.poller = n.poller /\ n1.kernel = n.kernel
  BY <1>3, <1>4 DEF Beside
<1>6. n.conn[c].state # "Unborn" /\ m.conn[c].state \in {"Connected", "Disconnecting"}
  BY DEF Open
<1>7. /\ m.poller.map[fd] \in {n.poller.map[fd], None} \/ m.poller.map[fd] = c
      /\ m.poller.map[fd] = c => m.conn[c].events # {}
      /\ fd \in m.poller.epoll =>
            \/ /\ fd \in n.poller.epoll /\ m.poller.map[fd] = n.poller.map[fd]
               /\ m.kernel[fd] = n.kernel[fd]
            \/ m.poller.map[fd] = c /\ m.kernel[fd] = c
      /\ "read" \in n.conn[c].events /\ n.poller.map[fd] = c /\ fd \in n.poller.epoll =>
            /\ "read" \in m.conn[c].events
            /\ m.poller.map[fd] = c /\ fd \in m.poller.epoll
  <2> HIDE DEF fd
  <2>1. CASE ev = {}
    BY <1>1, <1>3, <1>5, <2>1
  <2>2. CASE ev # {} /\ n.poller.map[fd] # None
    BY <1>1, <1>3, <1>5, <2>2
  <2>3. CASE ev # {} /\ n.poller.map[fd] = None
    BY <1>1, <1>3, <1>5, <2>3
  <2> QED BY <2>1, <2>2, <2>3
<1>8. /\ \A f \in Fds \ {fd} :
            /\ m.poller.map[f] = n.poller.map[f]
            /\ f \in m.poller.epoll <=> f \in n.poller.epoll
      /\ n.conn[c].sockfd # Invalid
      /\ m.conn[c].state # "Unborn" /\ m.conn[c].state # "Disconnected" /\ m.conn[c].state # "Freed"
  BY <1>1, <1>3, <1>5, <1>6, SMTT(30)
<1>9. Touches(m, n, c)
  <2> HIDE DEF fd
  <2>1. n.conn[c].chfd = fd
    BY DEF fd
  <2> QED BY <1>1, <1>5, <1>6, <1>7, <1>8, <2>1 DEF Touches
<1> QED BY <1>9, TouchesKeeps

\* A connection ends, or its socket is closed: its channel may be taken off the
\* poller first, unless that has been done, and then its socket closed.
LEMMA EndKeeps ==
    ASSUME NEW n, NEW cl, NEW c \in Conns, NEW n1, NEW w, NEW x, NEW m,
           Sound(n, cl), n.conn[c].state # "Unborn",
           Beside(n1, n, c),
           w = n1 \/ (w = Watch(n1, c, {}) /\ (Open(n, c) \/ n.conn[c].events # {})),
           x = w \/ x = CloseSocket(w, c),
           Beside(m, x, c), ~Open(m, c), m.conn[c].state # "Unborn",
           m.conn[c].state = "Disconnected" => m.conn[c].events = {} \/ m.conn[c].sockfd = Invalid,
           m.conn[c].state = "Freed" => m.conn[c].events = {} /\ m.conn[c].sockfd = Invalid
    PROVE  Sound(m, cl)
<1> DEFINE fd == n.conn[c].chfd
           sk == n.conn[c].sockfd
<1>1. /\ fd \in Fds /\ sk \in {Invalid, fd} /\ Agreed(n, fd) /\ c # None /\ n \in Nets
      /\ Invalid \notin Fds
      /\ Open(n, c) => sk = fd
  BY DEF Sound, Numbered, Conns, Invalid
<1>2. /\ n.poller.map[fd] = c => n.conn[c].events # {}
  BY <1>1 DEF Agreed
<1>3. /\ n1 \in Nets /\ n1.conn[c].chfd = fd /\ n1.conn[c].sockfd = sk
      /\ n1.conn[c].events = n.conn[c].events /\ n1.kernel = n.kernel /\ n1.poller = n.poller
      /\ \A d \in Conns \ {c} : n1.conn[d] = n.conn[d]
  BY DEF Beside
<1>4. /\ w \in Nets /\ w.kernel = n.kernel
      /\ \A d \in Conns \ {c} : w.conn[d] = n.conn[d]
      /\ w.conn[c].chfd = fd /\ w.conn[c].sockfd = sk
      /\ \A f \in Fds \ {fd} :
            /\ w.poller.map[f] = n.poller.map[f]
            /\ f \in w.poller.epoll <=> f \in n.poller.epoll
      /\ \/ w.poller = n.poller /\ w.conn[c].events = n.conn[c].events
         \/ /\ w.poller.map[fd] = None /\ fd \notin w.poller.epoll
            /\ w.conn[c].events = {} /\ (sk # Invalid \/ n.conn[c].events # {})
  <2> HIDE DEF fd, sk
  <2>1. CASE w = n1
    BY <1>3, <2>1
  <2>2. CASE w = Watch(n1, c, {}) /\ (Open(n, c) \/ n.conn[c].events # {})
    <3>1. /\ w \in Nets /\ w.kernel = n1.kernel
          /\ \A d \in Conns \ {c} : w.conn[d] = n1.conn[d]
          /\ w.conn[c] = [n1.conn[c] EXCEPT !.events = {}]
          /\ \A f \in Fds \ {fd} :
                /\ w.poller.map[f] = n1.poller.map[f]
                /\ f \in w.poller.epoll <=> f \in n1.poller.epoll
          /\ w.poller.map[fd] = None /\ fd \notin w.poller.epoll
      <4>1. w = Watch(n1, c, {})
        BY <2>2
      <4> QED BY <1>1, <1>3, <4>1, UnwatchIs
    <3>2. n1.conn[c] \in Connection
      BY <1>3 DEF Nets
    <3>3. w.conn[c].chfd = fd /\ w.conn[c].sockfd = sk /\ w.conn[c].events = {}
      BY <1>3, <3>1, <3>2 DEF Connection
    <3>4. sk # Invalid \/ n.conn[c].events # {}
      <4>1. Open(n, c) \/ n.conn[c].events # {}
        BY <2>2
      <4> QED BY <1>1, <4>1
    <3> QED BY <1>3, <3>1, <3>3, <3>4
  <2> QED BY <2>1, <2>2
<1>5. /\ \A d \in Conns \ {c} : x.conn[d] = n.conn[d]
      /\ x.conn[c].chfd = fd /\ x.conn[c].events = w.conn[c].events
      /\ x.poller.map = w.poller.map
      /\ \A f \in Fds \ {fd} : f \in x.poller.epoll <=> f \in w.poller.epoll
      /\ fd \in x.poller.epoll => fd \in w.poller.epoll
      /\ \/ x = w /\ x.conn[c].sockfd = sk
         \/ /\ sk # Invalid /\ x.conn[c].sockfd = Invalid
            /\ x.kernel = [n.kernel EXCEPT ![sk] = None]
            /\ sk \notin x.poller.epoll
  <2> HIDE DEF fd, sk
  <2>1. CASE x = w
    BY <1>4, <2>1
  <2>2. CASE x = CloseSocket(w, c)
    <3>1. /\ \A d \in Conns \ {c} : x.conn[d] = w.conn[d]
          /\ x.conn[c] = [w.conn[c] EXCEPT !.sockfd = Invalid]
          /\ x.poller.map = w.poller.map
          /\ \A f \in Fds : f \in x.poller.epoll <=> f \in w.poller.epoll /\ f # sk
          /\ sk = Invalid => x = w
          /\ sk # Invalid => x.kernel = [w.kernel EXCEPT ![sk] = None]
      <4>1. w \in Nets /\ x = CloseSocket(w, c) /\ w.kernel = n.kernel
            /\ w.conn[c].sockfd = sk
        BY <1>4, <2>2
      <4>2. /\ \A d \in Conns \ {c} : x.conn[d] = w.conn[d]
            /\ x.conn[c] = [w.conn[c] EXCEPT !.sockfd = Invalid]
        BY <4>1, CloseConn
      <4>3. /\ x.poller.map = w.poller.map
            /\ \A f \in Fds : f \in x.poller.epoll <=> f \in w.poller.epoll
                                                  /\ f # w.conn[c].sockfd
            /\ w.conn[c].sockfd = Invalid => x = w
            /\ w.conn[c].sockfd # Invalid =>
                  x.kernel = [w.kernel EXCEPT ![w.conn[c].sockfd] = None]
        BY <4>1, CloseIs
      <4> QED BY <4>1, <4>2, <4>3
    <3>2. w.conn[c] \in Connection
      BY <1>4 DEF Nets
    <3>3. x.conn[c].chfd = fd /\ x.conn[c].sockfd = Invalid /\ x.conn[c].events = w.conn[c].events
      BY <1>4, <3>1, <3>2 DEF Connection
    <3>4. sk # Invalid => sk \notin x.poller.epoll
      BY <1>1, <3>1
    <3> QED BY <1>1, <1>4, <3>1, <3>3, <3>4
  <2> QED BY <2>1, <2>2
<1>6. /\ m \in Nets /\ m.kernel = x.kernel /\ m.poller = x.poller
      /\ \A d \in Conns \ {c} : m.conn[d] = n.conn[d]
      /\ m.conn[c].chfd = fd /\ m.conn[c].sockfd = x.conn[c].sockfd
      /\ m.conn[c].events = w.conn[c].events
  BY <1>5 DEF Beside
<1>7. \/ m.kernel = n.kernel /\ m.conn[c].sockfd = sk
      \/ /\ sk # Invalid /\ m.conn[c].sockfd = Invalid
         /\ m.kernel = [n.kernel EXCEPT ![sk] = None]
  BY <1>4, <1>5, <1>6
<1>8. /\ \A f \in Fds \ {fd} :
            /\ m.poller.map[f] = n.poller.map[f]
            /\ f \in m.poller.epoll <=> f \in n.poller.epoll
      /\ m.poller.map[fd] \in {n.poller.map[fd], None}
      /\ m.poller.map[fd] = c => m.conn[c].events # {}
  <2> HIDE DEF fd, sk
  <2> QED BY <1>1, <1>2, <1>4, <1>5, <1>6
<1>9. fd \in m.poller.epoll =>
         /\ fd \in n.poller.epoll /\ m.poller.map[fd] = n.poller.map[fd]
         /\ m.kernel[fd] = n.kernel[fd]
  <2> HIDE DEF fd, sk
  <2>1. fd \in m.poller.epoll => fd \in w.poller.epoll /\ fd \in n.poller.epoll
           /\ m.poller.map[fd] = n.poller.map[fd]
    BY <1>4, <1>5, <1>6
  <2>2. fd \in m.poller.epoll => m.kernel[fd] = n.kernel[fd]
    BY <1>1, <1>4, <1>5, <1>6
  <2> QED BY <2>1, <2>2
<1>10. n.conn[c].events = {} /\ sk = Invalid => m.poller = n.poller /\ m.conn[c].events = {}
  <2> HIDE DEF fd, sk
  <2>1. n.conn[c].events = {} /\ sk = Invalid => x = w
    BY <1>5
  <2> QED BY <1>4, <1>6, <2>1
<1>11. Touches(m, n, c)
  <2> HIDE DEF fd, sk
  <2>1. n.conn[c].chfd = fd /\ n.conn[c].sockfd = sk
    BY DEF fd, sk
  <2> QED BY <1>6, <1>7, <1>8, <1>9, <1>10, <2>1 DEF Touches
<1> QED BY <1>11, TouchesKeeps

\* ForceCloseInLoop up to its close callback.
LEMMA OffSound ==
    ASSUME NEW n, NEW cl, NEW c \in Conns, Sound(n, cl), Open(n, c), NEW m, m = Off(n, c)
    PROVE  /\ Sound(m, cl)
           /\ \A d \in Conns \ {c} : m.conn[d] = n.conn[d]
           /\ m.conn[c].state = "Disconnected"
<1>1. n \in Nets /\ n.conn[c].chfd \in Fds /\ n.conn[c].state # "Unborn"
  BY DEF Sound, Numbered, Open
<1>2. PICK n1 : n1 = WithState(n, c, "Disconnected")
  OBVIOUS
<1>3. Beside(n1, n, c) /\ n1.conn[c].state = "Disconnected"
  BY <1>1, <1>2, StateIs DEF States
<1>4. n1 \in Nets /\ n1.conn[c].chfd \in Fds /\ n1.conn[c] \in Connection
      /\ \A d \in Conns \ {c} : n1.conn[d] = n.conn[d]
  BY <1>1, <1>3 DEF Beside, Nets
<1>5. PICK w : w = Watch(n1, c, {})
  OBVIOUS
<1>6. /\ w \in Nets
      /\ \A d \in Conns \ {c} : w.conn[d] = n1.conn[d]
      /\ w.conn[c] = [n1.conn[c] EXCEPT !.events = {}]
  BY <1>4, <1>5, UnwatchIs
<1>7. w.conn[c] \in Connection /\ w.conn[c].events = {} /\ w.conn[c].state = "Disconnected"
  BY <1>3, <1>4, <1>6 DEF Connection, Nets
<1>8. m = CloseSocket(w, c)
  BY <1>2, <1>5 DEF Off, WithState
<1>9. /\ m \in Nets
      /\ \A d \in Conns \ {c} : m.conn[d] = w.conn[d]
      /\ m.conn[c] = [w.conn[c] EXCEPT !.sockfd = Invalid]
  <2>1. w \in Nets
    BY <1>6
  <2> QED BY <1>8, <2>1, CloseConn
<1>10. m.conn[c].events = {} /\ m.conn[c].state = "Disconnected"
  BY <1>7, <1>9 DEF Connection
<1>11. Beside(m, m, c) /\ ~Open(m, c)
  BY <1>9, <1>10, BesideItself DEF Open
<1>12. Sound(m, cl)
  BY <1>1, <1>3, <1>5, <1>8, <1>10, <1>11, EndKeeps
<1> QED BY <1>4, <1>6, <1>9, <1>10, <1>12

\* HandleClose up to its close callback.
LEMMA TakenOffSound ==
    ASSUME NEW n, NEW cl, NEW c \in Conns, Sound(n, cl), Open(n, c),
           NEW m, m = Watch(WithState(n, c, "Disconnected"), c, {})
    PROVE  /\ Sound(m, cl)
           /\ \A d \in Conns \ {c} : m.conn[d] = n.conn[d]
           /\ m.conn[c].state = "Disconnected"
<1>1. n \in Nets /\ n.conn[c].chfd \in Fds /\ n.conn[c].state # "Unborn"
  BY DEF Sound, Numbered, Open
<1>2. PICK n1 : n1 = WithState(n, c, "Disconnected")
  OBVIOUS
<1>3. Beside(n1, n, c) /\ n1.conn[c].state = "Disconnected"
  BY <1>1, <1>2, StateIs DEF States
<1>4. n1 \in Nets /\ n1.conn[c].chfd \in Fds /\ n1.conn[c] \in Connection
      /\ \A d \in Conns \ {c} : n1.conn[d] = n.conn[d]
  BY <1>1, <1>3 DEF Beside, Nets
<1>5. m = Watch(n1, c, {})
  BY <1>2
<1>6. /\ m \in Nets
      /\ \A d \in Conns \ {c} : m.conn[d] = n1.conn[d]
      /\ m.conn[c] = [n1.conn[c] EXCEPT !.events = {}]
  BY <1>4, <1>5, UnwatchIs
<1>7. m.conn[c].events = {} /\ m.conn[c].state = "Disconnected"
  BY <1>3, <1>4, <1>6 DEF Connection
<1>8. Beside(m, m, c) /\ ~Open(m, c)
  BY <1>6, <1>7, BesideItself DEF Open
<1>9. Sound(m, cl)
  BY <1>1, <1>3, <1>5, <1>7, <1>8, EndKeeps
<1> QED BY <1>4, <1>6, <1>7, <1>9

\* Socket::Close on a connection that has ended.
LEMMA CloseSound ==
    ASSUME NEW n, NEW cl, NEW c \in Conns, Sound(n, cl), n.conn[c].state = "Disconnected",
           NEW m, m = CloseSocket(n, c)
    PROVE  /\ Sound(m, cl)
           /\ \A d \in Conns \ {c} : m.conn[d] = n.conn[d]
           /\ m.conn[c].state = "Disconnected"
<1>1. n \in Nets /\ n.conn[c] \in Connection
  BY DEF Sound, Nets
<1>2. /\ m \in Nets
      /\ \A d \in Conns \ {c} : m.conn[d] = n.conn[d]
      /\ m.conn[c] = [n.conn[c] EXCEPT !.sockfd = Invalid]
  BY <1>1, CloseConn
<1>3. m.conn[c].sockfd = Invalid /\ m.conn[c].state = "Disconnected"
  BY <1>1, <1>2 DEF Connection
<1>4. Beside(n, n, c) /\ Beside(m, m, c) /\ ~Open(m, c)
  BY <1>1, <1>2, <1>3, BesideItself DEF Open
<1>5. Sound(m, cl)
  BY <1>3, <1>4, EndKeeps
<1> QED BY <1>2, <1>3, <1>5

\* ~TcpConnection.
LEMMA DestroyedSound ==
    ASSUME NEW n, NEW cl, NEW c \in Conns, Sound(n, cl), n.conn[c].state # "Unborn",
           NEW m, m = Destroyed(n, c)
    PROVE  /\ Sound(m, cl)
           /\ \A d \in Conns \ {c} : m.conn[d] = n.conn[d]
           /\ m.conn[c].state = "Freed"
<1>1. n \in Nets /\ n.conn[c] \in Connection /\ n.conn[c].chfd \in Fds
  BY DEF Sound, Nets, Numbered
<1>2. PICK w : w = IF n.conn[c].events = {} THEN n ELSE Watch(n, c, {})
  OBVIOUS
<1>3. /\ w \in Nets
      /\ \A d \in Conns \ {c} : w.conn[d] = n.conn[d]
      /\ w.conn[c] = [n.conn[c] EXCEPT !.events = {}]
  <2>1. CASE n.conn[c].events = {}
    <3>1. n.conn[c] = [n.conn[c] EXCEPT !.events = {}]
      BY <1>1, <2>1 DEF Connection
    <3> QED BY <1>1, <1>2, <2>1, <3>1
  <2>2. CASE n.conn[c].events # {}
    <3>1. w = Watch(n, c, {})
      BY <1>2, <2>2
    <3> QED BY <1>1, <3>1, UnwatchIs
  <2> QED BY <2>1, <2>2
<1>4. PICK x : x = CloseSocket(w, c)
  OBVIOUS
<1>5. /\ x \in Nets
      /\ \A d \in Conns \ {c} : x.conn[d] = w.conn[d]
      /\ x.conn[c] = [w.conn[c] EXCEPT !.sockfd = Invalid]
  <2>1. w \in Nets
    BY <1>3
  <2> QED BY <1>4, <2>1, CloseConn
<1>6. x.conn[c].events = {} /\ x.conn[c].sockfd = Invalid
  <2>1. w.conn[c] \in Connection /\ w.conn[c].events = {}
    BY <1>1, <1>3 DEF Connection
  <2> QED BY <1>5, <2>1 DEF Connection
<1>7. m = WithState(x, c, "Freed")
  BY <1>2, <1>4 DEF Destroyed, WithState
<1>8. Beside(m, x, c) /\ m.conn[c].state = "Freed"
  <2>1. x \in Nets /\ "Freed" \in States
    BY <1>5 DEF States
  <2> QED BY <1>7, <2>1, StateIs
<1>9. /\ m.conn[c].events = {} /\ m.conn[c].sockfd = Invalid /\ ~Open(m, c)
      /\ \A d \in Conns \ {c} : m.conn[d] = x.conn[d]
  BY <1>6, <1>8 DEF Beside, Open
<1>10. Beside(n, n, c)
  BY <1>1, BesideItself
<1>11. w = n \/ (w = Watch(n, c, {}) /\ (Open(n, c) \/ n.conn[c].events # {}))
  BY <1>2
<1>12. Sound(m, cl)
  BY <1>4, <1>8, <1>9, <1>10, <1>11, EndKeeps
<1> QED BY <1>3, <1>5, <1>8, <1>9, <1>12

\* A pointer to c goes: only the last one destroys it.
LEMMA LetGoSound ==
    ASSUME NEW n, NEW cl, Sound(n, cl), NEW c \in Conns \cup {None},
           c # None => n.conn[c].state # "Unborn",
           NEW connection, NEW frames, NEW pointers,
           NEW m, m = LetGo(n, c, connection, frames, pointers)
    PROVE  /\ Sound(m, cl)
           /\ \A d \in Conns \ {c} : m.conn[d] = n.conn[d]
           /\ \A d \in Conns :
                 \/ m.conn[d] = n.conn[d]
                 \/ /\ m.conn[d].state = "Freed" /\ d = c
                    /\ ~Held(d, connection, frames, pointers)
<1>1. CASE c = None \/ Held(c, connection, frames, pointers) \/ n.conn[c].state = "Freed"
  BY <1>1 DEF LetGo
<1>2. CASE ~(c = None \/ Held(c, connection, frames, pointers) \/ n.conn[c].state = "Freed")
  <2>1. c \in Conns /\ m = Destroyed(n, c)
    BY <1>2 DEF LetGo
  <2>2. /\ Sound(m, cl)
        /\ \A d \in Conns \ {c} : m.conn[d] = n.conn[d]
        /\ m.conn[c].state = "Freed"
    BY <1>2, <2>1, DestroyedSound
  <2> QED BY <1>2, <2>1, <2>2
<1> QED BY <1>1, <1>2

\* Send and HandleWrite: output comes or goes, with the wish to write.
LEMMA OutputSound ==
    ASSUME NEW n, NEW cl, NEW c \in Conns, Sound(n, cl), n.conn[c].state = "Connected",
           NEW ev \in SUBSET {"read", "write"}, "read" \in n.conn[c].events => "read" \in ev,
           NEW b \in BOOLEAN, NEW m, m = WithOutput(Watch(n, c, ev), c, b)
    PROVE  /\ Sound(m, cl)
           /\ \A d \in Conns : m.conn[d].state = n.conn[d].state
<1>1. n \in Nets /\ n.conn[c] \in Connection /\ n.conn[c].chfd \in Fds
  BY DEF Sound, Nets, Numbered
<1>2. PICK w : w = Watch(n, c, ev)
  OBVIOUS
<1>3. /\ w \in Nets
      /\ \A d \in Conns \ {c} : w.conn[d] = n.conn[d]
      /\ w.conn[c] = [n.conn[c] EXCEPT !.events = ev]
  BY <1>1, <1>2, WatchIs
<1>4. w.conn[c].state = "Connected"
  BY <1>1, <1>3 DEF Connection
<1>5. m = WithOutput(w, c, b)
  BY <1>2
<1>6. Beside(m, w, c) /\ m.conn[c].state = w.conn[c].state
  <2>1. w \in Nets
    BY <1>3
  <2> QED BY <1>5, <2>1, OutputIs
<1>7. Open(n, c) /\ Open(m, c)
  BY <1>4, <1>6 DEF Open
<1>8. Beside(n, n, c)
  BY <1>1, BesideItself
<1>9. Sound(m, cl)
  BY <1>2, <1>6, <1>7, <1>8, ArmKeeps
<1>10. \A d \in Conns \ {c} : m.conn[d] = n.conn[d]
  BY <1>3, <1>6 DEF Beside
<1> QED BY <1>4, <1>6, <1>9, <1>10

\* Shutdown and ShutdownInLoop.
LEMMA ShutDownSound ==
    ASSUME NEW cl, NEW c \in Conns, Sound(net, cl), NEW m, m = ShutDown(c)
    PROVE  /\ Sound(m, cl)
           /\ \A d \in Conns \ {c} : m.conn[d] = net.conn[d]
           /\ \/ m.conn[c].state = net.conn[c].state
              \/ Open(net, c) /\ m.conn[c].state \in {"Disconnecting", "Disconnected"}
<1>1. CASE State(c) # "Connected"
  BY <1>1 DEF ShutDown
<1>2. CASE State(c) = "Connected"
  <2>1. /\ net \in Nets /\ net.conn[c] \in Connection /\ net.conn[c].chfd \in Fds
        /\ Open(net, c) /\ net.conn[c].state # "Unborn"
    BY <1>2 DEF Sound, Nets, Numbered, State, Open
  <2>2. CASE net.conn[c].output
    <3>1. PICK n1 : n1 = WithState(net, c, "Disconnecting")
      OBVIOUS
    <3>2. Beside(n1, net, c) /\ n1.conn[c].state = "Disconnecting"
      BY <2>1, <3>1, StateIs DEF States
    <3>3. PICK ev \in SUBSET {"read", "write"} : ev = net.conn[c].events \cup {"write"}
      BY <2>1 DEF Connection
    <3>4. m = Watch(n1, c, ev)
      BY <1>2, <2>2, <3>1, <3>3 DEF ShutDown, WithState
    <3>5. /\ n1 \in Nets /\ n1.conn[c].chfd \in Fds /\ n1.conn[c] \in Connection
          /\ \A d \in Conns \ {c} : n1.conn[d] = net.conn[d]
      BY <2>1, <3>2 DEF Beside, Nets
    <3>6. /\ m \in Nets
          /\ \A d \in Conns \ {c} : m.conn[d] = n1.conn[d]
          /\ m.conn[c] = [n1.conn[c] EXCEPT !.events = ev]
      BY <3>4, <3>5, WatchIs
    <3>7. m.conn[c].state = "Disconnecting"
      BY <3>2, <3>5, <3>6 DEF Connection
    <3>8. Beside(m, m, c) /\ Open(m, c)
      BY <3>6, <3>7, BesideItself DEF Open
    <3>9. Sound(m, cl)
      BY <2>1, <3>2, <3>3, <3>4, <3>8, ArmKeeps
    <3> QED BY <2>1, <3>5, <3>6, <3>7, <3>9
  <2>3. CASE ~net.conn[c].output
    <3>1. PICK x : x = CloseSocket(net, c)
      OBVIOUS
    <3>2. /\ x \in Nets
          /\ \A d \in Conns \ {c} : x.conn[d] = net.conn[d]
          /\ x.conn[c] = [net.conn[c] EXCEPT !.sockfd = Invalid]
      BY <2>1, <3>1, CloseConn
    <3>3. x.conn[c].sockfd = Invalid
      BY <2>1, <3>2 DEF Connection
    <3>4. m = WithState(x, c, "Disconnected")
      BY <1>2, <2>3, <3>1 DEF ShutDown, WithState
    <3>5. Beside(m, x, c) /\ m.conn[c].state = "Disconnected"
      <4>1. x \in Nets /\ "Disconnected" \in States
        BY <3>2 DEF States
      <4> QED BY <3>4, <4>1, StateIs
    <3>6. m.conn[c].sockfd = Invalid /\ ~Open(m, c) /\ m.conn[c].state # "Unborn"
      BY <3>3, <3>5 DEF Beside, Open
    <3>7. Beside(net, net, c)
      BY <2>1, BesideItself
    <3>8. Sound(m, cl)
      BY <2>1, <3>1, <3>5, <3>6, <3>7, EndKeeps
    <3>9. \A d \in Conns \ {c} : m.conn[d] = net.conn[d]
      BY <3>2, <3>5 DEF Beside
    <3> QED BY <2>1, <3>5, <3>8, <3>9
  <2> QED BY <2>2, <2>3
<1> QED BY <1>1, <1>2

\* A new socket with a number the kernel had not given out.
LEMMA OpenedSound ==
    ASSUME NEW n, NEW cl, Sound(n, cl), NEW c \in Conns, n.conn[c].state = "Unborn",
           NEW f \in Fds, n.kernel[f] = None, NEW outcome,
           NEW m, m = Opened(n, c, f, outcome)
    PROVE  /\ Sound(m, cl \cup {c})
           /\ \A d \in Conns \ {c} : m.conn[d] = n.conn[d]
           /\ m.conn[c].state = "Connected" /\ m.conn[c].chfd = f /\ m.conn[c].sockfd = f
           /\ m.conn[c].events = {} /\ m.kernel[f] = c
<1> DEFINE r == [Unborn EXCEPT !.state = "Connected", !.sockfd = f, !.chfd = f,
                               !.link = IF outcome = "refused" THEN "gone" ELSE "pending"]
<1>1. /\ n.conn \in [Conns -> Connection] /\ n.kernel \in [Fds -> Conns \cup {None}]
      /\ n.poller \in [map : [Fds -> Conns \cup {None}], epoll : SUBSET Fds]
      /\ c # None /\ Invalid \notin Fds
  BY DEF Sound, Nets, Conns, Invalid
<1>2. /\ m.conn = [n.conn EXCEPT ![c] = r] /\ m.kernel = [n.kernel EXCEPT ![f] = c]
      /\ m.poller = n.poller
      /\ m = [conn |-> m.conn, poller |-> m.poller, kernel |-> m.kernel]
  BY DEF Opened, Sound, Nets
<1>3. /\ r \in Connection /\ r.state = "Connected" /\ r.sockfd = f /\ r.chfd = f /\ r.events = {}
  BY DEF Unborn, Connection
<1> HIDE DEF r
<1>4. /\ m.conn \in [Conns -> Connection] /\ m.conn[c] = r
      /\ \A d \in Conns \ {c} : m.conn[d] = n.conn[d]
      /\ m.kernel \in [Fds -> Conns \cup {None}] /\ m.kernel[f] = c
      /\ \A g \in Fds \ {f} : m.kernel[g] = n.kernel[g]
  BY <1>1, <1>2, <1>3
<1>5. m \in Nets
  BY <1>1, <1>2, <1>4 DEF Nets
<1>6. /\ n.conn[c].chfd = Invalid /\ n.conn[c].events = {} /\ n.conn[c].sockfd = Invalid
      /\ \A d \in Conns : n.conn[d].sockfd # f
      /\ f \notin n.poller.epoll
  <2>1. Numbered(n, c) /\ Agreed(n, f)
    BY DEF Sound
  <2>2. \A d \in Conns : d # None
    BY DEF Conns
  <2> QED BY <2>1, <2>2 DEF Numbered, Agreed
<1>7. ASSUME NEW d \in Conns PROVE Numbered(m, d)
  <2>1. CASE d = c
    BY <1>3, <1>4, <2>1 DEF Numbered, Open
  <2>2. CASE d # c
    BY <1>4, <2>2 DEF Sound, Numbered, Open
  <2> QED BY <2>1, <2>2
<1>8. ASSUME NEW g \in Fds PROVE Agreed(m, g)
  <2>1. Agreed(n, g)
    BY DEF Sound
  <2>2. \A d \in Conns : m.kernel[g] = d <=> m.conn[d].sockfd = g
    <3>1. CASE g = f
      BY <1>3, <1>4, <1>6, <3>1
    <3>2. CASE g # f
      BY <1>1, <1>3, <1>4, <1>6, <2>1, <3>2 DEF Agreed
    <3> QED BY <3>1, <3>2
  <2>3. m.poller.map[g] # None =>
          m.conn[m.poller.map[g]].chfd = g /\ m.conn[m.poller.map[g]].events # {}
    BY <1>1, <1>2, <1>4, <1>6, <2>1 DEF Agreed
  <2>4. g \in m.poller.epoll => m.poller.map[g] # None /\ m.poller.map[g] = m.kernel[g]
    BY <1>2, <1>4, <1>6, <2>1 DEF Agreed
  <2> QED BY <2>2, <2>3, <2>4 DEF Agreed
<1>9. ASSUME NEW d \in Conns \ (cl \cup {c}), Open(m, d) PROVE ServedAlone(m, d)
  <2>1. d \in Conns \ cl /\ d # c /\ m.conn[d] = n.conn[d]
    BY <1>4, <1>9
  <2>2. ServedAlone(n, d) /\ Numbered(n, d) /\ n.conn[d].sockfd = n.conn[d].chfd
    BY <1>9, <2>1 DEF Sound, Open, Numbered
  <2>3. n.conn[d].chfd # f
    BY <1>6, <2>1, <2>2
  <2> QED BY <1>2, <1>3, <1>4, <2>1, <2>2, <2>3 DEF ServedAlone
<1> QED BY <1>3, <1>4, <1>5, <1>7, <1>8, <1>9 DEF Sound

\* ConnectEstablished: the new channel enters the poller, and is served if no
\* other channel has its number.
LEMMA WatchedSound ==
    ASSUME NEW n, NEW cl, NEW c \in Conns, NEW more, Sound(n, more),
           \A d \in Conns \ cl : d = c \/ d \notin more,
           n.conn[c].state = "Connected", n.conn[c].events = {},
           NEW ev \in SUBSET {"read", "write"}, "read" \in ev, NEW m, m = Watch(n, c, ev)
    PROVE  /\ Sound(m, more)
           /\ Rivals(n, n.conn[c].chfd) = {} => Sound(m, cl)
           /\ \A d \in Conns \ {c} : m.conn[d] = n.conn[d]
           /\ m.conn[c].state = "Connected"
<1> DEFINE fd == n.conn[c].chfd
<1>1. "read" \in ev /\ ev # {}
  OBVIOUS
<1>2. m = Watch(n, c, ev)
  OBVIOUS
<1>3. /\ n \in Nets /\ n.conn[c] \in Connection /\ fd \in Fds /\ Open(n, c)
      /\ n.kernel[fd] = c /\ c # None /\ Agreed(n, fd)
  BY SMTT(30) DEF Sound, Nets, Numbered, Open, Agreed, Conns
<1>4. /\ m \in Nets
      /\ \A d \in Conns \ {c} : m.conn[d] = n.conn[d]
      /\ m.conn[c] = [n.conn[c] EXCEPT !.events = ev]
      /\ ev # {} /\ n.poller.map[fd] = None =>
            /\ m.poller.map[fd] = c
            /\ fd \in m.poller.epoll <=> fd \in n.poller.epoll \/ n.kernel[fd] # None
  <2> HIDE DEF fd
  <2>1. n.conn[c].chfd = fd
    BY DEF fd
  <2> QED BY <1>2, <1>3, <2>1, WatchIs
<1>5. m.conn[c].state = "Connected" /\ m.conn[c].chfd = fd /\ m.conn[c].events = ev
  BY <1>3, <1>4 DEF Connection
<1>6. Beside(n, n, c) /\ Beside(m, m, c) /\ Open(m, c)
  BY <1>3, <1>4, <1>5, BesideItself DEF Open
<1>7. Sound(m, more)
  BY <1>1, <1>2, <1>3, <1>6, ArmKeeps
<1>8. ASSUME Rivals(n, fd) = {} PROVE Sound(m, cl)
  <2>1. \A d \in Conns : n.conn[d].chfd = fd => n.conn[d].events = {}
    BY <1>8 DEF Rivals
  <2>2. n.poller.map[fd] = None
    <3>1. n.poller.map[fd] \in Conns \cup {None}
      BY <1>3 DEF Nets
    <3> QED BY <1>3, <2>1, <3>1 DEF Agreed
  <2>3. m.poller.map[fd] = c /\ fd \in m.poller.epoll /\ "read" \in ev
    <3>1. ev # {} /\ "read" \in ev
      BY <1>1
    <3>2. n.kernel[fd] # None
      BY <1>3
    <3> QED BY <1>4, <2>2, <3>1, <3>2
  <2>4. ServedAlone(m, c)
    BY <1>4, <1>5, <2>1, <2>3 DEF ServedAlone
  <2>5. ASSUME NEW d \in Conns \ cl, Open(m, d) PROVE ServedAlone(m, d)
    <3>1. CASE d = c
      BY <2>4, <3>1
    <3>2. CASE d # c
      <4>1. d \in Conns \ more
        BY <2>5, <3>2
      <4> QED BY <1>7, <2>5, <4>1 DEF Sound
    <3> QED BY <3>1, <3>2
  <2> QED BY <1>7, <2>5 DEF Sound
<1> QED BY <1>4, <1>5, <1>7, <1>8

-----------------------------------------------------------------------------
(* The stack of callbacks, and what a step does to the control.            *)

At == {"connected", "message", "closed", "forced", "dying"}

LEMMA HeldIs ==
    ASSUME NEW d, NEW connection, NEW s, NEW pointers
    PROVE  Held(d, connection, s, pointers) <=>
              connection = d \/ d \in pointers \/ \E fr \in Frames(s) : fr.conn = d
BY DEF Held, Frames

LEMMA PushIs ==
    ASSUME Typed, NEW at \in At, NEW c \in Conns, Len(stack) < MaxFrames,
           NEW s, s = Push(at, c)
    PROVE  /\ s \in Seq(Frame) /\ Len(s) <= MaxFrames
           /\ Frames(s) = Frames(stack) \cup {[at |-> at, conn |-> c]}
<1>1. PICK fr : fr = [at |-> at, conn |-> c]
  OBVIOUS
<1>2. stack \in Seq(Frame) /\ fr \in Frame /\ s = Append(stack, fr) /\ Len(stack) \in Nat
  BY <1>1, LenProperties DEF Typed, Frame, At, Push
<1>3. /\ s \in Seq(Frame) /\ Len(s) = Len(stack) + 1
      /\ \A i \in 1 .. Len(stack) : s[i] = stack[i]
      /\ s[Len(stack) + 1] = fr
  BY <1>2, AppendProperties
<1>4. DOMAIN stack = 1 .. Len(stack) /\ DOMAIN s = 1 .. Len(stack) + 1
  BY <1>2, <1>3, LenProperties
<1>5. \A i \in DOMAIN s : i \in DOMAIN stack \/ i = Len(stack) + 1
  BY <1>2, <1>4
<1>6. Frames(s) = Frames(stack) \cup {fr}
  <2>1. \A i \in DOMAIN stack : i \in DOMAIN s /\ s[i] = stack[i]
    BY <1>2, <1>3, <1>4
  <2>2. Len(stack) + 1 \in DOMAIN s
    BY <1>2, <1>4
  <2> QED BY <1>3, <1>5, <2>1, <2>2 DEF Frames
<1> QED BY <1>1, <1>2, <1>3, <1>6

LEMMA PopIs ==
    ASSUME Typed, stack # <<>>
    PROVE  /\ Popped \in Seq(Frame) /\ Len(Popped) <= MaxFrames
           /\ Top \in Frame /\ Frames(stack) = Frames(Popped) \cup {Top}
<1> DEFINE n == Len(stack)
<1>1. /\ stack \in Seq(Frame) /\ n \in Nat \ {0} /\ DOMAIN stack = 1 .. n /\ n <= MaxFrames
      /\ MaxFrames \in Nat
  BY LenProperties, EmptySeq DEF Typed
<1> HIDE DEF n
<1>2. \A i \in 1 .. n - 1 : stack[i] \in Frame
  BY <1>1, ElementOfSeq DEF n
<1>3. /\ SubSeq(stack, 1, n - 1) \in Seq(Frame)
      /\ Len(SubSeq(stack, 1, n - 1)) = n - 1
      /\ \A i \in 1 .. n - 1 : SubSeq(stack, 1, n - 1)[i] = stack[i]
  <2>1. /\ SubSeq(stack, 1, n - 1) \in Seq(Frame)
        /\ Len(SubSeq(stack, 1, n - 1)) = IF 1 <= n - 1 THEN n - 1 - 1 + 1 ELSE 0
        /\ \A i \in 1 .. n - 1 - 1 + 1 : SubSeq(stack, 1, n - 1)[i] = stack[1 + i - 1]
    BY <1>1, <1>2, SubSeqProperties
  <2>2. \A i \in 1 .. n - 1 : i \in 1 .. n - 1 - 1 + 1 /\ 1 + i - 1 = i
    BY <1>1
  <2> QED BY <1>1, <2>1, <2>2
<1>4. Popped = SubSeq(stack, 1, n - 1)
  BY DEF Popped, n
<1>5. DOMAIN Popped = 1 .. n - 1 /\ Len(Popped) = n - 1
  BY <1>3, <1>4, LenProperties
<1>6. Top = stack[n] /\ stack[n] \in Frame /\ n \in DOMAIN stack
  BY <1>1, ElementOfSeq DEF Top, n
<1>7. Frames(stack) = Frames(Popped) \cup {Top}
  <2>1. \A i \in DOMAIN stack : i \in DOMAIN Popped \/ i = n
    BY <1>1, <1>5
  <2>2. \A i \in DOMAIN Popped : i \in DOMAIN stack /\ Popped[i] = stack[i]
    BY <1>1, <1>3, <1>4, <1>5
  <2> QED BY <1>6, <2>1, <2>2 DEF Frames
<1> QED BY <1>1, <1>3, <1>4, <1>5, <1>6, <1>7

LEMMA FramesType ==
    ASSUME Typed
    PROVE  /\ Frames(stack) \subseteq Frame
           /\ stack = <<>> => Frames(stack) = {}
<1>1. stack \in Seq(Frame) /\ DOMAIN stack = 1 .. Len(stack)
  BY LenProperties DEF Typed
<1>2. \A i \in DOMAIN stack : stack[i] \in Frame
  BY <1>1, ElementOfSeq
<1>3. stack = <<>> => DOMAIN stack = {}
  BY EmptySeq
<1> QED BY <1>2, <1>3 DEF Frames

\* A step that opens at most the connection whose callback it calls, ends what
\* was open, and destroys what nobody holds; that takes no frame of a careful
\* application's connection away before it is kept, and no pointer to one that
\* is open or busy.
LEMMA ControlKeeps ==
    ASSUME IInv, Typed',
           \A d \in Conns :
              \/ net'.conn[d].state = State(d)
              \/ Live(d) /\ net'.conn[d].state \in {"Disconnecting", "Disconnected"}
              \/ /\ net'.conn[d].state = "Freed"
                 /\ ~Held(d, client'.connection, stack', kept')
              \/ /\ State(d) = "Unborn" /\ net'.conn[d].state = "Connected"
                 /\ [at |-> "connected", conn |-> d] \in Frames(stack'),
           \A d \in Conns : Held(d, client'.connection, stack', kept') =>
              \/ Held(d, client.connection, stack, kept)
              \/ State(d) \notin {"Unborn", "Freed"}
              \/ net'.conn[d].state = "Connected",
           \A fr \in Frames(stack') :
              \/ fr \in Frames(stack)
              \/ /\ fr.at \in {"closed", "forced", "dying"} =>
                       net'.conn[fr.conn].state = "Disconnected"
                 /\ ~careless' /\ fr.at \in {"message", "closed", "dying"} => fr.conn \in kept',
           ~careless' =>
              /\ ~careless
              /\ \/ kept \subseteq kept'
                 \/ Frames(stack') = {} /\ \A d \in kept \ kept' : ~Live(d)
              /\ \A d \in Conns :
                    [at |-> "connected", conn |-> d] \in Frames(stack) \ Frames(stack') =>
                        d \in kept'
              /\ ClientGoing' => timers' = 0 /\ ~client'.auto /\
                    \A d \in Conns : net'.conn[d].state \notin {"Connected", "Disconnecting"}
    PROVE  Standing' /\ Closing' /\ Careful'
<1>0. Standing /\ Closing /\ Careful
  BY DEF IInv
<1>1. Standing'
  BY <1>0 DEF Standing, State, Live
<1>2. Closing'
  <2> SUFFICES ASSUME NEW fr \in Frames(stack'), fr.at \in {"closed", "forced", "dying"}
               PROVE  net'.conn[fr.conn].state = "Disconnected"
    BY DEF Closing, State
  <2>1. CASE fr \in Frames(stack)
    <3>1. State(fr.conn) = "Disconnected"
      BY <1>0, <2>1 DEF Closing
    <3>2. fr.conn \in Conns
      BY <2>1, FramesType DEF IInv, Frame
    <3>3. Held(fr.conn, client'.connection, stack', kept')
      BY HeldIs
    <3> QED BY <3>1, <3>2, <3>3 DEF Live
  <2>2. CASE fr \notin Frames(stack)
    BY <2>2
  <2> QED BY <2>1, <2>2
<1>3. Careful'
  <2> SUFFICES ASSUME ~careless'
               PROVE  /\ \A c \in Conns : net'.conn[c].state \in {"Connected", "Disconnecting"} =>
                            c \in kept' \/ [at |-> "connected", conn |-> c] \in Frames(stack')
                      /\ \A fr \in Frames(stack') :
                            fr.at \in {"message", "closed", "dying"} => fr.conn \in kept'
    BY DEF Careful, State, Live
  <2>1. ASSUME NEW c \in Conns, net'.conn[c].state \in {"Connected", "Disconnecting"}
        PROVE  c \in kept' \/ [at |-> "connected", conn |-> c] \in Frames(stack')
    <3>1. CASE State(c) = "Unborn" /\ [at |-> "connected", conn |-> c] \in Frames(stack')
      BY <3>1
    <3>2. CASE Live(c)
      <4>1. c \in kept \/ [at |-> "connected", conn |-> c] \in Frames(stack)
        BY <1>0, <3>2 DEF Careful
      <4> QED BY <3>2, <4>1
    <3> QED BY <2>1, <3>1, <3>2 DEF Live
  <2>2. ASSUME NEW fr \in Frames(stack'), fr.at \in {"message", "closed", "dying"}
        PROVE  fr.conn \in kept'
    <3>1. CASE fr \in Frames(stack)
      <4>1. fr.conn \in kept
        BY <1>0, <2>2, <3>1 DEF Careful
      <4> QED BY <2>2, <4>1
    <3>2. CASE fr \notin Frames(stack)
      BY <2>2, <3>2
    <3> QED BY <3>1, <3>2
  <2> QED BY <2>1, <2>2
<1> QED BY <1>1, <1>2, <1>3

-----------------------------------------------------------------------------
(* The steps.                                                              *)

\* A step outside the callbacks' control: connections may end, the client keeps
\* its connection, nothing is pushed or returns.
LEMMA QuietStep ==
    ASSUME IInv, stack' = stack, kept' = kept, closes' = closes, clashed' = clashed,
           careless' = careless,
           client' \in [alive : BOOLEAN, started : BOOLEAN, auto : BOOLEAN,
                        connection : Conns \cup {None}],
           client'.alive = client.alive, client'.connection = client.connection,
           ClientGoing /\ client'.auto => client.auto,
           timers' \in Nat, timers' <= timers,
           Sound(net', clashed),
           \A d \in Conns :
              \/ net'.conn[d].state = State(d)
              \/ Live(d) /\ net'.conn[d].state \in {"Disconnecting", "Disconnected"},
           fault' \in {"none", UseAfterFree}, fault' # "none" => careless
    PROVE  IInv'
<1>1. Typed /\ Leaving /\ Careful
  BY DEF IInv
<1>2. Typed'
  BY <1>1 DEF Typed
<1>3. ClientGoing' <=> ClientGoing
  BY DEF ClientGoing
<1>4. Leaving'
  BY <1>1, <1>3 DEF Leaving
<1>5. ~careless' /\ ClientGoing' =>
        /\ timers' = 0 /\ ~client'.auto
        /\ \A d \in Conns : net'.conn[d].state \notin {"Connected", "Disconnecting"}
  BY <1>1, <1>3 DEF Careful, Live, Typed
<1>6. Standing' /\ Closing' /\ Careful'
  BY <1>2, <1>5, ControlKeeps
<1>7. CarefulIsSafe'
  BY DEF CarefulIsSafe
<1> QED BY <1>2, <1>4, <1>6, <1>7 DEF IInv

\* HandleConnect up to the connection callback.
LEMMA ConnectStep ==
    ASSUME IInv, NEW c \in Conns, NEW f \in Fds, NEW outcome,
           ~ClientGoing, Len(stack) < MaxFrames, FreshSocket(c, f),
           HandleConnect(c, f, outcome),
           kept' = kept, closes' = closes, careless' = careless, timers' \in Nat,
           fault' \in {"none", UseAfterFree}, fault' # "none" => careless
    PROVE  IInv'
<1> DEFINE old == client.connection
<1>1. /\ Typed /\ Standing /\ Sound(net, clashed) /\ net.conn[c].state = "Unborn"
      /\ net.kernel[f] = None /\ client.alive
      /\ \A fr \in Frames(stack) : fr.at # "dying"
  BY DEF IInv, FreshSocket, State, ClientGoing
<1>2. /\ old \in Conns \cup {None} /\ old # c
      /\ old # None => State(old) # "Unborn"
  <2>1. old \in Conns \cup {None}
    BY <1>1 DEF Typed
  <2>2. old # None => Held(old, old, stack, kept)
    BY DEF Held
  <2> QED BY <1>1, <2>1, <2>2 DEF Standing, State, Conns
<1>3. PICK o : o = Opened(net, c, f, outcome)
  OBVIOUS
<1>4. /\ Sound(o, clashed \cup {c})
      /\ \A d \in Conns \ {c} : o.conn[d] = net.conn[d]
      /\ o.conn[c].state = "Connected" /\ o.conn[c].chfd = f /\ o.conn[c].events = {}
  <2>1. Sound(net, clashed) /\ net.conn[c].state = "Unborn" /\ net.kernel[f] = None
    BY <1>1
  <2> QED BY ONLY <2>1, <1>3, OpenedSound, SMTT(30)
<1>5. PICK g : g = LetGo(o, old, c, stack, kept)
  OBVIOUS
<1>6. /\ Sound(g, clashed \cup {c})
      /\ \A d \in Conns \ {old} : g.conn[d] = o.conn[d]
      /\ \A d \in Conns :
            \/ g.conn[d] = o.conn[d]
            \/ g.conn[d].state = "Freed" /\ ~Held(d, c, stack, kept)
  <2>1. old # None => o.conn[old].state # "Unborn"
    BY <1>2, <1>4 DEF State
  <2> HIDE DEF old
  <2> QED BY <1>2, <1>4, <1>5, <2>1, LetGoSound
<1>7. g.conn[c].state = "Connected" /\ g.conn[c].chfd = f /\ g.conn[c].events = {}
  BY <1>2, <1>4, <1>6
<1>8. /\ net' = Watch(g, c, {"read"})
      /\ clashed' = IF Rivals(g, f) # {} THEN clashed \cup {c} ELSE clashed
      /\ client' = [client EXCEPT !.started = TRUE, !.connection = c]
      /\ stack' = Push("connected", c)
  BY <1>3, <1>5 DEF HandleConnect, Established
<1>9. /\ Sound(net', clashed')
      /\ \A d \in Conns \ {c} : net'.conn[d] = g.conn[d]
      /\ net'.conn[c].state = "Connected"
  <2>1. PICK more, ev : more = clashed \cup {c} /\ ev = {"read"}
    OBVIOUS
  <2>2. /\ net' = Watch(g, c, ev) /\ Sound(g, more)
        /\ \A d \in Conns \ clashed : d = c \/ d \notin more
        /\ ev \in SUBSET {"read", "write"} /\ "read" \in ev
    BY <1>6, <1>8, <2>1
  <2>3. /\ Sound(net', more)
        /\ Rivals(g, g.conn[c].chfd) = {} => Sound(net', clashed)
        /\ \A d \in Conns \ {c} : net'.conn[d] = g.conn[d]
        /\ net'.conn[c].state = "Connected"
    BY ONLY <1>7, <2>2, WatchedSound
  <2> QED BY <1>7, <1>8, <2>1, <2>3
<1>10. /\ stack' \in Seq(Frame) /\ Len(stack') <= MaxFrames
       /\ Frames(stack') = Frames(stack) \cup {[at |-> "connected", conn |-> c]}
  BY <1>1, <1>8, PushIs DEF At
<1>11. /\ client' \in [alive : BOOLEAN, started : BOOLEAN, auto : BOOLEAN,
                       connection : Conns \cup {None}]
       /\ client'.alive = client.alive /\ client'.connection = c
  BY <1>1, <1>8 DEF Typed
<1>12. Typed'
  <2>1. clashed' \subseteq Conns
    BY <1>1, <1>8 DEF Typed
  <2> QED BY <1>1, <1>10, <1>11, <2>1 DEF Typed
<1>13. ~ClientGoing'
  <2>1. \A fr \in Frames(stack') : fr.at # "dying"
    BY <1>1, <1>10
  <2> QED BY <1>1, <1>11, <2>1 DEF ClientGoing
<1>14. ASSUME NEW d \in Conns
       PROVE  \/ net'.conn[d].state = State(d)
              \/ /\ net'.conn[d].state = "Freed"
                 /\ ~Held(d, client'.connection, stack', kept')
              \/ /\ State(d) = "Unborn" /\ net'.conn[d].state = "Connected"
                 /\ [at |-> "connected", conn |-> d] \in Frames(stack')
  <2>1. CASE d = c
    BY <1>1, <1>9, <1>10, <2>1 DEF State
  <2>2. CASE d # c /\ g.conn[d] = o.conn[d]
    BY <1>4, <1>9, <2>2 DEF State
  <2>3. CASE d # c /\ g.conn[d].state = "Freed" /\ ~Held(d, c, stack, kept)
    <3>1. d \notin kept /\ \A fr \in Frames(stack) : fr.conn # d
      BY <2>3, HeldIs
    <3>2. \A fr \in Frames(stack') : fr.conn # d
      BY <1>10, <2>3, <3>1
    <3>3. ~Held(d, client'.connection, stack', kept')
      BY <1>11, <2>3, <3>1, <3>2, HeldIs
    <3> QED BY <1>9, <2>3, <3>3
  <2> QED BY <1>6, <2>1, <2>2, <2>3
<1>15. ASSUME NEW d \in Conns, Held(d, client'.connection, stack', kept')
       PROVE  Held(d, client.connection, stack, kept) \/ net'.conn[d].state = "Connected"
  <2>1. d = c \/ d \in kept \/ \E fr \in Frames(stack') : fr.conn = d
    BY <1>11, <1>15, HeldIs
  <2>2. d = c \/ d \in kept \/ \E fr \in Frames(stack) : fr.conn = d
    BY <1>10, <2>1
  <2> QED BY <1>9, <2>2, HeldIs
<1>16. Standing' /\ Closing' /\ Careful'
  <2>1. \A fr \in Frames(stack') : fr \in Frames(stack) \/ fr.at = "connected"
    BY <1>10
  <2>2. Frames(stack) \subseteq Frames(stack')
    BY <1>10
  <2> QED BY <1>12, <1>13, <1>14, <1>15, <2>1, <2>2, ControlKeeps
<1>17. Leaving' /\ CarefulIsSafe'
  BY <1>13 DEF Leaving, CarefulIsSafe
<1> QED BY <1>9, <1>12, <1>16, <1>17 DEF IInv

LEMMA ConnectSteps ==
    ASSUME IInv, NEW c \in Conns, NEW f \in Fds, NEW outcome,
           Connect(c, f, outcome) \/ DoReconnect(c, f, outcome)
    PROVE  IInv'
<1>1. /\ Typed /\ Sound(net, clashed) /\ Leaving /\ Careful
      /\ MaxFrames \in Nat \ {0} /\ timers \in Nat /\ fault \in {"none", UseAfterFree}
  BY DEF IInv, Typed
<1>2. CASE UNCHANGED <<net, client, stack, clashed, kept, closes, careless>>
           /\ timers' \in Nat /\ timers' <= timers
           /\ fault' \in {"none", UseAfterFree} /\ (fault' # "none" => careless)
  <2>1. Sound(net', clashed)
    BY <1>1, <1>2
  <2>2. /\ stack' = stack /\ kept' = kept /\ closes' = closes /\ clashed' = clashed
        /\ careless' = careless /\ client' = client
        /\ \A d \in Conns : net'.conn[d].state = State(d)
    BY <1>2 DEF State
  <2>3. client' \in [alive : BOOLEAN, started : BOOLEAN, auto : BOOLEAN,
                     connection : Conns \cup {None}]
    BY <1>1, <2>2 DEF Typed
  <2> QED BY <1>2, <2>1, <2>2, <2>3, QuietStep
<1>3. CASE Connect(c, f, outcome)
  <2>1. /\ ConnectCalled(c, f, outcome) /\ FreshSocket(c, f)
        /\ kept' = kept /\ timers' = timers /\ fault' = fault /\ closes' = closes
        /\ careless' = careless /\ fault = "none"
        /\ Len(stack) < MaxFrames /\ client.alive
        /\ \A i \in DOMAIN stack : stack[i].at # "dying"
    BY <1>3 DEF Connect, Usable, AppRuns
  <2>2. ~ClientGoing
    BY <2>1 DEF ClientGoing, Frames
  <2>3. CASE AlreadyStarted \/ ~TakenForConnected(outcome)
    BY <1>1, <1>2, <2>1, <2>3 DEF ConnectCalled
  <2>4. CASE ~(AlreadyStarted \/ ~TakenForConnected(outcome))
    <3>1. HandleConnect(c, f, outcome)
      BY <2>1, <2>4 DEF ConnectCalled
    <3> QED BY <1>1, <2>1, <2>2, <3>1, ConnectStep
  <2> QED BY <2>3, <2>4
<1>4. CASE DoReconnect(c, f, outcome)
  <2>1. /\ FreshSocket(c, f) /\ fault = "none" /\ stack = <<>> /\ timers > 0
        /\ kept' = kept /\ timers' = timers - 1 /\ closes' = closes /\ careless' = careless
        /\ fault' = IF client.alive THEN "none" ELSE UseAfterFree
        /\ \/ ConnectCalled(c, f, outcome) /\ client.alive
           \/ UNCHANGED <<net, client, stack, clashed>>
    BY <1>4 DEF DoReconnect, LoopIdle
  <2>2. timers' \in Nat /\ timers' <= timers /\ fault' \in {"none", UseAfterFree}
    BY <1>1, <2>1
  <2>3. fault' # "none" => careless
    BY <1>1, <2>1 DEF Careful, ClientGoing
  <2>4. CASE UNCHANGED <<net, client, stack, clashed>>
    BY <1>2, <2>1, <2>2, <2>3, <2>4
  <2>5. CASE HandleConnect(c, f, outcome) /\ client.alive
    <3>1. Len(stack) < MaxFrames
      BY <1>1, <2>1, EmptySeq
    <3>2. ~ClientGoing
      BY <1>1, <2>1, <2>5, FramesType DEF ClientGoing
    <3> QED BY <2>1, <2>2, <2>3, <2>5, <3>1, <3>2, ConnectStep
  <2> QED BY <2>1, <2>4, <2>5 DEF ConnectCalled
<1> QED BY <1>3, <1>4

LEMMA SendStep ==
    ASSUME IInv, NEW c \in Conns, Send(c)
    PROVE  IInv'
<1>1. /\ Typed /\ Sound(net, clashed) /\ State(c) = "Connected" /\ net \in Nets
      /\ timers \in Nat /\ fault = "none"
  BY DEF IInv, Typed, Send, AppRuns, Sound
<1>2. PICK ev : ev = net.conn[c].events \cup {"write"}
  OBVIOUS
<1>3. ev \in SUBSET {"read", "write"} /\ ("read" \in net.conn[c].events => "read" \in ev)
  BY <1>1, <1>2 DEF Nets, Connection
<1>3a. PICK b \in BOOLEAN : b = TRUE
  OBVIOUS
<1>4. net' = WithOutput(Watch(net, c, ev), c, b)
  BY <1>2, <1>3a DEF Send, WithOutput
<1>5. Sound(net', clashed) /\ \A d \in Conns : net'.conn[d].state = net.conn[d].state
  <2>1. Sound(net, clashed) /\ net.conn[c].state = "Connected" /\ b \in BOOLEAN
    BY <1>1, <1>3a DEF State
  <2> QED BY <2>1, <1>3, <1>4, OutputSound
<1>6. /\ stack' = stack /\ kept' = kept /\ closes' = closes /\ clashed' = clashed
      /\ careless' = careless /\ client' = client /\ timers' = timers /\ fault' = fault
  BY DEF Send
<1> QED BY <1>1, <1>5, <1>6, QuietStep DEF State, Typed

LEMMA ShutDownSteps ==
    ASSUME IInv, (\E c \in Conns : Shutdown(c)) \/ Disconnect
    PROVE  IInv'
<1>1. /\ Typed /\ Sound(net, clashed) /\ net \in Nets
      /\ timers \in Nat
  BY DEF IInv, Typed, Sound
<1>2. /\ stack' = stack /\ kept' = kept /\ closes' = closes /\ clashed' = clashed
      /\ careless' = careless /\ timers' = timers /\ fault' = fault /\ fault = "none"
  BY DEF Shutdown, Disconnect, Usable, AppRuns
<1>3. /\ client' \in [alive : BOOLEAN, started : BOOLEAN, auto : BOOLEAN,
                      connection : Conns \cup {None}]
      /\ client'.alive = client.alive /\ client'.connection = client.connection
      /\ client'.auto => client.auto
  BY <1>1 DEF Shutdown, Disconnect, Typed
<1>4. net' = net \/ \E c \in Conns : net' = ShutDown(c)
  <2>1. client.connection \in Conns \cup {None}
    BY <1>1 DEF Typed
  <2> QED BY <2>1 DEF Shutdown, Disconnect
<1>5. /\ Sound(net', clashed)
      /\ \A d \in Conns :
            \/ net'.conn[d].state = State(d)
            \/ Live(d) /\ net'.conn[d].state \in {"Disconnecting", "Disconnected"}
  <2>1. CASE net' = net
    BY <1>1, <2>1 DEF State
  <2>2. ASSUME NEW c \in Conns, net' = ShutDown(c)
        PROVE  /\ Sound(net', clashed)
               /\ \A d \in Conns :
                     \/ net'.conn[d].state = State(d)
                     \/ Live(d) /\ net'.conn[d].state \in {"Disconnecting", "Disconnected"}
    <3>1. /\ Sound(net', clashed)
          /\ \A d \in Conns \ {c} : net'.conn[d] = net.conn[d]
          /\ \/ net'.conn[c].state = net.conn[c].state
             \/ Open(net, c) /\ net'.conn[c].state \in {"Disconnecting", "Disconnected"}
      BY <1>1, <2>2, ShutDownSound
    <3> QED BY <3>1 DEF Open, Live, State
  <2> QED BY <1>4, <2>1, <2>2
<1> QED BY <1>1, <1>2, <1>3, <1>5, QuietStep

LEMMA SetAutoReconnectStep ==
    ASSUME IInv, NEW enable \in BOOLEAN, SetAutoReconnect(enable)
    PROVE  IInv'
<1>1. Typed /\ Sound(net, clashed) /\ timers \in Nat
  BY DEF IInv, Typed
<1>2. /\ stack' = stack /\ kept' = kept /\ closes' = closes /\ clashed' = clashed
      /\ careless' = careless /\ timers' = timers /\ fault' = fault /\ fault = "none"
      /\ net' = net
      /\ client' \in [alive : BOOLEAN, started : BOOLEAN, auto : BOOLEAN,
                      connection : Conns \cup {None}]
      /\ client'.alive = client.alive /\ client'.connection = client.connection
  BY <1>1 DEF SetAutoReconnect, Typed, Usable, AppRuns
<1>3. ~ClientGoing
  BY DEF SetAutoReconnect, Usable, ClientGoing, Frames
<1>4. \A d \in Conns : net'.conn[d].state = State(d)
  BY <1>2 DEF State
<1> QED BY <1>1, <1>2, <1>3, <1>4, QuietStep

LEMMA LinkStep ==
    ASSUME IInv, NEW c \in Conns, NEW from, NEW to \in {"pending", "up", "gone"},
           LinkChanges(c, from, to)
    PROVE  IInv'
<1>1. /\ Typed /\ Sound(net, clashed) /\ net \in Nets /\ timers \in Nat /\ fault = "none"
      /\ net.conn[c].state # "Unborn"
  BY DEF IInv, Typed, Sound, LinkChanges, State
<1>2. /\ stack' = stack /\ kept' = kept /\ closes' = closes /\ clashed' = clashed
      /\ careless' = careless /\ timers' = timers /\ fault' = fault /\ client' = client
      /\ net' = WithLink(net, c, to)
  BY DEF LinkChanges, WithLink
<1>3. Beside(net', net, c) /\ net'.conn[c].state = net.conn[c].state
  BY <1>1, <1>2, LinkIs
<1>4. Sound(net', clashed)
  BY <1>1, <1>3, BesideKeeps
<1>5. \A d \in Conns : net'.conn[d].state = State(d)
  BY <1>3 DEF Beside, State
<1> QED BY <1>1, <1>2, <1>4, <1>5, QuietStep DEF Typed

\* The close callback is called for c, which n has taken off the poller.
LEMMA RemoveStep ==
    ASSUME IInv, NEW c \in Conns, NEW n, NEW at \in {"closed", "forced", "dying"},
           Live(c), Sound(n, clashed), \A d \in Conns \ {c} : n.conn[d] = net.conn[d],
           n.conn[c].state = "Disconnected",
           Len(stack) < MaxFrames, HandleRemove(n, c, at),
           kept' = kept, timers' = timers, clashed' = clashed, fault' = "none",
           careless' \in BOOLEAN,
           ~careless' => ~careless /\ (at # "forced" => c \in kept),
           ~careless' /\ at = "dying" =>
               timers = 0 /\ ~client.auto /\ \A d \in Conns : d # c => ~Live(d)
    PROVE  IInv'
<1> DEFINE old == client.connection
           fr0 == [at |-> at, conn |-> c]
<1>1. Typed /\ Standing /\ Careful
  BY DEF IInv
<1>2. /\ client' = [client EXCEPT !.connection = None]
      /\ stack' = Push(at, c)
      /\ closes' = [closes EXCEPT ![c] = @ + 1]
      /\ net' = LetGo(n, old, None, stack', kept)
  BY DEF HandleRemove
<1>3. /\ client' \in [alive : BOOLEAN, started : BOOLEAN, auto : BOOLEAN,
                      connection : Conns \cup {None}]
      /\ client'.alive = client.alive /\ client'.connection = None
      /\ client'.auto = client.auto
  BY <1>1, <1>2 DEF Typed
<1>4. /\ stack' \in Seq(Frame) /\ Len(stack') <= MaxFrames
      /\ Frames(stack') = Frames(stack) \cup {fr0}
  <2>1. at \in At
    BY DEF At
  <2> QED BY <1>1, <1>2, <2>1, PushIs
<1>5. Typed'
  <2>1. closes' \in [Conns -> Nat]
    BY <1>1, <1>2 DEF Typed
  <2> QED BY <1>1, <1>3, <1>4, <2>1 DEF Typed
<1>6. Held(c, client'.connection, stack', kept') /\ Held(c, None, stack', kept)
  <2>1. fr0 \in Frames(stack') /\ fr0.conn = c
    BY <1>4
  <2> QED BY <2>1, HeldIs
<1>7. /\ Sound(net', clashed)
      /\ \A d \in Conns :
            \/ net'.conn[d] = n.conn[d]
            \/ net'.conn[d].state = "Freed" /\ ~Held(d, None, stack', kept)
  <2>1. old \in Conns \cup {None} /\ (old # None => n.conn[old].state # "Unborn")
    <3>1. old \in Conns \cup {None}
      BY <1>1 DEF Typed
    <3>2. old # None => Held(old, old, stack, kept)
      BY DEF Held
    <3> QED BY <1>1, <3>1, <3>2 DEF Standing, State
  <2>2. net' = LetGo(n, old, None, stack', kept)
    BY <1>2
  <2> HIDE DEF old
  <2> QED BY <2>1, <2>2, LetGoSound
<1>8. net'.conn[c].state = "Disconnected"
  BY <1>6, <1>7
<1>9. ASSUME NEW d \in Conns
      PROVE  \/ net'.conn[d].state = State(d)
             \/ Live(d) /\ net'.conn[d].state \in {"Disconnecting", "Disconnected"}
             \/ /\ net'.conn[d].state = "Freed"
                /\ ~Held(d, client'.connection, stack', kept')
  <2>1. CASE d = c
    BY <1>8, <2>1
  <2>2. CASE d # c
    BY <1>3, <1>7, <2>2 DEF State
  <2> QED BY <2>1, <2>2
<1>10. ASSUME NEW d \in Conns, Held(d, client'.connection, stack', kept')
       PROVE  Held(d, client.connection, stack, kept) \/ State(d) \notin {"Unborn", "Freed"}
  <2>1. None = d \/ d \in kept \/ \E fr \in Frames(stack') : fr.conn = d
    BY <1>3, <1>10, HeldIs
  <2>2. d \in kept \/ d = c \/ \E fr \in Frames(stack) : fr.conn = d
    BY <1>4, <2>1 DEF Conns
  <2> QED BY <2>2, HeldIs DEF Live
<1>11. ASSUME ~careless', ClientGoing'
       PROVE  /\ timers' = 0 /\ ~client'.auto
              /\ \A d \in Conns : net'.conn[d].state \notin {"Connected", "Disconnecting"}
  <2>1. ~client.alive \/ at = "dying" \/ \E fr \in Frames(stack) : fr.at = "dying"
    BY <1>3, <1>4, <1>11 DEF ClientGoing
  <2>2. ~ClientGoing
    BY <1>1, <1>11 DEF Careful
  <2>3. at = "dying"
    BY <2>1, <2>2 DEF ClientGoing
  <2>4. timers = 0 /\ ~client.auto /\ \A d \in Conns : d # c => ~Live(d)
    BY <1>11, <2>3
  <2> QED BY <1>3, <1>8, <1>9, <2>4 DEF Live
<1>12. Standing' /\ Closing' /\ Careful'
  <2>1. \A fr \in Frames(stack') :
           \/ fr \in Frames(stack)
           \/ /\ fr.at \in {"closed", "forced", "dying"} =>
                    net'.conn[fr.conn].state = "Disconnected"
              /\ ~careless' /\ fr.at \in {"message", "closed", "dying"} => fr.conn \in kept'
    <3>1. fr0.at = at /\ fr0.conn = c
      OBVIOUS
    <3> HIDE DEF fr0
    <3> QED BY <1>4, <1>8, <3>1
  <2>2. Frames(stack) \subseteq Frames(stack')
    BY <1>4
  <2> QED BY <1>5, <1>9, <1>10, <1>11, <2>1, <2>2, ControlKeeps
<1>13. Leaving' /\ CarefulIsSafe'
  BY <1>3 DEF Leaving, CarefulIsSafe
<1> QED BY <1>5, <1>7, <1>12, <1>13 DEF IInv

\* A connection that the loop calls into is open, and a careful application
\* keeps it.
LEMMA ReadyIs ==
    ASSUME IInv, NEW c \in Conns, Ready(c)
    PROVE  Live(c) /\ stack = <<>> /\ fault = "none" /\ Len(stack) < MaxFrames
           /\ (~careless => c \in kept /\ ~ClientGoing)
<1>1. Typed /\ Sound(net, clashed) /\ Careful /\ MaxFrames \in Nat \ {0}
  BY DEF IInv
<1>2. stack = <<>> /\ fault = "none"
  BY DEF Ready, LoopIdle
<1>3. PICK f \in Fds : f \in net.poller.epoll /\ net.poller.map[f] = c
  <2>1. net.poller.epoll \subseteq Fds
    BY <1>1 DEF Sound, Nets
  <2> QED BY <2>1 DEF Ready
<1>4. Live(c)
  <2>1. Agreed(net, f) /\ Numbered(net, c) /\ c # None /\ f # Invalid
    BY <1>1 DEF Sound, Conns, Invalid
  <2>2. net.conn[c].events # {} /\ net.conn[c].sockfd = f
    BY <1>3, <2>1 DEF Agreed
  <2>3. net.conn[c].state \notin {"Unborn", "Disconnected", "Freed"}
    BY <2>1, <2>2 DEF Numbered
  <2>4. net.conn[c] \in Connection
    BY <1>1 DEF Sound, Nets
  <2> QED BY <2>3, <2>4 DEF Connection, Live, State
<1>5. ~careless => c \in kept /\ ~ClientGoing
  BY <1>1, <1>2, <1>4, FramesType DEF Careful
<1>6. Len(stack) < MaxFrames
  BY <1>1, <1>2, EmptySeq
<1> QED BY <1>2, <1>4, <1>5, <1>6

LEMMA MessageStep ==
    ASSUME IInv, NEW c \in Conns, HandleRead(c) \/ HandleWrite(c)
    PROVE  IInv'
<1>1. /\ Typed /\ Sound(net, clashed) /\ net \in Nets /\ Careful /\ Leaving /\ Ready(c)
  BY DEF IInv, Sound, HandleRead, HandleWrite
<1>2. /\ stack' = Push("message", c)
      /\ kept' = kept /\ closes' = closes /\ clashed' = clashed /\ careless' = careless
      /\ timers' = timers /\ fault' = fault /\ client' = client
  BY DEF HandleRead, HandleWrite
<1>3. /\ Live(c) /\ stack = <<>> /\ fault = "none" /\ Len(stack) < MaxFrames
      /\ (~careless => c \in kept /\ ~ClientGoing)
  BY <1>1, ReadyIs
<1>4. Sound(net', clashed) /\ \A d \in Conns : net'.conn[d].state = net.conn[d].state
  <2>1. CASE net' = net
    BY <1>1, <2>1
  <2>2. CASE HandleWrite(c)
    <3>1. PICK ev : ev = net.conn[c].events \ {"write"}
      OBVIOUS
    <3>2. ev \in SUBSET {"read", "write"} /\ ("read" \in net.conn[c].events => "read" \in ev)
      BY <1>1, <3>1 DEF Nets, Connection
    <3>3. PICK b \in BOOLEAN : b = FALSE
      OBVIOUS
    <3>4. net' = WithOutput(Watch(net, c, ev), c, b)
      BY <2>2, <3>1, <3>3 DEF HandleWrite, WithOutput
    <3>5. Sound(net, clashed) /\ net.conn[c].state = "Connected" /\ b \in BOOLEAN
      BY <1>1, <2>2, <3>3 DEF HandleWrite, State
    <3> QED BY <3>2, <3>4, <3>5, OutputSound
  <2> QED BY <2>1, <2>2 DEF HandleRead
<1>5. PICK fr0 : fr0 = [at |-> "message", conn |-> c]
  OBVIOUS
<1>6. /\ stack' \in Seq(Frame) /\ Len(stack') <= MaxFrames
      /\ Frames(stack') = Frames(stack) \cup {fr0}
  BY <1>1, <1>2, <1>3, <1>5, PushIs DEF At
<1>7. Typed'
  BY <1>1, <1>2, <1>6 DEF Typed
<1>8. fr0.at = "message" /\ fr0.conn = c
  BY <1>5
<1>9. ClientGoing' <=> ClientGoing
  BY <1>2, <1>6, <1>8 DEF ClientGoing
<1>10. ASSUME NEW d \in Conns, Held(d, client'.connection, stack', kept')
       PROVE  Held(d, client.connection, stack, kept) \/ State(d) \notin {"Unborn", "Freed"}
  <2>1. client.connection = d \/ d \in kept \/ \E fr \in Frames(stack') : fr.conn = d
    BY <1>2, <1>10, HeldIs
  <2>2. client.connection = d \/ d \in kept \/ d = c \/ \E fr \in Frames(stack) : fr.conn = d
    BY <1>6, <1>8, <2>1
  <2> QED BY <1>3, <2>2, HeldIs DEF Live
<1>11. Standing' /\ Closing' /\ Careful'
  <2>1. \A fr \in Frames(stack') :
           \/ fr \in Frames(stack)
           \/ /\ fr.at \in {"closed", "forced", "dying"} =>
                    net'.conn[fr.conn].state = "Disconnected"
              /\ ~careless' /\ fr.at \in {"message", "closed", "dying"} => fr.conn \in kept'
    BY <1>2, <1>3, <1>6, <1>8
  <2>2. Frames(stack) \subseteq Frames(stack')
    BY <1>6
  <2>3. \A d \in Conns : net'.conn[d].state = State(d)
    BY <1>4 DEF State
  <2>4. ~careless' => ~ClientGoing'
    BY <1>2, <1>3, <1>9
  <2> QED BY <1>2, <1>7, <1>10, <2>1, <2>2, <2>3, <2>4, ControlKeeps
<1>12. Leaving' /\ CarefulIsSafe'
  BY <1>1, <1>2, <1>3, <1>9 DEF Leaving, CarefulIsSafe
<1> QED BY <1>2, <1>3, <1>4, <1>7, <1>11, <1>12 DEF IInv

\* A callback into a client that is gone happens to no careful application.
LEMMA FaultStep ==
    ASSUME IInv, fault' = UseAfterFree, careless,
           UNCHANGED <<client, net, stack, kept, timers, closes, clashed, careless>>
    PROVE  IInv'
<1>1. Typed /\ Sound(net, clashed) /\ timers \in Nat
  BY DEF IInv, Typed
<1>2. Sound(net', clashed)
  BY <1>1
<1>3. /\ stack' = stack /\ kept' = kept /\ closes' = closes /\ clashed' = clashed
      /\ careless' = careless /\ timers' = timers /\ client' = client
      /\ \A d \in Conns : net'.conn[d].state = State(d)
  BY DEF State
<1> QED BY <1>1, <1>2, <1>3, QuietStep DEF Typed

LEMMA ForceCloseStep ==
    ASSUME IInv, NEW c \in Conns, ForceClose(c)
    PROVE  IInv'
<1>1. /\ Typed /\ Sound(net, clashed) /\ Careful /\ Live(c) /\ Open(net, c)
      /\ fault = "none" /\ Len(stack) < MaxFrames
  BY DEF IInv, ForceClose, AppRuns, Live, State, Open
<1>2. kept' = kept /\ timers' = timers /\ clashed' = clashed /\ careless' = careless
  BY DEF ForceClose
<1>3. CASE client.alive
  <2>1. PICK n : n = Off(net, c)
    OBVIOUS
  <2>2. PICK at \in {"closed", "forced", "dying"} : at = "forced"
    OBVIOUS
  <2>3. HandleRemove(n, c, at) /\ fault' = "none"
    BY <1>1, <1>3, <2>1, <2>2 DEF ForceClose, ForcedClose
  <2>4. /\ Sound(n, clashed)
        /\ \A d \in Conns \ {c} : n.conn[d] = net.conn[d]
        /\ n.conn[c].state = "Disconnected"
    BY <1>1, <2>1, OffSound
  <2>5. /\ careless' \in BOOLEAN /\ (~careless' => ~careless /\ (at # "forced" => c \in kept))
        /\ at # "dying"
    BY <1>1, <1>2, <2>2 DEF Typed
  <2> QED BY <1>1, <1>2, <2>3, <2>4, <2>5, RemoveStep
<1>4. CASE ~client.alive
  <2>1. careless
    BY <1>1, <1>4 DEF Careful, ClientGoing
  <2>2. fault' = UseAfterFree /\ UNCHANGED <<client, net, stack, closes>>
    BY <1>4 DEF ForceClose
  <2> QED BY <1>2, <2>1, <2>2, FaultStep
<1> QED BY <1>3, <1>4

LEMMA HandleCloseStep ==
    ASSUME IInv, NEW c \in Conns, HandleClose(c)
    PROVE  IInv'
<1>1. Typed /\ Sound(net, clashed) /\ Ready(c)
  BY DEF IInv, HandleClose
<1>2. kept' = kept /\ timers' = timers /\ clashed' = clashed /\ careless' = careless
  BY DEF HandleClose
<1>3. /\ Live(c) /\ Open(net, c) /\ fault = "none" /\ Len(stack) < MaxFrames
      /\ (~careless => c \in kept /\ ~ClientGoing)
  BY <1>1, ReadyIs DEF Live, State, Open
<1>4. CASE client.alive
  <2>1. PICK n : n = Watch(WithState(net, c, "Disconnected"), c, {})
    OBVIOUS
  <2>2. PICK at \in {"closed", "forced", "dying"} : at = "closed"
    OBVIOUS
  <2>3. HandleRemove(n, c, at) /\ fault' = "none"
    BY <1>3, <1>4, <2>1, <2>2 DEF HandleClose, WithState
  <2>4. /\ Sound(n, clashed)
        /\ \A d \in Conns \ {c} : n.conn[d] = net.conn[d]
        /\ n.conn[c].state = "Disconnected"
    BY <1>1, <1>3, <2>1, TakenOffSound
  <2>5. /\ careless' \in BOOLEAN /\ (~careless' => ~careless /\ (at # "forced" => c \in kept))
        /\ at # "dying"
    BY <1>1, <1>2, <1>3, <2>2 DEF Typed
  <2> QED BY <1>2, <1>3, <2>3, <2>4, <2>5, RemoveStep
<1>5. CASE ~client.alive
  <2>1. careless
    BY <1>3, <1>5 DEF ClientGoing
  <2>2. fault' = UseAfterFree /\ UNCHANGED <<client, net, stack, closes>>
    BY <1>5 DEF HandleClose
  <2> QED BY <1>2, <2>1, <2>2, FaultStep
<1> QED BY <1>4, <1>5

LEMMA KeepStep ==
    ASSUME IInv, Keep
    PROVE  IInv'
<1>1. /\ Typed /\ Sound(net, clashed) /\ Careful /\ Leaving /\ fault = "none"
      /\ client.connection \in Conns
  BY DEF IInv, Keep, Usable, AppRuns, Typed
<1>2. /\ kept' = kept \cup {client.connection}
      /\ client' = client /\ net' = net /\ stack' = stack /\ timers' = timers
      /\ fault' = fault /\ closes' = closes /\ clashed' = clashed /\ careless' = careless
  BY DEF Keep
<1>3. Typed'
  BY <1>1, <1>2 DEF Typed
<1>4. \A d \in Conns : Held(d, client'.connection, stack', kept') =>
         Held(d, client.connection, stack, kept)
  BY <1>2, HeldIs
<1>5. ~ClientGoing /\ ~ClientGoing'
  BY <1>2 DEF Keep, Usable, ClientGoing, Frames
<1>6. \A d \in Conns : net'.conn[d].state = State(d)
  BY <1>2 DEF State
<1>7. Standing' /\ Closing' /\ Careful'
  BY <1>2, <1>3, <1>4, <1>5, <1>6, ControlKeeps
<1>8. Leaving' /\ CarefulIsSafe'
  BY <1>1, <1>2, <1>5 DEF Leaving, CarefulIsSafe
<1>9. Sound(net', clashed')
  BY <1>1, <1>2
<1> QED BY <1>1, <1>2, <1>3, <1>7, <1>8, <1>9 DEF IInv

LEMMA DropStep ==
    ASSUME IInv, NEW c \in Conns, Drop(c)
    PROVE  IInv'
<1>1. /\ Typed /\ Sound(net, clashed) /\ Careful /\ Leaving /\ Standing /\ fault = "none"
      /\ c \in kept
  BY DEF IInv, Drop, AppRuns
<1>2. PICK less : less = kept \ {c}
  OBVIOUS
<1>3. /\ kept' = less /\ net' = LetGo(net, c, client.connection, stack, less)
      /\ careless' = (careless \/ stack # <<>> \/ State(c) # "Disconnected")
      /\ client' = client /\ stack' = stack /\ timers' = timers
      /\ fault' = fault /\ closes' = closes /\ clashed' = clashed
  BY <1>2 DEF Drop
<1>4. /\ Sound(net', clashed)
      /\ \A d \in Conns :
            \/ net'.conn[d] = net.conn[d]
            \/ net'.conn[d].state = "Freed" /\ ~Held(d, client.connection, stack, less)
  <2>1. net.conn[c].state # "Unborn" /\ Sound(net, clashed) /\ c \in Conns \cup {None}
        /\ net' = LetGo(net, c, client.connection, stack, less)
    BY <1>1, <1>3 DEF Standing, State, Held
  <2> QED BY <2>1, LetGoSound
<1>5. Typed'
  BY <1>1, <1>2, <1>3 DEF Typed
<1>6. \A d \in Conns : Held(d, client'.connection, stack', kept') =>
         Held(d, client.connection, stack, kept)
  BY <1>2, <1>3, HeldIs
<1>7. ClientGoing' <=> ClientGoing
  BY <1>3 DEF ClientGoing
<1>8. \A d \in Conns :
         \/ net'.conn[d].state = State(d)
         \/ net'.conn[d].state = "Freed" /\ ~Held(d, client'.connection, stack', kept')
  BY <1>3, <1>4 DEF State
<1>9. ~careless' =>
         /\ ~careless /\ Frames(stack') = {} /\ \A d \in kept \ kept' : ~Live(d)
         /\ ClientGoing' => timers' = 0 /\ ~client'.auto /\
               \A d \in Conns : net'.conn[d].state \notin {"Connected", "Disconnecting"}
  <2>1. ~careless' => ~careless /\ stack = <<>> /\ State(c) = "Disconnected"
    BY <1>3
  <2>2. \A d \in kept \ kept' : d = c
    BY <1>2, <1>3
  <2>3. stack = <<>> => Frames(stack) = {}
    BY <1>1, FramesType
  <2>4. ~careless /\ ClientGoing => timers = 0 /\ ~client.auto /\ \A d \in Conns : ~Live(d)
    BY <1>1 DEF Careful
  <2> QED BY <1>3, <1>7, <1>8, <2>1, <2>2, <2>3, <2>4 DEF Live
<1>10. Standing' /\ Closing' /\ Careful'
  BY <1>3, <1>5, <1>6, <1>8, <1>9, ControlKeeps
<1>11. Leaving' /\ CarefulIsSafe'
  BY <1>1, <1>3, <1>7 DEF Leaving, CarefulIsSafe
<1> QED BY <1>1, <1>3, <1>4, <1>5, <1>10, <1>11 DEF IInv

\* ~TcpClient.
LEMMA DestroyClientStep ==
    ASSUME IInv, DestroyClient
    PROVE  IInv'
<1> DEFINE c == client.connection
<1>1. /\ Typed /\ Sound(net, clashed) /\ Careful /\ Leaving /\ Standing
      /\ MaxFrames \in Nat \ {0} /\ fault = "none" /\ stack = <<>> /\ c \in Conns \cup {None}
  BY DEF IInv, DestroyClient, LoopIdle, Typed
<1>2. /\ kept' = kept /\ timers' = timers /\ fault' = "none" /\ clashed' = clashed
      /\ careless' = (careless \/ timers > 0 \/ client.auto
                               \/ \E d \in Conns : d # c /\ Live(d))
  BY <1>1 DEF DestroyClient
<1>3. /\ careless' \in BOOLEAN
      /\ ~careless' => ~careless /\ timers = 0 /\ ~client.auto
                          /\ \A d \in Conns : d # c => ~Live(d)
  <2> HIDE DEF c
  <2>1. careless \in BOOLEAN /\ client.auto \in BOOLEAN /\ timers \in Nat
    BY <1>1 DEF Typed
  <2>2. careless' = (careless \/ timers > 0 \/ client.auto
                              \/ \E d \in Conns : d # c /\ Live(d))
    BY <1>2
  <2>3. careless' \in BOOLEAN
    BY <2>2
  <2>4. ~careless' => ~careless /\ ~(timers > 0) /\ ~client.auto
                        /\ \A d \in Conns : d # c => ~Live(d)
    BY <2>2
  <2>5. ~(timers > 0) => timers = 0
    BY <2>1
  <2> QED BY <2>3, <2>4, <2>5
<1>4. Frames(stack) = {}
  BY <1>1, FramesType
<1>5. CASE MustForceClose(c)
  <2>1. c \in Conns /\ Live(c) /\ Open(net, c)
    BY <1>1, <1>5 DEF MustForceClose, Live, State, Open
  <2>2. PICK n : n = Off(net, c)
    OBVIOUS
  <2>3. PICK at \in {"closed", "forced", "dying"} : at = "dying"
    OBVIOUS
  <2>4. HandleRemove(n, c, at)
    BY <1>5, <2>2, <2>3 DEF DestroyClient, ForcedClose
  <2>5. /\ Sound(n, clashed)
        /\ \A d \in Conns \ {c} : n.conn[d] = net.conn[d]
        /\ n.conn[c].state = "Disconnected"
    <3> HIDE DEF c
    <3> QED BY <1>1, <2>1, <2>2, OffSound
  <2>6. ~careless' => c \in kept
    BY <1>1, <1>3, <1>4, <2>1 DEF Careful
  <2>7. Len(stack) < MaxFrames
    BY <1>1, EmptySeq
  <2> HIDE DEF c
  <2> QED BY <1>2, <1>3, <2>1, <2>4, <2>5, <2>6, <2>7, RemoveStep
<1>6. CASE ~MustForceClose(c)
  <2>1. /\ client' = [client EXCEPT !.alive = FALSE, !.connection = None]
        /\ net' = LetGo(net, c, None, stack, kept)
        /\ stack' = stack /\ closes' = closes
    BY <1>6 DEF DestroyClient
  <2>2. /\ client' \in [alive : BOOLEAN, started : BOOLEAN, auto : BOOLEAN,
                        connection : Conns \cup {None}]
        /\ client'.connection = None /\ client'.auto = client.auto
    BY <1>1, <2>1 DEF Typed
  <2>3. /\ Sound(net', clashed)
        /\ \A d \in Conns :
              \/ net'.conn[d] = net.conn[d]
              \/ net'.conn[d].state = "Freed" /\ ~Held(d, None, stack, kept)
    <3>1. c # None => Held(c, c, stack, kept)
      BY DEF Held
    <3>2. c # None => net.conn[c].state # "Unborn"
      BY <1>1, <3>1 DEF Standing, State
    <3>3. net' = LetGo(net, c, None, stack, kept)
      BY <2>1
    <3> HIDE DEF c
    <3> QED BY <1>1, <3>2, <3>3, LetGoSound, SMTT(30)
  <2>4. Typed'
    BY <1>1, <1>2, <1>3, <2>1, <2>2 DEF Typed
  <2>5. \A d \in Conns : Held(d, client'.connection, stack', kept') =>
           Held(d, client.connection, stack, kept)
    BY <1>2, <2>1, <2>2, HeldIs DEF Conns
  <2>6. \A d \in Conns :
           \/ net'.conn[d].state = State(d)
           \/ net'.conn[d].state = "Freed" /\ ~Held(d, client'.connection, stack', kept')
    BY <1>2, <2>1, <2>2, <2>3 DEF State
  <2>7. ~careless' => /\ ~careless /\ timers' = 0 /\ ~client'.auto
                      /\ \A d \in Conns : net'.conn[d].state \notin {"Connected", "Disconnecting"}
    <3>1. ~careless' => \A d \in Conns : ~Live(d)
      <4>1. c \in Conns => ~Live(c)
        BY <1>6 DEF MustForceClose, Conns
      <4> HIDE DEF c
      <4> QED BY <1>3, <4>1
    <3> QED BY <1>2, <1>3, <2>2, <2>6, <3>1 DEF Live
  <2>8. Standing' /\ Closing' /\ Careful'
    BY <1>2, <1>4, <2>1, <2>4, <2>5, <2>6, <2>7, ControlKeeps
  <2>9. Leaving' /\ CarefulIsSafe'
    BY <1>2, <2>2 DEF Leaving, CarefulIsSafe
  <2> QED BY <1>2, <2>3, <2>4, <2>8, <2>9 DEF IInv
<1> QED BY <1>5, <1>6

\* A callback returns: the pointers its frame held go.
LEMMA ReturnStep ==
    ASSUME IInv, stack # <<>>, stack' = Popped, kept' = kept, closes' = closes,
           clashed' = clashed, careless' \in BOOLEAN,
           ~careless' => ~careless /\ (Top.at = "connected" => Top.conn \in kept),
           client' \in [alive : BOOLEAN, started : BOOLEAN, auto : BOOLEAN,
                        connection : Conns \cup {None}],
           client'.connection = client.connection, client'.auto = client.auto,
           client'.alive = client.alive \/ Top.at = "dying",
           timers' \in Nat, timers' = timers \/ client.auto,
           Sound(net', clashed),
           \A d \in Conns :
              \/ net'.conn[d].state = State(d)
              \/ /\ net'.conn[d].state = "Freed"
                 /\ ~Held(d, client.connection, Popped, kept),
           fault' \in {"none", UseAfterFree}, fault' # "none" => careless'
    PROVE  IInv'
<1>1. Typed /\ Careful /\ Leaving
  BY DEF IInv
<1>2. /\ stack' \in Seq(Frame) /\ Len(stack') <= MaxFrames
      /\ Frames(stack) = Frames(stack') \cup {Top}
  BY <1>1, PopIs
<1>3. Typed'
  BY <1>1, <1>2 DEF Typed
<1>4. ClientGoing' => ClientGoing
  BY <1>2 DEF ClientGoing
<1>5. Leaving'
  BY <1>1, <1>4 DEF Leaving
<1>6. \A d \in Conns : Held(d, client'.connection, stack', kept') =>
         Held(d, client.connection, stack, kept)
  BY <1>2, HeldIs
<1>7. \A d \in Conns :
         [at |-> "connected", conn |-> d] \in Frames(stack) \ Frames(stack') =>
            Top.at = "connected" /\ Top.conn = d
  BY <1>2
<1>8. ~careless' /\ ClientGoing' =>
         /\ timers' = 0 /\ ~client'.auto
         /\ \A d \in Conns : net'.conn[d].state \notin {"Connected", "Disconnecting"}
  BY <1>1, <1>4 DEF Careful, Live
<1>9. Standing' /\ Closing' /\ Careful'
  <2>1. \A fr \in Frames(stack') : fr \in Frames(stack)
    BY <1>2
  <2>2. ~careless' =>
           \A d \in Conns :
              [at |-> "connected", conn |-> d] \in Frames(stack) \ Frames(stack') => d \in kept'
    BY <1>7
  <2>3. \A d \in Conns :
           \/ net'.conn[d].state = State(d)
           \/ net'.conn[d].state = "Freed" /\ ~Held(d, client'.connection, stack', kept')
    OBVIOUS
  <2> QED BY <1>3, <1>6, <1>8, <2>1, <2>2, <2>3, ControlKeeps
<1>10. CarefulIsSafe'
  BY DEF CarefulIsSafe
<1> QED BY <1>3, <1>5, <1>9, <1>10 DEF IInv

\* The connection a returning callback was about.
LEMMA TopIs ==
    ASSUME IInv, stack # <<>>
    PROVE  /\ Top.conn \in Conns /\ State(Top.conn) \notin {"Unborn", "Freed"}
           /\ Top.at \in {"closed", "forced", "dying"} => State(Top.conn) = "Disconnected"
           /\ ~careless /\ Top.at \in {"message", "closed", "dying"} => ~GoneAfter(Top.conn)
           /\ Top.at = "dying" => client.connection = None
<1>1. Typed /\ Standing /\ Closing /\ Careful /\ Leaving
  BY DEF IInv
<1>2. Top \in Frame /\ Top \in Frames(stack)
  BY <1>1, PopIs
<1>3. Top.conn \in Conns /\ Held(Top.conn, client.connection, stack, kept)
  BY <1>2, HeldIs DEF Frame
<1>4. ~careless /\ Top.at \in {"message", "closed", "dying"} => ~GoneAfter(Top.conn)
  BY <1>1, <1>2 DEF Careful, GoneAfter, Held
<1>5. Top.at = "dying" => client.connection = None
  BY <1>1, <1>2 DEF Leaving, ClientGoing
<1> QED BY <1>1, <1>2, <1>3, <1>4, <1>5 DEF Standing, Closing

\* The end of the close callback schedules a reconnection only if the client
\* wants one.
LEMMA RemoveDoneIs ==
    ASSUME Typed, timers' = IF Reconnecting THEN timers + 1 ELSE timers
    PROVE  timers' \in Nat /\ (timers' = timers \/ client.auto) /\ Reconnecting \in BOOLEAN
<1>1. timers \in Nat /\ client.auto \in BOOLEAN /\ client.started \in BOOLEAN
  BY DEF Typed
<1>2. CASE Reconnecting
  BY <1>1, <1>2 DEF Reconnecting
<1>3. CASE ~Reconnecting
  BY <1>1, <1>3 DEF Reconnecting
<1> QED BY <1>2, <1>3

\* What the frame held is let go.
LEMMA PopSound ==
    ASSUME IInv, stack # <<>>,
           net' = LetGo(net, Top.conn, client.connection, Popped, kept)
    PROVE  /\ Sound(net', clashed)
           /\ \A d \in Conns :
                 \/ net'.conn[d].state = State(d)
                 \/ /\ net'.conn[d].state = "Freed"
                    /\ ~Held(d, client.connection, Popped, kept)
<1>1. Sound(net, clashed)
  BY DEF IInv
<1>2. Top.conn \in Conns /\ net.conn[Top.conn].state # "Unborn"
  BY TopIs DEF State
<1>3. PICK c \in Conns : c = Top.conn
  BY <1>2
<1>4. net.conn[c].state # "Unborn" /\ c \in Conns \cup {None}
      /\ net' = LetGo(net, c, client.connection, Popped, kept)
  BY <1>2, <1>3
<1>5. /\ Sound(net', clashed)
      /\ \A d \in Conns :
            \/ net'.conn[d] = net.conn[d]
            \/ net'.conn[d].state = "Freed" /\ ~Held(d, client.connection, Popped, kept)
  BY <1>1, <1>4, LetGoSound
<1> QED BY <1>5 DEF State

LEMMA ConnectedReturnsStep ==
    ASSUME IInv, ConnectedReturns
    PROVE  IInv'
<1>1. Typed /\ stack # <<>> /\ fault = "none" /\ timers \in Nat
  BY DEF IInv, ConnectedReturns, Returns, Typed
<1>2. /\ stack' = Popped /\ client' = client /\ kept' = kept /\ timers' = timers
      /\ fault' = fault /\ closes' = closes /\ clashed' = clashed
      /\ net' = LetGo(net, Top.conn, client.connection, Popped, kept)
      /\ careless' = (careless \/ Top.conn \notin kept)
  BY DEF ConnectedReturns
<1>3. careless' \in BOOLEAN /\ (~careless' => ~careless /\ Top.conn \in kept)
  BY <1>2
<1>4. /\ Sound(net', clashed)
      /\ \A d \in Conns :
            \/ net'.conn[d].state = State(d)
            \/ /\ net'.conn[d].state = "Freed"
               /\ ~Held(d, client.connection, Popped, kept)
  BY <1>1, <1>2, PopSound
<1> QED BY <1>1, <1>2, <1>3, <1>4, ReturnStep DEF Typed

LEMMA MessageReturnsStep ==
    ASSUME IInv, MessageReturns
    PROVE  IInv'
<1>1. Typed /\ stack # <<>> /\ fault = "none" /\ timers \in Nat /\ Top.at = "message"
  BY DEF IInv, MessageReturns, Returns, Typed
<1>2. /\ stack' = Popped /\ client' = client /\ kept' = kept /\ timers' = timers
      /\ closes' = closes /\ clashed' = clashed /\ careless' = careless
      /\ net' = LetGo(net, Top.conn, client.connection, Popped, kept)
      /\ fault' = IF GoneAfter(Top.conn) THEN UseAfterFree ELSE "none"
  BY DEF MessageReturns
<1>3. fault' \in {"none", UseAfterFree} /\ (fault' # "none" => careless)
  BY <1>1, <1>2, TopIs
<1>4. /\ Sound(net', clashed)
      /\ \A d \in Conns :
            \/ net'.conn[d].state = State(d)
            \/ /\ net'.conn[d].state = "Freed"
               /\ ~Held(d, client.connection, Popped, kept)
  BY <1>1, <1>2, PopSound
<1>5. careless' \in BOOLEAN /\ Top.at # "connected"
  BY <1>1, <1>2 DEF Typed
<1> QED BY <1>1, <1>2, <1>3, <1>4, <1>5, ReturnStep DEF Typed

LEMMA ForcedReturnsStep ==
    ASSUME IInv, ForcedReturns
    PROVE  IInv'
<1>1. Typed /\ stack # <<>> /\ fault = "none" /\ Top.at = "forced"
  BY DEF IInv, ForcedReturns, Returns
<1>2. /\ stack' = Popped /\ kept' = kept /\ fault' = fault
      /\ closes' = closes /\ clashed' = clashed /\ careless' = careless
      /\ net' = LetGo(net, Top.conn, client.connection, Popped, kept)
      /\ timers' = IF Reconnecting THEN timers + 1 ELSE timers
      /\ client' = [client EXCEPT !.started = Reconnecting]
  BY DEF ForcedReturns, RemoveDone
<1>3. timers' \in Nat /\ (timers' = timers \/ client.auto) /\ Reconnecting \in BOOLEAN
  BY <1>1, <1>2, RemoveDoneIs
<1>4. /\ Sound(net', clashed)
      /\ \A d \in Conns :
            \/ net'.conn[d].state = State(d)
            \/ /\ net'.conn[d].state = "Freed"
               /\ ~Held(d, client.connection, Popped, kept)
  BY <1>1, <1>2, PopSound
<1>5. /\ client' \in [alive : BOOLEAN, started : BOOLEAN, auto : BOOLEAN,
                      connection : Conns \cup {None}]
      /\ client'.connection = client.connection /\ client'.auto = client.auto
      /\ client'.alive = client.alive
  BY <1>1, <1>2, <1>3 DEF Typed
<1>6. careless' \in BOOLEAN /\ Top.at # "connected"
  BY <1>1, <1>2 DEF Typed
<1> QED BY <1>1, <1>2, <1>3, <1>4, <1>5, <1>6, ReturnStep

LEMMA ClosedReturnsStep ==
    ASSUME IInv, ClosedReturns
    PROVE  IInv'
<1>1. Typed /\ Sound(net, clashed) /\ stack # <<>> /\ fault = "none" /\ Top.at = "closed"
  BY DEF IInv, ClosedReturns, Returns
<1>2. /\ stack' = Popped /\ kept' = kept
      /\ closes' = closes /\ clashed' = clashed /\ careless' = careless
      /\ net' = IF GoneAfter(Top.conn) THEN Destroyed(net, Top.conn)
                ELSE CloseSocket(net, Top.conn)
      /\ fault' = IF GoneAfter(Top.conn) THEN UseAfterFree ELSE "none"
      /\ timers' = IF Reconnecting THEN timers + 1 ELSE timers
      /\ client' = [client EXCEPT !.started = Reconnecting]
  BY DEF ClosedReturns, RemoveDone
<1>3. timers' \in Nat /\ (timers' = timers \/ client.auto) /\ Reconnecting \in BOOLEAN
  BY <1>1, <1>2, RemoveDoneIs
<1>4. PICK c \in Conns : c = Top.conn
  BY <1>1, TopIs
<1>5. net.conn[c].state = "Disconnected" /\ net.conn[c].state # "Unborn"
  BY <1>1, <1>4, TopIs DEF State
<1>6. /\ Sound(net', clashed)
      /\ \A d \in Conns :
            \/ net'.conn[d].state = State(d)
            \/ /\ net'.conn[d].state = "Freed"
               /\ ~Held(d, client.connection, Popped, kept)
  <2>1. CASE GoneAfter(c)
    <3>1. net' = Destroyed(net, c)
      BY <1>2, <1>4, <2>1
    <3>2. /\ Sound(net', clashed)
          /\ \A d \in Conns \ {c} : net'.conn[d] = net.conn[d]
          /\ net'.conn[c].state = "Freed"
      <4>1. Sound(net, clashed) /\ net.conn[c].state # "Unborn"
        BY <1>1, <1>5
      <4> QED BY <3>1, <4>1, DestroyedSound
    <3> QED BY <2>1, <3>2 DEF GoneAfter, State
  <2>2. CASE ~GoneAfter(c)
    <3>1. net' = CloseSocket(net, c)
      BY <1>2, <1>4, <2>2
    <3>2. /\ Sound(net', clashed)
          /\ \A d \in Conns \ {c} : net'.conn[d] = net.conn[d]
          /\ net'.conn[c].state = "Disconnected"
      <4>1. Sound(net, clashed) /\ net.conn[c].state = "Disconnected"
        BY <1>1, <1>5
      <4> QED BY <3>1, <4>1, CloseSound
    <3> QED BY <1>5, <3>2 DEF State
  <2> QED BY <2>1, <2>2
<1>7. fault' \in {"none", UseAfterFree} /\ (fault' # "none" => careless)
  BY <1>1, <1>2, TopIs
<1>8. /\ client' \in [alive : BOOLEAN, started : BOOLEAN, auto : BOOLEAN,
                      connection : Conns \cup {None}]
      /\ client'.connection = client.connection /\ client'.auto = client.auto
      /\ client'.alive = client.alive
  BY <1>1, <1>2, <1>3 DEF Typed
<1>9. careless' \in BOOLEAN /\ Top.at # "connected"
  BY <1>1, <1>2 DEF Typed
<1> QED BY <1>1, <1>2, <1>3, <1>6, <1>7, <1>8, <1>9, ReturnStep

LEMMA DyingReturnsStep ==
    ASSUME IInv, DyingReturns
    PROVE  IInv'
<1>1. Typed /\ stack # <<>> /\ fault = "none" /\ Top.at = "dying"
  BY DEF IInv, DyingReturns, Returns
<1>2. client.connection = None
  BY <1>1, TopIs
<1>3. /\ stack' = Popped /\ kept' = kept
      /\ closes' = closes /\ clashed' = clashed /\ careless' = careless
      /\ net' = LetGo(net, Top.conn, client.connection, Popped, kept)
      /\ fault' = IF GoneAfter(Top.conn) THEN UseAfterFree ELSE "none"
      /\ timers' = IF Reconnecting THEN timers + 1 ELSE timers
      /\ client' = [client EXCEPT !.alive = FALSE, !.started = Reconnecting]
  BY <1>2 DEF DyingReturns
<1>4. timers' \in Nat /\ (timers' = timers \/ client.auto) /\ Reconnecting \in BOOLEAN
  BY <1>1, <1>3, RemoveDoneIs
<1>5. /\ Sound(net', clashed)
      /\ \A d \in Conns :
            \/ net'.conn[d].state = State(d)
            \/ /\ net'.conn[d].state = "Freed"
               /\ ~Held(d, client.connection, Popped, kept)
  BY <1>1, <1>3, PopSound
<1>6. fault' \in {"none", UseAfterFree} /\ (fault' # "none" => careless)
  BY <1>1, <1>3, TopIs
<1>7. /\ client' \in [alive : BOOLEAN, started : BOOLEAN, auto : BOOLEAN,
                      connection : Conns \cup {None}]
      /\ client'.connection = client.connection /\ client'.auto = client.auto
  BY <1>1, <1>3, <1>4 DEF Typed
<1>8. careless' \in BOOLEAN /\ Top.at # "connected"
  BY <1>1, <1>3 DEF Typed
<1> QED BY <1>1, <1>3, <1>4, <1>5, <1>6, <1>7, <1>8, ReturnStep

-----------------------------------------------------------------------------
(* The invariant, and what follows from it.                                *)

LEMMA InitInv ==
    ASSUME Init
    PROVE  IInv
<1>1. /\ client = [alive |-> TRUE, started |-> FALSE, auto |-> FALSE, connection |-> None]
      /\ net = [conn |-> [c \in Conns |-> Unborn], poller |-> NewPoller(Fds),
                kernel |-> [f \in Fds |-> None]]
      /\ stack = <<>> /\ kept = {} /\ timers = 0 /\ fault = "none"
      /\ closes = [c \in Conns |-> 0] /\ clashed = {} /\ careless = FALSE
  BY DEF Init
<1>2. stack \in Seq(Frame) /\ Len(stack) = 0 /\ Frames(stack) = {}
  <2>1. DOMAIN stack = {}
    BY <1>1, EmptySeq
  <2> QED BY <1>1, <2>1, EmptySeq DEF Frames
<1>3. Typed
  <2>1. client \in [alive : BOOLEAN, started : BOOLEAN, auto : BOOLEAN,
                   connection : Conns \cup {None}]
    BY <1>1
  <2>2. closes \in [Conns -> Nat] /\ timers \in Nat
    BY <1>1
  <2>3. kept \subseteq Conns /\ clashed \subseteq Conns /\ careless \in BOOLEAN
    BY <1>1
  <2>4. Len(stack) <= MaxFrames
    BY <1>2
  <2> QED BY <1>2, <2>1, <2>2, <2>3, <2>4 DEF Typed
<1>4. /\ Unborn \in Connection /\ Unborn.state = "Unborn" /\ Unborn.chfd = Invalid
      /\ Unborn.sockfd = Invalid /\ Unborn.events = {}
  BY DEF Unborn, Connection
<1>5. /\ net \in Nets /\ net.kernel = [f \in Fds |-> None]
      /\ net.poller.map = [f \in Fds |-> None] /\ net.poller.epoll = {}
      /\ \A c \in Conns : net.conn[c] = Unborn
  BY <1>1, <1>4 DEF Nets, NewPoller
<1>6. Sound(net, clashed)
  <2>1. \A c \in Conns : Numbered(net, c) /\ ~Open(net, c)
    BY <1>4, <1>5 DEF Numbered, Open
  <2>2. \A f \in Fds : Agreed(net, f)
    <3>1. \A c \in Conns : c # None
      BY DEF Conns
    <3>2. Invalid \notin Fds
      BY DEF Invalid
    <3> QED BY <1>4, <1>5, <3>1, <3>2 DEF Agreed
  <2> QED BY <1>5, <2>1, <2>2 DEF Sound
<1>7. \A c \in Conns : ~Live(c) /\ ~Held(c, client.connection, stack, kept)
  <2>1. \A c \in Conns : c # None
    BY DEF Conns
  <2> QED BY <1>1, <1>2, <1>4, <1>5, <2>1, HeldIs DEF Live, State
<1>8. Standing /\ Closing /\ Leaving /\ Careful /\ CarefulIsSafe
  BY <1>1, <1>2, <1>7 DEF Standing, Closing, Leaving, Careful, CarefulIsSafe, ClientGoing
<1> QED BY <1>1, <1>3, <1>6, <1>8 DEF IInv

LEMMA NextInv ==
    ASSUME IInv, [Next]_vars
    PROVE  IInv'
<1>1. CASE UNCHANGED vars
  BY <1>1 DEF vars, IInv, Typed, Standing, Closing, Leaving, Careful, CarefulIsSafe,
              ClientGoing, State, Live
<1>2. CASE App
  <2>1. CASE \E c \in Conns, f \in Fds, outcome \in Outcomes : Connect(c, f, outcome)
    BY <2>1, ConnectSteps
  <2>2. CASE \E c \in Conns : Send(c) \/ Shutdown(c) \/ ForceClose(c) \/ Drop(c)
    BY <2>2, SendStep, ShutDownSteps, ForceCloseStep, DropStep
  <2>3. CASE \E enable \in BOOLEAN : SetAutoReconnect(enable)
    BY <2>3, SetAutoReconnectStep
  <2>4. CASE Disconnect \/ Keep \/ DestroyClient
    BY <2>4, ShutDownSteps, KeepStep, DestroyClientStep
  <2> QED BY <1>2, <2>1, <2>2, <2>3, <2>4 DEF App
<1>3. CASE Return
  BY <1>3, ConnectedReturnsStep, MessageReturnsStep, ClosedReturnsStep, ForcedReturnsStep,
     DyingReturnsStep DEF Return
<1>4. CASE Reconnect
  BY <1>4, ConnectSteps DEF Reconnect
<1>5. CASE \E c \in Conns : HandleRead(c) \/ HandleWrite(c) \/ HandleClose(c)
  BY <1>5, MessageStep, HandleCloseStep
<1>6. CASE \E c \in Conns : LinkChanges(c, "pending", "up") \/ LinkChanges(c, "pending", "gone")
                              \/ LinkChanges(c, "up", "gone")
  BY <1>6, LinkStep
<1> QED BY <1>1, <1>2, <1>3, <1>4, <1>5, <1>6 DEF Next

\* The invariant holds throughout: what the connections, the poller and the
\* kernel say of each other, who holds what, and what a careful application
\* keeps.
THEOREM Invariance == Spec => []IInv
<1>1. Init => IInv
  BY InitInv
<1>2. IInv /\ [Next]_vars => IInv'
  BY NextInv
<1> QED BY <1>1, <1>2, PTL DEF Spec

\* Type correctness.
THEOREM TypeCorrect == Spec => []TypeOK
<1>1. IInv => TypeOK
  BY DEF IInv, Typed, Sound, Nets, TypeOK
<1> QED BY <1>1, Invariance, PTL

\* The loop serves the connection the client is connected with: Disconnect may
\* leave an old channel in the poller, the kernel may give the next socket the
\* same number, and still the new channel is the one named there, its socket
\* the one watched, and no channel named there is a destroyed one.
THEOREM ServedCorrect == Spec => []Served
<1>1. ASSUME IInv PROVE Served
  <2>1. Sound(net, clashed)
    BY <1>1 DEF IInv
  <2>2. ASSUME NEW c \in Conns \ clashed, State(c) = "Connected"
        PROVE  /\ net.kernel[net.conn[c].sockfd] = c
               /\ net.poller.map[net.conn[c].sockfd] = c
               /\ net.conn[c].sockfd \in net.poller.epoll
    <3>1. Open(net, c) /\ ServedAlone(net, c) /\ Numbered(net, c)
      BY <2>1, <2>2 DEF Sound, Open, State
    <3>2. net.conn[c].sockfd = net.conn[c].chfd /\ net.conn[c].chfd \in Fds
      BY <2>2, <3>1 DEF Numbered, State
    <3>3. net.kernel[net.conn[c].sockfd] = c
      BY <2>1, <3>2 DEF Sound, Agreed
    <3> QED BY <3>1, <3>2, <3>3 DEF ServedAlone
  <2>3. ASSUME NEW f \in Fds, net.poller.map[f] # None
        PROVE  State(net.poller.map[f]) # "Freed"
    <3>1. net.poller.map[f] \in Conns
      BY <2>1, <2>3 DEF Sound, Nets
    <3>2. net.conn[net.poller.map[f]].events # {}
      BY <2>1, <2>3 DEF Sound, Agreed
    <3> QED BY <2>1, <3>1, <3>2 DEF Sound, Numbered, State
  <2> QED BY <2>2, <2>3 DEF Served
<1> QED BY <1>1, Invariance, PTL

\* Every number the kernel has given out belongs to a connection that is there
\* and will close it, through every way a connection ends: no descriptor leaks.
THEOREM NoLeakCorrect == Spec => []NoLeak
<1>1. ASSUME IInv PROVE NoLeak
  <2>1. Sound(net, clashed)
    BY <1>1 DEF IInv
  <2> SUFFICES ASSUME NEW f \in Fds, net.kernel[f] # None
               PROVE  /\ net.conn[net.kernel[f]].sockfd = f
                      /\ State(net.kernel[f]) \notin {"Unborn", "Freed"}
    BY DEF NoLeak
  <2>2. net.kernel[f] \in Conns
    BY <2>1 DEF Sound, Nets
  <2>3. net.conn[net.kernel[f]].sockfd = f
    BY <2>1, <2>2 DEF Sound, Agreed
  <2>4. f # Invalid
    BY DEF Invalid
  <2>5. Numbered(net, net.kernel[f])
    BY <2>1, <2>2 DEF Sound
  <2> QED BY <2>3, <2>4, <2>5 DEF Numbered, State
<1> QED BY <1>1, Invariance, PTL

\* An application that keeps every connection until it is Disconnected and
\* lets go of nothing a callback is busy with meets no use after free, however
\* deep the callbacks nest and however often it connects again.
THEOREM CarefulIsSafeCorrect == Spec => []CarefulIsSafe
<1>1. IInv => CarefulIsSafe
  BY DEF IInv
<1> QED BY <1>1, Invariance, PTL

=============================================================================
