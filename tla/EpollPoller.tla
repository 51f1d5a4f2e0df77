---------------------------- MODULE EpollPoller ----------------------------
(***************************************************************************)
(* The epoll poller of one loop: m_fd_to_channel, and the descriptors the  *)
(* kernel watches for it, as a record [map, epoll].  Operators only: the   *)
(* modules of the server and of the client keep one such record per loop.  *)
(***************************************************************************)
EXTENDS Integers, FiniteSets

CONSTANT None    \* the null pointer

NewPoller(Fds) == [map |-> [f \in Fds |-> None], epoll |-> {}]

\* RemoveChannel: out of epoll, then out of the map, whoever's entry it is.
RemoveChannel(p, fd) == [map |-> [p.map EXCEPT ![fd] = None], epoll |-> p.epoll \ {fd}]

\* UpdateChannel for a channel of descriptor fd whose m_events is now ev; open
\* says whether the number is an open socket.  An entry that is there is
\* modified in epoll only: the map goes on naming the channel it named, and
\* EPOLL_CTL_MOD adds nothing.
UpdateChannel(p, fd, channel, ev, open) ==
    CASE ev = {} -> RemoveChannel(p, fd)
      [] ev # {} /\ p.map[fd] # None -> p
      [] OTHER -> [map |-> [p.map EXCEPT ![fd] = channel],
                   epoll |-> IF open THEN p.epoll \cup {fd} ELSE p.epoll]

\* close(fd): every epoll set forgets the number, no map does.
Forgotten(p, fd) == [p EXCEPT !.epoll = @ \ {fd}]
=============================================================================
