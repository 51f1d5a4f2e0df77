---------------------------- MODULE WSPollPoller ----------------------------
(***************************************************************************)
(* The poller of the Windows build.  m_pollfds and m_channels are parallel *)
(* vectors, m_fd_to_idx says where in them a descriptor is, and an element *)
(* is removed by swapping the last one into its place.                     *)
(***************************************************************************)
EXTENDS Integers, Sequences

CONSTANTS
    Channels,   \* the Channel objects
    Fds,        \* descriptor numbers
    Events,     \* {"read", "write"}
    FdOf,       \* each channel's m_fd; a reused number has several channels
    None

ASSUME WSPollPollerAssumption ==
    /\ FdOf \in [Channels -> Fds]
    /\ None \notin [channel : Channels, events : SUBSET Events]

VARIABLES
    pollfds,    \* m_pollfds: descriptor and events
    channels,   \* m_channels
    index,      \* m_fd_to_idx, 0 for no entry (vectors start at 1 here)
    added,      \* the channels whose m_added is set
    active      \* active_channels, filled by the last Poll

vars == <<pollfds, channels, index, added, active>>

Init ==
    /\ pollfds = <<>> /\ channels = <<>>
    /\ index = [f \in Fds |-> 0]
    /\ added = {}
    /\ active = <<>>

-----------------------------------------------------------------------------
Last == Len(pollfds)

\* The vector v after std::swap(v[i], v.back()) and pop_back().
SwappedOut(v, i) == SubSeq([v EXCEPT ![i] = v[Len(v)]], 1, Len(v) - 1)

\* m_fd_to_idx once the entry of fd, at i, is erased and the last element's
\* descriptor points to its new place.
BugNotMoved(fd, i) == [index EXCEPT ![fd] = 0]
BugEraseFirst(fd, i) == [index EXCEPT ![fd] = 0, ![pollfds[Last].fd] = i]
Reindexed(fd, i) == [index EXCEPT ![pollfds[Last].fd] = i, ![fd] = 0]

\* RemoveChannel, which does nothing for a number that has no entry.
Removed(c) ==
    LET fd == FdOf[c]
        i == index[fd]
    IN  IF i = 0 THEN UNCHANGED <<pollfds, channels, index, added>>
        ELSE /\ pollfds' = SwappedOut(pollfds, i)
             /\ channels' = SwappedOut(channels, i)
             /\ index' = Reindexed(fd, i)
             /\ added' = added \ {c}

\* A connection calls it after a test of IsAdded(), the destructors of EventLoop
\* and Acceptor without one, for channels that were added long before.
RemoveChannel(c) ==
    /\ c \in added
    /\ Removed(c)
    /\ UNCHANGED active

\* UpdateChannel, once the channel's m_events is ev: removed, appended, or its
\* pollfd replaced, and that alone.
BugAppend(fd) == FALSE
Known(fd) == index[fd] # 0

UpdateChannel(c, ev) ==
    LET fd == FdOf[c]
        pfd == [fd |-> fd, events |-> ev]
    IN  /\ CASE ev = {} -> Removed(c)
             [] ev # {} /\ Known(fd) ->
                    /\ pollfds' = [pollfds EXCEPT ![index[fd]] = pfd]
                    /\ UNCHANGED <<channels, index, added>>
             [] OTHER ->
                    /\ pollfds' = Append(pollfds, pfd)
                    /\ channels' = Append(channels, c)
                    /\ index' = [index EXCEPT ![fd] = Len(pollfds) + 1]
                    /\ added' = added \cup {c}
        /\ UNCHANGED active

\* Poll, when WSAPoll marked the descriptors of ready: the channels at the
\* marked places, in the order of the vector.
Poll(ready) ==
    /\ \A f \in ready : \E i \in DOMAIN pollfds : pollfds[i].fd = f
    /\ LET Marked(i) == pollfds[i].fd \in ready
           upTo[i \in 0 .. Last] ==
               IF i = 0 THEN <<>>
               ELSE IF Marked(i) THEN Append(upTo[i - 1], channels[i]) ELSE upTo[i - 1]
       IN  active' = upTo[Last]
    /\ UNCHANGED <<pollfds, channels, index, added>>

Next ==
    \/ \E c \in Channels, ev \in SUBSET Events : UpdateChannel(c, ev)
    \/ \E c \in Channels : RemoveChannel(c)
    \/ \E ready \in SUBSET Fds : Poll(ready)

Spec == Init /\ [][Next]_vars

-----------------------------------------------------------------------------
(* Properties.                                                             *)

TypeOK ==
    /\ pollfds \in Seq([fd : Fds, events : (SUBSET Events) \ {{}}])
    /\ channels \in Seq(Channels)
    /\ index \in [Fds -> Nat]
    /\ added \subseteq Channels
    /\ active \in Seq(Channels)

\* The two vectors and the map stay in step through every removal by swapping:
\* a descriptor's entry leads to its own pollfd and to a channel of its number
\* (the assertions of RemoveChannel and Poll), and no place has two entries or
\* none.
InStep ==
    /\ Len(channels) = Len(pollfds)
    /\ \A i \in DOMAIN pollfds :
          /\ index[pollfds[i].fd] = i
          /\ FdOf[channels[i]] = pollfds[i].fd
    /\ \A f \in Fds : index[f] # 0 => index[f] \in DOMAIN pollfds /\ pollfds[index[f]].fd = f

\* The vectors, read as what a loop expects of a poller.
Watched ==
    [f \in Fds |-> IF index[f] = 0 THEN None
                   ELSE [channel |-> channels[index[f]], events |-> pollfds[index[f]].events]]
Reported == {active[i] : i \in DOMAIN active}

Abstract == INSTANCE PollSet WITH watched <- Watched, reported <- Reported

\* Through any sequence of updates, removals and polls, the vectors behave as
\* the set of watched descriptors with the channel and the events of each, and
\* Poll reports the channels of the ready descriptors and no other.
ImplementsPollSet == Abstract!Spec
=============================================================================
