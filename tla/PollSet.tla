------------------------------- MODULE PollSet -------------------------------
(***************************************************************************)
(* What a loop expects of its Poller, whichever the platform: a set of     *)
(* watched descriptors, each with the channel it stands for and the events *)
(* that channel wants; a poll reports the channels of the ready ones.      *)
(***************************************************************************)
CONSTANTS Channels, Fds, Events, FdOf, None

VARIABLES
    watched,    \* per descriptor: None, or its channel and events
    reported    \* the channels the last poll reported

vars == <<watched, reported>>

Init ==
    /\ watched = [f \in Fds |-> None]
    /\ reported = {}

\* A channel's events change.  A channel without events is not watched, nor is
\* any other of its number; a number that is watched keeps its channel.
Update(c, ev) ==
    LET f == FdOf[c]
        channel == IF watched[f] = None THEN c ELSE watched[f].channel
    IN  /\ watched' = [watched EXCEPT ![f] =
                          IF ev = {} THEN None ELSE [channel |-> channel, events |-> ev]]
        /\ UNCHANGED reported

Remove(c) ==
    /\ watched' = [watched EXCEPT ![FdOf[c]] = None]
    /\ UNCHANGED reported

Poll(ready) ==
    /\ \A f \in ready : watched[f] # None
    /\ reported' = {watched[f].channel : f \in ready}
    /\ UNCHANGED watched

Next ==
    \/ \E c \in Channels, ev \in SUBSET Events : Update(c, ev)
    \/ \E c \in Channels : Remove(c)
    \/ \E ready \in SUBSET Fds : Poll(ready)

Spec == Init /\ [][Next]_vars
=============================================================================
