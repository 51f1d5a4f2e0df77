--------------------------- MODULE MCWSPollPoller ---------------------------
(* A small instance of WSPollPoller: number f1 is used by two channels.    *)
EXTENDS WSPollPoller

CONSTANTS c1, c2, c3, c4, f1, f2, f3

MCChannels == {c1, c2, c3, c4}
MCFds == {f1, f2, f3}
MCFdOf == [c \in MCChannels |-> CASE c = c2 -> f2 [] c = c3 -> f3 [] OTHER -> f1]
=============================================================================
