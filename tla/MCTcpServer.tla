----------------------------- MODULE MCTcpServer -----------------------------
(* Small instances of TcpServer: few descriptors, so that numbers recur.   *)
EXTENDS TcpServer, TLC

AllCalls == {"Send", "Shutdown", "ForceClose"}
NoCalls == {}

\* Clients and descriptor numbers are interchangeable in an invariant.
Alike == Permutations(Conns) \cup Permutations(Fds)
=============================================================================
