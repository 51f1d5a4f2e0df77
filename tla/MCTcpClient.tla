---------------------------- MODULE MCTcpClient ----------------------------
(* A small instance of TcpClient: so few descriptors that numbers recur.   *)
EXTENDS TcpClient
=============================================================================
