----------------------------- MODULE MCEventLoop -----------------------------
(* A small instance of EventLoop: one loop, its creator and a second thread. *)
EXTENDS EventLoop

MCDelays == {0, 1}
=============================================================================
