---------------------------- MODULE MCThreadPool ----------------------------
(* Small instances of ThreadPool: two workers, so that one can take the     *)
(* task another one was woken for.                                          *)
EXTENDS ThreadPool

SmallSizes == {1, 3}
=============================================================================
