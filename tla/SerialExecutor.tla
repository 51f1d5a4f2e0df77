--------------------------- MODULE SerialExecutor ---------------------------
(***************************************************************************)
(* What an EventLoop promises to the callers of QueueInLoop: one unbounded *)
(* first-in first-out queue of callbacks, each taken from the head and run *)
(* exactly once.  A callback may itself submit another one while it runs.  *)
(* EventLoop.tla is shown to implement this module.                        *)
(***************************************************************************)
EXTENDS Sequences

CONSTANT Functors   \* the callbacks that can be submitted, each at most once

VARIABLES queue,    \* callbacks submitted and not yet run, oldest first
          done      \* callbacks that have run, in the order they ran

vars == <<queue, done>>

Known == {queue[i] : i \in DOMAIN queue} \cup {done[i] : i \in DOMAIN done}

Init == queue = <<>> /\ done = <<>>

Submit(f) ==
    /\ f \notin Known
    /\ queue' = Append(queue, f)
    /\ UNCHANGED done

Execute ==
    /\ queue # <<>>
    /\ done' = Append(done, Head(queue))
    /\ queue' = Tail(queue)

\* The callback at the head submits f before it returns.
ExecuteAndSubmit(f) ==
    /\ queue # <<>>
    /\ f \notin Known
    /\ done' = Append(done, Head(queue))
    /\ queue' = Append(Tail(queue), f)

Next == Execute \/ \E f \in Functors : Submit(f) \/ ExecuteAndSubmit(f)

Spec == Init /\ [][Next]_vars
=============================================================================
