------------------------------ MODULE ByteQueue ------------------------------
(***************************************************************************)
(* What a Buffer promises its users: a queue of bytes.  Bytes are put at   *)
(* the end and taken from the front in the same order; bytes may also be   *)
(* put before the front.  Buffer.tla is shown to implement this module.    *)
(***************************************************************************)
EXTENDS Integers, Sequences

CONSTANT Bytes

VARIABLES content,  \* the unread bytes, oldest first
          out       \* the bytes the last taking step handed out

vars == <<content, out>>

Init == content = <<>> /\ out = <<>>

Put ==
    /\ \E k \in 0 .. Len(content') :
          content = SubSeq(content', 1, Len(content') - k)
    /\ UNCHANGED out

PutBefore ==
    /\ \E k \in 0 .. Len(content') :
          content = SubSeq(content', k + 1, Len(content'))
    /\ UNCHANGED out

Take(n) ==
    /\ out' = SubSeq(content, 1, n)
    /\ content' = SubSeq(content, n + 1, Len(content))

Drop(n) ==
    /\ content' = SubSeq(content, n + 1, Len(content))
    /\ UNCHANGED out

Next == Put \/ PutBefore \/ \E n \in 0 .. Len(content) : Take(n) \/ Drop(n)

Spec == Init /\ [][Next]_vars
=============================================================================
