------------------------------- MODULE Buffer -------------------------------
(***************************************************************************)
(* Net/Buffer: the byte buffer of a connection, a vector with a read and a *)
(* write index.  Unread bytes lie between the two; the space before the    *)
(* read index is used again when the space after the write index does not  *)
(* suffice, and only then the vector grows.  size_t arithmetic is modulo   *)
(* Modulus, 2^64 in the program.                                           *)
(***************************************************************************)
EXTENDS Integers, Sequences, FiniteSets

CONSTANTS
    Bytes,        \* the values of a byte that are told apart
    CR, LF,       \* two of them: the line terminators
    InitialSize,  \* the argument of the constructor
    Extra,        \* sizeof(extrabuf) in ReadFromFd
    Modulus,      \* size_t counts modulo this
    MaxSize,      \* bound: max_size(), no call makes the vector longer
    MaxLen        \* bound: the bytes passed to one call

ASSUME BufferAssumption ==
    /\ CR \in Bytes /\ LF \in Bytes /\ CR # LF
    /\ \E b \in Bytes : b \notin {CR, LF}
    /\ InitialSize \in Nat /\ Extra \in Nat /\ MaxLen \in Nat
    /\ MaxSize \in Nat /\ Modulus \in Nat
    /\ MaxSize + Extra < Modulus

Fill == CHOOSE b \in Bytes : b \notin {CR, LF}   \* what resize() puts

VARIABLES
    buf,       \* m_buf
    readIdx,   \* m_read_idx
    writeIdx,  \* m_write_idx
    out,       \* history: the bytes last handed out
    crashed    \* memory was overwritten, or an exception nobody catches

vars == <<buf, readIdx, writeIdx, out, crashed>>

Strings == UNION {[1 .. n -> Bytes] : n \in 0 .. MaxLen}

Readable == writeIdx - readIdx
Writable == Len(buf) - writeIdx
Content == SubSeq(buf, readIdx + 1, writeIdx)   \* from Peek(), Readable bytes

Init ==
    /\ buf = [i \in 1 .. InitialSize |-> Fill]
    /\ readIdx = 0 /\ writeIdx = 0
    /\ out = <<>>
    /\ crashed = FALSE

-----------------------------------------------------------------------------
(* The steps of the operations, on a record [buf, read, write].            *)

State == [buf |-> buf, read |-> readIdx, write |-> writeIdx]

\* std::copy of s to position at (counted from 0), inside the vector.
Overwrite(b, at, s) ==
    [i \in DOMAIN b |-> IF i \in at + 1 .. at + Len(s) THEN s[i - at] ELSE b[i]]

Resize(b, n) == [i \in 1 .. n |-> IF i \in DOMAIN b THEN b[i] ELSE Fill]

\* Whether MakeSpace moves the unread bytes to the front and how it grows.
BugForgetReadable(s, n) == s.read + Len(s.buf) >= n
Fits(s, n) == s.read + (Len(s.buf) - s.write) >= n
GrownSize(s, n) == s.write + n

Moved(s) ==
    LET readable == s.write - s.read
    IN  [buf |-> Overwrite(s.buf, 0, SubSeq(s.buf, s.read + 1, s.write)),
         read |-> 0, write |-> readable]

EnsureWritable(s, n) ==
    IF Len(s.buf) - s.write >= n THEN s
    ELSE IF Fits(s, n) THEN Moved(s)
    ELSE [s EXCEPT !.buf = Resize(@, GrownSize(s, n))]

Appended(s, data) ==
    LET t == EnsureWritable(s, Len(data))
    IN  [t EXCEPT !.buf = Overwrite(@, t.write, data), !.write = @ + Len(data)]

Becomes(s) ==
    /\ Len(s.buf) <= MaxSize
    /\ buf' = s.buf /\ readIdx' = s.read /\ writeIdx' = s.write

-----------------------------------------------------------------------------
(* The operations, called as their assertions demand.                      *)

Works == ~crashed /\ UNCHANGED crashed

Retrieve(n) ==
    /\ Works
    /\ readIdx' = readIdx + n
    /\ UNCHANGED <<buf, writeIdx, out>>

RetrieveAll ==
    /\ Works
    /\ readIdx' = 0 /\ writeIdx' = 0
    /\ UNCHANGED <<buf, out>>

RetrieveAsString(n) ==
    /\ Works
    /\ out' = SubSeq(buf, readIdx + 1, readIdx + n)
    /\ readIdx' = readIdx + n
    /\ UNCHANGED <<buf, writeIdx>>

EnsureWritableBytes(n) ==
    /\ Works
    /\ Becomes(EnsureWritable(State, n))
    /\ UNCHANGED out

HasWritten(n) ==
    /\ Works
    /\ n <= Writable
    /\ writeIdx' = writeIdx + n
    /\ UNCHANGED <<buf, readIdx, out>>

AppendBytes(data) ==
    /\ Works
    /\ Becomes(Appended(State, data))
    /\ UNCHANGED out

BugAfterHeader(n) == readIdx
PrependAt(n) == readIdx - n

Prepend(data) ==
    /\ Works
    /\ Len(data) <= readIdx
    /\ buf' = Overwrite(buf, PrependAt(Len(data)), data)
    /\ readIdx' = readIdx - Len(data)
    /\ UNCHANGED <<writeIdx, out>>

\* readv() filled the space after the write index and, when that is shorter
\* than extrabuf, extrabuf; data is what it read.
ReadFromFd(data) ==
    LET first == IF Len(data) <= Writable THEN Len(data) ELSE Writable
        s == [State EXCEPT !.buf = Overwrite(@, writeIdx, SubSeq(data, 1, first)),
                           !.write = @ + first]
    IN  /\ Works
        /\ Len(data) <= Writable + (IF Writable < Extra THEN Extra ELSE 0)
        /\ Becomes(IF first = Len(data) THEN s
                   ELSE Appended(s, SubSeq(data, first + 1, Len(data))))
        /\ UNCHANGED out

\* readv() returned -1.  The code (not the one for Windows) goes on with n
\* converted to size_t: it takes the branch of a long read and appends the len
\* bytes that seem to be left.  The sum in MakeSpace either wraps, and the
\* vector shrinks before std::copy writes past its end (the assertion of
\* EnsureWritableBytes wraps the same way and holds), or exceeds max_size() and
\* resize() throws.
TakesLongRead == Modulus - 1 > Writable

ReadFromFdFails ==
    LET len == (Modulus - 1 - Writable) % Modulus
        newSize == (Len(buf) + len) % Modulus
        overruns == Len(buf) + len > newSize
        throws == newSize > MaxSize
    IN  /\ ~crashed
        /\ crashed' = (TakesLongRead /\ (overruns \/ throws))
        /\ UNCHANGED <<buf, readIdx, writeIdx, out>>

\* write() accepted n bytes; with nothing to send it is not called.
WriteToFd(n) ==
    /\ Works
    /\ n > 0
    /\ out' = SubSeq(buf, readIdx + 1, readIdx + n)
    /\ readIdx' = readIdx + n
    /\ UNCHANGED <<buf, writeIdx>>

Next ==
    \/ \E n \in 0 .. Readable : Retrieve(n) \/ RetrieveAsString(n) \/ WriteToFd(n)
    \/ RetrieveAll
    \/ \E n \in 0 .. MaxLen : EnsureWritableBytes(n) \/ HasWritten(n)
    \/ \E data \in Strings : AppendBytes(data) \/ Prepend(data) \/ ReadFromFd(data)
    \/ ReadFromFdFails

Spec == Init /\ [][Next]_vars

-----------------------------------------------------------------------------
(* FindCRLF: memchr for CR, a look at the next byte, and on.  The result   *)
(* is a position in the bytes s, 0 for nullptr.                            *)

Memchr(s, p, b) ==
    LET hits == {i \in p .. Len(s) : s[i] = b}
    IN  IF hits = {} THEN 0 ELSE CHOOSE i \in hits : \A j \in hits : i <= j

BugIgnoreLF(s, p) == TRUE
IsTerminator(s, p) == p < Len(s) /\ s[p + 1] = LF

FindCRLF(s) ==
    LET find[p \in 1 .. Len(s) + 1] ==
            LET q == Memchr(s, p, CR)
            IN  IF q = 0 THEN 0 ELSE IF IsTerminator(s, q) THEN q ELSE find[q + 1]
    IN  find[1]

-----------------------------------------------------------------------------
(* Properties.                                                             *)

TypeOK ==
    /\ buf \in Seq(Bytes) /\ out \in Seq(Bytes)
    /\ readIdx \in 0 .. writeIdx
    /\ writeIdx \in 0 .. Len(buf)
    /\ crashed \in BOOLEAN

\* The buffer is a byte queue: what is read is what was appended, in order,
\* whatever was moved to the front, grown or prepended meanwhile.
Queue == INSTANCE ByteQueue WITH content <- Content, out <- out
ImplementsByteQueue == Queue!Spec

\* The vector never shrinks, and grows only when all of its free space, before
\* and after the unread bytes, is too little for one call.
GrowsOnlyWhenFull ==
    [][/\ Len(buf') >= Len(buf)
       /\ Len(buf') > Len(buf) => Len(buf) - Readable < Len(buf') - writeIdx]_vars

\* FindCRLF finds the first CR LF of the unread bytes, also after CRs that no
\* LF follows, and never looks past the last unread byte.
FindsFirstCRLF ==
    LET s == Content
        hits == {i \in 1 .. Len(s) - 1 : s[i] = CR /\ s[i + 1] = LF}
    IN  IF hits = {} THEN FindCRLF(s) = 0
        ELSE FindCRLF(s) \in hits /\ \A i \in hits : FindCRLF(s) <= i
=============================================================================
