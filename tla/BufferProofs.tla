---------------------------- MODULE BufferProofs ----------------------------
(***************************************************************************)
(* Theorems about Buffer for every initial size, every set of byte values, *)
(* every bound and every sequence of calls.                                *)
(***************************************************************************)
EXTENDS Buffer, SequenceTheorems, WellFoundedInduction, TLAPS

USE BufferAssumption

LEMMA FillType == Fill \in Bytes
BY DEF Fill

-----------------------------------------------------------------------------
(* Parts of sequences.                                                     *)

\* A stretch of n elements from position a on.
LEMMA Stretch ==
    ASSUME NEW S, NEW s \in Seq(S), NEW a \in Nat \ {0}, NEW n \in Nat, a + n - 1 <= Len(s)
    PROVE  /\ SubSeq(s, a, a + n - 1) \in Seq(S)
           /\ Len(SubSeq(s, a, a + n - 1)) = n
           /\ \A k \in 1 .. n : SubSeq(s, a, a + n - 1)[k] = s[a + k - 1]
<1> DEFINE z == a + n - 1
<1>1. /\ a \in Int /\ z \in Int
      /\ z - a + 1 = n
      /\ a <= z <=> n # 0
      /\ \A i \in a .. z : s[i] \in S
  BY LenProperties, ElementOfSeq
<1> HIDE DEF z
<1>2. /\ SubSeq(s, a, z) \in Seq(S)
      /\ Len(SubSeq(s, a, z)) = IF a <= z THEN z - a + 1 ELSE 0
      /\ \A k \in 1 .. z - a + 1 : SubSeq(s, a, z)[k] = s[a + k - 1]
  BY <1>1, SubSeqProperties
<1>3. /\ SubSeq(s, a, z) \in Seq(S)
      /\ Len(SubSeq(s, a, z)) = n
      /\ \A k \in 1 .. n : SubSeq(s, a, z)[k] = s[a + k - 1]
  BY <1>1, <1>2
<1> QED BY <1>3 DEF z

\* Two stretches with the same elements are the same sequence.
LEMMA SameStretch ==
    ASSUME NEW S, NEW s \in Seq(S), NEW t \in Seq(S),
           NEW a \in Nat \ {0}, NEW c \in Nat \ {0}, NEW n \in Nat,
           a + n - 1 <= Len(s), c + n - 1 <= Len(t),
           \A k \in 1 .. n : s[a + k - 1] = t[c + k - 1]
    PROVE  SubSeq(s, a, a + n - 1) = SubSeq(t, c, c + n - 1)
<1>1. /\ SubSeq(s, a, a + n - 1) \in Seq(S)
      /\ Len(SubSeq(s, a, a + n - 1)) = n
      /\ \A k \in 1 .. n : SubSeq(s, a, a + n - 1)[k] = s[a + k - 1]
  BY Stretch
<1>2. /\ SubSeq(t, c, c + n - 1) \in Seq(S)
      /\ Len(SubSeq(t, c, c + n - 1)) = n
      /\ \A k \in 1 .. n : SubSeq(t, c, c + n - 1)[k] = t[c + k - 1]
  BY Stretch
<1> QED BY <1>1, <1>2, SeqEqual

\* A stretch of a stretch is a stretch.
LEMMA StretchOfStretch ==
    ASSUME NEW S, NEW s \in Seq(S), NEW a \in Nat \ {0}, NEW n \in Nat, a + n - 1 <= Len(s),
           NEW b \in Nat \ {0}, NEW m \in Nat, b + m - 1 <= n
    PROVE  SubSeq(SubSeq(s, a, a + n - 1), b, b + m - 1)
             = SubSeq(s, a + b - 1, a + b - 1 + m - 1)
<1> DEFINE t == SubSeq(s, a, a + n - 1)
<1>1. /\ t \in Seq(S) /\ Len(t) = n
      /\ \A k \in 1 .. n : t[k] = s[a + k - 1]
  BY Stretch
<1>2. \A k \in 1 .. m : t[b + k - 1] = s[(a + b - 1) + k - 1]
  BY <1>1
<1> HIDE DEF t
<1>3. SubSeq(t, b, b + m - 1) = SubSeq(s, a + b - 1, (a + b - 1) + m - 1)
  BY <1>1, <1>2, SameStretch
<1> QED BY <1>3 DEF t

-----------------------------------------------------------------------------
(* The steps of the operations.                                            *)

\* std::copy inside the vector changes what it covers and nothing else.
LEMMA OverwriteProperties ==
    ASSUME NEW b \in Seq(Bytes), NEW s \in Seq(Bytes), NEW at \in Nat, at + Len(s) <= Len(b)
    PROVE  /\ Overwrite(b, at, s) \in Seq(Bytes)
           /\ Len(Overwrite(b, at, s)) = Len(b)
           /\ \A i \in 1 .. Len(b) :
                 Overwrite(b, at, s)[i] = IF i \in at + 1 .. at + Len(s) THEN s[i - at] ELSE b[i]
<1>1. /\ Len(b) \in Nat /\ Len(s) \in Nat
      /\ DOMAIN b = 1 .. Len(b)
      /\ \A i \in 1 .. Len(b) : b[i] \in Bytes
      /\ \A i \in 1 .. Len(s) : s[i] \in Bytes
  BY LenProperties, ElementOfSeq
<1> DEFINE o == Overwrite(b, at, s)
<1>2. /\ o = [i \in 1 .. Len(b) |-> IF i \in at + 1 .. at + Len(s) THEN s[i - at] ELSE b[i]]
  BY <1>1 DEF Overwrite
<1>3. \A i \in 1 .. Len(b) :
         (IF i \in at + 1 .. at + Len(s) THEN s[i - at] ELSE b[i]) \in Bytes
  BY <1>1
<1>4. o \in [1 .. Len(b) -> Bytes]
  BY <1>2, <1>3
<1>5. o \in Seq(Bytes) /\ Len(o) = Len(b)
  BY <1>1, <1>4, SeqDef, LenProperties
<1> QED BY <1>2, <1>5

\* resize() to a larger size keeps what is there.
LEMMA ResizeProperties ==
    ASSUME NEW b \in Seq(Bytes), NEW n \in Nat, Len(b) <= n
    PROVE  /\ Resize(b, n) \in Seq(Bytes)
           /\ Len(Resize(b, n)) = n
           /\ \A i \in 1 .. Len(b) : Resize(b, n)[i] = b[i]
<1>1. /\ Len(b) \in Nat
      /\ DOMAIN b = 1 .. Len(b)
      /\ \A i \in 1 .. Len(b) : b[i] \in Bytes
  BY LenProperties, ElementOfSeq
<1> DEFINE r == Resize(b, n)
<1>2. r = [i \in 1 .. n |-> IF i \in 1 .. Len(b) THEN b[i] ELSE Fill]
  BY <1>1 DEF Resize
<1>3. r \in [1 .. n -> Bytes]
  BY <1>1, <1>2, FillType
<1>4. r \in Seq(Bytes) /\ Len(r) = n
  BY <1>3, SeqDef, LenProperties
<1> QED BY <1>1, <1>2, <1>4

\* What the operations keep: bytes, and the indices in order inside them.
WellFormed(s) ==
    /\ s = [buf |-> s.buf, read |-> s.read, write |-> s.write]
    /\ s.buf \in Seq(Bytes)
    /\ s.read \in Nat /\ s.write \in Nat
    /\ s.read <= s.write /\ s.write <= Len(s.buf)

LEMMA Parts ==
    ASSUME NEW s, WellFormed(s)
    PROVE  /\ s.buf \in Seq(Bytes) /\ Len(s.buf) \in Nat
           /\ s.read \in Nat /\ s.write \in Nat
           /\ s.read <= s.write /\ s.write <= Len(s.buf)
           /\ s.write - s.read \in Nat
<1>1. s.buf \in Seq(Bytes)
  BY DEF WellFormed
<1>2. Len(s.buf) \in Nat
  BY <1>1, LenProperties
<1>3. s.read \in Nat /\ s.write \in Nat /\ s.read <= s.write /\ s.write <= Len(s.buf)
  BY DEF WellFormed
<1> QED BY <1>1, <1>2, <1>3

Unread(s) == SubSeq(s.buf, s.read + 1, s.write)

LEMMA UnreadProperties ==
    ASSUME NEW s, WellFormed(s)
    PROVE  /\ Unread(s) \in Seq(Bytes)
           /\ Len(Unread(s)) = s.write - s.read
           /\ \A k \in 1 .. s.write - s.read : Unread(s)[k] = s.buf[s.read + k]
<1> DEFINE a == s.read + 1
           n == s.write - s.read
<1>1. /\ a \in Nat \ {0} /\ n \in Nat /\ a + n - 1 = s.write
      /\ s.buf \in Seq(Bytes) /\ a + n - 1 <= Len(s.buf)
  <2>1. /\ s.read \in Nat /\ s.write \in Nat /\ s.read <= s.write /\ s.write <= Len(s.buf)
        /\ s.buf \in Seq(Bytes)
    BY Parts
  <2>2. a \in Nat \ {0} /\ n \in Nat /\ a + n - 1 = s.write
    BY <2>1
  <2> QED BY <2>1, <2>2
<1>a. \A k \in 1 .. n : a + k - 1 = s.read + k
  <2>1. s.read \in Nat /\ s.write \in Nat
    BY Parts
  <2> QED BY <2>1
<1> HIDE DEF a, n
<1>2. /\ SubSeq(s.buf, a, a + n - 1) \in Seq(Bytes)
      /\ Len(SubSeq(s.buf, a, a + n - 1)) = n
      /\ \A k \in 1 .. n : SubSeq(s.buf, a, a + n - 1)[k] = s.buf[a + k - 1]
  BY <1>1, Stretch
<1> QED BY <1>1, <1>a, <1>2 DEF Unread, a, n

\* EnsureWritableBytes makes the room it was asked for, keeps the unread bytes
\* and lengthens the vector only when no free space before or after suffices.
LEMMA EnsureWritableProperties ==
    ASSUME NEW s, WellFormed(s), NEW n \in Nat, NEW t, t = EnsureWritable(s, n)
    PROVE  /\ WellFormed(t)
           /\ t.write + n <= Len(t.buf)
           /\ t.write - t.read = s.write - s.read
           /\ Unread(t) = Unread(s)
           /\ Len(t.buf) >= Len(s.buf)
           /\ Len(t.buf) > Len(s.buf) =>
                 /\ Len(s.buf) - (s.write - s.read) < n
                 /\ t.write = s.write /\ Len(t.buf) = s.write + n
<1>0. /\ s.buf \in Seq(Bytes) /\ Len(s.buf) \in Nat
      /\ s.read \in Nat /\ s.write \in Nat
      /\ s.read <= s.write /\ s.write <= Len(s.buf)
  BY LenProperties DEF WellFormed
<1>1. CASE Len(s.buf) - s.write >= n
  <2>1. t = s
    BY <1>1 DEF EnsureWritable
  <2> QED BY <1>0, <1>1, <2>1
<1>2. CASE ~(Len(s.buf) - s.write >= n) /\ Fits(s, n)
  <2> DEFINE u == Unread(s)
  <2>1. t = [buf |-> Overwrite(s.buf, 0, u), read |-> 0, write |-> s.write - s.read]
    BY <1>2 DEF EnsureWritable, Moved, Unread
  <2>2. /\ u \in Seq(Bytes) /\ Len(u) = s.write - s.read
        /\ 0 \in Nat /\ 0 + Len(u) <= Len(s.buf)
    BY <1>0, UnreadProperties
  <2> HIDE DEF u
  <2>3. /\ Overwrite(s.buf, 0, u) \in Seq(Bytes)
        /\ Len(Overwrite(s.buf, 0, u)) = Len(s.buf)
        /\ \A i \in 1 .. Len(s.buf) :
              Overwrite(s.buf, 0, u)[i] = IF i \in 0 + 1 .. 0 + Len(u) THEN u[i - 0]
                                          ELSE s.buf[i]
    BY <2>2, <1>0, OverwriteProperties
  <2>4. WellFormed(t) /\ t.read = 0 /\ t.write = Len(u) /\ Len(t.buf) = Len(s.buf)
    BY <1>0, <2>1, <2>2, <2>3 DEF WellFormed
  <2>5. \A k \in 1 .. Len(u) : t.buf[k] = u[k]
    BY <1>0, <2>1, <2>2, <2>3
  <2>6. /\ Unread(t) \in Seq(Bytes) /\ Len(Unread(t)) = Len(u)
        /\ \A k \in 1 .. Len(u) : Unread(t)[k] = u[k]
    <3>1. /\ Unread(t) \in Seq(Bytes)
          /\ Len(Unread(t)) = t.write - t.read
          /\ \A k \in 1 .. t.write - t.read : Unread(t)[k] = t.buf[t.read + k]
      BY <2>4, UnreadProperties
    <3>2. t.write - t.read = Len(u) /\ \A k \in 1 .. Len(u) : t.read + k = k
      BY <1>0, <2>2, <2>4
    <3> QED BY <2>5, <3>1, <3>2
  <2>7. Unread(t) = u
    BY <2>2, <2>6, SeqEqual
  <2>8. t.write + n <= Len(t.buf)
    BY <1>0, <1>2, <2>2, <2>4 DEF Fits
  <2> QED BY <1>0, <2>2, <2>4, <2>7, <2>8 DEF u
<1>3. CASE ~(Len(s.buf) - s.write >= n) /\ ~Fits(s, n)
  <2>1. t = [s EXCEPT !.buf = Resize(s.buf, s.write + n)]
    BY <1>3 DEF EnsureWritable, GrownSize
  <2>2. t = [buf |-> Resize(s.buf, s.write + n), read |-> s.read, write |-> s.write]
    BY <2>1 DEF WellFormed
  <2>3. s.write + n \in Nat /\ Len(s.buf) < s.write + n
    BY <1>0, <1>3
  <2>4. /\ Resize(s.buf, s.write + n) \in Seq(Bytes)
        /\ Len(Resize(s.buf, s.write + n)) = s.write + n
        /\ \A i \in 1 .. Len(s.buf) : Resize(s.buf, s.write + n)[i] = s.buf[i]
    BY <1>0, <2>3, ResizeProperties
  <2>5. /\ WellFormed(t) /\ Len(t.buf) = s.write + n
        /\ t.read = s.read /\ t.write = s.write
        /\ \A i \in 1 .. Len(s.buf) : t.buf[i] = s.buf[i]
    BY <1>0, <2>2, <2>3, <2>4 DEF WellFormed
  <2>6. Unread(t) = Unread(s)
    <3>1. /\ Unread(t) \in Seq(Bytes) /\ Len(Unread(t)) = t.write - t.read
          /\ \A k \in 1 .. t.write - t.read : Unread(t)[k] = t.buf[t.read + k]
      BY <2>5, UnreadProperties
    <3>2. /\ Unread(s) \in Seq(Bytes) /\ Len(Unread(s)) = s.write - s.read
          /\ \A k \in 1 .. s.write - s.read : Unread(s)[k] = s.buf[s.read + k]
      BY UnreadProperties
    <3>3. \A k \in 1 .. s.write - s.read : s.read + k \in 1 .. Len(s.buf)
      BY <1>0
    <3>4. ASSUME NEW k \in 1 .. s.write - s.read PROVE Unread(t)[k] = Unread(s)[k]
      <4>1. t.write - t.read = s.write - s.read /\ t.read = s.read
        BY <2>5
      <4>2. Unread(t)[k] = t.buf[s.read + k]
        BY <3>1, <4>1
      <4>3. t.buf[s.read + k] = s.buf[s.read + k]
        BY <2>5, <3>3
      <4> QED BY <3>2, <4>2, <4>3
    <3>5. Len(Unread(t)) = s.write - s.read
      BY <2>5, <3>1
    <3> QED BY <3>1, <3>2, <3>4, <3>5, SeqEqual
  <2>7. Len(s.buf) - (s.write - s.read) < n
    BY <1>0, <1>3 DEF Fits
  <2> QED BY <1>0, <2>3, <2>5, <2>6, <2>7
<1> QED BY <1>1, <1>2, <1>3

\* Keeps(s, t): the unread bytes of s are the first unread bytes of t.
Keeps(s, t) ==
    /\ t.write - t.read >= s.write - s.read
    /\ \A k \in 1 .. s.write - s.read : t.buf[t.read + k] = s.buf[s.read + k]

LEMMA EnsureWritableKeeps ==
    ASSUME NEW s, WellFormed(s), NEW n \in Nat
    PROVE  Keeps(s, EnsureWritable(s, n))
<1> DEFINE t == EnsureWritable(s, n)
<1>1. WellFormed(t) /\ t.write - t.read = s.write - s.read /\ Unread(t) = Unread(s)
  BY EnsureWritableProperties
<1> HIDE DEF t
<1>2. \A k \in 1 .. t.write - t.read : Unread(t)[k] = t.buf[t.read + k]
  BY <1>1, UnreadProperties
<1>3. \A k \in 1 .. s.write - s.read : Unread(s)[k] = s.buf[s.read + k]
  BY UnreadProperties
<1>4. t.write - t.read \in Int
  BY <1>1 DEF WellFormed
<1>5. Keeps(s, t)
  BY <1>1, <1>2, <1>3, <1>4 DEF Keeps
<1> QED BY <1>5 DEF t

\* Append puts its bytes behind the unread ones.
LEMMA AppendedProperties ==
    ASSUME NEW s, WellFormed(s), NEW data \in Seq(Bytes), NEW u, u = Appended(s, data)
    PROVE  /\ WellFormed(u)
           /\ Keeps(s, u)
           /\ Len(u.buf) >= Len(s.buf)
           /\ Len(u.buf) > Len(s.buf) =>
                 /\ Len(s.buf) - (s.write - s.read) < Len(data)
                 /\ Len(u.buf) = s.write + Len(data)
<1> DEFINE t == EnsureWritable(s, Len(data))
<1>1. Len(data) \in Nat
  BY LenProperties
<1>2. /\ WellFormed(t)
      /\ t.write + Len(data) <= Len(t.buf)
      /\ Len(t.buf) >= Len(s.buf)
      /\ Len(t.buf) > Len(s.buf) =>
            /\ Len(s.buf) - (s.write - s.read) < Len(data)
            /\ Len(t.buf) = s.write + Len(data)
  BY <1>1, EnsureWritableProperties
<1>3. Keeps(s, t)
  BY <1>1, EnsureWritableKeeps
<1>4. u = [t EXCEPT !.buf = Overwrite(t.buf, t.write, data), !.write = t.write + Len(data)]
  BY DEF Appended
<1> HIDE DEF t
<1>5. u = [buf |-> Overwrite(t.buf, t.write, data), read |-> t.read,
           write |-> t.write + Len(data)]
  <2>1. t = [buf |-> t.buf, read |-> t.read, write |-> t.write]
    BY <1>2 DEF WellFormed
  <2> QED BY <1>4, <2>1
<1>6. t.buf \in Seq(Bytes) /\ t.write \in Nat /\ t.read \in Nat /\ t.read <= t.write
      /\ Len(t.buf) \in Nat
  BY <1>2, LenProperties DEF WellFormed
<1>7. /\ Overwrite(t.buf, t.write, data) \in Seq(Bytes)
      /\ Len(Overwrite(t.buf, t.write, data)) = Len(t.buf)
      /\ \A i \in 1 .. Len(t.buf) :
            Overwrite(t.buf, t.write, data)[i] =
                IF i \in t.write + 1 .. t.write + Len(data) THEN data[i - t.write] ELSE t.buf[i]
  BY <1>2, <1>6, OverwriteProperties
<1>8. WellFormed(u) /\ Len(u.buf) = Len(t.buf) /\ u.read = t.read
      /\ u.write = t.write + Len(data)
  BY <1>1, <1>2, <1>5, <1>6, <1>7 DEF WellFormed
<1>9. \A k \in 1 .. t.write - t.read : u.buf[u.read + k] = t.buf[t.read + k]
  <2>1. \A k \in 1 .. t.write - t.read :
           /\ t.read + k \in 1 .. Len(t.buf)
           /\ t.read + k \notin t.write + 1 .. t.write + Len(data)
    BY <1>1, <1>2, <1>6
  <2> QED BY <1>5, <1>7, <2>1
<1>10. Keeps(s, u)
  <2> DEFINE n == s.write - s.read
             m == t.write - t.read
  <2>1. n \in Int /\ m \in Int /\ m >= n
    <3>1. m >= n
      BY <1>3 DEF Keeps
    <3>2. n \in Nat
      BY Parts
    <3> QED BY <1>6, <3>1, <3>2
  <2>2. u.write - u.read >= m
    BY <1>1, <1>6, <1>8
  <2>3. u.write - u.read \in Int
    BY <1>1, <1>6, <1>8
  <2>4. \A k \in 1 .. n : t.buf[t.read + k] = s.buf[s.read + k]
    BY <1>3 DEF Keeps
  <2>5. \A k \in 1 .. m : u.buf[u.read + k] = t.buf[t.read + k]
    BY <1>9
  <2> HIDE DEF m
  <2>6. \A k \in 1 .. n : u.buf[u.read + k] = s.buf[s.read + k]
    BY <2>1, <2>4, <2>5
  <2> QED BY <2>1, <2>2, <2>3, <2>6 DEF Keeps
<1> QED BY <1>2, <1>8, <1>10

\* Keeping the unread bytes in front is putting bytes at the end of a queue.
LEMMA KeepsPuts ==
    ASSUME NEW s, WellFormed(s), NEW t, WellFormed(t), Keeps(s, t)
    PROVE  \E k \in 0 .. Len(Unread(t)) : Unread(s) = SubSeq(Unread(t), 1, Len(Unread(t)) - k)
<1> DEFINE n == s.write - s.read
           m == t.write - t.read
<1>1. n \in Nat /\ m \in Nat /\ m >= n
  BY DEF WellFormed, Keeps
<1>2. /\ Unread(s) \in Seq(Bytes) /\ Len(Unread(s)) = n
      /\ \A k \in 1 .. n : Unread(s)[k] = s.buf[s.read + k]
  BY UnreadProperties
<1>3. /\ Unread(t) \in Seq(Bytes) /\ Len(Unread(t)) = m
      /\ \A k \in 1 .. m : Unread(t)[k] = t.buf[t.read + k]
  BY UnreadProperties
<1>4. \A k \in 1 .. n : t.buf[t.read + k] = s.buf[s.read + k]
  BY DEF Keeps
<1> HIDE DEF n, m
<1>5. \A k \in 1 .. n : Unread(s)[1 + k - 1] = Unread(t)[1 + k - 1]
  BY <1>1, <1>2, <1>3, <1>4
<1>6. SubSeq(Unread(s), 1, 1 + n - 1) = SubSeq(Unread(t), 1, 1 + n - 1)
  BY <1>1, <1>2, <1>3, <1>5, SameStretch
<1>7. Unread(s) = SubSeq(Unread(t), 1, m - (m - n))
  <2>1. 1 + n - 1 = n /\ m - (m - n) = n
    BY <1>1
  <2> QED BY <1>2, <1>6, <2>1, SubSeqFull
<1> QED BY <1>1, <1>3, <1>7

-----------------------------------------------------------------------------
(* The steps of Buffer.                                                    *)

LEMMA StringsType == \A data \in Strings : data \in Seq(Bytes) /\ Len(data) \in Nat
<1> SUFFICES ASSUME NEW data \in Strings PROVE data \in Seq(Bytes) /\ Len(data) \in Nat
  OBVIOUS
<1>1. PICK n \in 0 .. MaxLen : data \in [1 .. n -> Bytes]
  BY DEF Strings
<1>2. n \in Nat
  OBVIOUS
<1> QED BY <1>1, <1>2, SeqDef, LenProperties

LEMMA StateWellFormed ==
    ASSUME TypeOK
    PROVE  /\ WellFormed(State) /\ Content = Unread(State)
           /\ State.buf = buf /\ State.read = readIdx /\ State.write = writeIdx
           /\ Len(buf) \in Nat
<1>1. State.buf = buf /\ State.read = readIdx /\ State.write = writeIdx
  BY DEF State
<1>2. Len(buf) \in Nat
  BY LenProperties DEF TypeOK
<1> QED BY <1>1, <1>2 DEF TypeOK, WellFormed, State, Content, Unread

\* The vector does not shrink, and grows only when it is full.
Grows ==
    /\ Len(buf') >= Len(buf)
    /\ Len(buf') > Len(buf) => Len(buf) - Readable < Len(buf') - writeIdx

\* What a step of Buffer comes to.
Outcome == TypeOK' /\ (Queue!Next \/ UNCHANGED <<Content, out>>) /\ Grows

\* A step that keeps the unread bytes in front puts bytes at the end.
LEMMA PutStep ==
    ASSUME TypeOK, NEW t, WellFormed(t), Keeps(State, t),
           buf' = t.buf, readIdx' = t.read, writeIdx' = t.write, UNCHANGED <<out, crashed>>
    PROVE  TypeOK' /\ Queue!Next
<1>1. Content' = Unread(t)
  BY DEF Content, Unread
<1>2. \E k \in 0 .. Len(Content') : Content = SubSeq(Content', 1, Len(Content') - k)
  BY <1>1, StateWellFormed, KeepsPuts
<1>3. TypeOK'
  BY LenProperties DEF TypeOK, WellFormed
<1> QED BY <1>2, <1>3 DEF Queue!Next, Queue!Put

\* A step that moves the read index takes bytes from the front.
LEMMA TakeStep ==
    ASSUME TypeOK, NEW n \in 0 .. Readable,
           readIdx' = readIdx + n, UNCHANGED <<buf, writeIdx, crashed>>,
           out' = out \/ out' = SubSeq(buf, readIdx + 1, readIdx + n)
    PROVE  Outcome
<1> DEFINE a == readIdx + 1
           m == writeIdx - readIdx
<1>1. /\ a \in Nat \ {0} /\ m \in Nat /\ n \in 0 .. m
      /\ a + m - 1 = writeIdx /\ a + m - 1 <= Len(buf)
      /\ buf \in Seq(Bytes) /\ Len(buf) \in Nat
  BY LenProperties DEF TypeOK, Readable
<1>2. /\ a + (n + 1) - 1 = readIdx + n + 1
      /\ a + (n + 1) - 1 + (m - n) - 1 = writeIdx
      /\ a + 1 - 1 = readIdx + 1
      /\ a + 1 - 1 + n - 1 = readIdx + n
      /\ (n + 1) + (m - n) - 1 = m
      /\ 1 + n - 1 = n
      /\ n + 1 \in Nat \ {0} /\ m - n \in Nat /\ n \in Nat
  BY DEF TypeOK, Readable
<1>0. Content = SubSeq(buf, a, writeIdx)
  BY DEF Content
<1> HIDE DEF a, m
<1>3. Content = SubSeq(buf, a, a + m - 1) /\ Len(Content) = m
  <2>1. Len(SubSeq(buf, a, a + m - 1)) = m
    BY <1>1, Stretch
  <2> QED BY <1>0, <1>1, <2>1
<1>4. Content' = SubSeq(Content, n + 1, Len(Content))
  <2> DEFINE b == n + 1
             k == m - n
  <2>1. b \in Nat \ {0} /\ k \in Nat /\ b + k - 1 <= m
    BY <1>1, <1>2
  <2> HIDE DEF b, k
  <2>2. SubSeq(SubSeq(buf, a, a + m - 1), b, b + k - 1)
          = SubSeq(buf, a + b - 1, a + b - 1 + k - 1)
    BY <1>1, <2>1, StretchOfStretch
  <2>3. SubSeq(SubSeq(buf, a, a + m - 1), n + 1, (n + 1) + (m - n) - 1)
          = SubSeq(buf, a + (n + 1) - 1, a + (n + 1) - 1 + (m - n) - 1)
    BY <2>2 DEF b, k
  <2>4. Content' = SubSeq(buf, readIdx + n + 1, writeIdx)
    BY DEF Content
  <2> QED BY <1>2, <1>3, <2>3, <2>4
<1>5. SubSeq(buf, readIdx + 1, readIdx + n) = SubSeq(Content, 1, n)
  <2>1. SubSeq(SubSeq(buf, a, a + m - 1), 1, 1 + n - 1)
          = SubSeq(buf, a + 1 - 1, a + 1 - 1 + n - 1)
    <3> DEFINE b == 1
    <3>1. b \in Nat \ {0} /\ n \in Nat /\ b + n - 1 <= m
      BY <1>1, <1>2
    <3> HIDE DEF b
    <3>2. SubSeq(SubSeq(buf, a, a + m - 1), b, b + n - 1)
            = SubSeq(buf, a + b - 1, a + b - 1 + n - 1)
      BY <1>1, <3>1, StretchOfStretch
    <3> QED BY <3>2 DEF b
  <2> QED BY <1>2, <1>3, <2>1
<1>6. n \in 0 .. Len(Content)
  BY <1>1, <1>3
<1>7. Queue!Next
  BY <1>4, <1>5, <1>6 DEF Queue!Next, Queue!Take, Queue!Drop
<1>8. TypeOK'
  <2>1. out' \in Seq(Bytes)
    <3>1. SubSeq(buf, readIdx + 1, readIdx + n) \in Seq(Bytes)
      <4>1. readIdx + n <= Len(buf) /\ readIdx \in Nat
        BY <1>1 DEF TypeOK, Readable
      <4>2. SubSeq(buf, readIdx + 1, (readIdx + 1) + n - 1) \in Seq(Bytes)
        BY <1>1, <1>2, <4>1, Stretch
      <4>3. (readIdx + 1) + n - 1 = readIdx + n
        BY <4>1
      <4> QED BY <4>2, <4>3
    <3> QED BY <3>1 DEF TypeOK
  <2> QED BY <2>1 DEF TypeOK, Readable
<1>9. Grows
  BY <1>1 DEF Grows
<1> QED BY <1>7, <1>8, <1>9 DEF Outcome

\* A vector that keeps its length satisfies Grows.
LEMMA SameLength == TypeOK /\ Len(buf') = Len(buf) => Grows
BY LenProperties DEF TypeOK, Grows

LEMMA RetrieveAllStep == TypeOK /\ RetrieveAll => Outcome
<1> SUFFICES ASSUME TypeOK, RetrieveAll PROVE Outcome
  OBVIOUS
<1> USE DEF RetrieveAll, Works
<1>1. TypeOK'
  BY LenProperties DEF TypeOK
<1>2. Content \in Seq(Bytes) /\ Len(Content) \in Nat
  BY StateWellFormed, UnreadProperties, LenProperties
<1>3. Content' = <<>>
  BY SubSeqEmpty DEF Content
<1>4. SubSeq(Content, Len(Content) + 1, Len(Content)) = <<>>
  BY <1>2, SubSeqEmpty
<1>5. Queue!Next
  BY <1>2, <1>3, <1>4 DEF Queue!Next, Queue!Drop
<1> QED BY <1>1, <1>5, SameLength DEF Outcome

LEMMA EnsureWritableStep ==
    ASSUME TypeOK, NEW n \in Nat, EnsureWritableBytes(n) PROVE Outcome
<1> DEFINE t == EnsureWritable(State, n)
<1>1. buf' = t.buf /\ readIdx' = t.read /\ writeIdx' = t.write /\ UNCHANGED <<out, crashed>>
  BY DEF EnsureWritableBytes, Becomes, Works
<1>2. /\ WellFormed(t) /\ Keeps(State, t)
      /\ Len(t.buf) >= Len(buf)
      /\ Len(t.buf) > Len(buf) =>
            /\ Len(buf) - (writeIdx - readIdx) < n
            /\ Len(t.buf) = writeIdx + n
  BY StateWellFormed, EnsureWritableProperties, EnsureWritableKeeps
<1> HIDE DEF t
<1>3. TypeOK' /\ Queue!Next
  BY <1>1, <1>2, PutStep
<1>4. Grows
  BY <1>1, <1>2, StateWellFormed DEF Grows, Readable, TypeOK
<1> QED BY <1>3, <1>4 DEF Outcome

LEMMA HasWrittenStep ==
    ASSUME TypeOK, NEW n \in Nat, HasWritten(n) PROVE Outcome
<1> DEFINE t == [buf |-> buf, read |-> readIdx, write |-> writeIdx + n]
<1>1. /\ buf' = t.buf /\ readIdx' = t.read /\ writeIdx' = t.write
      /\ UNCHANGED <<out, crashed>> /\ n <= Len(buf) - writeIdx
  BY DEF HasWritten, Works, Writable
<1>2. WellFormed(t) /\ Keeps(State, t)
  BY <1>1, StateWellFormed DEF WellFormed, Keeps, TypeOK
<1>3. TypeOK' /\ Queue!Next
  BY <1>1, <1>2, PutStep
<1> QED BY <1>1, <1>3, SameLength DEF Outcome

LEMMA AppendStep ==
    ASSUME TypeOK, NEW data \in Seq(Bytes), AppendBytes(data) PROVE Outcome
<1> DEFINE u == Appended(State, data)
<1>1. buf' = u.buf /\ readIdx' = u.read /\ writeIdx' = u.write /\ UNCHANGED <<out, crashed>>
  BY DEF AppendBytes, Becomes, Works
<1>2. /\ WellFormed(u) /\ Keeps(State, u)
      /\ Len(u.buf) >= Len(buf)
      /\ Len(u.buf) > Len(buf) =>
            /\ Len(buf) - (writeIdx - readIdx) < Len(data)
            /\ Len(u.buf) = writeIdx + Len(data)
  BY StateWellFormed, AppendedProperties
<1> HIDE DEF u
<1>3. TypeOK' /\ Queue!Next
  BY <1>1, <1>2, PutStep
<1>4. Grows
  BY <1>1, <1>2, StateWellFormed, LenProperties DEF Grows, Readable, TypeOK
<1> QED BY <1>3, <1>4 DEF Outcome

\* Prepend puts its bytes before the unread ones and touches none of them.
LEMMA PrependStep ==
    ASSUME TypeOK, NEW data \in Seq(Bytes), Prepend(data) PROVE Outcome
<1> DEFINE l == Len(data)
           n == writeIdx - readIdx
           at == readIdx - l
           b == Overwrite(buf, at, data)
<1>1. /\ buf' = b /\ readIdx' = at
      /\ UNCHANGED <<writeIdx, out, crashed>> /\ l <= readIdx
  BY DEF Prepend, PrependAt, Works
<1>2. /\ l \in Nat /\ n \in Nat /\ at \in Nat /\ at + l = readIdx /\ at + l <= Len(buf)
      /\ Len(buf) \in Nat /\ readIdx \in Nat /\ writeIdx \in Nat
      /\ readIdx + n = writeIdx /\ writeIdx <= Len(buf)
      /\ buf \in Seq(Bytes)
  BY <1>1, LenProperties DEF TypeOK
<1>3. /\ b \in Seq(Bytes) /\ Len(b) = Len(buf)
      /\ \A i \in 1 .. Len(buf) :
            b[i] = IF i \in at + 1 .. at + Len(data) THEN data[i - at] ELSE buf[i]
  BY <1>2, OverwriteProperties
<1> HIDE DEF n, at, b
<1>4. TypeOK'
  BY <1>1, <1>2, <1>3 DEF TypeOK
<1>5. /\ State'.buf = b /\ State'.read = at /\ State'.write = writeIdx
      /\ WellFormed(State') /\ Content' = Unread(State')
  BY <1>1, <1>2, <1>3 DEF State, WellFormed, Content, Unread
<1>6. /\ Content' \in Seq(Bytes) /\ Len(Content') = l + n
      /\ \A k \in 1 .. l + n : Content'[k] = b[at + k]
  <2>1. writeIdx - at = l + n
    BY <1>2
  <2> QED BY <1>5, <2>1, UnreadProperties
<1>7. /\ Content \in Seq(Bytes) /\ Len(Content) = n
      /\ \A k \in 1 .. n : Content[k] = buf[readIdx + k]
  BY StateWellFormed, UnreadProperties DEF n
<1>8. \A k \in 1 .. n : Content[1 + k - 1] = Content'[(l + 1) + k - 1]
  <2>1. \A k \in 1 .. n :
           /\ 1 + k - 1 = k /\ (l + 1) + k - 1 = l + k /\ l + k \in 1 .. l + n
           /\ at + (l + k) = readIdx + k /\ readIdx + k \in 1 .. Len(buf)
           /\ readIdx + k \notin at + 1 .. at + l
    BY <1>2
  <2>2. \A k \in 1 .. n : b[readIdx + k] = buf[readIdx + k]
    BY <1>3, <2>1
  <2>3. \A k \in 1 .. n : Content'[l + k] = b[at + (l + k)]
    BY <1>6, <2>1
  <2> QED BY <1>7, <2>1, <2>2, <2>3
<1>9. SubSeq(Content, 1, 1 + n - 1) = SubSeq(Content', l + 1, (l + 1) + n - 1)
  <2> DEFINE d == Content'
             c == l + 1
  <2>1. /\ c \in Nat \ {0} /\ 1 + n - 1 <= Len(Content) /\ c + n - 1 <= Len(d)
        /\ d \in Seq(Bytes)
    BY <1>2, <1>6, <1>7
  <2>2. \A k \in 1 .. n : Content[1 + k - 1] = d[c + k - 1]
    BY <1>8
  <2> HIDE DEF d, c
  <2>3. SubSeq(Content, 1, 1 + n - 1) = SubSeq(d, c, c + n - 1)
    BY <1>2, <1>7, <2>1, <2>2, SameStretch
  <2> QED BY <2>3 DEF d, c
<1>10. l \in 0 .. Len(Content') /\ Content = SubSeq(Content', l + 1, Len(Content'))
  <2>1. 1 + n - 1 = n /\ (l + 1) + n - 1 = l + n /\ l \in 0 .. l + n
    BY <1>2
  <2> QED BY <1>6, <1>7, <1>9, <2>1, SubSeqFull
<1>11. Queue!Next
  BY <1>1, <1>10 DEF Queue!Next, Queue!PutBefore
<1> QED BY <1>1, <1>3, <1>4, <1>11, SameLength DEF Outcome

LEMMA KeepsTransitive ==
    ASSUME NEW s, NEW t, NEW u, WellFormed(s), WellFormed(t), WellFormed(u),
           Keeps(s, t), Keeps(t, u)
    PROVE  Keeps(s, u)
<1> DEFINE n == s.write - s.read
           m == t.write - t.read
           k == u.write - u.read
<1>1. n \in Int /\ m \in Int /\ k \in Int /\ n <= m /\ m <= k
  <2>1. n \in Nat /\ m \in Nat /\ k \in Nat
    BY Parts
  <2>2. m >= n /\ k >= m
    BY DEF Keeps
  <2> QED BY <2>1, <2>2
<1>2. /\ \A i \in 1 .. n : t.buf[t.read + i] = s.buf[s.read + i]
      /\ \A i \in 1 .. m : u.buf[u.read + i] = t.buf[t.read + i]
  BY DEF Keeps
<1> HIDE DEF n, m, k
<1>3. \A i \in 1 .. n : u.buf[u.read + i] = s.buf[s.read + i]
  BY <1>1, <1>2
<1>4. n <= k
  BY <1>1
<1> QED BY <1>3, <1>4 DEF Keeps, n, k

\* A read fills the free space first and appends what went to extrabuf.
LEMMA ReadFromFdStep ==
    ASSUME TypeOK, NEW data \in Seq(Bytes), ReadFromFd(data) PROVE Outcome
<1> DEFINE first == IF Len(data) <= Writable THEN Len(data) ELSE Writable
           part == SubSeq(data, 1, first)
           rest == SubSeq(data, first + 1, Len(data))
           b == Overwrite(buf, writeIdx, part)
           s == [State EXCEPT !.buf = Overwrite(@, writeIdx, part), !.write = @ + first]
           t == IF first = Len(data) THEN s ELSE Appended(s, rest)
<1>1. /\ Becomes(t) /\ UNCHANGED <<out, crashed>>
  BY DEF ReadFromFd, Works
<1>2. buf' = t.buf /\ readIdx' = t.read /\ writeIdx' = t.write
  BY <1>1 DEF Becomes
<1>3. /\ Len(data) \in Nat /\ first \in Nat /\ first <= Len(data) /\ first <= Len(buf) - writeIdx
      /\ first # Len(data) => first = Len(buf) - writeIdx
      /\ Len(buf) \in Nat /\ readIdx \in Nat /\ writeIdx \in Nat
      /\ readIdx <= writeIdx /\ writeIdx <= Len(buf)
      /\ buf \in Seq(Bytes)
  BY LenProperties DEF TypeOK, Writable
<1> HIDE DEF first
<1>4. s = [buf |-> b, read |-> readIdx, write |-> writeIdx + first]
  <2> HIDE DEF part
  <2>1. s = [State EXCEPT !.buf = Overwrite(State.buf, writeIdx, part),
                          !.write = State.write + first]
    OBVIOUS
  <2>2. State = [buf |-> buf, read |-> readIdx, write |-> writeIdx]
    BY DEF State
  <2> HIDE DEF s
  <2> QED BY <2>1, <2>2
<1>5. part \in Seq(Bytes) /\ Len(part) = first
  <2>1. 1 + first - 1 = first /\ 1 + first - 1 <= Len(data)
    BY <1>3
  <2>2. /\ SubSeq(data, 1, 1 + first - 1) \in Seq(Bytes)
        /\ Len(SubSeq(data, 1, 1 + first - 1)) = first
    BY <1>3, <2>1, Stretch
  <2> QED BY <2>1, <2>2
<1>6. rest \in Seq(Bytes) /\ Len(rest) = Len(data) - first
  <2> DEFINE c == first + 1
             m == Len(data) - first
  <2>1. c \in Nat \ {0} /\ m \in Nat /\ c + m - 1 = Len(data) /\ c + m - 1 <= Len(data)
    BY <1>3
  <2> HIDE DEF c, m
  <2>2. /\ SubSeq(data, c, c + m - 1) \in Seq(Bytes)
        /\ Len(SubSeq(data, c, c + m - 1)) = m
    BY <2>1, Stretch
  <2> QED BY <2>1, <2>2 DEF c, m
<1> HIDE DEF part, rest
<1>7. /\ b \in Seq(Bytes) /\ Len(b) = Len(buf)
      /\ \A i \in 1 .. Len(buf) :
            b[i] = IF i \in writeIdx + 1 .. writeIdx + Len(part) THEN part[i - writeIdx]
                   ELSE buf[i]
  <2>1. writeIdx + Len(part) <= Len(buf)
    BY <1>3, <1>5
  <2>2. buf \in Seq(Bytes) /\ part \in Seq(Bytes) /\ writeIdx \in Nat
    BY <1>3, <1>5
  <2> HIDE DEF b
  <2>3. b = Overwrite(buf, writeIdx, part)
    BY DEF b
  <2>4. /\ Overwrite(buf, writeIdx, part) \in Seq(Bytes)
        /\ Len(Overwrite(buf, writeIdx, part)) = Len(buf)
        /\ \A i \in 1 .. Len(buf) :
              Overwrite(buf, writeIdx, part)[i] =
                  IF i \in writeIdx + 1 .. writeIdx + Len(part) THEN part[i - writeIdx]
                  ELSE buf[i]
    BY <2>1, <2>2, OverwriteProperties
  <2> QED BY <2>3, <2>4
<1> HIDE DEF b, s
<1>8. /\ WellFormed(s) /\ Len(s.buf) = Len(buf)
      /\ s.read = readIdx /\ s.write = writeIdx + first
  BY <1>3, <1>4, <1>7 DEF WellFormed
<1>9. Keeps(State, s)
  <2>1. State.buf = buf /\ State.read = readIdx /\ State.write = writeIdx
    BY StateWellFormed
  <2>2. \A k \in 1 .. writeIdx - readIdx :
           /\ readIdx + k \in 1 .. Len(buf)
           /\ readIdx + k \notin writeIdx + 1 .. writeIdx + Len(part)
    BY <1>3, <1>5
  <2>3. \A k \in 1 .. writeIdx - readIdx : b[readIdx + k] = buf[readIdx + k]
    BY <1>7, <2>2
  <2>4. (writeIdx + first) - readIdx >= writeIdx - readIdx
    BY <1>3
  <2> QED BY <1>4, <2>1, <2>3, <2>4 DEF Keeps
<1>10. CASE first = Len(data)
  <2>1. t = s
    BY <1>10
  <2>2. TypeOK' /\ Queue!Next
    BY <1>1, <1>2, <1>8, <1>9, <2>1, PutStep
  <2>3. Grows
    BY <1>2, <1>8, <2>1, SameLength
  <2> QED BY <2>2, <2>3 DEF Outcome
<1>11. CASE first # Len(data)
  <2>1. t = Appended(s, rest)
    BY <1>11
  <2> HIDE DEF t
  <2>2. /\ WellFormed(t) /\ Keeps(s, t)
        /\ Len(t.buf) >= Len(s.buf)
        /\ Len(t.buf) > Len(s.buf) =>
              /\ Len(s.buf) - (s.write - s.read) < Len(rest)
              /\ Len(t.buf) = s.write + Len(rest)
    BY <1>6, <1>8, <2>1, AppendedProperties
  <2>3. Keeps(State, t)
    BY <1>8, <1>9, <2>2, StateWellFormed, KeepsTransitive
  <2>4. TypeOK' /\ Queue!Next
    BY <1>1, <1>2, <2>2, <2>3, PutStep
  <2>5. Grows
    BY <1>2, <1>3, <1>6, <1>8, <1>11, <2>2 DEF Grows, Readable
  <2> QED BY <2>4, <2>5 DEF Outcome
<1> QED BY <1>10, <1>11

LEMMA Step == TypeOK /\ [Next]_vars => Outcome
<1> SUFFICES ASSUME TypeOK, [Next]_vars PROVE Outcome
  OBVIOUS
<1>1. ASSUME NEW n \in 0 .. Readable, Retrieve(n) \/ RetrieveAsString(n) \/ WriteToFd(n)
      PROVE  Outcome
  BY <1>1, TakeStep DEF Retrieve, RetrieveAsString, WriteToFd, Works
<1>2. CASE RetrieveAll
  BY <1>2, RetrieveAllStep
<1>3. ASSUME NEW n \in 0 .. MaxLen, EnsureWritableBytes(n) \/ HasWritten(n) PROVE Outcome
  BY <1>3, EnsureWritableStep, HasWrittenStep
<1>4. ASSUME NEW data \in Strings, AppendBytes(data) \/ Prepend(data) \/ ReadFromFd(data)
      PROVE  Outcome
  BY <1>4, StringsType, AppendStep, PrependStep, ReadFromFdStep
<1>5. ASSUME UNCHANGED <<buf, readIdx, writeIdx, out>>, crashed' \in BOOLEAN PROVE Outcome
  BY <1>5, SameLength DEF Outcome, TypeOK, Content
<1>6. CASE ReadFromFdFails
  BY <1>6, <1>5 DEF ReadFromFdFails
<1>7. CASE UNCHANGED vars
  BY <1>7, <1>5 DEF vars, TypeOK
<1> QED BY <1>1, <1>2, <1>3, <1>4, <1>6, <1>7 DEF Next

LEMMA TypeInit == Init => TypeOK
<1> SUFFICES ASSUME Init PROVE TypeOK
  OBVIOUS
<1>1. [i \in 1 .. InitialSize |-> Fill] \in [1 .. InitialSize -> Bytes]
  BY FillType
<1>2. buf \in Seq(Bytes) /\ Len(buf) = InitialSize
  BY <1>1, SeqDef, LenProperties DEF Init
<1>3. out \in Seq(Bytes)
  BY EmptySeq DEF Init
<1>4. readIdx \in 0 .. writeIdx /\ writeIdx \in 0 .. Len(buf)
  <2>1. readIdx = 0 /\ writeIdx = 0
    BY DEF Init
  <2> QED BY <1>2, <2>1
<1>5. crashed \in BOOLEAN
  BY Zenon DEF Init
<1> QED BY <1>2, <1>3, <1>4, <1>5 DEF TypeOK

-----------------------------------------------------------------------------
(* FindCRLF.  A set of numbers that is not empty has a least element: what *)
(* is false of some stretch of bytes is false of a shortest one.           *)

LEMMA LeastNat ==
    ASSUME NEW T \in SUBSET Nat, T # {}
    PROVE  \E x \in T : \A y \in T : x <= y
<1> DEFINE R == OpToRel(<, Nat)
<1>1. IsWellFoundedOn(R, Nat)
  BY NatLessThanWellFounded
<1>2. \A x, y \in Nat : y < x => <<y, x>> \in R
  BY DEF OpToRel
<1> HIDE DEF R
<1>3. PICK x \in T : \A y \in T : <<y, x>> \notin R
  BY <1>1, WFMin, Zenon
<1>4. \A y \in T : ~(y < x)
  BY <1>2, <1>3
<1> QED BY <1>4

\* memchr returns the first hit.
LEMMA MemchrProperties ==
    ASSUME NEW s \in Seq(Bytes), NEW p \in Nat \ {0}, NEW b
    PROVE  \/ /\ Memchr(s, p, b) = 0
              /\ \A i \in p .. Len(s) : s[i] # b
           \/ /\ Memchr(s, p, b) \in p .. Len(s) /\ s[Memchr(s, p, b)] = b
              /\ \A i \in p .. Memchr(s, p, b) - 1 : s[i] # b
<1> DEFINE hits == {i \in p .. Len(s) : s[i] = b}
<1>1. Len(s) \in Nat /\ p \in Nat
  BY LenProperties
<1>2. CASE hits = {}
  <2>1. Memchr(s, p, b) = 0
    BY <1>2 DEF Memchr
  <2> QED BY <1>2, <2>1
<1>3. CASE hits # {}
  <2>1. PICK i \in hits : \A j \in hits : i <= j
    <3>1. hits \in SUBSET Nat
      BY <1>1
    <3> HIDE DEF hits
    <3> QED BY <1>3, <3>1, LeastNat
  <2>2. Memchr(s, p, b) = CHOOSE k \in hits : \A j \in hits : k <= j
    BY <1>3 DEF Memchr
  <2> HIDE DEF hits
  <2>3. Memchr(s, p, b) \in hits /\ \A j \in hits : Memchr(s, p, b) <= j
    BY <2>1, <2>2
  <2>4. Memchr(s, p, b) \in p .. Len(s) /\ s[Memchr(s, p, b)] = b
    BY <2>3 DEF hits
  <2>5. ASSUME NEW j \in p .. Memchr(s, p, b) - 1 PROVE s[j] # b
    <3>1. j \in p .. Len(s) /\ ~(Memchr(s, p, b) <= j)
      BY <1>1, <2>4
    <3> QED BY <2>3, <3>1 DEF hits
  <2> QED BY <2>4, <2>5
<1> QED BY <1>2, <1>3

\* One look of FindCRLF, and the looks from position p on.
Look(f, s, p) ==
    LET q == Memchr(s, p, CR)
    IN  IF q = 0 THEN 0 ELSE IF IsTerminator(s, q) THEN q ELSE f[q + 1]
LooksFrom(f, s, p) == f = [i \in p .. Len(s) + 1 |-> Look(f, s, i)]

\* The loop of FindCRLF ends: the recursion has a solution.
LEMMA LooksExist ==
    ASSUME NEW s \in Seq(Bytes), NEW n \in 0 .. Len(s)
    PROVE  \E f : LooksFrom(f, s, Len(s) + 1 - n)
<1> DEFINE Bad == {k \in 0 .. Len(s) : ~\E f : LooksFrom(f, s, Len(s) + 1 - k)}
<1>1. Len(s) \in Nat
  BY LenProperties
<1>2. ASSUME Bad # {} PROVE FALSE
  <2>1. PICK k \in Bad : \A l \in Bad : k <= l
    <3>1. Bad \in SUBSET Nat
      BY <1>1
    <3> HIDE DEF Bad
    <3> QED BY <1>2, <3>1, LeastNat
  <2> DEFINE p == Len(s) + 1 - k
  <2>2. k # 0
    <3>1. Memchr(s, Len(s) + 1, CR) = 0
      BY <1>1, MemchrProperties
    <3>2. \A f : Look(f, s, Len(s) + 1) = 0
      BY <3>1 DEF Look
    <3> DEFINE f == [i \in Len(s) + 1 .. Len(s) + 1 |-> 0]
    <3>3. f = [i \in Len(s) + 1 .. Len(s) + 1 |-> Look(f, s, i)]
      BY <1>1, <3>2
    <3> HIDE DEF f
    <3>4. LooksFrom(f, s, Len(s) + 1 - 0)
      BY <1>1, <3>3 DEF LooksFrom
    <3> QED BY <3>4
  <2>3. k \in 1 .. Len(s) /\ p \in 1 .. Len(s) /\ p + 1 = Len(s) + 1 - (k - 1)
    BY <1>1, <2>1, <2>2
  <2>4. PICK f : LooksFrom(f, s, p + 1)
    <3>1. k - 1 \in 0 .. Len(s) /\ k - 1 \notin Bad
      BY <1>1, <2>1, <2>3
    <3> QED BY <2>3, <3>1
  <2> HIDE DEF p
  <2> DEFINE g == [i \in p .. Len(s) + 1 |-> IF i = p THEN Look(f, s, p) ELSE f[i]]
  <2>5. \A i \in p + 1 .. Len(s) + 1 : f[i] = Look(f, s, i)
    BY <2>4, Zenon DEF LooksFrom
  <2>6. \A i \in p + 1 .. Len(s) + 1 : g[i] = f[i]
    BY <1>1, <2>3
  <2>7. g[p] = Look(f, s, p)
    BY <1>1, <2>3
  <2>8. g = [i \in p .. Len(s) + 1 |-> g[i]]
    OBVIOUS
  <2> HIDE DEF g
  <2>9. \A i \in p .. Len(s) + 1 : Look(g, s, i) = Look(f, s, i)
    <3> SUFFICES ASSUME NEW i \in p .. Len(s) + 1 PROVE Look(g, s, i) = Look(f, s, i)
      OBVIOUS
    <3> DEFINE q == Memchr(s, i, CR)
    <3>1. q = 0 \/ q \in i .. Len(s)
      <4>1. i \in Nat \ {0}
        BY <1>1, <2>3
      <4> QED BY <4>1, MemchrProperties
    <3> HIDE DEF q
    <3>2. q # 0 => q + 1 \in p + 1 .. Len(s) + 1
      BY <1>1, <2>3, <3>1
    <3>3. q # 0 => g[q + 1] = f[q + 1]
      BY <2>6, <3>2
    <3> QED BY <3>3 DEF Look, q
  <2>10. \A i \in p .. Len(s) + 1 : g[i] = Look(g, s, i)
    <3>1. \A i \in p .. Len(s) + 1 : i = p \/ i \in p + 1 .. Len(s) + 1
      BY <1>1, <2>3
    <3> QED BY <2>5, <2>6, <2>7, <2>9, <3>1
  <2>11. LooksFrom(g, s, p)
    BY <2>8, <2>10 DEF LooksFrom
  <2> QED BY <2>11 DEF p
<1> QED BY <1>2

\* The terminators of s from position p on.
Terminators(s, p) == {i \in p .. Len(s) - 1 : s[i] = CR /\ s[i + 1] = LF}

\* x is where the first of the terminators is, 0 if there is none.
IsFirst(x, hits) ==
    \/ hits = {} /\ x = 0
    \/ x \in hits /\ \A i \in hits : x <= i

LEMMA FindCRLFFirst ==
    ASSUME NEW s \in Seq(Bytes)
    PROVE  IsFirst(FindCRLF(s), Terminators(s, 1))
<1> DEFINE f == CHOOSE f : LooksFrom(f, s, 1)
           Bad == {k \in 0 .. Len(s) :
                      ~IsFirst(f[Len(s) + 1 - k], Terminators(s, Len(s) + 1 - k))}
<1>1. Len(s) \in Nat
  BY LenProperties
<1>2. LooksFrom(f, s, 1)
  <2>1. Len(s) \in 0 .. Len(s) /\ Len(s) + 1 - Len(s) = 1
    BY <1>1
  <2> QED BY <2>1, LooksExist
<1>3. FindCRLF(s) = f[1]
  BY Zenon DEF FindCRLF, LooksFrom, Look
<1> HIDE DEF f
<1>4. \A i \in 1 .. Len(s) + 1 : f[i] = Look(f, s, i)
  BY <1>2, Zenon DEF LooksFrom
<1>5. ASSUME NEW k \in 0 .. Len(s),
             \A l \in 0 .. k - 1 : IsFirst(f[Len(s) + 1 - l], Terminators(s, Len(s) + 1 - l))
      PROVE  IsFirst(f[Len(s) + 1 - k], Terminators(s, Len(s) + 1 - k))
  <2> DEFINE p == Len(s) + 1 - k
             q == Memchr(s, p, CR)
  <2>1. p \in 1 .. Len(s) + 1 /\ p \in Nat \ {0}
    BY <1>1
  <2>2. f[p] = Look(f, s, p)
    BY <1>4, <2>1
  <2>3. \/ q = 0 /\ \A i \in p .. Len(s) : s[i] # CR
        \/ q \in p .. Len(s) /\ s[q] = CR /\ \A i \in p .. q - 1 : s[i] # CR
    BY <2>1, MemchrProperties
  <2>4. f[p] = IF q = 0 THEN 0 ELSE IF IsTerminator(s, q) THEN q ELSE f[q + 1]
    BY <2>2 DEF Look
  <2>5. p = Len(s) + 1 - k
    OBVIOUS
  <2> HIDE DEF p, q
  <2>6. CASE q = 0
    <3>1. f[p] = 0 /\ \A i \in p .. Len(s) : s[i] # CR
      BY <2>1, <2>3, <2>4, <2>6
    <3>2. Terminators(s, p) = {}
      BY <1>1, <2>1, <3>1 DEF Terminators
    <3> QED BY <2>5, <3>1, <3>2 DEF IsFirst
  <2>7. CASE q # 0 /\ IsTerminator(s, q)
    <3>1. f[p] = q /\ q \in p .. Len(s) /\ s[q] = CR /\ \A i \in p .. q - 1 : s[i] # CR
      BY <2>3, <2>4, <2>7
    <3>2. q \in Terminators(s, p)
      BY <1>1, <2>1, <2>7, <3>1 DEF Terminators, IsTerminator
    <3>3. \A i \in Terminators(s, p) : q <= i
      BY <1>1, <2>1, <3>1 DEF Terminators
    <3> QED BY <2>5, <3>1, <3>2, <3>3 DEF IsFirst
  <2>8. CASE q # 0 /\ ~IsTerminator(s, q)
    <3>1. /\ f[p] = f[q + 1] /\ q \in p .. Len(s)
          /\ \A i \in p .. q - 1 : s[i] # CR
          /\ q < Len(s) => s[q + 1] # LF
      BY <1>1, <2>1, <2>3, <2>4, <2>8 DEF IsTerminator
    <3>2. Terminators(s, p) = Terminators(s, q + 1)
      BY <1>1, <2>1, <3>1 DEF Terminators
    <3> DEFINE l == Len(s) - q
    <3>3. l \in 0 .. k - 1 /\ Len(s) + 1 - l = q + 1
      BY <1>1, <2>1, <2>5, <3>1
    <3> HIDE DEF l
    <3>4. IsFirst(f[q + 1], Terminators(s, q + 1))
      BY <1>5, <3>3
    <3> QED BY <2>5, <3>1, <3>2, <3>4
  <2> QED BY <2>6, <2>7, <2>8
<1>6. ASSUME Bad # {} PROVE FALSE
  <2>1. PICK k \in Bad : \A l \in Bad : k <= l
    <3>1. Bad \in SUBSET Nat
      BY <1>1
    <3> HIDE DEF Bad
    <3> QED BY <1>6, <3>1, LeastNat
  <2>2. k \in 0 .. Len(s) /\ \A l \in 0 .. k - 1 : l \in 0 .. Len(s) /\ l \notin Bad
    BY <1>1, <2>1
  <2> QED BY <1>5, <2>1, <2>2
<1>7. IsFirst(f[Len(s) + 1 - Len(s)], Terminators(s, Len(s) + 1 - Len(s)))
  <2>1. Len(s) \in 0 .. Len(s)
    BY <1>1
  <2> QED BY <1>6, <2>1
<1>8. Len(s) + 1 - Len(s) = 1
  BY <1>1
<1> QED BY <1>3, <1>7, <1>8

-----------------------------------------------------------------------------
(* The theorems.                                                           *)

\* The indices of a Buffer stay in order and inside the vector.
THEOREM TypeCorrect == Spec => []TypeOK
<1>1. TypeOK /\ [Next]_vars => TypeOK'
  BY Step DEF Outcome
<1> QED BY <1>1, TypeInit, PTL DEF Spec

\* The vector grows only when the free space on both sides is too little.
THEOREM GrowsOnlyWhenFullCorrect == Spec => GrowsOnlyWhenFull
<1>1. TypeOK /\ [Next]_vars => TypeOK' /\ [Grows]_vars
  BY Step DEF Outcome
<1> QED BY <1>1, TypeInit, PTL DEF Spec, GrowsOnlyWhenFull, Grows

\* Buffer implements the queue of bytes: no operation loses, repeats or
\* reorders an unread byte.
THEOREM QueueCorrect == Spec => ImplementsByteQueue
<1>1. Init => Queue!Init
  BY SubSeqEmpty DEF Init, Queue!Init, Content
<1>2. TypeOK /\ [Next]_vars => TypeOK' /\ [Queue!Next]_(Queue!vars)
  BY Step DEF Outcome, Queue!vars
<1> QED BY <1>1, <1>2, TypeInit, PTL DEF Spec, ImplementsByteQueue, Queue!Spec
\* FindCRLF finds the first CR LF of the unread bytes of every reachable
\* buffer, however many CRs that end no line come before it.
THEOREM FindsFirstCRLFCorrect == Spec => []FindsFirstCRLF
<1>1. TypeOK => FindsFirstCRLF
  <2> SUFFICES ASSUME TypeOK PROVE FindsFirstCRLF
    OBVIOUS
  <2>1. Content \in Seq(Bytes)
    <3>1. WellFormed(State) /\ Unread(State) = Content
      BY StateWellFormed
    <3> QED BY <3>1, UnreadProperties
  <2>2. IsFirst(FindCRLF(Content), Terminators(Content, 1))
    BY <2>1, FindCRLFFirst
  <2>3. Terminators(Content, 1)
          = {i \in 1 .. Len(Content) - 1 : Content[i] = CR /\ Content[i + 1] = LF}
    BY DEF Terminators
  <2> QED BY <2>2, <2>3, Zenon DEF FindsFirstCRLF, IsFirst
<1> QED BY <1>1, TypeCorrect, PTL
=============================================================================
