-------------------------- MODULE WSPollPollerProofs --------------------------
(***************************************************************************)
(* Theorems about WSPollPoller for every set of channels and descriptors   *)
(* and every sequence of updates, removals and polls.                      *)
(***************************************************************************)
EXTENDS WSPollPoller, SequenceTheorems, WellFoundedInduction, TLAPS

USE WSPollPollerAssumption

PollFd == [fd : Fds, events : (SUBSET Events) \ {{}}]

\* The type of what a removal changes.
VectorsOK ==
    /\ pollfds \in Seq(PollFd)
    /\ channels \in Seq(Channels)
    /\ index \in [Fds -> Nat]

IInv == VectorsOK /\ InStep

-----------------------------------------------------------------------------
(* The swap with the last element.                                         *)

\* The vector gets one shorter, the last element takes the place of the one
\* that goes, and every other stays where it was.
LEMMA SwappedOutElements ==
    ASSUME NEW S, NEW v \in Seq(S), NEW i \in 1 .. Len(v)
    PROVE  /\ SwappedOut(v, i) \in Seq(S)
           /\ Len(SwappedOut(v, i)) = Len(v) - 1
           /\ \A j \in 1 .. Len(v) - 1 :
                 SwappedOut(v, i)[j] = IF j = i THEN v[Len(v)] ELSE v[j]
<1> DEFINE n == Len(v)
           w == [v EXCEPT ![i] = v[n]]
<1>1. n \in Nat \ {0} /\ i \in 1 .. n /\ v[n] \in S
  BY LenProperties, ElementOfSeq
<1>2. w \in Seq(S) /\ Len(w) = n /\ \A j \in 1 .. n : w[j] = IF j = i THEN v[n] ELSE v[j]
  BY <1>1, ExceptSeq
<1>3. SwappedOut(v, i) = SubSeq(w, 1, n - 1)
  BY DEF SwappedOut
<1> HIDE DEF n, w
<1>4. /\ SubSeq(w, 1, n - 1) \in Seq(S)
      /\ Len(SubSeq(w, 1, n - 1)) = n - 1
      /\ \A j \in 1 .. n - 1 : SubSeq(w, 1, n - 1)[j] = w[j]
  <2>1. \A j \in 1 .. n - 1 : w[j] \in S
    BY <1>1, <1>2, ElementOfSeq
  <2>2. 1 <= n - 1 <=> n - 1 # 0
    BY <1>1
  <2> QED BY <1>1, <2>1, <2>2, SubSeqProperties
<1>5. \A j \in 1 .. n - 1 : SwappedOut(v, i)[j] = IF j = i THEN v[n] ELSE v[j]
  BY <1>1, <1>2, <1>3, <1>4
<1> QED BY <1>3, <1>4, <1>5 DEF n

-----------------------------------------------------------------------------
(* The steps.                                                              *)

\* What InStep says of one place and of one entry, with the types.
LEMMA Places ==
    ASSUME IInv
    PROVE  /\ Last \in Nat /\ Len(channels) = Last
           /\ \A i \in 1 .. Last :
                 /\ pollfds[i] \in PollFd /\ pollfds[i].fd \in Fds
                 /\ channels[i] \in Channels
                 /\ index[pollfds[i].fd] = i
                 /\ FdOf[channels[i]] = pollfds[i].fd
           /\ \A f \in Fds : index[f] # 0 => index[f] \in 1 .. Last /\ pollfds[index[f]].fd = f
<1>1. Last \in Nat /\ DOMAIN pollfds = 1 .. Last /\ Len(channels) = Last
  BY LenProperties DEF IInv, VectorsOK, InStep, Last
<1>2. \A i \in 1 .. Last : pollfds[i] \in PollFd /\ channels[i] \in Channels
  BY <1>1, ElementOfSeq DEF IInv, VectorsOK, Last
<1> QED BY <1>1, <1>2 DEF IInv, InStep, PollFd

\* Swapping the last element into the place of the one removed keeps the
\* vectors and the map in step, also when it is the last one that goes.
LEMMA RemovedInStep ==
    ASSUME IInv, NEW c \in Channels, Removed(c)
    PROVE  IInv'
<1> DEFINE fd == FdOf[c]
           i == index[fd]
           n == Last
           g == pollfds[n].fd
<1>1. fd \in Fds /\ i \in Nat
  BY DEF IInv, VectorsOK
<1>2. CASE i = 0
  BY <1>2 DEF Removed, IInv, VectorsOK, InStep
<1>3. CASE i # 0
  <2>1. /\ n \in Nat \ {0} /\ i \in 1 .. n
        /\ g \in Fds /\ index[g] = n
        /\ pollfds[i].fd = fd
    BY <1>1, <1>3, Places
  <2>2. /\ pollfds' = SwappedOut(pollfds, i)
        /\ channels' = SwappedOut(channels, i)
        /\ index' = [index EXCEPT ![g] = i, ![fd] = 0]
    BY <1>3 DEF Removed, Reindexed
  <2>3. /\ pollfds' \in Seq(PollFd) /\ Len(pollfds') = n - 1
        /\ \A j \in 1 .. n - 1 : pollfds'[j] = IF j = i THEN pollfds[n] ELSE pollfds[j]
    BY <2>1, <2>2, SwappedOutElements DEF IInv, VectorsOK, Last
  <2>4. /\ channels' \in Seq(Channels) /\ Len(channels') = n - 1
        /\ \A j \in 1 .. n - 1 : channels'[j] = IF j = i THEN channels[n] ELSE channels[j]
    <3>1. Len(channels) = n
      BY Places
    <3> HIDE DEF n, i
    <3>2. channels \in Seq(Channels) /\ i \in 1 .. Len(channels)
      BY <2>1, <3>1 DEF IInv, VectorsOK
    <3> QED BY <2>2, <3>1, <3>2, SwappedOutElements
  <2>5. /\ index' \in [Fds -> Nat]
        /\ \A f \in Fds : index'[f] = IF f = fd THEN 0 ELSE IF f = g THEN i ELSE index[f]
    BY <1>1, <2>1, <2>2 DEF IInv, VectorsOK
  <2>6. DOMAIN pollfds' = 1 .. n - 1
    BY <2>3, LenProperties
  <2>7. ASSUME NEW j \in 1 .. n - 1
        PROVE  index'[pollfds'[j].fd] = j /\ FdOf[channels'[j]] = pollfds'[j].fd
    <3>1. j \in 1 .. n /\ j # n
      BY <2>1
    <3>2. CASE j = i
      <4>1. pollfds'[j].fd = g /\ channels'[j] = channels[n] /\ g # fd
        BY <2>1, <2>3, <2>4, <3>1, <3>2
      <4>2. FdOf[channels[n]] = g
        BY <2>1, Places
      <4> QED BY <2>1, <2>5, <3>2, <4>1, <4>2
    <3>3. CASE j # i
      <4>1. pollfds'[j] = pollfds[j] /\ channels'[j] = channels[j]
        BY <2>3, <2>4, <3>3
      <4>2. /\ pollfds[j].fd \in Fds /\ index[pollfds[j].fd] = j
            /\ FdOf[channels[j]] = pollfds[j].fd
        BY <3>1, Places
      <4>3. pollfds[j].fd # fd /\ pollfds[j].fd # g
        BY <2>1, <3>1, <3>3, <4>2
      <4> QED BY <2>5, <4>1, <4>2, <4>3
    <3> QED BY <3>2, <3>3
  <2>8. ASSUME NEW f \in Fds, index'[f] # 0
        PROVE  index'[f] \in 1 .. n - 1 /\ pollfds'[index'[f]].fd = f
    <3>1. f # fd
      BY <2>5, <2>8
    <3>2. CASE f = g
      <4>1. index'[f] = i /\ i # n
        BY <2>1, <2>5, <3>1, <3>2
      <4>2. i \in 1 .. n - 1
        BY <2>1, <4>1
      <4> QED BY <2>3, <3>2, <4>1, <4>2
    <3>3. CASE f # g
      <4>1. index'[f] = index[f]
        BY <2>5, <3>1, <3>3
      <4>2. index[f] \in 1 .. n /\ pollfds[index[f]].fd = f
        BY <2>8, <4>1, Places
      <4>3. index[f] # n /\ index[f] # i
        BY <2>1, <3>1, <3>3, <4>2
      <4>4. index[f] \in 1 .. n - 1
        BY <2>1, <4>2, <4>3
      <4> QED BY <2>3, <4>1, <4>2, <4>3, <4>4
    <3> QED BY <3>2, <3>3
  <2>9. VectorsOK'
    BY <2>3, <2>4, <2>5 DEF VectorsOK
  <2>10. InStep'
    BY <2>3, <2>4, <2>6, <2>7, <2>8 DEF InStep
  <2> QED BY <2>9, <2>10 DEF IInv
<1> QED BY <1>2, <1>3

\* A channel whose events change stays where it is, with its new events, or is
\* appended if its number has no entry yet.
LEMMA UpdatedInStep ==
    ASSUME IInv, NEW c \in Channels, NEW ev \in SUBSET Events, UpdateChannel(c, ev)
    PROVE  IInv'
<1> DEFINE fd == FdOf[c]
           i == index[fd]
           n == Last
           pfd == [fd |-> fd, events |-> ev]
<1>1. fd \in Fds /\ i \in Nat /\ n \in Nat
  BY Places DEF IInv, VectorsOK
<1>2. CASE ev = {}
  BY <1>2, RemovedInStep DEF UpdateChannel
<1>3. CASE ev # {} /\ i # 0
  <2>1. i \in 1 .. n /\ pollfds[i].fd = fd /\ pfd \in PollFd
    BY <1>1, <1>3, Places DEF PollFd
  <2>2. pollfds' = [pollfds EXCEPT ![i] = pfd] /\ UNCHANGED <<channels, index>>
    BY <1>3 DEF UpdateChannel, Known
  <2>3. /\ pollfds' \in Seq(PollFd) /\ Len(pollfds') = n
        /\ \A j \in 1 .. n : pollfds'[j] = IF j = i THEN pfd ELSE pollfds[j]
    BY <2>1, <2>2, ExceptSeq DEF IInv, VectorsOK, Last
  <2>4. DOMAIN pollfds' = 1 .. n /\ \A j \in 1 .. n : pollfds'[j].fd = pollfds[j].fd
    BY <2>1, <2>3, LenProperties
  <2>5. VectorsOK'
    BY <2>2, <2>3 DEF IInv, VectorsOK
  <2>6. InStep'
    BY <2>2, <2>3, <2>4, Places DEF InStep
  <2> QED BY <2>5, <2>6 DEF IInv
<1>4. CASE ev # {} /\ i = 0
  <2>1. pfd \in PollFd
    BY <1>1, <1>4 DEF PollFd
  <2>2. /\ pollfds' = Append(pollfds, pfd) /\ channels' = Append(channels, c)
        /\ index' = [index EXCEPT ![fd] = n + 1]
    BY <1>4 DEF UpdateChannel, Known, Last
  <2>3. /\ pollfds' \in Seq(PollFd) /\ Len(pollfds') = n + 1
        /\ \A j \in 1 .. n : pollfds'[j] = pollfds[j]
        /\ pollfds'[n + 1] = pfd
    BY <2>1, <2>2, AppendProperties DEF IInv, VectorsOK, Last
  <2>4. /\ channels' \in Seq(Channels) /\ Len(channels') = n + 1
        /\ \A j \in 1 .. n : channels'[j] = channels[j]
        /\ channels'[n + 1] = c
    <3>1. channels \in Seq(Channels) /\ Len(channels) = n
      BY Places DEF IInv, VectorsOK
    <3> QED BY <2>2, <3>1, AppendProperties
  <2>5. /\ index' \in [Fds -> Nat]
        /\ \A f \in Fds : index'[f] = IF f = fd THEN n + 1 ELSE index[f]
    BY <1>1, <2>2 DEF IInv, VectorsOK
  <2>6. DOMAIN pollfds' = 1 .. n + 1
    BY <2>3, LenProperties
  <2>7. ASSUME NEW j \in 1 .. n + 1
        PROVE  index'[pollfds'[j].fd] = j /\ FdOf[channels'[j]] = pollfds'[j].fd
    <3>1. CASE j = n + 1
      BY <1>1, <2>3, <2>4, <2>5, <3>1
    <3>2. CASE j # n + 1
      <4>1. j \in 1 .. n
        BY <1>1, <3>2
      <4>2. pollfds'[j] = pollfds[j] /\ channels'[j] = channels[j]
        BY <2>3, <2>4, <4>1
      <4>3. /\ pollfds[j].fd \in Fds /\ index[pollfds[j].fd] = j /\ j # 0
            /\ FdOf[channels[j]] = pollfds[j].fd
        BY <1>1, <4>1, Places
      <4> QED BY <1>4, <2>5, <4>2, <4>3
    <3> QED BY <3>1, <3>2
  <2>8. ASSUME NEW f \in Fds, index'[f] # 0
        PROVE  index'[f] \in 1 .. n + 1 /\ pollfds'[index'[f]].fd = f
    <3>1. CASE f = fd
      BY <1>1, <2>3, <2>5, <3>1
    <3>2. CASE f # fd
      <4>1. index'[f] = index[f]
        BY <2>5, <3>2
      <4>2. index[f] \in 1 .. n /\ pollfds[index[f]].fd = f
        BY <2>8, <4>1, Places
      <4> QED BY <1>1, <2>3, <4>1, <4>2
    <3> QED BY <3>1, <3>2
  <2>9. VectorsOK'
    BY <2>3, <2>4, <2>5 DEF VectorsOK
  <2>10. InStep'
    BY <2>3, <2>4, <2>6, <2>7, <2>8 DEF InStep
  <2> QED BY <2>9, <2>10 DEF IInv
<1> QED BY <1>2, <1>3, <1>4

LEMMA NextInStep == IInv /\ [Next]_vars => IInv'
<1> SUFFICES ASSUME IInv, [Next]_vars PROVE IInv'
  OBVIOUS
<1>1. ASSUME NEW c \in Channels, NEW ev \in SUBSET Events, UpdateChannel(c, ev)
      PROVE  IInv'
  BY <1>1, UpdatedInStep
<1>2. ASSUME NEW c \in Channels, RemoveChannel(c)
      PROVE  IInv'
  BY <1>2, RemovedInStep DEF RemoveChannel
<1>3. ASSUME NEW ready \in SUBSET Fds, Poll(ready)
      PROVE  IInv'
  BY <1>3 DEF Poll, IInv, VectorsOK, InStep
<1>4. CASE UNCHANGED vars
  BY <1>4 DEF vars, IInv, VectorsOK, InStep
<1> QED BY <1>1, <1>2, <1>3, <1>4 DEF Next

-----------------------------------------------------------------------------
(* Poll.  Its loop over the places is a recursive function; a set of       *)
(* numbers has a least element, so what is false of some place is false of *)
(* a first one.                                                            *)

LEMMA LeastNat ==
    ASSUME NEW T \in SUBSET Nat, T # {}
    PROVE  \E x \in T : \A y \in T : x <= y
<1> DEFINE R == OpToRel(<, Nat)
<1>1. IsWellFoundedOn(R, Nat)
  BY NatLessThanWellFounded
<1>2. \A x, y \in Nat : y < x => <<y, x>> \in R
  BY DEF OpToRel
<1> HIDE DEF R
<1>3. PICK x \in T : \A y \in T : <<y, x>> \notin R
  BY <1>1, WFMin, Zenon
<1>4. \A y \in T : ~(y < x)
  BY <1>2, <1>3
<1> QED BY <1>4

\* The channels reported from the first n places.
UpTo(u, ready, n) ==
    u = [i \in 0 .. n |->
           IF i = 0 THEN <<>>
           ELSE IF pollfds[i].fd \in ready THEN Append(u[i - 1], channels[i]) ELSE u[i - 1]]

\* The recursion of Poll has a solution, however long the vectors are.
LEMMA UpToExists ==
    ASSUME NEW ready, NEW n \in Nat
    PROVE  \E u : UpTo(u, ready, n)
<1> DEFINE Bad == {k \in Nat : ~\E u : UpTo(u, ready, k)}
<1>1. ASSUME Bad # {} PROVE FALSE
  <2>1. PICK k \in Bad : \A l \in Bad : k <= l
    BY <1>1, LeastNat
  <2>2. k # 0
    <3>1. UpTo([i \in 0 .. 0 |-> <<>>], ready, 0)
      BY DEF UpTo
    <3> QED BY <3>1
  <2>3. PICK u : UpTo(u, ready, k - 1)
    <3>1. k - 1 \in Nat /\ k - 1 \notin Bad
      BY <2>1, <2>2
    <3> QED BY <3>1
  <2> DEFINE w == [i \in 0 .. k |->
                     IF i < k THEN u[i]
                     ELSE IF pollfds[k].fd \in ready THEN Append(u[k - 1], channels[k])
                          ELSE u[k - 1]]
  <2>4. \A i \in 0 .. k - 1 :
           u[i] = IF i = 0 THEN <<>>
                  ELSE IF pollfds[i].fd \in ready THEN Append(u[i - 1], channels[i])
                       ELSE u[i - 1]
    BY <2>3 DEF UpTo
  <2>5. \A i \in 0 .. k :
           w[i] = IF i = 0 THEN <<>>
                  ELSE IF pollfds[i].fd \in ready THEN Append(w[i - 1], channels[i])
                       ELSE w[i - 1]
    BY <2>1, <2>2, <2>4
  <2>6. w = [i \in 0 .. k |-> w[i]]
    OBVIOUS
  <2> HIDE DEF w
  <2>7. UpTo(w, ready, k)
    BY <2>5, <2>6 DEF UpTo
  <2> QED BY <2>7
<1> QED BY <1>1

\* Poll fills its result with the channels at the marked places, all of them
\* and no other.
LEMMA PollFills ==
    ASSUME IInv, NEW ready \in SUBSET Fds, Poll(ready)
    PROVE  /\ active' \in Seq(Channels)
           /\ {active'[j] : j \in DOMAIN active'}
                = {channels[i] : i \in {i \in 1 .. Last : pollfds[i].fd \in ready}}
<1> DEFINE u == CHOOSE u : UpTo(u, ready, Last)
           Elements(s) == {s[j] : j \in DOMAIN s}
           Marked(i) == {channels[j] : j \in {j \in 1 .. i : pollfds[j].fd \in ready}}
           Good(i) == u[i] \in Seq(Channels) /\ Elements(u[i]) = Marked(i)
           Bad == {i \in 0 .. Last : ~Good(i)}
<1>1. Last \in Nat /\ \A i \in 1 .. Last : channels[i] \in Channels
  BY Places
<1>2. UpTo(u, ready, Last)
  BY <1>1, UpToExists
<1>3. active' = u[Last]
  BY DEF Poll, UpTo
<1> HIDE DEF u
<1>4. u[0] = <<>> /\ \A i \in 1 .. Last :
         u[i] = IF pollfds[i].fd \in ready THEN Append(u[i - 1], channels[i]) ELSE u[i - 1]
  <2>1. \A i \in 0 .. Last :
           u[i] = IF i = 0 THEN <<>>
                  ELSE IF pollfds[i].fd \in ready THEN Append(u[i - 1], channels[i])
                       ELSE u[i - 1]
    BY <1>2, Zenon DEF UpTo
  <2>2. 0 \in 0 .. Last /\ \A i \in 1 .. Last : i \in 0 .. Last /\ i # 0
    BY <1>1
  <2> QED BY <2>1, <2>2, Zenon
<1>5. Good(0)
  <2>1. u[0] \in Seq(Channels) /\ DOMAIN u[0] = {}
    BY <1>4, EmptySeq
  <2>2. Elements(u[0]) = {} /\ Marked(0) = {}
    BY <2>1
  <2> QED BY <2>1, <2>2
<1>6. ASSUME NEW i \in 1 .. Last, Good(i - 1) PROVE Good(i)
  <2>1. i \in Nat \ {0} /\ channels[i] \in Channels
    BY <1>1
  <2>2. CASE pollfds[i].fd \in ready
    <3>1. u[i] = Append(u[i - 1], channels[i])
      BY <1>4, <2>2
    <3> DEFINE s == u[i - 1]
               t == u[i]
    <3>2. s \in Seq(Channels) /\ Len(s) \in Nat /\ DOMAIN s = 1 .. Len(s)
      BY <1>6, LenProperties
    <3>3. /\ t \in Seq(Channels) /\ Len(t) = Len(s) + 1
          /\ \A j \in 1 .. Len(s) : t[j] = s[j]
          /\ t[Len(s) + 1] = channels[i]
      BY <2>1, <3>1, <3>2, AppendProperties
    <3>4. DOMAIN t = 1 .. Len(s) + 1
      BY <3>3, LenProperties
    <3> HIDE DEF s, t
    <3>5. Elements(t) = Elements(s) \cup {channels[i]}
      BY <3>2, <3>3, <3>4
    <3>6. Marked(i) = Marked(i - 1) \cup {channels[i]}
      BY <2>1, <2>2
    <3> QED BY <1>6, <3>3, <3>5, <3>6 DEF s, t
  <2>3. CASE pollfds[i].fd \notin ready
    <3>1. u[i] = u[i - 1]
      BY <1>4, <2>3
    <3>2. Marked(i) = Marked(i - 1)
      BY <2>1, <2>3
    <3> QED BY <1>6, <3>1, <3>2
  <2> QED BY <2>2, <2>3
<1> HIDE DEF Good
<1>7. ASSUME Bad # {} PROVE FALSE
  <2>1. PICK i \in Bad : \A l \in Bad : i <= l
    <3>1. Bad \in SUBSET Nat
      BY <1>1
    <3> HIDE DEF Bad
    <3> QED BY <1>7, <3>1, LeastNat
  <2>2. i # 0 /\ i \in 1 .. Last /\ i - 1 \in 0 .. Last /\ i - 1 \notin Bad
    BY <1>1, <1>5, <2>1
  <2> QED BY <1>6, <2>1, <2>2
<1>8. Good(Last)
  BY <1>1, <1>7
<1> QED BY <1>3, <1>8 DEF Good

-----------------------------------------------------------------------------
(* The refinement of PollSet.                                              *)

\* What an entry of the abstraction is, in terms of the vectors.
LEMMA WatchedAt ==
    ASSUME IInv, NEW f \in Fds
    PROVE  /\ Watched[f] = IF index[f] = 0 THEN None
                           ELSE [channel |-> channels[index[f]],
                                 events |-> pollfds[index[f]].events]
           /\ Watched[f] = None <=> index[f] = 0
           /\ index[f] # 0 => Watched[f].channel = channels[index[f]]
<1>1. index[f] # 0 => channels[index[f]] \in Channels
                      /\ pollfds[index[f]].events \in SUBSET Events
  BY Places DEF PollFd
<1>2. index[f] # 0 => [channel |-> channels[index[f]],
                       events |-> pollfds[index[f]].events] # None
  BY <1>1
<1> QED BY <1>2 DEF Watched

\* Erasing a place erases one entry and moves none of the others.
LEMMA RemovedWatched ==
    ASSUME IInv, NEW c \in Channels, Removed(c)
    PROVE  Watched' = [Watched EXCEPT ![FdOf[c]] = None]
<1> DEFINE fd == FdOf[c]
           i == index[fd]
           n == Last
           g == pollfds[n].fd
<1>1. fd \in Fds /\ i \in Nat
  BY DEF IInv, VectorsOK
<1>2. CASE i = 0
  <2>1. UNCHANGED <<pollfds, channels, index>>
    BY <1>2 DEF Removed
  <2>2. Watched' = Watched /\ Watched[fd] = None
    BY <1>1, <1>2, <2>1, WatchedAt DEF Watched
  <2> QED BY <2>2 DEF Watched
<1>3. CASE i # 0
  <2>1. /\ n \in Nat \ {0} /\ i \in 1 .. n
        /\ g \in Fds /\ index[g] = n
        /\ pollfds[i].fd = fd
        /\ Len(channels) = n
    BY <1>1, <1>3, Places
  <2>2. /\ pollfds' = SwappedOut(pollfds, i)
        /\ channels' = SwappedOut(channels, i)
        /\ index' = [index EXCEPT ![g] = i, ![fd] = 0]
    BY <1>3 DEF Removed, Reindexed
  <2>3. \A j \in 1 .. n - 1 : pollfds'[j] = IF j = i THEN pollfds[n] ELSE pollfds[j]
    BY <2>1, <2>2, SwappedOutElements DEF IInv, VectorsOK, Last
  <2>4. /\ channels' \in Seq(Channels) /\ Len(channels') = n - 1
        /\ \A j \in 1 .. n - 1 : channels'[j] = IF j = i THEN channels[n] ELSE channels[j]
    <3>1. Len(channels) = n
      BY Places
    <3> HIDE DEF n, i
    <3>2. channels \in Seq(Channels) /\ i \in 1 .. Len(channels)
      BY <2>1, <3>1 DEF IInv, VectorsOK
    <3> QED BY <2>2, <3>1, <3>2, SwappedOutElements
  <2>5. \A f \in Fds : index'[f] = IF f = fd THEN 0 ELSE IF f = g THEN i ELSE index[f]
    BY <1>1, <2>1, <2>2 DEF IInv, VectorsOK
  <2>6. ASSUME NEW f \in Fds
        PROVE  Watched'[f] = [Watched EXCEPT ![fd] = None][f]
    <3>1. Watched'[f] = IF index'[f] = 0 THEN None
                        ELSE [channel |-> channels'[index'[f]],
                              events |-> pollfds'[index'[f]].events]
      BY DEF Watched
    <3>2. [Watched EXCEPT ![fd] = None][f] = IF f = fd THEN None ELSE Watched[f]
      BY <1>1 DEF Watched
    <3>3. CASE f = fd
      BY <2>5, <3>1, <3>2, <3>3
    <3>4. CASE f # fd /\ index[f] = 0
      <4>1. f # g
        BY <2>1, <3>4
      <4> QED BY <2>5, <3>1, <3>2, <3>4, <4>1, WatchedAt
    <3>5. CASE f # fd /\ index[f] # 0
      <4>1. index[f] \in 1 .. n /\ pollfds[index[f]].fd = f /\ index[f] # i
        BY <2>1, <3>5, Places
      <4>2. CASE f = g
        <5>1. index'[f] = i /\ index[f] = n /\ i \in 1 .. n - 1
          BY <2>1, <2>5, <3>5, <4>1, <4>2
        <5>2. channels'[i] = channels[n] /\ pollfds'[i] = pollfds[n]
          BY <2>3, <2>4, <5>1
        <5> QED BY <1>3, <3>1, <3>2, <3>5, <5>1, <5>2, WatchedAt
      <4>3. CASE f # g
        <5>1. index'[f] = index[f] /\ index[f] \in 1 .. n - 1
          BY <2>1, <2>5, <3>5, <4>1, <4>3
        <5>2. channels'[index[f]] = channels[index[f]] /\ pollfds'[index[f]] = pollfds[index[f]]
          BY <2>3, <2>4, <4>1, <5>1
        <5> QED BY <3>1, <3>2, <3>5, <5>1, <5>2, WatchedAt
      <4> QED BY <4>2, <4>3
    <3> QED BY <3>3, <3>4, <3>5
  <2> QED BY <2>6 DEF Watched
<1> QED BY <1>2, <1>3

LEMMA UpdatedWatched ==
    ASSUME IInv, NEW c \in Channels, NEW ev \in SUBSET Events, UpdateChannel(c, ev)
    PROVE  Abstract!Update(c, ev)
<1> DEFINE fd == FdOf[c]
           i == index[fd]
           n == Last
           pfd == [fd |-> fd, events |-> ev]
           channel == IF Watched[fd] = None THEN c ELSE Watched[fd].channel
           entry == IF ev = {} THEN None ELSE [channel |-> channel, events |-> ev]
<1>1. fd \in Fds /\ i \in Nat /\ n \in Nat
  BY Places DEF IInv, VectorsOK
<1>2. Reported' = Reported
  BY DEF UpdateChannel, Reported
<1>3. CASE ev = {}
  <2>1. Watched' = [Watched EXCEPT ![fd] = None]
    BY <1>3, RemovedWatched DEF UpdateChannel
  <2> QED BY <1>2, <1>3, <2>1 DEF Abstract!Update
<1>4. CASE ev # {} /\ i # 0
  <2>1. i \in 1 .. n /\ pollfds[i].fd = fd
    BY <1>1, <1>4, Places
  <2>2. pollfds' = [pollfds EXCEPT ![i] = pfd] /\ UNCHANGED <<channels, index>>
    BY <1>4 DEF UpdateChannel, Known
  <2>3. \A j \in 1 .. n : pollfds'[j] = IF j = i THEN pfd ELSE pollfds[j]
    BY <2>1, <2>2, ExceptSeq DEF IInv, VectorsOK, Last
  <2>4. channel = channels[i]
    BY <1>1, <1>4, WatchedAt
  <2>5. ASSUME NEW f \in Fds PROVE Watched'[f] = [Watched EXCEPT ![fd] = entry][f]
    <3>1. Watched'[f] = IF index[f] = 0 THEN None
                        ELSE [channel |-> channels[index[f]],
                              events |-> pollfds'[index[f]].events]
      BY <2>2 DEF Watched
    <3>2. [Watched EXCEPT ![fd] = entry][f] = IF f = fd THEN entry ELSE Watched[f]
      BY <1>1 DEF Watched
    <3>3. CASE f = fd
      BY <1>4, <2>1, <2>3, <2>4, <3>1, <3>2, <3>3
    <3>4. CASE f # fd
      <4>1. index[f] # 0 => index[f] \in 1 .. n /\ index[f] # i
        BY <2>1, <3>4, Places
      <4>2. index[f] # 0 => pollfds'[index[f]] = pollfds[index[f]]
        BY <2>3, <4>1
      <4> QED BY <3>1, <3>2, <3>4, <4>2, WatchedAt
    <3> QED BY <3>3, <3>4
  <2>6. Watched' = [Watched EXCEPT ![fd] = entry]
    BY <2>5 DEF Watched
  <2> QED BY <1>2, <2>6 DEF Abstract!Update
<1>5. CASE ev # {} /\ i = 0
  <2>1. /\ pollfds' = Append(pollfds, pfd) /\ channels' = Append(channels, c)
        /\ index' = [index EXCEPT ![fd] = n + 1]
    BY <1>5 DEF UpdateChannel, Known, Last
  <2>2. (\A j \in 1 .. n : pollfds'[j] = pollfds[j]) /\ pollfds'[n + 1] = pfd
    <3>1. pfd \in PollFd
      BY <1>1, <1>5 DEF PollFd
    <3> QED BY <2>1, <3>1, AppendProperties DEF IInv, VectorsOK, Last
  <2>3. (\A j \in 1 .. n : channels'[j] = channels[j]) /\ channels'[n + 1] = c
    <3>1. channels \in Seq(Channels) /\ Len(channels) = n
      BY Places DEF IInv, VectorsOK
    <3> QED BY <2>1, <3>1, AppendProperties
  <2>4. \A f \in Fds : index'[f] = IF f = fd THEN n + 1 ELSE index[f]
    BY <1>1, <2>1 DEF IInv, VectorsOK
  <2>5. channel = c
    BY <1>1, <1>5, WatchedAt
  <2>6. ASSUME NEW f \in Fds PROVE Watched'[f] = [Watched EXCEPT ![fd] = entry][f]
    <3>1. Watched'[f] = IF index'[f] = 0 THEN None
                        ELSE [channel |-> channels'[index'[f]],
                              events |-> pollfds'[index'[f]].events]
      BY DEF Watched
    <3>2. [Watched EXCEPT ![fd] = entry][f] = IF f = fd THEN entry ELSE Watched[f]
      BY <1>1 DEF Watched
    <3>3. CASE f = fd
      <4>1. index'[f] = n + 1 /\ n + 1 # 0
        BY <1>1, <2>4, <3>3
      <4> QED BY <1>5, <2>2, <2>3, <2>5, <3>1, <3>2, <3>3, <4>1
    <3>4. CASE f # fd
      <4>1. index[f] # 0 => index[f] \in 1 .. n
        BY Places
      <4>2. index'[f] = index[f]
        BY <2>4, <3>4
      <4>3. CASE index[f] = 0
        BY <3>1, <3>2, <3>4, <4>2, <4>3, WatchedAt
      <4>4. CASE index[f] # 0
        <5>1. channels'[index[f]] = channels[index[f]] /\ pollfds'[index[f]] = pollfds[index[f]]
          BY <2>2, <2>3, <4>1, <4>4
        <5> QED BY <3>1, <3>2, <3>4, <4>2, <4>4, <5>1, WatchedAt
      <4> QED BY <4>3, <4>4
    <3> QED BY <3>3, <3>4
  <2>7. Watched' = [Watched EXCEPT ![fd] = entry]
    BY <2>6 DEF Watched
  <2> QED BY <1>2, <2>7 DEF Abstract!Update
<1> QED BY <1>3, <1>4, <1>5

LEMMA PolledReported ==
    ASSUME IInv, NEW ready \in SUBSET Fds, Poll(ready)
    PROVE  Abstract!Poll(ready)
<1>1. DOMAIN pollfds = 1 .. Last
  BY LenProperties DEF IInv, VectorsOK, Last
<1>2. \A f \in ready : f \in Fds /\ index[f] \in 1 .. Last /\ index[f] # 0
                       /\ pollfds[index[f]].fd = f
  <2> SUFFICES ASSUME NEW f \in ready
               PROVE  f \in Fds /\ index[f] \in 1 .. Last /\ index[f] # 0
                      /\ pollfds[index[f]].fd = f
    OBVIOUS
  <2>1. PICK i \in 1 .. Last : pollfds[i].fd = f
    BY <1>1 DEF Poll
  <2> QED BY <2>1, Places
<1>3. \A f \in ready : Watched[f] # None /\ Watched[f].channel = channels[index[f]]
  BY <1>2, WatchedAt
<1>4. Reported' = {channels[i] : i \in {i \in 1 .. Last : pollfds[i].fd \in ready}}
  BY PollFills DEF Reported
<1>5. {channels[i] : i \in {i \in 1 .. Last : pollfds[i].fd \in ready}}
        = {channels[index[f]] : f \in ready}
  <2>1. \A i \in 1 .. Last : index[pollfds[i].fd] = i
    BY Places
  <2> QED BY <1>2, <2>1
<1>6. {channels[index[f]] : f \in ready} = {Watched[f].channel : f \in ready}
  BY <1>3
<1>7. Watched' = Watched
  BY DEF Poll, Watched
<1> QED BY <1>3, <1>4, <1>5, <1>6, <1>7 DEF Abstract!Poll

LEMMA NextWatched == IInv /\ [Next]_vars => [Abstract!Next]_(Abstract!vars)
<1> SUFFICES ASSUME IInv, [Next]_vars PROVE [Abstract!Next]_(Abstract!vars)
  OBVIOUS
<1>1. ASSUME NEW c \in Channels, NEW ev \in SUBSET Events, UpdateChannel(c, ev)
      PROVE  Abstract!Next
  BY <1>1, UpdatedWatched DEF Abstract!Next
<1>2. ASSUME NEW c \in Channels, RemoveChannel(c)
      PROVE  Abstract!Next
  <2>1. Watched' = [Watched EXCEPT ![FdOf[c]] = None]
    BY <1>2, RemovedWatched DEF RemoveChannel
  <2>2. Reported' = Reported
    BY <1>2 DEF RemoveChannel, Reported
  <2> QED BY <2>1, <2>2 DEF Abstract!Next, Abstract!Remove
<1>3. ASSUME NEW ready \in SUBSET Fds, Poll(ready)
      PROVE  Abstract!Next
  BY <1>3, PolledReported DEF Abstract!Next
<1>4. CASE UNCHANGED vars
  BY <1>4 DEF vars, Watched, Reported, Abstract!vars
<1> QED BY <1>1, <1>2, <1>3, <1>4 DEF Next

LEMMA InitInStep == Init => IInv
BY EmptySeq DEF Init, IInv, VectorsOK, InStep

LEMMA TypesKept == IInv /\ TypeOK /\ [Next]_vars => TypeOK'
<1> SUFFICES ASSUME IInv, TypeOK, [Next]_vars PROVE TypeOK'
  OBVIOUS
<1>1. VectorsOK'
  BY NextInStep DEF IInv
<1>2. added' \subseteq Channels /\ active' \in Seq(Channels)
  <2>1. ASSUME NEW c \in Channels, NEW ev \in SUBSET Events, UpdateChannel(c, ev)
        PROVE  added' \subseteq Channels /\ active' \in Seq(Channels)
    BY <2>1 DEF UpdateChannel, Removed, TypeOK
  <2>2. ASSUME NEW c \in Channels, RemoveChannel(c)
        PROVE  added' \subseteq Channels /\ active' \in Seq(Channels)
    BY <2>2 DEF RemoveChannel, Removed, TypeOK
  <2>3. ASSUME NEW ready \in SUBSET Fds, Poll(ready)
        PROVE  added' \subseteq Channels /\ active' \in Seq(Channels)
    <3>1. active' \in Seq(Channels)
      BY <2>3, PollFills
    <3> QED BY <2>3, <3>1 DEF Poll, TypeOK
  <2>4. CASE UNCHANGED vars
    BY <2>4 DEF vars, TypeOK
  <2> QED BY <2>1, <2>2, <2>3, <2>4 DEF Next
<1> QED BY <1>1, <1>2 DEF TypeOK, VectorsOK, PollFd

-----------------------------------------------------------------------------
\* In every reachable state of the Windows poller each entry of m_fd_to_idx
\* leads to the pollfd and the channel of its descriptor, and every place has
\* one entry: what RemoveChannel asserts before it swaps, and what Poll relies
\* on when it takes m_channels by the place of a pollfd.
THEOREM InStepCorrect == Spec => []InStep
<1>1. IInv => InStep
  BY DEF IInv
<1> QED BY <1>1, InitInStep, NextInStep, PTL DEF Spec

\* The poller keeps its types, also what Poll hands to the loop: a list of
\* channels.
THEOREM TypeCorrect == Spec => []TypeOK
<1>1. Init => TypeOK
  BY EmptySeq DEF Init, TypeOK
<1> QED BY <1>1, InitInStep, NextInStep, TypesKept, PTL DEF Spec

\* Through every sequence of updates, removals by swapping and polls, the three
\* structures of the Windows poller behave as the set of watched descriptors a
\* loop expects, whatever the channels, the numbers they share and the order.
THEOREM PollSetImplemented == Spec => ImplementsPollSet
<1>1. Init => Abstract!Init
  BY EmptySeq DEF Init, Watched, Reported, Abstract!Init
<1> QED BY <1>1, InitInStep, NextInStep, NextWatched, PTL
        DEF Spec, ImplementsPollSet, Abstract!Spec
=============================================================================
