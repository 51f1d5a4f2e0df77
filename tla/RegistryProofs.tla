--------------------------- MODULE RegistryProofs ---------------------------
(***************************************************************************)
(* Theorems about RegistryServer, for any connections and any packets on   *)
(* them, and about the manager behind it (Registry), for any models, any   *)
(* number of registrations and any timeout.                                *)
(***************************************************************************)
EXTENDS RegistryServer, Registry, SequenceTheorems, FiniteSetTheorems,
        WellFoundedInduction, TLAPS

-----------------------------------------------------------------------------
(* Induction.  A set of numbers that is not empty has a least element, so  *)
(* what is false of some number is false of a first one.                   *)

LEMMA LeastNat ==
    ASSUME NEW T \in SUBSET Nat, T # {}
    PROVE  \E x \in T : \A y \in T : x <= y
<1> DEFINE R == OpToRel(<, Nat)
<1>1. IsWellFoundedOn(R, Nat)
  BY NatLessThanWellFounded
<1>2. \A x, y \in Nat : y < x => <<y, x>> \in R
  BY DEF OpToRel
<1> HIDE DEF R
<1>3. PICK x \in T : \A y \in T : <<y, x>> \notin R
  BY <1>1, WFMin, Zenon
<1>4. \A y \in T : ~(y < x)
  BY <1>2, <1>3
<1> QED BY <1>4

-----------------------------------------------------------------------------
(* Counting the copies of an entry.                                        *)

LEMMA CountIs ==
    ASSUME NEW s, NEW x
    PROVE  Count(x, s) = Cardinality({i \in DOMAIN s : s[i] = x})
BY DEF Count

LEMMA CountType ==
    ASSUME NEW S, NEW s \in Seq(S), NEW x
    PROVE  /\ IsFiniteSet({i \in DOMAIN s : s[i] = x})
           /\ Count(x, s) \in Nat
           /\ Count(x, s) = 0 <=> ~InList(x, s)
<1> DEFINE C == {i \in DOMAIN s : s[i] = x}
<1>1. DOMAIN s = 1 .. Len(s) /\ Len(s) \in Nat
  BY LenProperties
<1>2. IsFiniteSet(C)
  <2>1. IsFiniteSet(1 .. Len(s))
    BY <1>1, FS_Interval
  <2> QED BY <1>1, <2>1, FS_Subset
<1>3. Cardinality(C) \in Nat /\ (Cardinality(C) = 0 <=> C = {})
  BY <1>2, FS_CardinalityType, FS_EmptySet
<1>4. C = {} <=> ~InList(x, s)
  BY DEF InList
<1>5. Count(x, s) = Cardinality(C)
  BY CountIs
<1> HIDE DEF C
<1>6. IsFiniteSet(C) /\ Count(x, s) \in Nat
      /\ (Count(x, s) = 0 <=> ~InList(x, s))
  BY <1>2, <1>3, <1>4, <1>5
<1> QED BY <1>6 DEF C

Copies(e, n) == [i \in 1 .. n |-> e]

\* Appending n copies of e adds n copies of e and of nothing else.
LEMMA CountCopies ==
    ASSUME NEW S, NEW s \in Seq(S), NEW e \in S, NEW n \in Nat
    PROVE  /\ s \o Copies(e, n) \in Seq(S)
           /\ \A x : Count(x, s \o Copies(e, n)) =
                        Count(x, s) + (IF x = e THEN n ELSE 0)
<1> SUFFICES ASSUME NEW x
             PROVE  /\ s \o Copies(e, n) \in Seq(S)
                    /\ Count(x, s \o Copies(e, n)) =
                          Count(x, s) + (IF x = e THEN n ELSE 0)
  OBVIOUS
<1> DEFINE c == Copies(e, n)
           t == s \o c
           A == {i \in DOMAIN s : s[i] = x}
           B == {i \in Len(s) + 1 .. Len(s) + n : e = x}
<1>1. c \in Seq(S) /\ Len(c) = n /\ \A i \in 1 .. n : c[i] = e
  <2>1. c = [i \in 1 .. n |-> e] /\ c \in [1 .. n -> S]
    BY DEF Copies
  <2>2. c \in Seq(S)
    BY <2>1, SeqDef
  <2>3. DOMAIN c = 1 .. n /\ DOMAIN c = 1 .. Len(c) /\ Len(c) \in Nat
    BY <2>1, <2>2, LenProperties
  <2> QED BY <2>1, <2>2, <2>3
<1>2. Len(s) \in Nat /\ DOMAIN s = 1 .. Len(s)
  BY LenProperties
<1> HIDE DEF c
<1>3. /\ t \in Seq(S) /\ Len(t) = Len(s) + n
      /\ \A i \in 1 .. Len(s) + n : t[i] = IF i <= Len(s) THEN s[i] ELSE c[i - Len(s)]
  BY <1>1, ConcatProperties
<1>4. DOMAIN t = 1 .. Len(s) + n
  BY <1>3, LenProperties
<1> HIDE DEF t
<1>5. {i \in DOMAIN t : t[i] = x} = A \cup B
  BY <1>1, <1>2, <1>3, <1>4
<1>6. IsFiniteSet(A) /\ Cardinality(A) = Count(x, s) /\ Count(x, s) \in Nat
  <2>1. Cardinality(A) = Count(x, s)
    BY CountIs
  <2> QED BY <2>1, CountType
<1>7. IsFiniteSet(B) /\ Cardinality(B) = IF x = e THEN n ELSE 0
  <2>1. IsFiniteSet(Len(s) + 1 .. Len(s) + n)
        /\ Cardinality(Len(s) + 1 .. Len(s) + n) =
              IF Len(s) + 1 > Len(s) + n THEN 0 ELSE (Len(s) + n) - (Len(s) + 1) + 1
    <3>1. Len(s) + 1 \in Int /\ Len(s) + n \in Int
      BY <1>2
    <3> QED BY <3>1, FS_Interval
  <2>2. CASE x = e
    <3>1. B = Len(s) + 1 .. Len(s) + n
      BY <2>2
    <3> HIDE DEF B
    <3> QED BY <1>2, <2>1, <2>2, <3>1
  <2>3. CASE x # e
    BY <2>3, FS_EmptySet
  <2> QED BY <2>2, <2>3
<1>8. A \cap B = {}
  BY <1>2
<1> HIDE DEF A, B
<1>9. Cardinality(A \cup B) = Cardinality(A) + Cardinality(B) - Cardinality({})
  BY <1>6, <1>7, <1>8, FS_Union
<1>10. Count(x, t) = Count(x, s) + (IF x = e THEN n ELSE 0)
  <2>1. Count(x, t) = Cardinality(A \cup B)
    BY <1>5, CountIs
  <2>2. Cardinality({}) = 0
    BY FS_EmptySet
  <2> QED BY <1>6, <1>7, <1>9, <2>1, <2>2
<1> QED BY <1>3, <1>10 DEF t, c

LEMMA CountAppend ==
    ASSUME NEW S, NEW s \in Seq(S), NEW e \in S
    PROVE  /\ Append(s, e) \in Seq(S)
           /\ \A x : Count(x, Append(s, e)) =
                        Count(x, s) + (IF x = e THEN 1 ELSE 0)
<1>1. PICK n \in Nat : n = 1
  OBVIOUS
<1>2. <<e>> = Copies(e, n)
  BY <1>1 DEF Copies
<1>3. Append(s, e) = s \o Copies(e, n)
  BY <1>2, AppendIsConcat
<1>4. /\ s \o Copies(e, n) \in Seq(S)
      /\ \A x : Count(x, s \o Copies(e, n)) =
                   Count(x, s) + (IF x = e THEN n ELSE 0)
  BY CountCopies
<1> QED BY <1>1, <1>3, <1>4

-----------------------------------------------------------------------------
(* Kept.                                                                   *)

KeptUpTo(f, list, S, n) ==
    f = [i \in 0 .. n |-> IF i = 0 THEN <<>>
                          ELSE IF list[i] \in S THEN Append(f[i - 1], list[i]) ELSE f[i - 1]]

\* The recursion has a solution.
LEMMA KeptExists ==
    ASSUME NEW list, NEW S, NEW n \in Nat
    PROVE  \E f : KeptUpTo(f, list, S, n)
<1> DEFINE Bad == {k \in Nat : ~\E f : KeptUpTo(f, list, S, k)}
<1>1. ASSUME Bad # {} PROVE FALSE
  <2>1. PICK k \in Bad : \A l \in Bad : k <= l
    BY <1>1, LeastNat
  <2>2. k # 0
    <3>1. KeptUpTo([i \in 0 .. 0 |-> <<>>], list, S, 0)
      BY DEF KeptUpTo
    <3> QED BY <3>1
  <2>3. PICK f : KeptUpTo(f, list, S, k - 1)
    <3>1. k - 1 \in Nat /\ k - 1 \notin Bad
      BY <2>1, <2>2
    <3> QED BY <3>1
  <2> DEFINE g == [i \in 0 .. k |->
                     IF i < k THEN f[i]
                     ELSE IF list[k] \in S THEN Append(f[k - 1], list[k]) ELSE f[k - 1]]
  <2>4. \A i \in 0 .. k - 1 : f[i] = IF i = 0 THEN <<>>
                                     ELSE IF list[i] \in S THEN Append(f[i - 1], list[i])
                                          ELSE f[i - 1]
    BY <2>3 DEF KeptUpTo
  <2>5. \A i \in 0 .. k : g[i] = IF i = 0 THEN <<>>
                                 ELSE IF list[i] \in S THEN Append(g[i - 1], list[i])
                                      ELSE g[i - 1]
    BY <2>1, <2>2, <2>4
  <2>6. g = [i \in 0 .. k |-> g[i]]
    OBVIOUS
  <2> HIDE DEF g
  <2>7. KeptUpTo(g, list, S, k)
    BY <2>5, <2>6 DEF KeptUpTo
  <2> QED BY <2>7
<1> QED BY <1>1

\* It is what is in S, each as often as in the list.
LEMMA KeptProperties ==
    ASSUME NEW T, NEW list \in Seq(T), NEW S
    PROVE  /\ Kept(list, S) \in Seq(S \cap T)
           /\ \A x \in S : Count(x, Kept(list, S)) = Count(x, list)
<1> DEFINE f == CHOOSE f : KeptUpTo(f, list, S, Len(list))
           Upto(x, i) == {j \in 1 .. i : list[j] = x}
           Good(i) == /\ f[i] \in Seq(S \cap T)
                      /\ \A x \in S : Count(x, f[i]) = Cardinality(Upto(x, i))
           Bad == {i \in 0 .. Len(list) : ~Good(i)}
<1>1. Len(list) \in Nat /\ DOMAIN list = 1 .. Len(list) /\ \A i \in 1 .. Len(list) : list[i] \in T
  BY LenProperties, ElementOfSeq
<1>2. KeptUpTo(f, list, S, Len(list))
  BY <1>1, KeptExists
<1>3. Kept(list, S) = f[Len(list)]
  BY DEF Kept, KeptUpTo
<1> HIDE DEF f
<1>4. f[0] = <<>> /\ \A i \in 1 .. Len(list) :
         f[i] = IF list[i] \in S THEN Append(f[i - 1], list[i]) ELSE f[i - 1]
  <2>1. \A i \in 0 .. Len(list) :
           f[i] = IF i = 0 THEN <<>>
                  ELSE IF list[i] \in S THEN Append(f[i - 1], list[i]) ELSE f[i - 1]
    BY <1>2, Zenon DEF KeptUpTo
  <2>2. 0 \in 0 .. Len(list) /\ \A i \in 1 .. Len(list) : i \in 0 .. Len(list) /\ i # 0
    BY <1>1
  <2> QED BY <2>1, <2>2, Zenon
<1>5. Good(0)
  <2>1. f[0] \in Seq(S \cap T)
    BY <1>4, EmptySeq
  <2>2. \A x : Upto(x, 0) = {}
    OBVIOUS
  <2>3. \A x : Count(x, f[0]) = 0
    <3> TAKE x
    <3>1. f[0] = <<>>
      BY <1>4
    <3>2. {i \in DOMAIN f[0] : f[0][i] = x} = {}
      BY <3>1, EmptySeq
    <3> QED BY <3>2, FS_EmptySet, CountIs
  <2> QED BY <2>1, <2>2, <2>3, FS_EmptySet
<1>6. ASSUME NEW i \in 1 .. Len(list), Good(i - 1) PROVE Good(i)
  <2>1. i \in Nat /\ i # 0 /\ i - 1 \in Nat /\ list[i] \in T
    BY <1>1
  <2>2. \A x : Upto(x, i) = IF list[i] = x THEN Upto(x, i - 1) \cup {i} ELSE Upto(x, i - 1)
    BY <2>1
  <2>3. \A x : IsFiniteSet(Upto(x, i - 1)) /\ i \notin Upto(x, i - 1)
    <3> TAKE x
    <3>1. IsFiniteSet(1 .. i - 1)
      BY <2>1, FS_Interval
    <3> QED BY <2>1, <3>1, FS_Subset
  <2> HIDE DEF Upto
  <2>4. \A x : Cardinality(Upto(x, i)) =
                  Cardinality(Upto(x, i - 1)) + (IF list[i] = x THEN 1 ELSE 0)
    <3> TAKE x
    <3>1. Cardinality(Upto(x, i - 1)) \in Nat
      BY <2>3, FS_CardinalityType
    <3>2. Cardinality(Upto(x, i - 1) \cup {i}) = Cardinality(Upto(x, i - 1)) + 1
      BY <2>3, FS_AddElement
    <3>3. CASE list[i] = x
      BY <2>2, <3>2, <3>3
    <3>4. CASE list[i] # x
      BY <2>2, <3>1, <3>4
    <3> QED BY <3>3, <3>4
  <2>5. CASE list[i] \in S
    <3>1. list[i] \in S \cap T /\ f[i] = Append(f[i - 1], list[i])
      BY <1>4, <2>1, <2>5
    <3>2. f[i - 1] \in Seq(S \cap T)
      BY <1>6
    <3>3. /\ f[i] \in Seq(S \cap T)
          /\ \A x : Count(x, f[i]) =
                       Count(x, f[i - 1]) + (IF x = list[i] THEN 1 ELSE 0)
      BY <3>1, <3>2, CountAppend
    <3> QED BY <1>6, <2>4, <3>3
  <2>6. CASE list[i] \notin S
    <3>1. f[i] = f[i - 1]
      BY <1>4, <2>6
    <3>2. \A x \in S : Cardinality(Upto(x, i)) = Cardinality(Upto(x, i - 1))
      <4> TAKE x \in S
      <4>1. Cardinality(Upto(x, i - 1)) \in Nat /\ list[i] # x
        BY <2>3, <2>6, FS_CardinalityType
      <4> QED BY <2>4, <4>1
    <3> QED BY <1>6, <3>1, <3>2
  <2> QED BY <2>5, <2>6
<1> HIDE DEF Good
<1>7. ASSUME Bad # {} PROVE FALSE
  <2>1. PICK i \in Bad : \A l \in Bad : i <= l
    <3>1. Bad \in SUBSET Nat
      BY <1>1
    <3> HIDE DEF Bad
    <3> QED BY <1>7, <3>1, LeastNat
  <2>2. i # 0 /\ i \in 1 .. Len(list) /\ i - 1 \in 0 .. Len(list) /\ i - 1 \notin Bad
    BY <1>1, <1>5, <2>1
  <2> QED BY <1>6, <2>1, <2>2
<1>8. Good(Len(list))
  BY <1>1, <1>7
<1>9. \A x : Count(x, list) = Cardinality(Upto(x, Len(list)))
  BY <1>1, CountIs
<1> HIDE DEF Upto
<1> QED BY <1>3, <1>8, <1>9 DEF Good

-----------------------------------------------------------------------------
(* The steps of the manager.                                               *)

\* The ids are given out in order, each once.
Numbered == known \cup removed \cup changed \subseteq 1 .. nextId - 1

RegistryInv ==
    /\ RegistryTypeOK /\ Numbered
    /\ RemovedStaysGone /\ IndexClean /\ SupportersFound

\* A model list is a short sequence of models.
LEMMA ModelListType ==
    ASSUME NEW list \in ModelLists
    PROVE  list \in Seq(Models)
<1>1. \A m, n \in Models : <<m>> \in Seq(Models) /\ <<m, n>> \in Seq(Models)
  OBVIOUS
<1>2. \/ list = <<>>
      \/ \E m \in Models : list = <<m>>
      \/ \E m, n \in Models : list = <<m, n>>
  BY DEF ModelLists
<1> QED BY <1>1, <1>2, EmptySeq

\* What does not depend on the state does not change with it.
LEMMA Constant ==
    UNCHANGED <<NodeInfo, Ids>>
BY DEF NodeInfo, ModelLists, Ids

\* The types in terms of nextId.
LEMMA Types ==
    ASSUME RegistryTypeOK
    PROVE  /\ MaxIds \in Nat /\ nextId \in Nat \ {0} /\ now \in 0 .. MaxTime
           /\ nodes \in Seq(NodeInfo) /\ Len(nodes) = nextId - 1
           /\ DOMAIN nodes = 1 .. nextId - 1
           /\ \A i \in 1 .. nextId - 1 : nodes[i] \in NodeInfo
           /\ \A m \in Models : /\ index[m] \in Seq(1 .. nextId - 1)
                                /\ \A x : Count(x, index[m]) \in Nat
<1>1. MaxIds \in Nat /\ nextId \in Nat \ {0} /\ now \in 0 .. MaxTime
  BY RegistryAssumption DEF RegistryTypeOK
<1>2. nodes \in Seq(NodeInfo) /\ Len(nodes) = nextId - 1
  BY DEF RegistryTypeOK
<1>3. DOMAIN nodes = 1 .. nextId - 1
      /\ \A i \in 1 .. nextId - 1 : nodes[i] \in NodeInfo
  BY <1>2, LenProperties, ElementOfSeq
<1>4. \A m \in Models : index[m] \in Seq(1 .. nextId - 1)
  BY <1>3 DEF RegistryTypeOK
<1>5. \A m \in Models : \A x : Count(x, index[m]) \in Nat
  BY <1>4, CountType
<1> QED BY <1>1, <1>2, <1>3, <1>4, <1>5

LEMMA RegistryInitInv == RegistryInit => RegistryInv
<1> SUFFICES ASSUME RegistryInit PROVE RegistryInv
  OBVIOUS
<1> USE DEF RegistryInit
<1>1. MaxIds \in Nat /\ MaxTime \in Nat
  BY RegistryAssumption
<1>2. Len(nodes) = 0 /\ nodes = <<>> /\ \A S : <<>> \in Seq(S)
  BY EmptySeq
<1>3. RegistryTypeOK
  <2>1. index \in [Models -> Seq(DOMAIN nodes)]
    BY <1>2
  <2>2. nextId \in 1 .. MaxIds + 1 /\ now \in 0 .. MaxTime
    BY <1>1
  <2>3. nodes \in Seq(NodeInfo) /\ answer \in Seq(Ids)
        /\ Len(nodes) = nextId - 1
    BY <1>2
  <2> QED BY <2>1, <2>2, <2>3 DEF RegistryTypeOK
<1> QED BY <1>3 DEF RegistryInv, Numbered, RemovedStaysGone, IndexClean,
                    SupportersFound

LEMMA RegisterInv ==
    ASSUME RegistryInv,
           NEW list \in ModelLists, NEW memory \in Memory,
           HandleRegister(list, memory)
    PROVE  RegistryInv'
<1> DEFINE new == [models |-> list, memory |-> memory, beat |-> now]
<1>1. /\ nextId \in Ids
      /\ nodes' = Append(nodes, new)
      /\ known' = known \cup {nextId}
      /\ index' = [m \in Models |-> WithNode(m, list)]
      /\ nextId' = nextId + 1
      /\ answer' = <<>>
      /\ UNCHANGED <<stuck, now, removed, changed>>
  BY DEF HandleRegister
<1>2. /\ MaxIds \in Nat /\ nextId \in Nat \ {0} /\ nextId <= MaxIds /\ now \in 0 .. MaxTime
      /\ nodes \in Seq(NodeInfo) /\ Len(nodes) = nextId - 1
      /\ known \cup removed \cup changed \subseteq 1 .. nextId - 1
  BY <1>1, Types DEF RegistryInv, Numbered, Ids
<1>3. \A m \in Models : /\ index[m] \in Seq(1 .. nextId - 1)
                        /\ \A x : Count(x, index[m]) \in Nat
  BY Types DEF RegistryInv
<1>4. new \in NodeInfo /\ new.models = list
  BY <1>2 DEF NodeInfo
<1> HIDE DEF new
<1>5. /\ nodes' \in Seq(NodeInfo) /\ Len(nodes') = nextId
      /\ \A i \in 1 .. nextId - 1 : nodes'[i] = nodes[i]
      /\ nodes'[nextId].models = list
  BY <1>1, <1>2, <1>4, AppendProperties
<1>6. DOMAIN nodes' = 1 .. nextId
  BY <1>5, LenProperties
<1>7. \A m \in Models :
         /\ index'[m] \in Seq(1 .. nextId)
         /\ \A x : Count(x, index'[m]) = Count(x, index[m]) +
                       (IF x = nextId THEN Count(m, list) ELSE 0)
  <2> TAKE m \in Models
  <2> DEFINE n == Count(m, list)
             q == index[m]
  <2>1. n \in Nat
    BY ModelListType, CountType
  <2>2. q \in Seq(1 .. nextId)
    <3>1. 1 .. nextId - 1 \subseteq 1 .. nextId /\ index[m] \in Seq(1 .. nextId - 1)
      BY <1>2, <1>3
    <3> QED BY <3>1, SeqMonotonic
  <2>3. index'[m] = q \o Copies(nextId, n)
    BY <1>1 DEF WithNode, Copies
  <2>4. nextId \in 1 .. nextId
    BY <1>2
  <2> DEFINE T == 1 .. nextId
  <2>5. n \in Nat /\ q \in Seq(T) /\ nextId \in T
    BY <2>1, <2>2, <2>4
  <2> HIDE DEF n, q, T
  <2>6. /\ q \o Copies(nextId, n) \in Seq(T)
        /\ \A x : Count(x, q \o Copies(nextId, n)) =
                     Count(x, q) + (IF x = nextId THEN n ELSE 0)
    BY <2>5, CountCopies
  <2> QED BY <2>3, <2>6 DEF q, n, T
<1>8. \A m \in Models, id \in 1 .. nextId - 1 :
         Count(id, index'[m]) = Count(id, index[m])
  <2> TAKE m \in Models, id \in 1 .. nextId - 1
  <2>1. id # nextId
    BY <1>2
  <2>2. Count(id, index'[m]) = Count(id, index[m]) + 0
    BY <1>7, <2>1
  <2>3. Count(id, index[m]) \in Nat
    BY <1>3
  <2> QED BY <2>2, <2>3
<1>9. \A m \in Models : Count(nextId, index'[m]) = Count(m, list)
  <2> TAKE m \in Models
  <2>1. \A i \in DOMAIN index[m] : index[m][i] \in 1 .. nextId - 1
    BY <1>3, LenProperties
  <2>2. Count(nextId, index[m]) = 0
    <3>1. ~InList(nextId, index[m])
      BY <1>2, <2>1 DEF InList
    <3> QED BY <1>3, <3>1, CountType
  <2>3. Count(m, list) \in Nat
    BY ModelListType, CountType
  <2>4. Count(nextId, index'[m]) = 0 + Count(m, list)
    BY <1>7, <2>2
  <2> QED BY <2>3, <2>4
<1>10. RegistryTypeOK'
  <2>1. index' \in [Models -> Seq(DOMAIN nodes')]
    BY <1>1, <1>6, <1>7
  <2>2. nextId' \in 1 .. MaxIds + 1 /\ known' \subseteq DOMAIN nodes'
        /\ Len(nodes') = nextId' - 1
    BY <1>1, <1>2, <1>5, <1>6
  <2>3. answer' \in Seq(Ids)
    BY <1>1, EmptySeq
  <2> QED BY <1>1, <1>5, <2>1, <2>2, <2>3, Constant
          DEF RegistryInv, RegistryTypeOK
<1>11. Numbered' /\ RemovedStaysGone'
  BY <1>1, <1>2 DEF RegistryInv, Numbered, RemovedStaysGone
<1>12. IndexClean'
  <2> SUFFICES ASSUME NEW m \in Models, NEW id \in removed \ changed
               PROVE  ~InList(id, index'[m])
    BY <1>1 DEF IndexClean, InList
  <2>1. id \in 1 .. nextId - 1 /\ ~InList(id, index[m])
    BY <1>2 DEF RegistryInv, IndexClean
  <2>2. Count(id, index[m]) = 0
    BY <1>3, <2>1, CountType
  <2>3. Count(id, index'[m]) = 0
    BY <1>8, <2>1, <2>2
  <2> QED BY <1>7, <2>3, CountType
<1>13. SupportersFound'
  <2> SUFFICES ASSUME NEW m \in Models, NEW id \in known' \ changed'
               PROVE  Count(id, index'[m]) = Count(m, nodes'[id].models)
    BY CountIs DEF SupportersFound, Count
  <2>1. CASE id = nextId
    BY <1>5, <1>9, <2>1
  <2>2. CASE id # nextId
    <3>1. id \in known \ changed /\ id \in 1 .. nextId - 1
      BY <1>1, <1>2, <2>2
    <3>2. Count(id, index[m]) = Count(m, nodes[id].models)
      BY <3>1 DEF RegistryInv, SupportersFound
    <3> QED BY <1>5, <1>8, <3>1, <3>2
  <2> QED BY <2>1, <2>2
<1> QED BY <1>10, <1>11, <1>12, <1>13 DEF RegistryInv

LEMMA HeartbeatInv ==
    ASSUME RegistryInv, NEW id \in Ids,
           NEW list \in ModelLists, NEW memory \in Memory,
           HandleHeartbeat(id, list, memory)
    PROVE  RegistryInv'
<1> DEFINE new == [models |-> list, memory |-> memory, beat |-> now]
<1>1. /\ id \in known
      /\ nodes' = [nodes EXCEPT ![id] = new]
      /\ known' = known
      /\ changed' = IF list = nodes[id].models THEN changed ELSE changed \cup {id}
      /\ answer' = <<>>
      /\ UNCHANGED <<index, stuck, now, nextId, removed>>
  BY DEF HandleHeartbeat, Registered
<1>2. /\ nodes \in Seq(NodeInfo) /\ Len(nodes) = nextId - 1 /\ now \in 0 .. MaxTime
      /\ known \cup removed \cup changed \subseteq 1 .. nextId - 1
      /\ DOMAIN nodes = 1 .. nextId - 1
  BY Types DEF RegistryInv, Numbered
<1>3. new \in NodeInfo /\ new.models = list
  BY <1>2 DEF NodeInfo
<1> HIDE DEF new
<1>4. /\ nodes' \in Seq(NodeInfo) /\ Len(nodes') = nextId - 1
      /\ \A i \in 1 .. nextId - 1 : nodes'[i] = IF i = id THEN new ELSE nodes[i]
  BY <1>1, <1>2, <1>3, ExceptSeq
<1>5. DOMAIN nodes' = DOMAIN nodes
  BY <1>2, <1>4, LenProperties
<1>6. changed' \subseteq 1 .. nextId - 1 /\ changed \subseteq changed'
      /\ (list # nodes[id].models => id \in changed')
  BY <1>1, <1>2
<1>7. RegistryTypeOK'
  <2>1. answer' \in Seq(Ids)
    BY <1>1, EmptySeq
  <2>2. changed' \subseteq Ids
    BY <1>1 DEF RegistryInv, RegistryTypeOK
  <2> QED BY <1>1, <1>4, <1>5, <2>1, <2>2, Constant
          DEF RegistryInv, RegistryTypeOK
<1>8. Numbered' /\ RemovedStaysGone'
  BY <1>1, <1>2, <1>6 DEF RegistryInv, Numbered, RemovedStaysGone
<1>9. IndexClean'
  BY <1>1, <1>6 DEF RegistryInv, IndexClean, InList
<1>10. SupportersFound'
  <2> SUFFICES ASSUME NEW m \in Models, NEW l \in known \ changed'
               PROVE  Count(l, index[m]) = Count(m, nodes'[l].models)
    BY <1>1, CountIs DEF SupportersFound, Count
  <2>1. nodes'[l].models = nodes[l].models
    BY <1>2, <1>3, <1>4, <1>6
  <2> QED BY <1>6, <2>1 DEF RegistryInv, SupportersFound
<1> QED BY <1>7, <1>8, <1>9, <1>10 DEF RegistryInv

LEMMA RemoveInv ==
    ASSUME RegistryInv, NEW id \in Ids,
           HandleRemove(id)
    PROVE  RegistryInv'
<1>1. /\ id \in known /\ known' = known \ {id} /\ removed' = removed \cup {id}
      /\ index' = [m \in Models |-> IF InList(m, nodes[id].models)
                                    THEN Erased(index[m], id) ELSE index[m]]
      /\ answer' = <<>>
      /\ UNCHANGED <<nodes, stuck, now, nextId, changed>>
  BY DEF HandleRemove
<1>2. /\ nodes \in Seq(NodeInfo) /\ Len(nodes) = nextId - 1
      /\ nextId \in Nat \ {0} /\ nextId - 1 <= MaxIds /\ MaxIds \in Nat
      /\ known \cup removed \cup changed \subseteq 1 .. nextId - 1
      /\ DOMAIN nodes = 1 .. nextId - 1
      /\ \A m \in Models : index[m] \in Seq(1 .. nextId - 1)
  BY Types DEF RegistryInv, Numbered, RegistryTypeOK
<1>3. 1 .. nextId - 1 \subseteq Ids
  BY <1>2 DEF Ids
<1>4. \A m \in Models :
         /\ Erased(index[m], id) \in Seq(1 .. nextId - 1)
         /\ ~InList(id, Erased(index[m], id))
         /\ \A x \in Ids \ {id} :
               Count(x, Erased(index[m], id)) = Count(x, index[m])
  <2> TAKE m \in Models
  <2> DEFINE e == Erased(index[m], id)
             S == Ids \ {id}
             T == 1 .. nextId - 1
  <2>1. e = Kept(index[m], S)
    BY DEF Erased
  <2>2. index[m] \in Seq(T)
    BY <1>2
  <2> HIDE DEF e, S, T
  <2>3. /\ e \in Seq(S \cap T)
        /\ \A x \in S : Count(x, e) = Count(x, index[m])
    BY <2>1, <2>2, KeptProperties
  <2>4. e \in Seq(T)
    <3>1. S \cap T \subseteq T
      OBVIOUS
    <3> QED BY <2>3, <3>1, SeqMonotonic
  <2>5. \A i \in DOMAIN e : e[i] # id
    BY <2>3, LenProperties DEF S
  <2> QED BY <2>3, <2>4, <2>5 DEF e, S, T, InList
<1>5. \A m \in Models : index'[m] \in Seq(1 .. nextId - 1)
  BY <1>1, <1>2, <1>4
<1>6. \A m \in Models, x \in (1 .. nextId - 1) \ {id} :
         Count(x, index'[m]) = Count(x, index[m])
  BY <1>1, <1>3, <1>4
<1>7. RegistryTypeOK'
  <2>1. index' \in [Models -> Seq(DOMAIN nodes')]
    BY <1>1, <1>2, <1>5
  <2>2. answer' \in Seq(Ids)
    BY <1>1, EmptySeq
  <2>3. removed' \subseteq Ids /\ known' \subseteq DOMAIN nodes'
    BY <1>1 DEF RegistryInv, RegistryTypeOK
  <2> QED BY <1>1, <2>1, <2>2, <2>3, Constant
          DEF RegistryInv, RegistryTypeOK
<1>8. Numbered' /\ RemovedStaysGone'
  BY <1>1, <1>2 DEF RegistryInv, Numbered, RemovedStaysGone
<1>9. IndexClean'
  <2> SUFFICES ASSUME NEW m \in Models, NEW x \in removed' \ changed
               PROVE  ~InList(x, index'[m])
    BY <1>1 DEF IndexClean, InList
  <2>1. CASE x # id
    <3>1. ~InList(x, index[m]) /\ x \in (1 .. nextId - 1) \ {id}
      BY <1>1, <1>2, <2>1 DEF RegistryInv, IndexClean
    <3>2. Count(x, index[m]) = 0
      BY <1>2, <3>1, CountType
    <3>3. Count(x, index'[m]) = 0
      BY <1>6, <3>1, <3>2
    <3> QED BY <1>5, <3>3, CountType
  <2>2. CASE x = id /\ InList(m, nodes[id].models)
    BY <1>1, <1>4, <2>2
  <2>3. CASE x = id /\ ~InList(m, nodes[id].models)
    <3>1. index'[m] = index[m] /\ id \in known \ changed
      BY <1>1, <2>3
    <3>2. Count(id, index[m]) = Count(m, nodes[id].models)
      BY <3>1 DEF RegistryInv, SupportersFound
    <3>3. nodes[id].models \in Seq(Models)
      <4>1. nodes[id] \in NodeInfo
        BY <1>1, <1>2, ElementOfSeq
      <4> QED BY <4>1, ModelListType DEF NodeInfo
    <3>4. Count(m, nodes[id].models) = 0
      BY <2>3, <3>3, CountType
    <3>5. ~InList(id, index[m])
      BY <1>2, <3>2, <3>4, CountType
    <3> QED BY <2>3, <3>1, <3>5
  <2> QED BY <2>1, <2>2, <2>3
<1>10. SupportersFound'
  <2> SUFFICES ASSUME NEW m \in Models, NEW l \in known' \ changed
               PROVE  Count(l, index'[m]) = Count(m, nodes[l].models)
    BY <1>1, CountIs DEF SupportersFound, Count
  <2>1. l \in known \ changed /\ l \in (1 .. nextId - 1) \ {id}
    BY <1>1, <1>2
  <2> QED BY <1>6, <2>1 DEF RegistryInv, SupportersFound
<1> QED BY <1>7, <1>8, <1>9, <1>10 DEF RegistryInv

\* A step that leaves the nodes and the index alone keeps everything but,
\* perhaps, the types of the rest.
LEMMA SameListsInv ==
    ASSUME RegistryInv, RegistryTypeOK',
           UNCHANGED <<nodes, known, index, nextId, removed, changed>>
    PROVE  RegistryInv'
<1>1. Numbered' /\ RemovedStaysGone'
  BY DEF RegistryInv, Numbered, RemovedStaysGone
<1>2. IndexClean'
  BY DEF RegistryInv, IndexClean, InList
<1>3. SupportersFound'
  <2> SUFFICES ASSUME NEW m \in Models, NEW l \in known \ changed
               PROVE  Count(l, index[m]) = Count(m, nodes[l].models)
    BY CountIs DEF SupportersFound, Count
  <2> QED BY DEF RegistryInv, SupportersFound
<1> QED BY <1>1, <1>2, <1>3 DEF RegistryInv

\* An answer is a list of ids.
LEMMA QueryInv ==
    ASSUME RegistryInv, NEW m \in Models, HandleQuery(m)
    PROVE  RegistryInv'
<1> DEFINE found == Kept(index[m], {id \in Ids : Listed(id)})
<1>1. UNCHANGED <<nodes, known, index, stuck, now, nextId, removed, changed>>
      /\ answer' \in OnlineNodes(m)
  BY DEF HandleQuery
<1>2. found \in Seq(Ids)
  <2> DEFINE S == {id \in Ids : Listed(id)}
             T == 1 .. nextId - 1
  <2>1. index[m] \in Seq(T)
    BY Types DEF RegistryInv
  <2>2. S \cap T \subseteq Ids
    OBVIOUS
  <2>3. Kept(index[m], S) \in Seq(S \cap T)
    <3> HIDE DEF S, T
    <3> QED BY <2>1, KeptProperties
  <2> QED BY <2>2, <2>3, SeqMonotonic
<1>3. answer' \in Seq(Ids)
  <2> DEFINE Permuted(p) == [i \in DOMAIN found |-> found[p[i]]]
  <2>1. PICK p \in [DOMAIN found -> DOMAIN found] : answer' = Permuted(p)
    BY <1>1 DEF OnlineNodes
  <2>2. DOMAIN found = 1 .. Len(found) /\ Len(found) \in Nat
        /\ \A i \in DOMAIN found : found[i] \in Ids
    BY <1>2, LenProperties
  <2> HIDE DEF found
  <2>3. Permuted(p) \in [1 .. Len(found) -> Ids]
    BY <2>1, <2>2
  <2> QED BY <2>1, <2>2, <2>3, SeqDef
<1>4. RegistryTypeOK'
  BY <1>1, <1>3, Constant DEF RegistryInv, RegistryTypeOK
<1> QED BY <1>1, <1>4, SameListsInv

LEMMA ScanTickInv ==
    ASSUME RegistryInv,
           Scan \/ Tick \/ UNCHANGED registryVars
    PROVE  RegistryInv'
<1>1. UNCHANGED <<nodes, known, index, nextId, removed, changed>>
  BY DEF Scan, Tick, registryVars
<1>2. answer' \in Seq(Ids) /\ stuck' \in BOOLEAN /\ now' \in 0 .. MaxTime
  <2>1. CASE Scan
    BY <2>1, EmptySeq DEF Scan, RegistryInv, RegistryTypeOK
  <2>2. CASE Tick
    BY <2>2, EmptySeq, RegistryAssumption DEF Tick, RegistryInv, RegistryTypeOK
  <2>3. CASE UNCHANGED registryVars
    BY <2>3 DEF registryVars, RegistryInv, RegistryTypeOK
  <2> QED BY <2>1, <2>2, <2>3
<1>3. RegistryTypeOK'
  BY <1>1, <1>2, Constant DEF RegistryInv, RegistryTypeOK
<1> QED BY <1>1, <1>3, SameListsInv

LEMMA RegistryNextInv ==
    RegistryInv /\ [RegistryNext]_registryVars => RegistryInv'
<1> SUFFICES ASSUME RegistryInv, [RegistryNext]_registryVars
             PROVE  RegistryInv'
  OBVIOUS
<1>1. ASSUME NEW list \in ModelLists, NEW memory \in Memory,
             HandleRegister(list, memory)
      PROVE  RegistryInv'
  BY <1>1, RegisterInv
<1>2. ASSUME NEW list \in ModelLists, NEW memory \in Memory, NEW id \in Ids,
             HandleHeartbeat(id, list, memory)
      PROVE  RegistryInv'
  BY <1>2, HeartbeatInv
<1>3. ASSUME NEW id \in Ids, HandleRemove(id) PROVE RegistryInv'
  BY <1>3, RemoveInv
<1>4. ASSUME NEW m \in Models, HandleQuery(m) PROVE RegistryInv'
  BY <1>4, QueryInv
<1>5. CASE Scan \/ Tick \/ UNCHANGED registryVars
  BY <1>5, ScanTickInv
<1> QED BY <1>1, <1>2, <1>3, <1>4, <1>5 DEF RegistryNext

LEMMA RegistryInvariance == RegistrySpec => []RegistryInv
<1>1. RegistryInit => RegistryInv
  BY RegistryInitInv
<1>2. RegistryInv /\ [RegistryNext]_registryVars => RegistryInv'
  BY RegistryNextInv
<1> QED BY <1>1, <1>2, PTL DEF RegistrySpec

\* The node table, the index and an answer keep their types: no id in the index
\* is one that was never given out.
THEOREM RegistryTypeCorrect == RegistrySpec => []RegistryTypeOK
<1>1. RegistryInv => RegistryTypeOK
  BY DEF RegistryInv
<1> QED BY <1>1, RegistryInvariance, PTL

\* A node that HandleRemove erased does not come back, whatever heartbeats,
\* removals and registrations follow in whatever order: UpdateHeartbeat finds
\* no entry, and a new registration has an id of its own.
THEOREM RemovedStaysGoneCorrect == RegistrySpec => []RemovedStaysGone
<1>1. RegistryInv => RemovedStaysGone
  BY DEF RegistryInv
<1> QED BY <1>1, RegistryInvariance, PTL

\* RemoveWorker takes every copy of the id out of the index, although it looks
\* only at the models the node has now: they are those it registered with.
THEOREM IndexCleanCorrect == RegistrySpec => []IndexClean
<1>1. RegistryInv => IndexClean
  BY DEF RegistryInv
<1> QED BY <1>1, RegistryInvariance, PTL

\* A registered node whose models no heartbeat changed is in the list of each of
\* them, as often as it named it, whatever nodes come and go meanwhile.
THEOREM SupportersFoundCorrect == RegistrySpec => []SupportersFound
<1>1. RegistryInv => SupportersFound
  BY DEF RegistryInv
<1> QED BY <1>1, RegistryInvariance, PTL

-----------------------------------------------------------------------------
(* FlattenSeq.                                                             *)

\* The recursion of FlattenSeq, solved up to n.
Flattened(f, s, n) ==
    f = [i \in 1 .. n |-> IF i = 1 THEN s[i] ELSE f[i - 1] \o s[i]]

LEMMA FlattenedExists ==
    ASSUME NEW s, NEW n \in Nat
    PROVE  \E f : Flattened(f, s, n)
<1> DEFINE Bad == {k \in Nat : ~\E f : Flattened(f, s, k)}
<1>1. ASSUME Bad # {} PROVE FALSE
  <2>1. PICK k \in Bad : \A l \in Bad : k <= l
    BY <1>1, LeastNat
  <2>2. k # 0
    <3> DEFINE f == [i \in 1 .. 0 |-> <<>>]
    <3>1. f = [i \in 1 .. 0 |-> IF i = 1 THEN s[i] ELSE f[i - 1] \o s[i]]
      OBVIOUS
    <3> HIDE DEF f
    <3>2. Flattened(f, s, 0)
      BY <3>1 DEF Flattened
    <3> QED BY <3>2
  <2>3. PICK f : Flattened(f, s, k - 1)
    <3>1. k - 1 \in Nat /\ k - 1 \notin Bad
      BY <2>1, <2>2
    <3> QED BY <3>1
  <2> DEFINE g == [i \in 1 .. k |->
                     IF i < k THEN f[i] ELSE IF i = 1 THEN s[i] ELSE f[i - 1] \o s[i]]
  <2>4. \A i \in 1 .. k - 1 : f[i] = IF i = 1 THEN s[i] ELSE f[i - 1] \o s[i]
    BY <2>3, Zenon DEF Flattened
  <2>5. \A i \in 1 .. k : g[i] = IF i = 1 THEN s[i] ELSE g[i - 1] \o s[i]
    BY <2>1, <2>2, <2>4
  <2>6. g = [i \in 1 .. k |-> g[i]]
    OBVIOUS
  <2> HIDE DEF g
  <2>7. Flattened(g, s, k)
    BY <2>5, <2>6 DEF Flattened
  <2> QED BY <2>7
<1> QED BY <1>1

\* Two solutions agree where both are defined.
LEMMA FlattenedAgree ==
    ASSUME NEW s, NEW t, NEW f, NEW g, NEW m \in Nat, NEW n \in Nat, m <= n,
           \A i \in 1 .. m : s[i] = t[i],
           Flattened(f, s, m), Flattened(g, t, n)
    PROVE  \A i \in 1 .. m : f[i] = g[i]
<1> DEFINE Bad == {i \in 1 .. m : f[i] # g[i]}
<1>1. \A i \in 1 .. m : f[i] = IF i = 1 THEN s[i] ELSE f[i - 1] \o s[i]
  BY Zenon DEF Flattened
<1>2. \A i \in 1 .. n : g[i] = IF i = 1 THEN t[i] ELSE g[i - 1] \o t[i]
  BY Zenon DEF Flattened
<1>3. ASSUME Bad # {} PROVE FALSE
  <2>1. PICK i \in Bad : \A l \in Bad : i <= l
    <3>1. Bad \in SUBSET Nat
      OBVIOUS
    <3> HIDE DEF Bad
    <3> QED BY <1>3, <3>1, LeastNat
  <2>2. i \in 1 .. m /\ i \in 1 .. n /\ f[i] # g[i]
    BY <2>1
  <2>3. i # 1 => i - 1 \in 1 .. m /\ f[i - 1] = g[i - 1]
    <3> SUFFICES ASSUME i # 1 PROVE i - 1 \in 1 .. m /\ i - 1 \notin Bad
      OBVIOUS
    <3> QED BY <2>1, <2>2
  <2> QED BY <1>1, <1>2, <2>2, <2>3
<1> QED BY <1>3

Flat(s, k) == FlattenSeq([i \in 1 .. k |-> s[i]])

\* One more block goes to the end.
LEMMA FlatStep ==
    ASSUME NEW S, NEW s \in Seq(Seq(S))
    PROVE  /\ Flat(s, 0) = <<>>
           /\ \A k \in 1 .. Len(s) : /\ Flat(s, k - 1) \in Seq(S)
                                     /\ Flat(s, k) \in Seq(S)
                                     /\ Flat(s, k) = Flat(s, k - 1) \o s[k]
<1> DEFINE Cut(k) == [i \in 1 .. k |-> s[i]]
<1>1. Len(s) \in Nat /\ \A i \in 1 .. Len(s) : s[i] \in Seq(S)
  BY LenProperties, ElementOfSeq
<1>2. \A k \in 0 .. Len(s) : Cut(k) \in Seq(Seq(S)) /\ Len(Cut(k)) = k
  <2> SUFFICES ASSUME NEW k \in 0 .. Len(s) PROVE Cut(k) \in Seq(Seq(S)) /\ Len(Cut(k)) = k
    OBVIOUS
  <2>1. Cut(k) \in [1 .. k -> Seq(S)] /\ DOMAIN Cut(k) = 1 .. k /\ k \in Nat
    BY <1>1
  <2> HIDE DEF Cut
  <2>2. Cut(k) \in Seq(Seq(S))
    BY <2>1, SeqDef
  <2> QED BY <2>1, <2>2, LenProperties
<1>3. Flat(s, 0) = <<>>
  <2>1. Cut(0) = <<>> /\ Len(Cut(0)) = 0
    BY <1>1, <1>2, EmptySeq
  <2> QED BY <2>1 DEF Flat, FlattenSeq
<1>4. \A k \in 1 .. Len(s) : \E f : Flattened(f, Cut(k), k) /\ Flat(s, k) = f[k]
  <2> SUFFICES ASSUME NEW k \in 1 .. Len(s)
               PROVE  \E f : Flattened(f, Cut(k), k) /\ Flat(s, k) = f[k]
    OBVIOUS
  <2> DEFINE c == Cut(k)
  <2>1. Len(c) = k /\ k # 0 /\ k \in Nat
    BY <1>1, <1>2
  <2>2. Flat(s, k) = FlattenSeq(c)
    BY DEF Flat
  <2> HIDE DEF c
  <2> DEFINE f == CHOOSE f : Flattened(f, c, Len(c))
  <2>3. Flattened(f, c, Len(c))
    BY <2>1, FlattenedExists
  <2>4. FlattenSeq(c) = f[Len(c)]
    BY <2>1 DEF FlattenSeq, Flattened
  <2> HIDE DEF f
  <2>5. Flattened(f, c, k) /\ Flat(s, k) = f[k]
    BY <2>1, <2>2, <2>3, <2>4
  <2> QED BY <2>5 DEF c
<1>5. \A k \in 1 .. Len(s) : k # 1 => Flat(s, k) = Flat(s, k - 1) \o s[k]
  <2> SUFFICES ASSUME NEW k \in 1 .. Len(s), k # 1
               PROVE  Flat(s, k) = Flat(s, k - 1) \o s[k]
    OBVIOUS
  <2>1. k - 1 \in 1 .. Len(s) /\ k \in Nat /\ k - 1 \in Nat
    BY <1>1
  <2>2. PICK f : Flattened(f, Cut(k), k) /\ Flat(s, k) = f[k]
    BY <1>4
  <2>3. PICK g : Flattened(g, Cut(k - 1), k - 1) /\ Flat(s, k - 1) = g[k - 1]
    BY <1>4, <2>1
  <2>4. \A i \in 1 .. k - 1 : Cut(k - 1)[i] = Cut(k)[i]
    BY <2>1
  <2>5. Cut(k)[k] = s[k]
    BY <2>1
  <2> HIDE DEF Cut
  <2>6. g[k - 1] = f[k - 1]
    <3>1. \A i \in 1 .. k - 1 : g[i] = f[i]
      BY <2>1, <2>2, <2>3, <2>4, FlattenedAgree
    <3> QED BY <2>1, <3>1
  <2>7. f[k] = f[k - 1] \o Cut(k)[k]
    <3>1. \A i \in 1 .. k : f[i] = IF i = 1 THEN Cut(k)[i] ELSE f[i - 1] \o Cut(k)[i]
      BY <2>2, Zenon DEF Flattened
    <3>2. k \in 1 .. k
      BY <1>1, <2>1
    <3> QED BY <3>1, <3>2
  <2> QED BY <2>2, <2>3, <2>5, <2>6, <2>7
<1>6. \A k \in 1 .. Len(s) : k = 1 => Flat(s, k) = s[k]
  <2> SUFFICES ASSUME NEW k \in 1 .. Len(s), k = 1 PROVE Flat(s, k) = s[k]
    OBVIOUS
  <2>1. PICK f : Flattened(f, Cut(k), k) /\ Flat(s, k) = f[k]
    BY <1>4
  <2>2. Cut(k)[k] = s[k]
    OBVIOUS
  <2> HIDE DEF Cut
  <2>3. \A i \in 1 .. k : f[i] = IF i = 1 THEN Cut(k)[i] ELSE f[i - 1] \o Cut(k)[i]
    BY <2>1, Zenon DEF Flattened
  <2> QED BY <2>1, <2>2, <2>3
<1> DEFINE Bad == {k \in 0 .. Len(s) : Flat(s, k) \notin Seq(S)}
<1>7. ASSUME Bad # {} PROVE FALSE
  <2>1. PICK k \in Bad : \A l \in Bad : k <= l
    <3>1. Bad \in SUBSET Nat
      BY <1>1
    <3> HIDE DEF Bad
    <3> QED BY <1>7, <3>1, LeastNat
  <2>2. k # 0
    BY <1>3, <2>1, EmptySeq
  <2>3. k \in 1 .. Len(s) /\ k - 1 \in 0 .. Len(s) /\ k - 1 \notin Bad
    BY <1>1, <2>1, <2>2
  <2>4. s[k] \in Seq(S) /\ Flat(s, k - 1) \in Seq(S)
    BY <1>1, <2>3
  <2>5. Flat(s, k) \in Seq(S)
    BY <1>5, <1>6, <2>3, <2>4, ConcatProperties
  <2> QED BY <2>1, <2>5
<1>8. \A k \in 1 .. Len(s) : Flat(s, k) = Flat(s, k - 1) \o s[k]
  <2> SUFFICES ASSUME NEW k \in 1 .. Len(s) PROVE Flat(s, k) = Flat(s, k - 1) \o s[k]
    OBVIOUS
  <2>1. CASE k = 1
    <3>1. Flat(s, k) = s[k] /\ s[k] \in Seq(S)
      BY <1>1, <1>6, <2>1
    <3>2. Flat(s, k - 1) = <<>>
      BY <1>3, <2>1
    <3> QED BY <3>1, <3>2, ConcatEmptySeq
  <2>2. CASE k # 1
    BY <1>5, <2>2
  <2> QED BY <2>1, <2>2
<1>9. \A k \in 1 .. Len(s) : k - 1 \in 0 .. Len(s) /\ k \in 0 .. Len(s)
  BY <1>1
<1> QED BY <1>3, <1>7, <1>8, <1>9

\* Where the first k blocks end.
Past(s, k) == Len(Flat(s, k))

LEMMA PastStep ==
    ASSUME NEW S, NEW s \in Seq(Seq(S))
    PROVE  /\ Past(s, 0) = 0
           /\ \A k \in 0 .. Len(s) : Flat(s, k) \in Seq(S) /\ Past(s, k) \in Nat
           /\ \A k \in 1 .. Len(s) : Past(s, k) = Past(s, k - 1) + Len(s[k])
<1>1. Len(s) \in Nat /\ \A i \in 1 .. Len(s) : s[i] \in Seq(S)
  BY LenProperties, ElementOfSeq
<1>2. Flat(s, 0) = <<>> /\ Past(s, 0) = 0
  BY FlatStep, EmptySeq DEF Past
<1>3. \A k \in 0 .. Len(s) : Flat(s, k) \in Seq(S)
  <2>1. \A k \in 0 .. Len(s) : k = 0 \/ k \in 1 .. Len(s)
    BY <1>1
  <2> QED BY <1>2, <2>1, FlatStep, EmptySeq
<1>4. \A k \in 0 .. Len(s) : Past(s, k) \in Nat
  BY <1>3, LenProperties DEF Past
<1>5. \A k \in 1 .. Len(s) : Past(s, k) = Past(s, k - 1) + Len(s[k])
  <2> SUFFICES ASSUME NEW k \in 1 .. Len(s) PROVE Past(s, k) = Past(s, k - 1) + Len(s[k])
    OBVIOUS
  <2>1. Flat(s, k - 1) \in Seq(S) /\ Flat(s, k) = Flat(s, k - 1) \o s[k] /\ s[k] \in Seq(S)
    BY <1>1, FlatStep
  <2> QED BY <2>1, ConcatProperties DEF Past
<1> QED BY <1>2, <1>3, <1>4, <1>5

\* The first k blocks come first, whatever follows.
LEMMA PrefixStays ==
    ASSUME NEW S, NEW s \in Seq(Seq(S)), NEW k \in 0 .. Len(s), NEW m \in k .. Len(s)
    PROVE  /\ Past(s, k) <= Past(s, m)
           /\ \A j \in 1 .. Past(s, k) : Flat(s, m)[j] = Flat(s, k)[j]
<1> DEFINE Good(l) == /\ Past(s, k) <= Past(s, l)
                      /\ \A j \in 1 .. Past(s, k) : Flat(s, l)[j] = Flat(s, k)[j]
           Bad == {l \in k .. Len(s) : ~Good(l)}
<1>1. Len(s) \in Nat /\ k \in Nat /\ \A i \in 1 .. Len(s) : s[i] \in Seq(S) /\ Len(s[i]) \in Nat
  BY LenProperties, ElementOfSeq
<1>2. Good(k)
  BY PastStep
<1>3. ASSUME NEW l \in k + 1 .. Len(s), Good(l - 1) PROVE Good(l)
  <2>1. l \in 1 .. Len(s) /\ l - 1 \in 0 .. Len(s)
    BY <1>1
  <2>2. /\ Flat(s, l - 1) \in Seq(S) /\ Flat(s, l) = Flat(s, l - 1) \o s[l] /\ s[l] \in Seq(S)
        /\ Past(s, l - 1) \in Nat /\ Past(s, k) \in Nat
        /\ Past(s, l) = Past(s, l - 1) + Len(s[l])
    BY <1>1, <2>1, FlatStep, PastStep
  <2>3. Past(s, k) <= Past(s, l)
    BY <1>1, <1>3, <2>1, <2>2
  <2>4. \A j \in 1 .. Past(s, l - 1) : Flat(s, l)[j] = Flat(s, l - 1)[j]
    <3>1. \A j \in 1 .. Len(Flat(s, l - 1)) + Len(s[l]) :
             (Flat(s, l - 1) \o s[l])[j] = IF j <= Len(Flat(s, l - 1)) THEN Flat(s, l - 1)[j]
                                           ELSE s[l][j - Len(Flat(s, l - 1))]
      BY <2>2, ConcatProperties
    <3>2. \A j \in 1 .. Past(s, l - 1) :
             j \in 1 .. Past(s, l - 1) + Len(s[l]) /\ j <= Past(s, l - 1)
      BY <1>1, <2>1, <2>2
    <3> QED BY <2>2, <3>1, <3>2 DEF Past
  <2>5. \A j \in 1 .. Past(s, k) : Flat(s, l)[j] = Flat(s, k)[j]
    <3>1. \A j \in 1 .. Past(s, k) : j \in 1 .. Past(s, l - 1)
      BY <1>3, <2>2
    <3> QED BY <1>3, <2>4, <3>1
  <2> QED BY <2>3, <2>5
<1>4. ASSUME Bad # {} PROVE FALSE
  <2>1. PICK l \in Bad : \A i \in Bad : l <= i
    <3>1. Bad \in SUBSET Nat
      BY <1>1
    <3> HIDE DEF Bad
    <3> QED BY <1>4, <3>1, LeastNat
  <2>2. l # k /\ l \in k .. Len(s)
    BY <1>2, <2>1
  <2> HIDE DEF Good
  <2>3. l \in k + 1 .. Len(s) /\ l - 1 \in k .. Len(s)
    BY <1>1, <2>2
  <2>4. l - 1 \notin Bad
    BY <1>1, <2>1, <2>3
  <2> QED BY <1>3, <2>1, <2>3, <2>4
<1> QED BY <1>4

\* Each block is found where those before it end, and there is nothing else.
LEMMA Blocks ==
    ASSUME NEW S, NEW s \in Seq(Seq(S))
    PROVE  /\ \A k \in 1 .. Len(s) : \A j \in 1 .. Len(s[k]) :
                 Flat(s, Len(s))[Past(s, k - 1) + j] = s[k][j]
           /\ \A j \in 1 .. Past(s, Len(s)) : \E k \in 1 .. Len(s) :
                 Past(s, k - 1) < j /\ j <= Past(s, k)
<1>1. Len(s) \in Nat /\ \A i \in 1 .. Len(s) : s[i] \in Seq(S) /\ Len(s[i]) \in Nat
  BY LenProperties, ElementOfSeq
<1>2. ASSUME NEW k \in 1 .. Len(s), NEW j \in 1 .. Len(s[k])
      PROVE  Flat(s, Len(s))[Past(s, k - 1) + j] = s[k][j]
  <2>1. k \in 0 .. Len(s) /\ k - 1 \in 0 .. Len(s) /\ Len(s) \in k .. Len(s)
    BY <1>1
  <2>2. /\ Flat(s, k - 1) \in Seq(S) /\ Flat(s, k) = Flat(s, k - 1) \o s[k] /\ s[k] \in Seq(S)
        /\ Past(s, k - 1) \in Nat /\ Past(s, k) = Past(s, k - 1) + Len(s[k])
    BY <1>1, <2>1, FlatStep, PastStep
  <2> DEFINE i == Past(s, k - 1) + j
  <2>3. i \in 1 .. Past(s, k) /\ ~(i <= Past(s, k - 1)) /\ i - Past(s, k - 1) = j
    BY <1>1, <2>2
  <2>4. \A l \in 1 .. Len(Flat(s, k - 1)) + Len(s[k]) :
           (Flat(s, k - 1) \o s[k])[l] = IF l <= Len(Flat(s, k - 1)) THEN Flat(s, k - 1)[l]
                                         ELSE s[k][l - Len(Flat(s, k - 1))]
    BY <2>2, ConcatProperties
  <2>5. \A l \in 1 .. Past(s, k) : Flat(s, Len(s))[l] = Flat(s, k)[l]
    BY <2>1, PrefixStays
  <2> HIDE DEF i
  <2>6. Flat(s, k)[i] = s[k][j]
    BY <2>2, <2>3, <2>4 DEF Past
  <2> QED BY <2>3, <2>5, <2>6 DEF i
<1>3. ASSUME NEW j \in 1 .. Past(s, Len(s))
      PROVE  \E k \in 1 .. Len(s) : Past(s, k - 1) < j /\ j <= Past(s, k)
  <2> DEFINE Beyond == {k \in 0 .. Len(s) : j <= Past(s, k)}
  <2>1. Past(s, 0) = 0 /\ \A k \in 0 .. Len(s) : Past(s, k) \in Nat
    BY PastStep
  <2>2. j \in Nat \ {0} /\ Len(s) \in 0 .. Len(s) /\ j <= Past(s, Len(s))
    BY <1>1, <2>1
  <2>3. PICK k \in Beyond : \A l \in Beyond : k <= l
    <3>1. Beyond \in SUBSET Nat /\ Beyond # {}
      BY <1>1, <2>2
    <3> HIDE DEF Beyond
    <3> QED BY <3>1, LeastNat
  <2>4. k # 0
    BY <2>1, <2>2, <2>3
  <2>5. k \in 1 .. Len(s) /\ k - 1 \in 0 .. Len(s) /\ k - 1 \notin Beyond
    BY <1>1, <2>3, <2>4
  <2>6. Past(s, k - 1) < j
    <3>1. ~(j <= Past(s, k - 1))
      BY <2>5
    <3>2. Past(s, k - 1) \in Nat
      BY <2>1, <2>5
    <3> QED BY <2>2, <3>1, <3>2
  <2> QED BY <2>3, <2>5, <2>6
<1> QED BY <1>2, <1>3

-----------------------------------------------------------------------------
(* The streams of the peers.                                               *)

BodyUnit(p, i) == [part |-> "body", of |-> p, at |-> i]
SentUnit ==
    {Magic} \cup {Length(p) : p \in Packets} \cup {BodyUnit(p, i) : p \in Packets, i \in Nat}

LEMMA PacketsType ==
    ASSUME RegistryServerAssumption
    PROVE  /\ Packets \subseteq AiSchedulePacket
           /\ \A c \in Conns : Sent[c] \in Seq(Packets)
<1>1. \A c \in Conns : Sent[c] \in Seq(AiSchedulePacket)
  BY DEF RegistryServerAssumption
<1>2. ASSUME NEW c \in Conns
      PROVE  Sent[c] \in Seq(Packets) /\ \A i \in DOMAIN Sent[c] : Sent[c][i] \in AiSchedulePacket
  <2> DEFINE s == Sent[c]
  <2>1. s \in Seq(AiSchedulePacket) /\ \A i \in DOMAIN s : s[i] \in Packets
    BY <1>1 DEF Packets
  <2> HIDE DEF s
  <2>2. Len(s) \in Nat /\ DOMAIN s = 1 .. Len(s) /\ \A i \in DOMAIN s : s[i] \in AiSchedulePacket
    BY <2>1, LenProperties, ElementOfSeq
  <2>3. s = [i \in 1 .. Len(s) |-> s[i]]
    BY <2>1, <2>2, SeqDef
  <2>4. s \in [1 .. Len(s) -> Packets]
    BY <2>1, <2>2, <2>3
  <2>5. s \in Seq(Packets)
    BY <2>2, <2>4, SeqDef
  <2> QED BY <2>2, <2>5 DEF s
<1> QED BY <1>2 DEF Packets

\* A packet on the wire: the two halves of its header, and its body.
LEMMA SerializeProperties ==
    ASSUME RegistryServerAssumption, NEW p \in Packets
    PROVE  /\ Serialize(p) \in Seq(SentUnit) /\ p.size \in Nat
           /\ Len(Serialize(p)) = 2 + p.size
           /\ Serialize(p)[1] = Magic /\ Serialize(p)[2] = Length(p)
           /\ \A i \in 1 .. p.size : Serialize(p)[2 + i] = BodyUnit(p, i)
           /\ Body(p) \in Seq(SentUnit) /\ Len(Body(p)) = p.size
           /\ \A i \in 1 .. p.size : Body(p)[i] = BodyUnit(p, i)
<1>1. p.size \in Nat
  BY PacketsType DEF AiSchedulePacket
<1>2. Body(p) = [i \in 1 .. p.size |-> BodyUnit(p, i)]
  BY DEF Body, BodyUnit
<1>3. Body(p) \in [1 .. p.size -> SentUnit]
  BY <1>2 DEF SentUnit
<1>4. Body(p) \in Seq(SentUnit)
  BY <1>1, <1>3, SeqDef
<1>5. Len(Body(p)) = p.size
  BY <1>1, <1>2, <1>4, LenProperties
<1> DEFINE h == <<Magic, Length(p)>>
           b == Body(p)
<1>6. h \in Seq(SentUnit) /\ Len(h) = 2 /\ h[1] = Magic /\ h[2] = Length(p)
  BY DEF SentUnit
<1>7. Serialize(p) = h \o b
  BY DEF Serialize
<1>8. \A i \in 1 .. p.size : b[i] = BodyUnit(p, i)
  BY <1>2
<1> HIDE DEF h, b
<1>9. /\ h \o b \in Seq(SentUnit) /\ Len(h \o b) = 2 + p.size
      /\ \A i \in 1 .. 2 + p.size : (h \o b)[i] = IF i <= 2 THEN h[i] ELSE b[i - 2]
  <2>1. b \in Seq(SentUnit) /\ Len(b) = p.size
    BY <1>4, <1>5 DEF b
  <2>2. /\ h \o b \in Seq(SentUnit) /\ Len(h \o b) = Len(h) + Len(b)
        /\ \A i \in 1 .. Len(h) + Len(b) : (h \o b)[i] = IF i <= Len(h) THEN h[i] ELSE b[i - Len(h)]
    BY <1>6, <2>1, ConcatProperties
  <2> QED BY <1>6, <2>1, <2>2
<1>10. Serialize(p)[1] = Magic /\ Serialize(p)[2] = Length(p)
  BY <1>1, <1>6, <1>7, <1>9
<1>11. \A i \in 1 .. p.size : Serialize(p)[2 + i] = BodyUnit(p, i)
  <2> SUFFICES ASSUME NEW i \in 1 .. p.size PROVE Serialize(p)[2 + i] = b[i]
    BY <1>8
  <2>1. 2 + i \in 1 .. 2 + p.size /\ ~(2 + i <= 2) /\ (2 + i) - 2 = i
    BY <1>1
  <2> QED BY <1>7, <1>9, <2>1
<1> QED BY <1>1, <1>4, <1>5, <1>7, <1>8, <1>9, <1>10, <1>11 DEF b

\* Where the first k packets of c end in its stream.
End(c, k) == Len(FlattenSeq([i \in 1 .. k |-> Serialize(Sent[c][i])]))

LEMMA StreamProperties ==
    ASSUME RegistryServerAssumption, NEW c \in Conns
    PROVE  /\ Sent[c] \in Seq(Packets) /\ Len(Sent[c]) \in Nat /\ DOMAIN Sent[c] = 1 .. Len(Sent[c])
           /\ \A k \in 1 .. Len(Sent[c]) : Sent[c][k] \in Packets /\ Sent[c][k].size \in Nat
           /\ Stream(c) \in Seq(SentUnit) /\ Len(Stream(c)) = End(c, Len(Sent[c]))
           /\ End(c, 0) = 0
           /\ \A k \in 0 .. Len(Sent[c]) : End(c, k) \in Nat /\ End(c, k) <= Len(Stream(c))
           /\ \A k \in 0 .. Len(Sent[c]) : \A m \in k .. Len(Sent[c]) : End(c, k) <= End(c, m)
           /\ \A k \in 1 .. Len(Sent[c]) :
                 /\ End(c, k) = End(c, k - 1) + 2 + Sent[c][k].size
                 /\ \A j \in 1 .. 2 + Sent[c][k].size :
                       Stream(c)[End(c, k - 1) + j] = Serialize(Sent[c][k])[j]
           /\ \A j \in 1 .. Len(Stream(c)) : \E k \in 1 .. Len(Sent[c]) :
                 End(c, k - 1) < j /\ j <= End(c, k)
<1> DEFINE sent == Sent[c]
           n == Len(sent)
           s == [i \in DOMAIN sent |-> Serialize(sent[i])]
<1>1. /\ sent \in Seq(Packets) /\ n \in Nat /\ DOMAIN sent = 1 .. n
      /\ \A k \in 1 .. n : sent[k] \in Packets /\ sent[k].size \in Nat
  <2>1. sent \in Seq(Packets)
    BY PacketsType
  <2> HIDE DEF sent
  <2>2. n \in Nat /\ DOMAIN sent = 1 .. n /\ \A k \in 1 .. n : sent[k] \in Packets
    BY <2>1, LenProperties, ElementOfSeq
  <2> QED BY <2>1, <2>2, SerializeProperties
<1> HIDE DEF sent
<1>2. s \in [1 .. n -> Seq(SentUnit)] /\ DOMAIN s = 1 .. n
  BY <1>1, SerializeProperties
<1>3. \A k \in 1 .. n : s[k] = Serialize(sent[k]) /\ Len(s[k]) = 2 + sent[k].size
  BY <1>1, SerializeProperties
<1>4. \A k \in 0 .. n : End(c, k) = Past(s, k)
  <2> SUFFICES ASSUME NEW k \in 0 .. n PROVE End(c, k) = Past(s, k)
    OBVIOUS
  <2>1. [i \in 1 .. k |-> Serialize(Sent[c][i])] = [i \in 1 .. k |-> s[i]]
    <3>1. \A i \in 1 .. k : i \in 1 .. n
      BY <1>1
    <3> QED BY <1>3, <3>1 DEF sent
  <2> QED BY <2>1 DEF End, Past, Flat
<1>5. Stream(c) = Flat(s, n)
  <2>1. s = [i \in 1 .. n |-> s[i]]
    BY <1>1
  <2>2. Stream(c) = FlattenSeq(s)
    BY DEF Stream, sent
  <2> QED BY <2>1, <2>2 DEF Flat
<1> HIDE DEF s, n
<1>6. s \in Seq(Seq(SentUnit)) /\ Len(s) = n
  <2>1. s \in Seq(Seq(SentUnit))
    BY <1>1, <1>2, SeqDef
  <2> QED BY <1>1, <1>2, <2>1, LenProperties
<1>7. /\ n \in 0 .. n /\ 0 \in 0 .. n
      /\ \A k \in 1 .. n : k \in 0 .. n /\ k - 1 \in 0 .. n
      /\ \A k \in 0 .. n : n \in k .. n
  BY <1>1
<1>8. Stream(c) \in Seq(SentUnit) /\ Len(Stream(c)) = End(c, n) /\ End(c, 0) = 0
  BY <1>4, <1>5, <1>6, <1>7, PastStep DEF Past
<1>9. \A k \in 0 .. n : End(c, k) \in Nat /\ End(c, k) <= Len(Stream(c))
  BY <1>4, <1>6, <1>7, <1>8, PastStep, PrefixStays
<1>b. \A k \in 0 .. n : \A m \in k .. n : End(c, k) <= End(c, m)
  <2> SUFFICES ASSUME NEW k \in 0 .. n, NEW m \in k .. n PROVE End(c, k) <= End(c, m)
    OBVIOUS
  <2>1. m \in 0 .. n
    BY <1>1
  <2> QED BY <1>4, <1>6, <2>1, PrefixStays
<1>10. \A k \in 1 .. n : /\ End(c, k) = End(c, k - 1) + 2 + sent[k].size
                         /\ \A j \in 1 .. 2 + sent[k].size :
                               Stream(c)[End(c, k - 1) + j] = Serialize(sent[k])[j]
  <2> SUFFICES ASSUME NEW k \in 1 .. n
               PROVE  /\ End(c, k) = End(c, k - 1) + 2 + sent[k].size
                      /\ \A j \in 1 .. 2 + sent[k].size :
                            Stream(c)[End(c, k - 1) + j] = Serialize(sent[k])[j]
    OBVIOUS
  <2>1. End(c, k) = Past(s, k) /\ End(c, k - 1) = Past(s, k - 1) /\ Past(s, k - 1) \in Nat
    BY <1>4, <1>6, <1>7, PastStep
  <2>2. Past(s, k) = Past(s, k - 1) + Len(s[k])
    BY <1>6, PastStep
  <2>3. \A j \in 1 .. Len(s[k]) : Flat(s, n)[Past(s, k - 1) + j] = s[k][j]
    BY <1>6, Blocks
  <2>4. Len(s[k]) = 2 + sent[k].size /\ s[k] = Serialize(sent[k]) /\ sent[k].size \in Nat
    BY <1>1, <1>3
  <2>5. End(c, k) = End(c, k - 1) + 2 + sent[k].size
    <3> DEFINE a == Past(s, k - 1)
               z == sent[k].size
    <3>1. a \in Nat /\ z \in Nat /\ Past(s, k) = a + (2 + z)
      BY <2>1, <2>2, <2>4
    <3>2. End(c, k) = Past(s, k) /\ End(c, k - 1) = a
      BY <2>1
    <3> HIDE DEF a, z
    <3>3. a + (2 + z) = a + 2 + z
      BY <3>1
    <3> QED BY <3>1, <3>2, <3>3 DEF z
  <2> QED BY <1>5, <2>1, <2>3, <2>4, <2>5
<1>11. \A j \in 1 .. Len(Stream(c)) : \E k \in 1 .. n : End(c, k - 1) < j /\ j <= End(c, k)
  <2>1. \A j \in 1 .. Past(s, n) : \E k \in 1 .. n : Past(s, k - 1) < j /\ j <= Past(s, k)
    BY <1>6, Blocks
  <2> QED BY <1>4, <1>7, <1>8, <2>1
<1>12. /\ sent \in Seq(Packets) /\ n \in Nat /\ DOMAIN sent = 1 .. n
       /\ \A k \in 1 .. n : sent[k] \in Packets /\ sent[k].size \in Nat
  BY <1>1
<1> QED BY <1>8, <1>9, <1>b, <1>10, <1>11, <1>12 DEF n, sent

\* What a unit of a stream is: it says of which packet it is.
LEMMA UnitOf ==
    ASSUME RegistryServerAssumption, NEW c \in Conns, NEW j \in 1 .. Len(Stream(c))
    PROVE  \E k \in 1 .. Len(Sent[c]) :
              \/ j = End(c, k - 1) + 1 /\ Stream(c)[j] = Magic
              \/ j = End(c, k - 1) + 2 /\ Stream(c)[j] = Length(Sent[c][k])
              \/ \E i \in 1 .. Sent[c][k].size : Stream(c)[j] = BodyUnit(Sent[c][k], i)
<1>1. PICK k \in 1 .. Len(Sent[c]) : End(c, k - 1) < j /\ j <= End(c, k)
  BY StreamProperties
<1> DEFINE p == Sent[c][k]
           e == End(c, k - 1)
           i == j - e
<1>2. /\ p \in Packets /\ p.size \in Nat /\ e \in Nat
      /\ End(c, k) = e + 2 + p.size
      /\ \A l \in 1 .. 2 + p.size : Stream(c)[e + l] = Serialize(p)[l]
  <2>1. Len(Sent[c]) \in Nat
    BY StreamProperties
  <2>2. k - 1 \in 0 .. Len(Sent[c])
    BY <2>1
  <2> QED BY <2>2, StreamProperties
<1>3. j \in Nat
  BY StreamProperties, LenProperties
<1> HIDE DEF p, e
<1>4. i \in 1 .. 2 + p.size /\ e + i = j
  BY <1>1, <1>2, <1>3 DEF e
<1> HIDE DEF i
<1>5. Stream(c)[j] = Serialize(p)[i]
  BY <1>2, <1>4
<1>6. CASE i = 1
  BY <1>2, <1>4, <1>5, <1>6, SerializeProperties DEF p, e
<1>7. CASE i = 2
  BY <1>2, <1>4, <1>5, <1>7, SerializeProperties DEF p, e
<1>8. CASE i # 1 /\ i # 2
  <2>1. i - 2 \in 1 .. p.size /\ 2 + (i - 2) = i
    BY <1>2, <1>4, <1>8
  <2>2. Stream(c)[j] = BodyUnit(p, i - 2)
    BY <1>2, <1>5, <2>1, SerializeProperties
  <2> QED BY <2>1, <2>2 DEF p
<1> QED BY <1>6, <1>7, <1>8

\* Different units are told apart.
LEMMA UnitsDiffer ==
    /\ Magic.part = "magic"
    /\ \A p : Length(p).part = "length" /\ Length(p).of = p
    /\ \A p, i : BodyUnit(p, i).part = "body"
    /\ \A u \in SentUnit : u.part = "length" => u.of \in Packets /\ u = Length(u.of)
BY DEF Magic, Length, BodyUnit, SentUnit

-----------------------------------------------------------------------------
(* The types of the server.                                                *)

ServerTypes ==
    /\ up \subseteq Conns /\ disturbed \subseteq Conns /\ undefined \in BOOLEAN
    /\ received \in [Conns -> Nat]
    /\ \A c \in Conns : received[c] <= Len(Stream(c))
    /\ parser \in Seq([conn : up, unit : SentUnit])
    /\ thread \in [Conns -> [at : {"idle", "parsing", "handling"}, packets : Seq(Packets)]]
    /\ handled \in [Conns -> Seq(Packets)]
    /\ \A c \in Conns : thread[c].at = "idle" => thread[c].packets = <<>>
    /\ \A c \in Conns \ up : received[c] = 0 /\ handled[c] = <<>> /\ thread[c].at = "idle"

\* What is left of a sequence when its first m elements are taken away.
LEMMA Dropped ==
    ASSUME NEW S, NEW s \in Seq(S), NEW m \in 0 .. Len(s)
    PROVE  /\ SubSeq(s, m + 1, Len(s)) \in Seq(S)
           /\ Len(SubSeq(s, m + 1, Len(s))) = Len(s) - m
           /\ \A i \in 1 .. Len(s) - m : /\ SubSeq(s, m + 1, Len(s))[i] = s[m + i]
                                          /\ m + i \in 1 .. Len(s)
                                          /\ \A k \in 1 .. m : m + i # k
<1> DEFINE a == m + 1
           z == Len(s)
<1>1. z \in Nat /\ m \in 0 .. z
  BY LenProperties
<1> HIDE DEF z
<1>2. \A i \in a .. z : s[i] \in S
  <2>1. \A i \in a .. z : i \in 1 .. z
    BY <1>1
  <2> QED BY <2>1, ElementOfSeq DEF z
<1>3. /\ a \in Nat \ {0} /\ z - a + 1 = z - m /\ (~(a <= z) <=> z - m = 0)
      /\ \A i \in 1 .. z - m : a + i - 1 = m + i
  BY <1>1
<1>b. \A i \in 1 .. z - m : m + i \in 1 .. z /\ \A k \in 1 .. m : m + i # k
  BY <1>1
<1> HIDE DEF a
<1>4. /\ SubSeq(s, a, z) \in Seq(S)
      /\ Len(SubSeq(s, a, z)) = IF a <= z THEN z - a + 1 ELSE 0
      /\ \A i \in 1 .. z - a + 1 : SubSeq(s, a, z)[i] = s[a + i - 1]
  BY <1>1, <1>2, <1>3, SubSeqProperties
<1>5. Len(SubSeq(s, a, z)) = z - m
  BY <1>1, <1>3, <1>4
<1>6. \A i \in 1 .. z - m : SubSeq(s, a, z)[i] = s[m + i]
  BY <1>1, <1>3, <1>4
<1> QED BY <1>b, <1>4, <1>5, <1>6 DEF a, z

\* What is in the parser.
LEMMA ParserProperties ==
    ASSUME ServerTypes
    PROVE  /\ Len(parser) \in Nat /\ DOMAIN parser = 1 .. Len(parser)
           /\ \A i \in 1 .. Len(parser) : parser[i].conn \in up /\ parser[i].unit \in SentUnit
           /\ Units \in Seq(SentUnit) /\ Len(Units) = Len(parser)
           /\ \A i \in 1 .. Len(parser) : Units[i] = parser[i].unit
           /\ Owners \subseteq up
           /\ Owners = {} <=> parser = <<>>
<1>1. parser \in Seq([conn : up, unit : SentUnit])
  BY DEF ServerTypes
<1>2. /\ Len(parser) \in Nat /\ DOMAIN parser = 1 .. Len(parser)
      /\ \A i \in 1 .. Len(parser) : parser[i] \in [conn : up, unit : SentUnit]
  BY <1>1, LenProperties, ElementOfSeq
<1>3. \A i \in 1 .. Len(parser) : parser[i].conn \in up /\ parser[i].unit \in SentUnit
  BY <1>2
<1>4. Units = [i \in 1 .. Len(parser) |-> parser[i].unit]
  BY <1>2 DEF Units
<1>5. Units \in Seq(SentUnit)
  BY <1>2, <1>3, <1>4, SeqDef
<1>6. Len(Units) = Len(parser)
  BY <1>2, <1>4, <1>5, LenProperties
<1>7. Owners = {} <=> parser = <<>>
  <2>1. Owners = {parser[i].conn : i \in 1 .. Len(parser)}
    BY <1>2 DEF Owners
  <2>2. Len(parser) = 0 <=> parser = <<>>
    BY <1>1, EmptySeq
  <2>3. Len(parser) # 0 => 1 \in 1 .. Len(parser)
    BY <1>2
  <2> QED BY <1>2, <2>1, <2>2, <2>3
<1>8. Owners \subseteq up
  BY <1>2, <1>3 DEF Owners
<1> QED BY <1>2, <1>3, <1>4, <1>5, <1>6, <1>7, <1>8

\* A packet that is cut off is the one whose length is in the header, whole,
\* and the checksum lets no other body pass for its own.
LEMMA CutOff ==
    ASSUME RegistryServerAssumption, NEW buf \in Seq(SentUnit), "packet" \in Deserialize(buf)
    PROVE  /\ Parsed(buf) \in Packets /\ buf[2] = Length(Parsed(buf))
           /\ Len(buf) \in Nat /\ Parsed(buf).size \in Nat
           /\ 2 + Parsed(buf).size <= Len(buf)
<1>1. /\ Len(buf) \in Nat /\ 2 <= Len(buf)
      /\ buf[2].part = "length"
      /\ ~(Len(buf) < 2 + buf[2].of.size)
      /\ ChecksumMatches(buf)
  <2>1. Len(buf) \in Nat
    BY LenProperties
  <2> QED BY <2>1 DEF Deserialize, HeaderSize
<1>2. buf[2].of \in Packets /\ buf[2] = Length(buf[2].of)
  <2>1. buf[2] \in SentUnit
    BY <1>1, ElementOfSeq
  <2> QED BY <1>1, <2>1, UnitsDiffer
<1>3. Parsed(buf) = buf[2].of
  BY <1>1 DEF Parsed, ChecksumMatches
<1>4. buf[2].of.size \in Nat
  BY <1>2, SerializeProperties
<1> QED BY <1>1, <1>2, <1>3, <1>4

LEMMA ServerTypesInit == RegistryServerAssumption /\ Init => ServerTypes
<1> SUFFICES ASSUME RegistryServerAssumption, Init PROVE ServerTypes
  OBVIOUS
<1>1. parser = <<>> /\ up = {} /\ disturbed = {} /\ undefined = FALSE
  BY DEF Init
<1>2. received = [c \in Conns |-> 0] /\ handled = [c \in Conns |-> <<>>]
      /\ thread = [c \in Conns |-> [at |-> "idle", packets |-> <<>>]]
  BY DEF Init
<1>3. received \in [Conns -> Nat] /\ \A c \in Conns : received[c] <= Len(Stream(c))
  BY <1>2, StreamProperties, LenProperties
<1>4. handled \in [Conns -> Seq(Packets)]
      /\ thread \in [Conns -> [at : {"idle", "parsing", "handling"}, packets : Seq(Packets)]]
  BY <1>2, EmptySeq
<1>5. parser \in Seq([conn : up, unit : SentUnit])
  BY <1>1, EmptySeq
<1> QED BY <1>1, <1>2, <1>3, <1>4, <1>5 DEF ServerTypes

\* What Feed puts into the parser.
LEMMA Fed ==
    ASSUME RegistryServerAssumption, ServerTypes,
           NEW c \in Conns, NEW n \in Nat, received[c] + n <= Len(Stream(c))
    PROVE  LET chunk == Tagged(c, SubSeq(Stream(c), received[c] + 1, received[c] + n))
           IN  /\ chunk \in Seq([conn : {c}, unit : SentUnit]) /\ Len(chunk) = n
               /\ \A i \in 1 .. n :
                     chunk[i] = [conn |-> c, unit |-> Stream(c)[received[c] + i]]
<1> DEFINE a == received[c] + 1
           z == received[c] + n
           piece == SubSeq(Stream(c), a, z)
           chunk == Tagged(c, piece)
<1>1. received[c] \in Nat /\ Stream(c) \in Seq(SentUnit) /\ Len(Stream(c)) \in Nat
  BY StreamProperties, LenProperties DEF ServerTypes
<1>2. /\ a \in Nat \ {0} /\ z \in Nat /\ z - a + 1 = n /\ (a <= z <=> n # 0)
      /\ \A i \in a .. z : i \in 1 .. Len(Stream(c))
      /\ \A i \in 1 .. n : a + i - 1 = received[c] + i
  BY <1>1
<1>3. \A i \in a .. z : Stream(c)[i] \in SentUnit
  BY <1>1, <1>2, ElementOfSeq
<1> HIDE DEF a, z
<1>4. /\ piece \in Seq(SentUnit)
      /\ Len(piece) = IF a <= z THEN z - a + 1 ELSE 0
      /\ \A i \in 1 .. z - a + 1 : piece[i] = Stream(c)[a + i - 1]
  BY <1>2, <1>3, SubSeqProperties
<1>5. Len(piece) = n /\ DOMAIN piece = 1 .. n
  BY <1>2, <1>4, LenProperties
<1>6. \A i \in 1 .. n : piece[i] = Stream(c)[received[c] + i] /\ piece[i] \in SentUnit
  BY <1>2, <1>4, <1>5, ElementOfSeq
<1> HIDE DEF piece
<1>7. chunk = [i \in 1 .. n |-> [conn |-> c, unit |-> piece[i]]]
  BY <1>5 DEF Tagged
<1>8. chunk \in [1 .. n -> [conn : {c}, unit : SentUnit]]
  BY <1>6, <1>7
<1>9. \A i \in 1 .. n : chunk[i] = [conn |-> c, unit |-> Stream(c)[received[c] + i]]
  BY <1>6, <1>7
<1>10. DOMAIN chunk = 1 .. n
  BY <1>7
<1> HIDE DEF chunk
<1>11. chunk \in Seq([conn : {c}, unit : SentUnit])
  <2> DEFINE E == [conn : {c}, unit : SentUnit]
  <2>1. chunk \in [1 .. n -> E]
    BY <1>8
  <2> HIDE DEF E
  <2>2. chunk \in Seq(E)
    BY <2>1, SeqDef
  <2> QED BY <2>2 DEF E
<1>12. Len(chunk) = n
  BY <1>10, <1>11, LenProperties
<1> QED BY <1>9, <1>11, <1>12 DEF chunk, piece, a, z

\* What one round of ParseAll does, told by its outcome.
LEMMA Parses ==
    ASSUME RegistryServerAssumption, ServerTypes,
           NEW c \in Conns, NEW outcome \in Outcomes, NEW skip \in {1, Len(parser)},
           Parse(c, outcome, skip)
    PROVE  /\ c \in up /\ thread[c].at = "parsing"
           /\ disturbed' = disturbed \cup Meets(c)
           /\ UNCHANGED <<up, received, handled, answers, undefined>>
           /\ \/ /\ outcome = "packet" /\ "packet" \in Deserialize(Units)
                 /\ Parsed(Units) \in Packets /\ parser[2].unit = Length(Parsed(Units))
                 /\ Parsed(Units).size \in Nat
                 /\ 2 + Parsed(Units).size \in 2 .. Len(parser)
                 /\ parser' = SubSeq(parser, 2 + Parsed(Units).size + 1, Len(parser))
                 /\ thread' = [thread EXCEPT ![c].packets = Append(@, Parsed(Units))]
              \/ /\ outcome = "bad" /\ "bad" \in Deserialize(Units)
                 /\ skip \in 0 .. Len(parser)
                 /\ parser' = SubSeq(parser, skip + 1, Len(parser))
                 /\ thread' = thread
              \/ /\ outcome = "short" /\ "short" \in Deserialize(Units)
                 /\ parser' = parser
                 /\ thread' = [thread EXCEPT ![c].at = "handling"]
<1>1. /\ c \in up /\ thread[c].at = "parsing"
      /\ disturbed' = disturbed \cup Meets(c)
      /\ UNCHANGED <<up, received, handled, answers, undefined>>
      /\ outcome \in Deserialize(Units)
  BY DEF Parse, Runs
<1>2. Units \in Seq(SentUnit) /\ Len(Units) = Len(parser) /\ Len(parser) \in Nat
      /\ \A i \in 1 .. Len(parser) : Units[i] = parser[i].unit
  BY ParserProperties
<1>3. CASE outcome = "packet"
  <2>1. /\ Parsed(Units) \in Packets /\ Units[2] = Length(Parsed(Units))
        /\ Parsed(Units).size \in Nat /\ 2 + Parsed(Units).size <= Len(parser)
    BY <1>1, <1>2, <1>3, CutOff
  <2>2. parser[2].unit = Units[2]
    BY <1>2, <2>1
  <2>3. 2 + Parsed(Units).size \in 2 .. Len(parser)
    BY <1>2, <2>1
  <2>4. /\ parser' = SubSeq(parser, 2 + Parsed(Units).size + 1, Len(parser))
        /\ thread' = [thread EXCEPT ![c].packets = Append(@, Parsed(Units))]
    BY <1>3 DEF Parse, HeaderSize
  <2> QED BY <1>1, <1>3, <2>1, <2>2, <2>3, <2>4
<1>4. CASE outcome = "bad"
  <2>1. Len(parser) # 0
    <3>1. ~(Len(Units) < 2)
      BY <1>1, <1>4 DEF Deserialize, HeaderSize
    <3> QED BY <1>2, <3>1
  <2>2. skip \in 0 .. Len(parser)
    BY <1>2, <2>1
  <2>3. parser' = SubSeq(parser, skip + 1, Len(parser)) /\ thread' = thread
    BY <1>4 DEF Parse
  <2> QED BY <1>1, <1>4, <2>2, <2>3
<1>5. CASE outcome = "short"
  <2>1. parser' = parser /\ thread' = [thread EXCEPT ![c].at = "handling"]
    BY <1>5 DEF Parse
  <2> QED BY <1>1, <1>5, <2>1
<1> QED BY <1>3, <1>4, <1>5 DEF Outcomes

LEMMA ServerTypesNext ==
    RegistryServerAssumption /\ ServerTypes /\ [Next]_vars => ServerTypes'
<1> SUFFICES ASSUME RegistryServerAssumption, ServerTypes, [Next]_vars PROVE ServerTypes'
  OBVIOUS
<1> DEFINE At == {"idle", "parsing", "handling"}
<1> USE DEF ServerTypes
<1>1. ASSUME NEW c \in Conns, OnConnection(c) PROVE ServerTypes'
  <2>1. parser' \in Seq([conn : up', unit : SentUnit])
    BY <1>1, EmptySeq DEF OnConnection
  <2>2. Owners \subseteq Conns
    BY ParserProperties
  <2> QED BY <1>1, <2>1, <2>2 DEF OnConnection, Stream
<1>2. ASSUME NEW c \in Conns, HandlePacket(c) PROVE ServerTypes'
  <2> DEFINE t == thread[c].packets
  <2>1. t \in Seq(Packets) /\ t # <<>> /\ c \in up /\ thread[c].at = "handling"
    BY <1>2 DEF HandlePacket, Runs
  <2>2. Head(t) \in Packets /\ Tail(t) \in Seq(Packets)
    BY <2>1, HeadTailProperties
  <2>3. /\ handled' = [handled EXCEPT ![c] = Append(@, Head(t))]
        /\ thread' = [thread EXCEPT ![c].packets = Tail(t)]
        /\ UNCHANGED <<up, received, parser, undefined, disturbed>>
    BY <1>2 DEF HandlePacket
  <2> HIDE DEF t
  <2>4. handled' \in [Conns -> Seq(Packets)]
    BY <2>2, <2>3, AppendProperties
  <2>5. thread' \in [Conns -> [at : At, packets : Seq(Packets)]]
        /\ thread'[c].at = "handling" /\ \A d \in Conns \ {c} : thread'[d] = thread[d]
    BY <2>1, <2>2, <2>3
  <2>6. \A d \in Conns \ {c} : handled'[d] = handled[d]
    BY <2>3
  <2> QED BY <2>1, <2>3, <2>4, <2>5, <2>6 DEF Stream
<1>3. ASSUME NEW c \in Conns, OnMessageReturns(c) PROVE ServerTypes'
  <2>1. /\ thread' = [thread EXCEPT ![c].at = "idle"] /\ thread[c].packets = <<>> /\ c \in up
        /\ UNCHANGED <<up, received, parser, handled, undefined, disturbed>>
    BY <1>3 DEF OnMessageReturns, Runs
  <2>2. thread' \in [Conns -> [at : At, packets : Seq(Packets)]]
        /\ thread'[c].packets = <<>> /\ \A d \in Conns \ {c} : thread'[d] = thread[d]
    BY <2>1
  <2> QED BY <2>1, <2>2 DEF Stream
<1>4. ASSUME NEW c \in Conns, NEW n \in 1 .. Len(Stream(c)), Feed(c, n) PROVE ServerTypes'
  <2> DEFINE r == received[c]
             chunk == Tagged(c, SubSeq(Stream(c), r + 1, r + n))
  <2>1. /\ c \in up /\ n \in Nat /\ r \in Nat /\ r + n <= Len(Stream(c))
        /\ parser' = parser \o chunk
        /\ received' = [received EXCEPT ![c] = r + n]
        /\ disturbed' = disturbed \cup Meets(c)
        /\ thread' = [thread EXCEPT ![c].at = "parsing"]
        /\ UNCHANGED <<up, handled, undefined>>
    BY <1>4 DEF Feed, Runs, Retrieved
  <2>2. chunk \in Seq([conn : {c}, unit : SentUnit])
    BY <2>1, Fed
  <2>3. chunk \in Seq([conn : up, unit : SentUnit])
    <3>1. [conn : {c}, unit : SentUnit] \subseteq [conn : up, unit : SentUnit]
      BY <2>1
    <3> QED BY <2>2, <3>1, SeqMonotonic
  <2> HIDE DEF r, chunk
  <2>4. parser' \in Seq([conn : up', unit : SentUnit])
    BY <2>1, <2>3, ConcatProperties
  <2>5. received' \in [Conns -> Nat] /\ \A d \in Conns : received'[d] <= Len(Stream(d))
    BY <2>1
  <2>6. disturbed' \subseteq Conns
    BY <2>1, ParserProperties DEF Meets
  <2>7. thread' \in [Conns -> [at : At, packets : Seq(Packets)]]
        /\ thread'[c].at = "parsing" /\ \A d \in Conns \ {c} : thread'[d] = thread[d]
    BY <2>1
  <2>8. \A d \in Conns \ {c} : received'[d] = received[d]
    BY <2>1
  <2> QED BY <2>1, <2>4, <2>5, <2>6, <2>7, <2>8 DEF Stream
<1>5. ASSUME NEW c \in Conns, NEW outcome \in Outcomes, NEW skip \in {1, Len(parser)},
             Parse(c, outcome, skip)
      PROVE  ServerTypes'
  <2>1. /\ c \in up /\ thread[c].at = "parsing"
        /\ disturbed' = disturbed \cup Meets(c)
        /\ UNCHANGED <<up, received, handled, undefined>>
    BY <1>5, Parses
  <2>2. disturbed' \subseteq Conns
    BY <2>1, ParserProperties DEF Meets
  <2>3. parser' \in Seq([conn : up, unit : SentUnit])
    <3>1. \/ \E m \in 0 .. Len(parser) : parser' = SubSeq(parser, m + 1, Len(parser))
          \/ parser' = parser
      <4>1. \A m \in 2 .. Len(parser) : m \in 0 .. Len(parser)
        BY ParserProperties
      <4> QED BY <1>5, <4>1, Parses
    <3> DEFINE E == [conn : up, unit : SentUnit]
    <3>2. parser \in Seq(E)
      OBVIOUS
    <3> HIDE DEF E
    <3>3. \A m \in 0 .. Len(parser) : SubSeq(parser, m + 1, Len(parser)) \in Seq(E)
      BY <3>2, Dropped
    <3>4. parser' \in Seq(E)
      BY <3>1, <3>2, <3>3
    <3> QED BY <3>4 DEF E
  <2>4. /\ thread' \in [Conns -> [at : At, packets : Seq(Packets)]]
        /\ thread'[c].at # "idle"
        /\ \A d \in Conns \ {c} : thread'[d] = thread[d]
    <3>1. CASE thread' = thread
      BY <2>1, <3>1
    <3>2. CASE thread' = [thread EXCEPT ![c].at = "handling"]
      BY <2>1, <3>2
    <3>3. CASE /\ Parsed(Units) \in Packets
               /\ thread' = [thread EXCEPT ![c].packets = Append(@, Parsed(Units))]
      <4>1. thread[c].packets \in Seq(Packets)
        OBVIOUS
      <4> DEFINE t == Append(thread[c].packets, Parsed(Units))
      <4>2. t \in Seq(Packets)
        BY <3>3, <4>1, AppendProperties
      <4>3. thread' = [thread EXCEPT ![c].packets = t]
        BY <3>3
      <4> HIDE DEF t
      <4> QED BY <2>1, <4>2, <4>3
    <3>4. \/ thread' = thread
          \/ thread' = [thread EXCEPT ![c].at = "handling"]
          \/ /\ Parsed(Units) \in Packets
             /\ thread' = [thread EXCEPT ![c].packets = Append(@, Parsed(Units))]
      <4> HIDE DEF ServerTypes
      <4>1. ServerTypes
        BY DEF ServerTypes
      <4> QED BY <1>5, <4>1, Parses
    <3> QED BY <3>1, <3>2, <3>3, <3>4
  <2> QED BY <2>1, <2>2, <2>3, <2>4 DEF Stream
<1>6. ASSUME NEW c \in Conns, NEW d \in Conns, Race(c, d) PROVE ServerTypes'
  BY <1>6 DEF Race, Stream
<1>7. CASE UNCHANGED vars
  BY <1>7 DEF vars, Stream
<1> QED BY <1>1, <1>2, <1>3, <1>4, <1>5, <1>6, <1>7 DEF Next

\* Whatever the connections send and however the reads and the rounds of the
\* parser follow each other, the server's state keeps its types: nobody reads
\* past its stream, and what is handled is a packet some peer sent.
THEOREM ServerTypeCorrect == Spec => []TypeOK
<1> USE RegistryServerAssumption
<1>1. Init => ServerTypes
  BY ServerTypesInit
<1>2. ServerTypes /\ [Next]_vars => ServerTypes'
  BY ServerTypesNext
<1>3. ServerTypes => TypeOK
  <2> SUFFICES ASSUME ServerTypes PROVE TypeOK
    OBVIOUS
  <2>1. \A c \in Conns : received[c] \in 0 .. Len(Stream(c))
    <3> SUFFICES ASSUME NEW c \in Conns PROVE received[c] \in 0 .. Len(Stream(c))
      OBVIOUS
    <3>1. Len(Stream(c)) \in Nat
      BY StreamProperties, LenProperties
    <3> QED BY <3>1 DEF ServerTypes
  <2>2. \A i \in DOMAIN parser : parser[i].conn \in Conns
    BY ParserProperties DEF ServerTypes
  <2> QED BY <2>1, <2>2 DEF TypeOK, ServerTypes
<1> QED BY <1>1, <1>2, <1>3, PTL DEF Spec

\* The packets c's thread has parsed, handled or not.
Pipe(c) == handled[c] \o thread[c].packets

LEMMA PipeType ==
    ASSUME ServerTypes, NEW c \in Conns
    PROVE  /\ handled[c] \in Seq(Packets) /\ thread[c].packets \in Seq(Packets)
           /\ Pipe(c) \in Seq(Packets) /\ Len(Pipe(c)) \in Nat
           /\ \A i \in 1 .. Len(Pipe(c)) : Pipe(c)[i] \in Packets
<1>1. handled[c] \in Seq(Packets) /\ thread[c].packets \in Seq(Packets)
  BY DEF ServerTypes
<1>2. Pipe(c) \in Seq(Packets)
  BY <1>1, ConcatProperties DEF Pipe
<1> QED BY <1>1, <1>2, LenProperties, ElementOfSeq

\* Handling the next packet moves it inside the pipe.
LEMMA Moved ==
    ASSUME NEW S, NEW h \in Seq(S), NEW t \in Seq(S), t # <<>>
    PROVE  Append(h, Head(t)) \o Tail(t) = h \o t
<1> DEFINE e == Head(t)
           u == Tail(t)
<1>1. e \in S /\ u \in Seq(S) /\ Len(u) = Len(t) - 1 /\ \A i \in 1 .. Len(u) : u[i] = t[i + 1]
      /\ Len(t) \in Nat \ {0}
  BY HeadTailProperties, EmptySeq
<1>2. t[1] = e
  BY <1>1
<1> HIDE DEF e, u
<1>3. <<e>> \in Seq(S) /\ Len(<<e>>) = 1 /\ <<e>>[1] = e
  BY <1>1
<1>4. /\ <<e>> \o u \in Seq(S) /\ Len(<<e>> \o u) = 1 + Len(u)
      /\ \A i \in 1 .. 1 + Len(u) : (<<e>> \o u)[i] = IF i <= 1 THEN <<e>>[i] ELSE u[i - 1]
  <2>1. /\ <<e>> \o u \in Seq(S) /\ Len(<<e>> \o u) = Len(<<e>>) + Len(u)
        /\ \A i \in 1 .. Len(<<e>>) + Len(u) :
              (<<e>> \o u)[i] = IF i <= Len(<<e>>) THEN <<e>>[i] ELSE u[i - Len(<<e>>)]
    BY <1>1, <1>3, ConcatProperties
  <2> QED BY <1>3, <2>1
<1>5. \A i \in 1 .. Len(t) : (<<e>> \o u)[i] = t[i]
  <2> SUFFICES ASSUME NEW i \in 1 .. Len(t) PROVE (<<e>> \o u)[i] = t[i]
    OBVIOUS
  <2>1. CASE i = 1
    BY <1>1, <1>2, <1>3, <1>4, <2>1
  <2>2. CASE i # 1
    <3>1. i - 1 \in 1 .. Len(u) /\ i \in 1 .. 1 + Len(u) /\ ~(i <= 1) /\ (i - 1) + 1 = i
      BY <1>1, <2>2
    <3>2. u[i - 1] = t[i]
      BY <1>1, <3>1
    <3> QED BY <1>4, <3>1, <3>2
  <2> QED BY <2>1, <2>2
<1>6. <<e>> \o u = t
  BY <1>1, <1>4, <1>5, SeqEqual
<1>7. Append(h, e) \o u = h \o (<<e>> \o u)
  BY <1>1, <1>3, AppendIsConcat, ConcatAssociative
<1> QED BY <1>6, <1>7 DEF e, u

\* Parsing a packet puts it at the end of the pipe.
LEMMA Grown ==
    ASSUME NEW S, NEW h \in Seq(S), NEW t \in Seq(S), NEW e \in S
    PROVE  h \o Append(t, e) = Append(h \o t, e)
<1>1. <<e>> \in Seq(S) /\ h \o t \in Seq(S)
  BY ConcatProperties
<1>2. Append(t, e) = t \o <<e>> /\ Append(h \o t, e) = (h \o t) \o <<e>>
  BY <1>1, AppendIsConcat
<1> QED BY <1>1, <1>2, ConcatAssociative

-----------------------------------------------------------------------------
(* No packet is forged.                                                    *)

\* The half of a header with the length of p is at one place of one stream.
LengthAt(d, j, p) == d \in Conns /\ j \in 1 .. Len(Stream(d)) /\ Stream(d)[j] = Length(p)

LEMMA LengthOf ==
    ASSUME RegistryServerAssumption, NEW d, NEW j, NEW p, LengthAt(d, j, p)
    PROVE  \E k \in 1 .. Len(Sent[d]) : j = End(d, k - 1) + 2 /\ Sent[d][k] = p
<1>1. d \in Conns /\ j \in 1 .. Len(Stream(d)) /\ Stream(d)[j] = Length(p)
  BY DEF LengthAt
<1>2. PICK k \in 1 .. Len(Sent[d]) :
              \/ j = End(d, k - 1) + 1 /\ Stream(d)[j] = Magic
              \/ j = End(d, k - 1) + 2 /\ Stream(d)[j] = Length(Sent[d][k])
              \/ \E i \in 1 .. Sent[d][k].size : Stream(d)[j] = BodyUnit(Sent[d][k], i)
  BY <1>1, UnitOf
<1>3. Length(p).part = "length" /\ Length(p).of = p
  BY UnitsDiffer
<1>4. Stream(d)[j] # Magic /\ \A i : Stream(d)[j] # BodyUnit(Sent[d][k], i)
  BY <1>1, <1>3, UnitsDiffer
<1>5. j = End(d, k - 1) + 2 /\ Length(Sent[d][k]) = Length(p)
  BY <1>1, <1>2, <1>4
<1> QED BY <1>3, <1>5, UnitsDiffer

LEMMA LengthUnique ==
    ASSUME RegistryServerAssumption, PacketsDistinct, NEW p,
           NEW d, NEW j, LengthAt(d, j, p), NEW e, NEW l, LengthAt(e, l, p)
    PROVE  d = e /\ j = l
<1>1. PICK k \in 1 .. Len(Sent[d]) : j = End(d, k - 1) + 2 /\ Sent[d][k] = p
  BY LengthOf
<1>2. PICK m \in 1 .. Len(Sent[e]) : l = End(e, m - 1) + 2 /\ Sent[e][m] = p
  BY LengthOf
<1>3. d \in Conns /\ e \in Conns
  BY DEF LengthAt
<1>4. k \in DOMAIN Sent[d] /\ m \in DOMAIN Sent[e]
  BY <1>3, StreamProperties
<1>5. d = e /\ k = m
  BY <1>1, <1>2, <1>3, <1>4 DEF PacketsDistinct
<1> QED BY <1>1, <1>2, <1>5

Arrived(p) == \E d \in up : \E j \in 1 .. received[d] : LengthAt(d, j, p)

\* Everything in the parser was read from the connection it is tagged with, and
\* of everything in the pipes the length was.
Genuine ==
    /\ \A i \in 1 .. Len(parser) : \E j \in 1 .. received[parser[i].conn] :
          parser[i].unit = Stream(parser[i].conn)[j]
    /\ \A c \in Conns : \A i \in 1 .. Len(Pipe(c)) : Arrived(Pipe(c)[i])

\* A packet whose length is in the parser is there once and in no pipe, and a
\* packet in a pipe is in that one, once.
LengthOnce ==
    \A p \in Packets : \A i, j \in 1 .. Len(parser) :
        parser[i].unit = Length(p) /\ parser[j].unit = Length(p) => i = j
NotBoth ==
    \A i \in 1 .. Len(parser), c \in Conns : \A j \in 1 .. Len(Pipe(c)) :
        parser[i].unit # Length(Pipe(c)[j])
PipedOnce ==
    \A c, d \in Conns : \A i \in 1 .. Len(Pipe(c)), j \in 1 .. Len(Pipe(d)) :
        Pipe(c)[i] = Pipe(d)[j] => c = d /\ i = j

ForgeryInv == ServerTypes /\ Genuine /\ LengthOnce /\ NotBoth /\ PipedOnce

LEMMA DroppedInv ==
    ASSUME RegistryServerAssumption, ForgeryInv, ServerTypes',
           NEW m \in 0 .. Len(parser), parser' = SubSeq(parser, m + 1, Len(parser)),
           up \subseteq up', received' = received,
           \A c \in Conns : Pipe(c)' = Pipe(c)
    PROVE  ForgeryInv'
<1>1. /\ Len(parser) \in Nat
      /\ Len(parser') = Len(parser) - m
      /\ \A i \in 1 .. Len(parser) - m : parser'[i] = parser[m + i] /\ m + i \in 1 .. Len(parser)
  <2>1. parser \in Seq([conn : up, unit : SentUnit]) /\ Len(parser) \in Nat
    BY ParserProperties DEF ForgeryInv, ServerTypes
  <2>2. /\ Len(parser') = Len(parser) - m
        /\ \A i \in 1 .. Len(parser) - m : parser'[i] = parser[m + i]
    <3> DEFINE E == [conn : up, unit : SentUnit]
    <3>1. parser \in Seq(E)
      BY <2>1
    <3> HIDE DEF E
    <3> QED BY <3>1, Dropped
  <2>3. \A i \in 1 .. Len(parser) - m : m + i \in 1 .. Len(parser)
    BY <2>1
  <2> QED BY <2>1, <2>2, <2>3
<1>2. Genuine'
  <2>1. \A i \in 1 .. Len(parser') : \E j \in 1 .. received'[parser'[i].conn] :
          parser'[i].unit = Stream(parser'[i].conn)[j]
    <3> SUFFICES ASSUME NEW i \in 1 .. Len(parser')
                 PROVE  \E j \in 1 .. received[parser'[i].conn] :
                           parser'[i].unit = Stream(parser'[i].conn)[j]
      OBVIOUS
    <3>1. parser'[i] = parser[m + i] /\ m + i \in 1 .. Len(parser)
      BY <1>1
    <3>2. \E j \in 1 .. received[parser[m + i].conn] :
             parser[m + i].unit = Stream(parser[m + i].conn)[j]
      BY <3>1 DEF ForgeryInv, Genuine
    <3> QED BY <3>1, <3>2
  <2>2. \A p : Arrived(p) => Arrived(p)'
    BY DEF Arrived, LengthAt, Stream
  <2> QED BY <2>1, <2>2 DEF ForgeryInv, Genuine, Stream
<1>3. LengthOnce'
  <2> SUFFICES ASSUME NEW p \in Packets, NEW i \in 1 .. Len(parser'), NEW j \in 1 .. Len(parser'),
                      parser'[i].unit = Length(p), parser'[j].unit = Length(p)
               PROVE  i = j
    BY DEF LengthOnce
  <2>1. m + i = m + j
    BY <1>1 DEF ForgeryInv, LengthOnce
  <2> QED BY <1>1, <2>1
<1>4. NotBoth'
  BY <1>1 DEF ForgeryInv, NotBoth
<1>5. PipedOnce'
  BY DEF ForgeryInv, PipedOnce
<1> QED BY <1>2, <1>3, <1>4, <1>5 DEF ForgeryInv

LEMMA OnceAt ==
    ASSUME PipedOnce, NEW c \in Conns, NEW d \in Conns,
           NEW i \in 1 .. Len(Pipe(c)), NEW j \in 1 .. Len(Pipe(d)),
           Pipe(c)[i] = Pipe(d)[j]
    PROVE  c = d /\ i = j
BY DEF PipedOnce

\* The round of ParseAll that parses p for c.
CutsOff(c, p) ==
    /\ 2 + p.size \in 2 .. Len(parser) /\ parser[2].unit = Length(p)
    /\ parser' = SubSeq(parser, 2 + p.size + 1, Len(parser))
    /\ thread' = [thread EXCEPT ![c].packets = Append(@, p)]
    /\ UNCHANGED <<up, received, handled>>

LEMMA PacketInv ==
    ASSUME RegistryServerAssumption, ForgeryInv, ServerTypes',
           NEW c \in Conns, NEW p \in Packets, p.size \in Nat, CutsOff(c, p)
    PROVE  ForgeryInv'
<1> DEFINE m == 2 + p.size
           n == Len(Pipe(c))
<1>1. /\ Len(parser) \in Nat /\ m \in 2 .. Len(parser)
      /\ Len(parser') = Len(parser) - m
      /\ \A i \in 1 .. Len(parser) - m : parser'[i] = parser[m + i]
                                         /\ m + i \in 1 .. Len(parser) /\ m + i # 2
  <2> HIDE DEF m
  <2>1. parser \in Seq([conn : up, unit : SentUnit]) /\ Len(parser) \in Nat
    BY ParserProperties DEF ForgeryInv, ServerTypes
  <2>2. m \in 2 .. Len(parser) /\ m \in 0 .. Len(parser)
        /\ parser' = SubSeq(parser, m + 1, Len(parser))
    BY <2>1 DEF m, CutsOff
  <2>3. /\ Len(parser') = Len(parser) - m
        /\ \A i \in 1 .. Len(parser) - m : /\ parser'[i] = parser[m + i]
                                            /\ m + i \in 1 .. Len(parser)
                                            /\ \A k \in 1 .. m : m + i # k
    <3> DEFINE E == [conn : up, unit : SentUnit]
    <3>1. parser \in Seq(E)
      BY <2>1
    <3> HIDE DEF E
    <3> QED BY <2>2, <3>1, Dropped
  <2>4. 2 \in 1 .. m
    BY <2>1, <2>2
  <2> QED BY <2>1, <2>2, <2>3, <2>4
<1> HIDE DEF m
<1>a. 2 \in 1 .. Len(parser)
  <2>1. Len(parser) \in Nat /\ m \in 2 .. Len(parser)
    BY <1>1
  <2> QED BY <2>1
<1>b. /\ thread \in [Conns -> [at : {"idle", "parsing", "handling"}, packets : Seq(Packets)]]
      /\ thread' = [thread EXCEPT ![c].packets = Append(@, p)]
      /\ UNCHANGED <<up, received, handled>>
      /\ parser[2].unit = Length(p)
  BY DEF ForgeryInv, ServerTypes, CutsOff
<1>2. \A d \in Conns \ {c} : Pipe(d)' = Pipe(d)
  <2>1. \A d \in Conns \ {c} : thread'[d] = thread[d]
    BY <1>b
  <2> QED BY <1>b, <2>1 DEF Pipe
<1>3. Pipe(c)' = Append(Pipe(c), p)
  <2>1. handled[c] \in Seq(Packets) /\ thread[c].packets \in Seq(Packets)
    BY PipeType DEF ForgeryInv
  <2>2. thread'[c].packets = Append(thread[c].packets, p)
    BY <1>b
  <2>3. Pipe(c)' = handled[c] \o Append(thread[c].packets, p)
    BY <1>b, <2>2 DEF Pipe
  <2>4. handled[c] \o Append(thread[c].packets, p) = Append(handled[c] \o thread[c].packets, p)
    <3> DEFINE h == handled[c]
               t == thread[c].packets
    <3>1. h \in Seq(Packets) /\ t \in Seq(Packets)
      BY <2>1
    <3> HIDE DEF h, t
    <3>2. h \o Append(t, p) = Append(h \o t, p)
      BY <3>1, Grown
    <3> QED BY <3>2 DEF h, t
  <2> QED BY <2>3, <2>4 DEF Pipe
<1>4. /\ n \in Nat /\ Len(Pipe(c)') = n + 1
      /\ \A i \in 1 .. n : Pipe(c)'[i] = Pipe(c)[i]
      /\ Pipe(c)'[n + 1] = p
  <2>1. Pipe(c) \in Seq(Packets) /\ n \in Nat
    BY PipeType DEF ForgeryInv
  <2> QED BY <1>3, <2>1, AppendProperties
<1>5. Arrived(p)
  <2>1. 2 \in 1 .. Len(parser)
    BY <1>a
  <2> DEFINE d == parser[2].conn
  <2>2. PICK j \in 1 .. received[d] : parser[2].unit = Stream(d)[j]
    BY <2>1 DEF ForgeryInv, Genuine
  <2>3. d \in up
    BY <2>1, ParserProperties DEF ForgeryInv
  <2>4. d \in Conns /\ received[d] \in Nat /\ received[d] <= Len(Stream(d))
    BY <2>3 DEF ForgeryInv, ServerTypes
  <2>5. Len(Stream(d)) \in Nat
    BY <2>4, StreamProperties, LenProperties
  <2> HIDE DEF d
  <2>6. LengthAt(d, j, p)
    BY <1>b, <2>2, <2>4, <2>5 DEF LengthAt
  <2> QED BY <2>3, <2>6 DEF Arrived
<1>6. \A i \in 1 .. Len(Pipe(c)') : i \in 1 .. n \/ i = n + 1
  BY <1>4
<1> HIDE DEF n
<1>7. Genuine'
  <2>1. \A i \in 1 .. Len(parser') : \E j \in 1 .. received'[parser'[i].conn] :
          parser'[i].unit = Stream(parser'[i].conn)[j]
    <3> SUFFICES ASSUME NEW i \in 1 .. Len(parser')
                 PROVE  \E j \in 1 .. received[parser'[i].conn] :
                           parser'[i].unit = Stream(parser'[i].conn)[j]
      BY <1>b
    <3>1. parser'[i] = parser[m + i] /\ m + i \in 1 .. Len(parser)
      BY <1>1
    <3>2. \E j \in 1 .. received[parser[m + i].conn] :
             parser[m + i].unit = Stream(parser[m + i].conn)[j]
      BY <3>1 DEF ForgeryInv, Genuine
    <3> QED BY <1>b, <3>1, <3>2
  <2>2. \A q : Arrived(q) => Arrived(q)'
    BY <1>b DEF Arrived, LengthAt, Stream
  <2>3. \A i \in 1 .. Len(Pipe(c)') : Arrived(Pipe(c)'[i])
    BY <1>4, <1>5, <1>6 DEF ForgeryInv, Genuine, n
  <2>4. \A d \in Conns : \A i \in 1 .. Len(Pipe(d)') : Arrived(Pipe(d)'[i])
    BY <1>2, <2>3 DEF ForgeryInv, Genuine
  <2> QED BY <2>1, <2>2, <2>4 DEF Genuine, Stream
<1>8. LengthOnce'
  <2> SUFFICES ASSUME NEW q \in Packets, NEW i \in 1 .. Len(parser'), NEW j \in 1 .. Len(parser'),
                      parser'[i].unit = Length(q), parser'[j].unit = Length(q)
               PROVE  i = j
    BY DEF LengthOnce
  <2>1. /\ i \in 1 .. Len(parser) - m /\ j \in 1 .. Len(parser) - m /\ m \in Int
    BY <1>1
  <2>2. /\ parser[m + i].unit = Length(q) /\ m + i \in 1 .. Len(parser)
        /\ parser[m + j].unit = Length(q) /\ m + j \in 1 .. Len(parser)
    BY <1>1, <2>1
  <2>3. m + i = m + j
    BY <2>2 DEF ForgeryInv, LengthOnce
  <2> QED BY <2>1, <2>3
<1>9. NotBoth'
  <2> SUFFICES ASSUME NEW i \in 1 .. Len(parser'), NEW d \in Conns, NEW j \in 1 .. Len(Pipe(d)')
               PROVE  parser'[i].unit # Length(Pipe(d)'[j])
    BY DEF NotBoth
  <2>1. parser'[i] = parser[m + i] /\ m + i \in 1 .. Len(parser) /\ m + i # 2
    BY <1>1
  <2>2. CASE d = c /\ j = n + 1
    <3>1. parser[m + i].unit # Length(p)
      BY <1>a, <1>b, <2>1 DEF ForgeryInv, LengthOnce
    <3> QED BY <1>4, <2>1, <2>2, <3>1
  <2>3. CASE d # c \/ j # n + 1
    <3>1. j \in 1 .. Len(Pipe(d)) /\ Pipe(d)'[j] = Pipe(d)[j]
      <4>1. CASE d = c
        <5>1. j \in 1 .. n
          BY <1>6, <2>3, <4>1
        <5> QED BY <1>4, <4>1, <5>1 DEF n
      <4>2. CASE d # c
        BY <1>2, <4>2
      <4> QED BY <4>1, <4>2
    <3> QED BY <2>1, <3>1 DEF ForgeryInv, NotBoth
  <2> QED BY <2>2, <2>3
<1>10. PipedOnce'
  <2>1. \A d \in Conns : \A i \in 1 .. Len(Pipe(d)) : Pipe(d)[i] # p
    <3>1. 2 \in 1 .. Len(parser)
      BY <1>a
    <3> QED BY <1>b, <3>1 DEF ForgeryInv, NotBoth
  <2> SUFFICES ASSUME NEW d \in Conns, NEW e \in Conns,
                      NEW i \in 1 .. Len(Pipe(d)'), NEW j \in 1 .. Len(Pipe(e)'),
                      Pipe(d)'[i] = Pipe(e)'[j]
               PROVE  d = e /\ i = j
    BY DEF PipedOnce
  <2>2. \/ d = c /\ i = n + 1 /\ Pipe(d)'[i] = p
        \/ i \in 1 .. Len(Pipe(d)) /\ Pipe(d)'[i] = Pipe(d)[i]
    BY <1>2, <1>4, <1>6 DEF n
  <2>3. \/ e = c /\ j = n + 1 /\ Pipe(e)'[j] = p
        \/ j \in 1 .. Len(Pipe(e)) /\ Pipe(e)'[j] = Pipe(e)[j]
    BY <1>2, <1>4, <1>6 DEF n
  <2>4. CASE d = c /\ i = n + 1 /\ Pipe(d)'[i] = p
    BY <2>1, <2>3, <2>4
  <2>5. CASE e = c /\ j = n + 1 /\ Pipe(e)'[j] = p
    BY <2>1, <2>2, <2>5
  <2>6. CASE /\ i \in 1 .. Len(Pipe(d)) /\ Pipe(d)'[i] = Pipe(d)[i]
             /\ j \in 1 .. Len(Pipe(e)) /\ Pipe(e)'[j] = Pipe(e)[j]
    <3>1. Pipe(d)[i] = Pipe(e)[j]
      BY <2>6
    <3>2. PipedOnce
      BY DEF ForgeryInv
    <3> QED BY <2>6, <3>1, <3>2, OnceAt
  <2> QED BY <2>2, <2>3, <2>4, <2>5, <2>6
<1> QED BY <1>7, <1>8, <1>9, <1>10 DEF ForgeryInv

\* A length in the parser was read from the stream it is in.
LEMMA ReadBefore ==
    ASSUME RegistryServerAssumption, ForgeryInv,
           NEW i \in 1 .. Len(parser), NEW p, parser[i].unit = Length(p)
    PROVE  Arrived(p)
<1> DEFINE d == parser[i].conn
<1>1. PICK j \in 1 .. received[d] : parser[i].unit = Stream(d)[j]
  BY DEF ForgeryInv, Genuine
<1>2. d \in up
  BY ParserProperties DEF ForgeryInv
<1>3. d \in Conns /\ received[d] \in Nat /\ received[d] <= Len(Stream(d))
  BY <1>2 DEF ForgeryInv, ServerTypes
<1>4. Len(Stream(d)) \in Nat
  BY <1>3, StreamProperties, LenProperties
<1> HIDE DEF d
<1>5. j \in 1 .. Len(Stream(d))
  BY <1>3, <1>4
<1>6. LengthAt(d, j, p)
  BY <1>1, <1>3, <1>5 DEF LengthAt
<1> QED BY <1>2, <1>6 DEF Arrived

\* What Feed does, place by place.
LEMMA Feeds ==
    ASSUME RegistryServerAssumption, ServerTypes,
           NEW c \in Conns, NEW n \in 1 .. Len(Stream(c)), Feed(c, n)
    PROVE  /\ n \in Nat /\ received[c] \in Nat /\ received[c] + n <= Len(Stream(c))
           /\ Len(Stream(c)) \in Nat
           /\ received' = [received EXCEPT ![c] = received[c] + n]
           /\ disturbed' = disturbed \cup Meets(c)
           /\ c \in up /\ thread[c].at = "idle"
           /\ thread' = [thread EXCEPT ![c].at = "parsing"]
           /\ UNCHANGED <<up, handled, answers>>
           /\ Len(parser) \in Nat /\ Len(parser') = Len(parser) + n
           /\ \A i \in 1 .. Len(parser) : parser'[i] = parser[i]
           /\ \A i \in 1 .. n :
                 parser'[Len(parser) + i] = [conn |-> c, unit |-> Stream(c)[received[c] + i]]
<1> DEFINE r == received[c]
           chunk == Tagged(c, SubSeq(Stream(c), r + 1, r + n))
           E == [conn : up, unit : SentUnit]
<1>1. /\ c \in up /\ n \in Nat /\ r \in Nat /\ r + n <= Len(Stream(c))
      /\ parser' = parser \o chunk
      /\ received' = [received EXCEPT ![c] = r + n]
      /\ disturbed' = disturbed \cup Meets(c)
      /\ thread[c].at = "idle"
      /\ thread' = [thread EXCEPT ![c].at = "parsing"]
      /\ UNCHANGED <<up, handled, answers>>
  BY DEF Feed, Runs, Retrieved, ServerTypes
<1>2. /\ chunk \in Seq([conn : {c}, unit : SentUnit]) /\ Len(chunk) = n
      /\ \A i \in 1 .. n : chunk[i] = [conn |-> c, unit |-> Stream(c)[r + i]]
  BY <1>1, Fed
<1>3. chunk \in Seq(E)
  <2>1. [conn : {c}, unit : SentUnit] \subseteq E
    BY <1>1
  <2> HIDE DEF E
  <2> QED BY <1>2, <2>1, SeqMonotonic
<1>4. parser \in Seq(E) /\ Len(parser) \in Nat
  BY ParserProperties DEF ServerTypes
<1>5. Len(Stream(c)) \in Nat
  BY StreamProperties, LenProperties
<1> HIDE DEF chunk, E
<1>6. /\ Len(parser \o chunk) = Len(parser) + Len(chunk)
      /\ \A i \in 1 .. Len(parser) + Len(chunk) :
            (parser \o chunk)[i] = IF i <= Len(parser) THEN parser[i] ELSE chunk[i - Len(parser)]
  BY <1>3, <1>4, ConcatProperties
<1>7. \A i \in 1 .. Len(parser) : parser'[i] = parser[i]
  BY <1>1, <1>2, <1>4, <1>6
<1>8. \A i \in 1 .. n : parser'[Len(parser) + i] = chunk[i]
  <2> SUFFICES ASSUME NEW i \in 1 .. n PROVE parser'[Len(parser) + i] = chunk[i]
    OBVIOUS
  <2>1. Len(parser) + i \in 1 .. Len(parser) + n /\ ~(Len(parser) + i <= Len(parser))
        /\ (Len(parser) + i) - Len(parser) = i
    BY <1>1, <1>4
  <2> QED BY <1>1, <1>2, <1>6, <2>1
<1> QED BY <1>1, <1>2, <1>4, <1>5, <1>6, <1>7, <1>8

LEMMA FeedInv ==
    ASSUME RegistryServerAssumption, PacketsDistinct, ForgeryInv, ServerTypes',
           NEW c \in Conns, NEW n \in 1 .. Len(Stream(c)), Feed(c, n)
    PROVE  ForgeryInv'
<1> DEFINE r == received[c]
           L == Len(parser)
<1>1. /\ n \in Nat /\ r \in Nat /\ r + n <= Len(Stream(c)) /\ Len(Stream(c)) \in Nat
      /\ L \in Nat /\ Len(parser') = L + n
      /\ \A i \in 1 .. L : parser'[i] = parser[i]
      /\ \A i \in 1 .. n : parser'[L + i] = [conn |-> c, unit |-> Stream(c)[r + i]]
  BY Feeds DEF ForgeryInv
<1>2. /\ c \in up /\ received' = [received EXCEPT ![c] = r + n]
      /\ thread' = [thread EXCEPT ![c].at = "parsing"]
      /\ UNCHANGED <<up, handled>>
  BY Feeds DEF ForgeryInv
<1>3. received \in [Conns -> Nat] /\ up \subseteq Conns
      /\ thread \in [Conns -> [at : {"idle", "parsing", "handling"}, packets : Seq(Packets)]]
  BY DEF ForgeryInv, ServerTypes
<1>4. \A d \in Conns : Pipe(d)' = Pipe(d)
  <2>1. \A d \in Conns : thread'[d].packets = thread[d].packets
    BY <1>2, <1>3
  <2> QED BY <1>2, <2>1 DEF Pipe
<1>5. received'[c] = r + n /\ \A d \in Conns : \A l \in 1 .. received[d] : l \in 1 .. received'[d]
  BY <1>1, <1>2, <1>3
<1>6. \A p : Arrived(p) => Arrived(p)'
  BY <1>2, <1>3, <1>5 DEF Arrived, LengthAt, Stream
<1> HIDE DEF L, r
<1>7. ASSUME NEW k \in 1 .. n, NEW p, Stream(c)[r + k] = Length(p)
      PROVE  ~Arrived(p)
  <2> SUFFICES ASSUME Arrived(p) PROVE FALSE
    OBVIOUS
  <2>1. PICK d \in up : \E l \in 1 .. received[d] : LengthAt(d, l, p)
    BY DEF Arrived
  <2>2. PICK l \in 1 .. received[d] : LengthAt(d, l, p)
    BY <2>1
  <2>3. r + k \in 1 .. Len(Stream(c))
    BY <1>1
  <2>4. LengthAt(c, r + k, p)
    BY <1>7, <2>3 DEF LengthAt
  <2>5. d = c /\ l = r + k
    BY <2>2, <2>4, LengthUnique
  <2>6. l \in 1 .. r
    BY <2>2, <2>5 DEF r
  <2> QED BY <1>1, <2>5, <2>6
<1>8. ASSUME NEW i \in 1 .. Len(parser')
      PROVE  \/ i \in 1 .. L /\ parser'[i] = parser[i]
             \/ \E k \in 1 .. n : /\ i = L + k /\ parser'[i].conn = c
                                  /\ parser'[i].unit = Stream(c)[r + k]
  <2>1. CASE i \in 1 .. L
    BY <1>1, <2>1
  <2>2. CASE i \notin 1 .. L
    <3>1. i - L \in 1 .. n /\ i = L + (i - L)
      BY <1>1, <2>2
    <3>2. parser'[i] = [conn |-> c, unit |-> Stream(c)[r + (i - L)]]
      BY <1>1, <3>1
    <3> QED BY <3>1, <3>2
  <2> QED BY <2>1, <2>2
<1>9. Genuine'
  <2>1. ASSUME NEW i \in 1 .. Len(parser')
        PROVE  \E j \in 1 .. received'[parser'[i].conn] :
                  parser'[i].unit = Stream(parser'[i].conn)[j]
    <3>1. CASE i \in 1 .. L /\ parser'[i] = parser[i]
      <4>1. parser[i].conn \in Conns
        BY <1>3, <3>1, ParserProperties DEF ForgeryInv, L
      <4>2. PICK j \in 1 .. received[parser[i].conn] : parser[i].unit = Stream(parser[i].conn)[j]
        BY <3>1 DEF ForgeryInv, Genuine, L
      <4> QED BY <1>5, <3>1, <4>1, <4>2
    <3>2. ASSUME NEW k \in 1 .. n, i = L + k, parser'[i].conn = c,
                 parser'[i].unit = Stream(c)[r + k]
          PROVE  \E j \in 1 .. received'[parser'[i].conn] :
                    parser'[i].unit = Stream(parser'[i].conn)[j]
      <4>1. r + k \in 1 .. received'[c]
        BY <1>1, <1>5
      <4> QED BY <3>2, <4>1
    <3> QED BY <1>8, <3>1, <3>2
  <2>2. \A d \in Conns : \A i \in 1 .. Len(Pipe(d)') : Arrived(Pipe(d)[i])'
    BY <1>4, <1>6 DEF ForgeryInv, Genuine
  <2> QED BY <2>1, <2>2 DEF Genuine, Stream
<1>10. LengthOnce'
  <2> SUFFICES ASSUME NEW p \in Packets, NEW i \in 1 .. Len(parser'), NEW j \in 1 .. Len(parser'),
                      parser'[i].unit = Length(p), parser'[j].unit = Length(p)
               PROVE  i = j
    BY DEF LengthOnce
  <2>1. \/ i \in 1 .. L /\ parser[i].unit = Length(p) /\ Arrived(p)
        \/ \E k \in 1 .. n : i = L + k /\ Stream(c)[r + k] = Length(p) /\ ~Arrived(p)
    BY <1>7, <1>8, ReadBefore DEF L
  <2>2. \/ j \in 1 .. L /\ parser[j].unit = Length(p) /\ Arrived(p)
        \/ \E k \in 1 .. n : j = L + k /\ Stream(c)[r + k] = Length(p) /\ ~Arrived(p)
    BY <1>7, <1>8, ReadBefore DEF L
  <2>3. CASE Arrived(p)
    BY <2>1, <2>2, <2>3 DEF ForgeryInv, LengthOnce, L
  <2>4. CASE ~Arrived(p)
    <3>1. PICK k \in 1 .. n : i = L + k /\ Stream(c)[r + k] = Length(p)
      BY <2>1, <2>4
    <3>2. PICK m \in 1 .. n : j = L + m /\ Stream(c)[r + m] = Length(p)
      BY <2>2, <2>4
    <3>3. r + k \in 1 .. Len(Stream(c)) /\ r + m \in 1 .. Len(Stream(c))
      BY <1>1
    <3>4. LengthAt(c, r + k, p) /\ LengthAt(c, r + m, p)
      BY <3>1, <3>2, <3>3 DEF LengthAt
    <3>5. r + k = r + m
      BY <3>4, LengthUnique
    <3>6. k = m
      BY <1>1, <3>5
    <3> QED BY <3>1, <3>2, <3>6
  <2> QED BY <2>3, <2>4
<1>11. NotBoth'
  <2> SUFFICES ASSUME NEW i \in 1 .. Len(parser'), NEW d \in Conns, NEW j \in 1 .. Len(Pipe(d)),
                      parser'[i].unit = Length(Pipe(d)[j])
               PROVE  FALSE
    BY <1>4 DEF NotBoth
  <2>1. Arrived(Pipe(d)[j])
    BY DEF ForgeryInv, Genuine
  <2>2. i \in 1 .. L /\ parser'[i] = parser[i]
    BY <1>7, <1>8, <2>1
  <2> QED BY <2>2 DEF ForgeryInv, NotBoth, L
<1>12. PipedOnce'
  BY <1>4 DEF ForgeryInv, PipedOnce
<1> QED BY <1>9, <1>10, <1>11, <1>12 DEF ForgeryInv

LEMMA ForgeryInit == RegistryServerAssumption /\ Init => ForgeryInv
<1> SUFFICES ASSUME RegistryServerAssumption, Init PROVE ForgeryInv
  OBVIOUS
<1>1. ServerTypes
  BY ServerTypesInit
<1>2. Len(parser) = 0
  BY EmptySeq DEF Init
<1>3. \A c \in Conns : Len(Pipe(c)) = 0
  <2>1. \A c \in Conns : handled[c] = <<>> /\ thread[c].packets = <<>>
    BY DEF Init
  <2>2. <<>> \o <<>> = <<>> /\ Len(<<>>) = 0
    BY EmptySeq, ConcatEmptySeq
  <2> QED BY <2>1, <2>2 DEF Pipe
<1> QED BY <1>1, <1>2, <1>3 DEF ForgeryInv, Genuine, LengthOnce, NotBoth, PipedOnce

LEMMA ForgeryNext ==
    ASSUME RegistryServerAssumption, PacketsDistinct, ForgeryInv, [Next]_vars
    PROVE  ForgeryInv'
<1>1. ServerTypes'
  BY ServerTypesNext DEF ForgeryInv
<1>2. thread \in [Conns -> [at : {"idle", "parsing", "handling"}, packets : Seq(Packets)]]
      /\ handled \in [Conns -> Seq(Packets)] /\ ServerTypes
  BY DEF ForgeryInv, ServerTypes
<1>3. Len(parser) \in Nat /\ parser = SubSeq(parser, 0 + 1, Len(parser))
      /\ <<>> = SubSeq(parser, Len(parser) + 1, Len(parser))
  <2>1. parser \in Seq([conn : up, unit : SentUnit]) /\ Len(parser) \in Nat
    BY <1>2, ParserProperties DEF ServerTypes
  <2>2. parser = SubSeq(parser, 1, Len(parser))
    BY <2>1, SubSeqFull
  <2>3. Len(parser) + 1 \in Int /\ Len(parser) \in Int /\ Len(parser) < Len(parser) + 1
    BY <2>1
  <2>4. SubSeq(parser, Len(parser) + 1, Len(parser)) = <<>>
    BY <2>3, SubSeqEmpty
  <2> QED BY <2>1, <2>2, <2>4
<1>4. ASSUME up \subseteq up', received' = received, parser' \in {parser, <<>>},
             \A c \in Conns : Pipe(c)' = Pipe(c)
      PROVE  ForgeryInv'
  <2>1. 0 \in 0 .. Len(parser) /\ Len(parser) \in 0 .. Len(parser)
    BY <1>3
  <2>2. CASE parser' = parser
    <3>1. parser' = SubSeq(parser, 0 + 1, Len(parser))
      BY <1>3, <2>2
    <3> QED BY <1>1, <1>4, <2>1, <3>1, DroppedInv
  <2>3. CASE parser' = <<>>
    <3>1. parser' = SubSeq(parser, Len(parser) + 1, Len(parser))
      BY <1>3, <2>3
    <3> QED BY <1>1, <1>4, <2>1, <3>1, DroppedInv
  <2> QED BY <1>4, <2>2, <2>3
<1>5. ASSUME NEW c \in Conns, OnConnection(c) PROVE ForgeryInv'
  <2>1. up \subseteq up' /\ UNCHANGED <<received, thread, handled>> /\ parser' = <<>>
    BY <1>5 DEF OnConnection
  <2> QED BY <1>4, <2>1 DEF Pipe
<1>6. ASSUME NEW c \in Conns, HandlePacket(c) PROVE ForgeryInv'
  <2>1. /\ thread[c].packets # <<>>
        /\ handled' = [handled EXCEPT ![c] = Append(handled[c], Head(thread[c].packets))]
        /\ thread' = [thread EXCEPT ![c].packets = Tail(thread[c].packets)]
        /\ UNCHANGED <<up, received, parser>>
    BY <1>6 DEF HandlePacket
  <2>2. \A d \in Conns : d # c => Pipe(d)' = Pipe(d)
    BY <1>2, <2>1 DEF Pipe
  <2>3. Pipe(c)' = Pipe(c)
    <3> DEFINE h == handled[c]
               t == thread[c].packets
    <3>1. h \in Seq(Packets) /\ t \in Seq(Packets) /\ t # <<>>
      BY <1>2, <2>1
    <3>2. handled'[c] = Append(h, Head(t)) /\ thread'[c].packets = Tail(t)
      BY <1>2, <2>1
    <3>3. Pipe(c)' = Append(h, Head(t)) \o Tail(t)
      BY <3>2 DEF Pipe
    <3>4. Pipe(c) = h \o t
      BY DEF Pipe
    <3> HIDE DEF h, t
    <3> QED BY <3>1, <3>3, <3>4, Moved
  <2> QED BY <1>4, <2>1, <2>2, <2>3
<1>7. ASSUME NEW c \in Conns, OnMessageReturns(c) PROVE ForgeryInv'
  <2>1. /\ thread' = [thread EXCEPT ![c].at = "idle"]
        /\ UNCHANGED <<up, received, parser, handled>>
    BY <1>7 DEF OnMessageReturns
  <2>2. \A d \in Conns : Pipe(d)' = Pipe(d)
    BY <1>2, <2>1 DEF Pipe
  <2> QED BY <1>4, <2>1, <2>2
<1>8. ASSUME NEW c \in Conns, NEW n \in 1 .. Len(Stream(c)), Feed(c, n) PROVE ForgeryInv'
  BY <1>1, <1>8, FeedInv
<1>9. ASSUME NEW c \in Conns, NEW outcome \in Outcomes, NEW skip \in {1, Len(parser)},
             Parse(c, outcome, skip)
      PROVE  ForgeryInv'
  <2>1. UNCHANGED <<up, received, handled>>
    BY <1>2, <1>9, Parses
  <2>2. CASE outcome = "packet"
    <3> DEFINE p == Parsed(Units)
    <3>2. /\ Parsed(Units) \in Packets /\ parser[2].unit = Length(Parsed(Units))
          /\ Parsed(Units).size \in Nat
          /\ 2 + Parsed(Units).size \in 2 .. Len(parser)
          /\ parser' = SubSeq(parser, 2 + Parsed(Units).size + 1, Len(parser))
          /\ thread' = [thread EXCEPT ![c].packets = Append(@, Parsed(Units))]
      <4>1. ServerTypes /\ Parse(c, outcome, skip)
        BY <1>2, <1>9
      <4> HIDE DEF p
      <4> QED BY <2>2, <4>1, Parses
    <3>0. /\ p \in Packets /\ p.size \in Nat /\ parser[2].unit = Length(p)
          /\ 2 + p.size \in 2 .. Len(parser)
          /\ parser' = SubSeq(parser, 2 + p.size + 1, Len(parser))
          /\ thread' = [thread EXCEPT ![c].packets = Append(@, p)]
      BY <3>2
    <3> HIDE DEF p
    <3>1. CutsOff(c, p)
      BY <2>1, <3>0 DEF CutsOff
    <3> QED BY <1>1, <3>0, <3>1, PacketInv
  <2>3. CASE outcome = "bad"
    <3>1. skip \in 0 .. Len(parser) /\ parser' = SubSeq(parser, skip + 1, Len(parser))
          /\ thread' = thread
      BY <1>2, <1>9, <2>3, Parses
    <3>2. \A d \in Conns : Pipe(d)' = Pipe(d)
      BY <2>1, <3>1 DEF Pipe
    <3> QED BY <1>1, <2>1, <3>1, <3>2, DroppedInv
  <2>4. CASE outcome = "short"
    <3>1. parser' = parser /\ thread' = [thread EXCEPT ![c].at = "handling"]
      BY <1>2, <1>9, <2>4, Parses
    <3>2. \A d \in Conns : Pipe(d)' = Pipe(d)
      BY <1>2, <2>1, <3>1 DEF Pipe
    <3> QED BY <1>4, <2>1, <3>1, <3>2
  <2> QED BY <2>2, <2>3, <2>4 DEF Outcomes
<1>10. ASSUME NEW c \in Conns, NEW d \in Conns, Race(c, d) PROVE ForgeryInv'
  <2>1. UNCHANGED <<up, received, parser, thread, handled>>
    BY <1>10 DEF Race
  <2> QED BY <1>4, <2>1 DEF Pipe
<1>11. CASE UNCHANGED vars
  <2>1. UNCHANGED <<up, received, parser, thread, handled>>
    BY <1>11 DEF vars
  <2> QED BY <1>4, <2>1 DEF Pipe
<1> QED BY <1>5, <1>6, <1>7, <1>8, <1>9, <1>10, <1>11 DEF Next

\* However the bytes of the connections are mixed in the shared parser and
\* wherever it picks up again, each packet that is handled was sent by a peer
\* that is connected, and none is handled twice.
THEOREM NothingForgedCorrect ==
    ASSUME PacketsDistinct
    PROVE  Spec => []NothingForged
<1> USE RegistryServerAssumption
<1>1. Init => ForgeryInv
  BY ForgeryInit
<1>2. ForgeryInv /\ [Next]_vars => ForgeryInv'
  BY ForgeryNext
<1>3. ForgeryInv => NothingForged
  <2> SUFFICES ASSUME ForgeryInv PROVE NothingForged
    OBVIOUS
  <2> DEFINE Calls == UNION {{<<c, i>> : i \in DOMAIN handled[c]} : c \in Conns}
  <2>0. \A call \in Calls : \E c \in Conns : \E i \in DOMAIN handled[c] : call = <<c, i>>
    OBVIOUS
  <2>1. ASSUME NEW c \in Conns, NEW i \in DOMAIN handled[c]
        PROVE  i \in 1 .. Len(Pipe(c)) /\ Pipe(c)[i] = handled[c][i]
    <3>1. handled[c] \in Seq(Packets) /\ thread[c].packets \in Seq(Packets)
      BY PipeType DEF ForgeryInv
    <3>2. i \in 1 .. Len(handled[c]) /\ Len(handled[c]) \in Nat /\ Len(thread[c].packets) \in Nat
      BY <3>1, LenProperties
    <3> DEFINE h == handled[c]
               t == thread[c].packets
    <3> HIDE DEF h, t
    <3>3. /\ Len(h \o t) = Len(h) + Len(t)
          /\ \A j \in 1 .. Len(h) + Len(t) : (h \o t)[j] = IF j <= Len(h) THEN h[j] ELSE t[j - Len(h)]
      BY <3>1, ConcatProperties DEF h, t
    <3>4. i \in 1 .. Len(h) + Len(t) /\ i <= Len(h)
      <4>1. i \in 1 .. Len(h) /\ Len(h) \in Nat /\ Len(t) \in Nat
        BY <3>2 DEF h, t
      <4> QED BY <4>1
    <3> QED BY <3>3, <3>4 DEF Pipe, h, t
  <2>2. ASSUME NEW call \in Calls
        PROVE  \E d \in up : handled[call[1]][call[2]] \in ToSet(Sent[d])
    <3>0. PICK c \in Conns : \E i \in DOMAIN handled[c] : call = <<c, i>>
      BY <2>0
    <3>1. PICK i \in DOMAIN handled[c] : call = <<c, i>>
      BY <3>0
    <3>2. Arrived(handled[c][i])
      BY <2>1 DEF ForgeryInv, Genuine
    <3>3. PICK d \in up : \E j \in 1 .. received[d] : LengthAt(d, j, handled[c][i])
      BY <3>2 DEF Arrived
    <3>b. PICK j \in 1 .. received[d] : LengthAt(d, j, handled[c][i])
      BY <3>3
    <3> DEFINE p == handled[c][i]
    <3>4. PICK k \in 1 .. Len(Sent[d]) : Sent[d][k] = p
      <4>1. LengthAt(d, j, p)
        BY <3>b
      <4> HIDE DEF p
      <4>2. \E k \in 1 .. Len(Sent[d]) : j = End(d, k - 1) + 2 /\ Sent[d][k] = p
        BY <4>1, LengthOf
      <4> QED BY <4>2
    <3>5. k \in DOMAIN Sent[d]
      BY <3>3, StreamProperties DEF LengthAt
    <3> QED BY <3>1, <3>4, <3>5 DEF ToSet
  <2>3. ASSUME NEW call \in Calls, NEW other \in Calls,
               handled[call[1]][call[2]] = handled[other[1]][other[2]]
        PROVE  call = other
    <3>0. PICK c \in Conns : \E i \in DOMAIN handled[c] : call = <<c, i>>
      BY <2>0
    <3>1. PICK i \in DOMAIN handled[c] : call = <<c, i>>
      BY <3>0
    <3>a. PICK d \in Conns : \E j \in DOMAIN handled[d] : other = <<d, j>>
      BY <2>0
    <3>2. PICK j \in DOMAIN handled[d] : other = <<d, j>>
      BY <3>a
    <3>3. PipedOnce /\ Pipe(c)[i] = Pipe(d)[j]
      BY <2>1, <2>3, <3>1, <3>2 DEF ForgeryInv
    <3>4. c = d /\ i = j
      BY <2>1, <3>3, OnceAt
    <3> QED BY <3>1, <3>2, <3>4
  <2> QED BY <2>2, <2>3 DEF NothingForged
<1> QED BY <1>1, <1>2, <1>3, PTL DEF Spec

-----------------------------------------------------------------------------
(* A connection alone in the parser.                                       *)

\* When the parser holds what one peer sent, from the start of p on, a round of
\* ParseAll waits for all of p, and then parses it.
LEMMA DeserializeAlone ==
    ASSUME RegistryServerAssumption, NEW buf \in Seq(SentUnit), NEW p \in Packets,
           \A j \in 1 .. Len(buf) : j <= 2 + p.size => buf[j] = Serialize(p)[j]
    PROVE  /\ Len(buf) < 2 + p.size => Deserialize(buf) = {"short"}
           /\ ~(Len(buf) < 2 + p.size) => Deserialize(buf) = {"packet"} /\ Parsed(buf) = p
<1>1. /\ p.size \in Nat /\ Serialize(p)[1] = Magic /\ Serialize(p)[2] = Length(p)
      /\ \A i \in 1 .. p.size : Serialize(p)[2 + i] = Body(p)[i]
      /\ Len(Body(p)) = p.size /\ Body(p) \in Seq(SentUnit)
      /\ Len(buf) \in Nat
  BY SerializeProperties, LenProperties
<1>2. CASE Len(buf) < 2
  BY <1>1, <1>2 DEF Deserialize, HeaderSize
<1>3. CASE ~(Len(buf) < 2)
  <2>1. 1 \in 1 .. Len(buf) /\ 2 \in 1 .. Len(buf) /\ 1 <= 2 + p.size /\ 2 <= 2 + p.size
    BY <1>1, <1>3
  <2>2. buf[1] = Magic /\ buf[2] = Length(p)
    BY <1>1, <2>1
  <2>3. buf[2].part = "length" /\ buf[2].of = p
    BY <2>2, UnitsDiffer
  <2>4. CASE Len(buf) < 2 + p.size
    BY <1>1, <1>3, <2>2, <2>3, <2>4 DEF Deserialize, HeaderSize
  <2>5. CASE ~(Len(buf) < 2 + p.size)
    <3> DEFINE b == Body(p)
               m == p.size
               cut == SubSeq(buf, 2 + 1, 2 + m)
    <3>1. m \in Nat /\ Len(buf) \in Nat /\ 2 + m <= Len(buf) /\ b \in Seq(SentUnit) /\ Len(b) = m
      BY <1>1, <2>5
    <3>2. \A i \in 1 .. m : buf[2 + i] = b[i]
      <4> SUFFICES ASSUME NEW i \in 1 .. m PROVE buf[2 + i] = b[i]
        OBVIOUS
      <4>1. 2 + i \in 1 .. Len(buf) /\ 2 + i <= 2 + m
        BY <3>1
      <4> QED BY <1>1, <4>1
    <3> HIDE DEF b, m
    <3>3. \A i \in 3 .. 2 + m : i \in 1 .. Len(buf)
      BY <3>1
    <3>4. /\ cut \in Seq(SentUnit) /\ Len(cut) = m
          /\ \A i \in 1 .. m : cut[i] = buf[2 + i]
      <4>1. cut \in Seq(SentUnit)
        BY <3>1, <3>3, SubSeqProperties
      <4>2. Len(cut) = (2 + m) - (2 + 1) + 1
        BY <3>1, <3>3, SubSeqProperties
      <4>3. \A i \in 1 .. (2 + m) - (2 + 1) + 1 : cut[i] = buf[(2 + 1) + i - 1]
        BY <3>1, <3>3, SubSeqProperties
      <4>4. (2 + m) - (2 + 1) + 1 = m
        BY <3>1
      <4>5. \A i \in 1 .. m : (2 + 1) + i - 1 = 2 + i
        BY <3>1
      <4> QED BY <4>1, <4>2, <4>3, <4>4, <4>5
    <3> HIDE DEF cut
    <3>5. cut = b
      <4>1. DOMAIN cut = 1 .. m /\ DOMAIN b = 1 .. m
        BY <3>1, <3>4, LenProperties
      <4>2. \A i \in 1 .. m : cut[i] = b[i]
        BY <3>2, <3>4
      <4> QED BY <3>1, <3>4, <4>1, <4>2, SeqEqual
    <3>6. SubSeq(buf, HeaderSize + 1, HeaderSize + buf[2].of.size) = Body(buf[2].of)
      BY <2>3, <3>5 DEF cut, b, m, HeaderSize
    <3>7. ChecksumMatches(buf)
      BY <3>6 DEF ChecksumMatches
    <3> QED BY <1>1, <1>3, <2>2, <2>3, <2>5, <3>6, <3>7 DEF Deserialize, HeaderSize, Parsed
  <2> QED BY <2>4, <2>5
<1> QED BY <1>2, <1>3

\* c's thread has parsed the first k packets of its peer, and the parser holds
\* what was read after them, if anything was.
Waiting(c, k) ==
    /\ Len(parser) = received[c] - End(c, k)
    /\ \A i \in 1 .. Len(parser) : parser[i].conn = c /\ parser[i].unit = Stream(c)[End(c, k) + i]

Served(c, k) ==
    /\ k \in 0 .. Len(Sent[c])
    /\ Len(Pipe(c)) = k /\ \A i \in 1 .. k : Pipe(c)[i] = Sent[c][i]
    /\ End(c, k) <= received[c]
    /\ received[c] = End(c, k) => c \notin Owners
    /\ received[c] > End(c, k) => Waiting(c, k)
    /\ thread[c].at # "parsing" /\ k < Len(Sent[c]) => received[c] < End(c, k + 1)

AloneInv == ServerTypes /\ \A c \in up \ disturbed : \E k \in 0 .. Len(Sent[c]) : Served(c, k)

\* The parser holds what c's thread read, or nothing of it.
LEMMA AloneWaits ==
    ASSUME RegistryServerAssumption, ServerTypes, NEW c \in Conns,
           NEW k \in 0 .. Len(Sent[c]), Served(c, k)
    PROVE  /\ c \notin Owners => received[c] = End(c, k)
           /\ Owners \subseteq {c} => Waiting(c, k)
           /\ End(c, k) \in Nat /\ received[c] \in Nat /\ End(c, k) <= received[c]
<1>1. End(c, k) \in Nat /\ received[c] \in Nat /\ End(c, k) <= received[c]
  BY StreamProperties DEF ServerTypes, Served
<1>2. CASE received[c] = End(c, k)
  <2>1. c \notin Owners
    BY <1>2 DEF Served
  <2>2. Owners \subseteq {c} => parser = <<>>
    BY <2>1, ParserProperties
  <2>3. Len(<<>>) = 0 /\ 0 = received[c] - End(c, k) /\ \A i \in 1 .. 0 : FALSE
    BY <1>1, <1>2, EmptySeq
  <2>4. Owners \subseteq {c} => Waiting(c, k)
    <3> SUFFICES ASSUME Owners \subseteq {c} PROVE Waiting(c, k)
      OBVIOUS
    <3>1. Len(parser) = 0
      BY <2>2, <2>3
    <3> QED BY <2>3, <3>1 DEF Waiting
  <2> QED BY <1>1, <1>2, <2>4
<1>3. CASE received[c] # End(c, k)
  <2>1. received[c] > End(c, k)
    BY <1>1, <1>3
  <2>2. Waiting(c, k)
    BY <2>1 DEF Served
  <2>3. 1 \in 1 .. Len(parser)
    <3>1. received[c] - End(c, k) >= 1 /\ received[c] - End(c, k) \in Nat
      BY <1>1, <2>1
    <3> QED BY <2>2, <3>1 DEF Waiting
  <2>4. parser[1].conn = c /\ 1 \in DOMAIN parser
    BY <2>2, <2>3, ParserProperties DEF Waiting
  <2>5. c \in Owners
    BY <2>4 DEF Owners
  <2> QED BY <1>1, <2>2, <2>5
<1> QED BY <1>2, <1>3

\* What another connection does that leaves c undisturbed.
LEMMA AloneOther ==
    ASSUME RegistryServerAssumption, ServerTypes, NEW c \in Conns,
           NEW k \in 0 .. Len(Sent[c]), Served(c, k),
           c \notin Owners, c \notin Owners',
           received'[c] = received[c], Pipe(c)' = Pipe(c), thread'[c].at = thread[c].at
    PROVE  Served(c, k)'
<1>1. received[c] = End(c, k) /\ End(c, k) \in Nat
  BY AloneWaits
<1>2. End(c, k)' = End(c, k) /\ End(c, k + 1)' = End(c, k + 1)
  BY DEF End
<1>3. ~(received'[c] > End(c, k))
  BY <1>1
<1> QED BY <1>1, <1>2, <1>3 DEF Served

LEMMA AloneKept ==
    ASSUME NEW c \in Conns, NEW k \in 0 .. Len(Sent[c]), Served(c, k),
           parser' = parser, received'[c] = received[c], Pipe(c)' = Pipe(c),
           thread'[c].at # "parsing" /\ k < Len(Sent[c]) => received[c] < End(c, k + 1)
    PROVE  Served(c, k)'
<1>1. Owners' = Owners /\ End(c, k)' = End(c, k) /\ End(c, k + 1)' = End(c, k + 1)
  BY DEF Owners, End
<1>2. Waiting(c, k)' <=> Waiting(c, k)
  BY <1>1 DEF Waiting, Stream
<1> QED BY <1>1, <1>2 DEF Served

LEMMA AloneConnects ==
    ASSUME RegistryServerAssumption, ServerTypes, ServerTypes', NEW c \in Conns, OnConnection(c)
    PROVE  Served(c, 0)'
<1>1. /\ c \notin up /\ parser' = <<>>
      /\ UNCHANGED <<received, thread, handled>>
  BY DEF OnConnection
<1>2. received[c] = 0 /\ handled[c] = <<>> /\ thread[c].at = "idle" /\ thread[c].packets = <<>>
  BY <1>1 DEF ServerTypes
<1>3. Len(Sent[c]) \in Nat /\ End(c, 0) = 0 /\ 0 \in 0 .. Len(Sent[c])
  BY StreamProperties
<1>4. Owners' = {}
  <2>1. parser' = <<>>
    BY <1>1
  <2> QED BY <2>1, EmptySeq DEF Owners
<1>5. Len(Pipe(c)') = 0
  <2>1. <<>> \o <<>> = <<>> /\ Len(<<>>) = 0
    BY EmptySeq, ConcatEmptySeq
  <2> QED BY <1>1, <1>2, <2>1 DEF Pipe
<1>6. 0 < Len(Sent[c]) => 0 < End(c, 0 + 1)
  <2> SUFFICES ASSUME 0 < Len(Sent[c]) PROVE 0 < End(c, 1)
    OBVIOUS
  <2>1. 1 \in 1 .. Len(Sent[c]) /\ 1 - 1 = 0
    BY <1>3
  <2>2. End(c, 1) = End(c, 0) + 2 + Sent[c][1].size /\ Sent[c][1].size \in Nat
    BY <2>1, StreamProperties
  <2> QED BY <1>3, <2>2
<1>7. End(c, 0)' = End(c, 0) /\ End(c, 0 + 1)' = End(c, 0 + 1)
  BY DEF End
<1>8. received'[c] = 0
  BY <1>1, <1>2
<1> QED BY <1>3, <1>4, <1>5, <1>6, <1>7, <1>8 DEF Served

LEMMA AloneFeeds ==
    ASSUME RegistryServerAssumption, ServerTypes, ServerTypes', NEW c \in Conns,
           NEW n \in 1 .. Len(Stream(c)), Feed(c, n),
           NEW k \in 0 .. Len(Sent[c]), Served(c, k), c \notin disturbed'
    PROVE  Served(c, k)'
<1> DEFINE r == received[c]
           e == End(c, k)
<1>1. /\ n \in Nat /\ n >= 1 /\ r + n <= Len(Stream(c)) /\ Len(Stream(c)) \in Nat
      /\ received' = [received EXCEPT ![c] = r + n]
      /\ disturbed' = disturbed \cup Meets(c)
      /\ thread' = [thread EXCEPT ![c].at = "parsing"]
      /\ handled' = handled
      /\ Len(parser) \in Nat /\ Len(parser') = Len(parser) + n
      /\ \A i \in 1 .. Len(parser) : parser'[i] = parser[i]
      /\ \A i \in 1 .. n :
            parser'[Len(parser) + i] = [conn |-> c, unit |-> Stream(c)[r + i]]
  BY Feeds
<1>2. Owners \subseteq {c}
  BY <1>1 DEF Meets
<1>3. Waiting(c, k) /\ e \in Nat /\ r \in Nat /\ e <= r
  BY <1>2, AloneWaits
<1>4. /\ received \in [Conns -> Nat]
      /\ thread \in [Conns -> [at : {"idle", "parsing", "handling"}, packets : Seq(Packets)]]
  BY DEF ServerTypes
<1>5. received'[c] = r + n /\ thread'[c].at = "parsing" /\ Pipe(c)' = Pipe(c)
  BY <1>1, <1>4 DEF Pipe
<1>6. Waiting(c, k)'
  <2>1. Len(parser) = r - e /\ \A i \in 1 .. Len(parser) :
           parser[i].conn = c /\ parser[i].unit = Stream(c)[e + i]
    BY <1>3 DEF Waiting
  <2> HIDE DEF r, e
  <2>2. Len(parser') = (r + n) - e
    BY <1>1, <1>3, <2>1
  <2>3. ASSUME NEW i \in 1 .. Len(parser')
        PROVE  parser'[i].conn = c /\ parser'[i].unit = Stream(c)[e + i]
    <3>1. CASE i \in 1 .. Len(parser)
      BY <1>1, <2>1, <3>1
    <3>2. CASE i \notin 1 .. Len(parser)
      <4>a. /\ Len(parser) \in Nat /\ n \in Nat /\ r \in Nat /\ e \in Nat /\ Len(parser) = r - e
            /\ i \in 1 .. Len(parser) + n /\ i \notin 1 .. Len(parser)
        BY <1>1, <1>3, <2>1, <3>2
      <4>1. i - Len(parser) \in 1 .. n /\ i = Len(parser) + (i - Len(parser))
            /\ r + (i - Len(parser)) = e + i
        BY <4>a
      <4>2. parser'[i] = [conn |-> c, unit |-> Stream(c)[r + (i - Len(parser))]]
        BY <1>1, <4>1
      <4> QED BY <4>1, <4>2
    <3> QED BY <3>1, <3>2
  <2>4. e' = e
    BY DEF e, End
  <2> QED BY <1>5, <2>2, <2>3, <2>4 DEF Waiting, Stream, e, r
<1>7. e' = e
  BY DEF End
<1>8. e <= r + n /\ r + n # e
  BY <1>1, <1>3
<1>9. k \in 0 .. Len(Sent[c]) /\ Len(Pipe(c)) = k /\ \A i \in 1 .. k : Pipe(c)[i] = Sent[c][i]
  BY DEF Served
<1> QED BY <1>5, <1>6, <1>7, <1>8, <1>9 DEF Served

\* A round of ParseAll by the only owner: the next packet, once it is whole.
LEMMA AloneRound ==
    ASSUME RegistryServerAssumption, ServerTypes, NEW c \in Conns,
           NEW k \in 0 .. Len(Sent[c]), Served(c, k), Owners \subseteq {c}
    PROVE  IF k < Len(Sent[c]) /\ ~(received[c] < End(c, k + 1))
           THEN Deserialize(Units) = {"packet"} /\ Parsed(Units) = Sent[c][k + 1]
           ELSE Deserialize(Units) = {"short"}
<1> DEFINE r == received[c]
           e == End(c, k)
           L == Len(parser)
<1>1. Waiting(c, k) /\ e \in Nat /\ r \in Nat /\ e <= r
  BY AloneWaits
<1>2. /\ L = r - e
      /\ \A i \in 1 .. L : parser[i].conn = c /\ parser[i].unit = Stream(c)[e + i]
  BY <1>1 DEF Waiting
<1>3. /\ Units \in Seq(SentUnit) /\ Len(Units) = L /\ L \in Nat
      /\ \A i \in 1 .. L : Units[i] = parser[i].unit
  BY ParserProperties
<1>4. Len(Sent[c]) \in Nat /\ r <= Len(Stream(c)) /\ Len(Stream(c)) = End(c, Len(Sent[c]))
  BY StreamProperties DEF ServerTypes
<1>5. CASE ~(k < Len(Sent[c]))
  <2>1. k = Len(Sent[c])
    BY <1>4, <1>5
  <2>2. r = e
    BY <1>1, <1>4, <2>1
  <2>3. Len(Units) < HeaderSize
    BY <1>1, <1>2, <1>3, <2>2 DEF HeaderSize
  <2> QED BY <1>5, <2>3 DEF Deserialize
<1>6. CASE k < Len(Sent[c])
  <2> DEFINE p == Sent[c][k + 1]
             f == End(c, k + 1)
  <2>1. k + 1 \in 1 .. Len(Sent[c]) /\ (k + 1) - 1 = k
    BY <1>4, <1>6
  <2>2. p \in Packets /\ p.size \in Nat
    BY <2>1, StreamProperties
  <2>3. f = e + 2 + p.size /\ \A j \in 1 .. 2 + p.size : Stream(c)[e + j] = Serialize(p)[j]
    <3> DEFINE m == k + 1
    <3>1. m \in 1 .. Len(Sent[c]) /\ m - 1 = k
      BY <2>1
    <3> HIDE DEF m
    <3>2. /\ End(c, m) = End(c, m - 1) + 2 + Sent[c][m].size
          /\ \A j \in 1 .. 2 + Sent[c][m].size :
                Stream(c)[End(c, m - 1) + j] = Serialize(Sent[c][m])[j]
      BY <3>1, StreamProperties
    <3>3. /\ End(c, m) = End(c, k) + 2 + Sent[c][m].size
          /\ \A j \in 1 .. 2 + Sent[c][m].size :
                Stream(c)[End(c, k) + j] = Serialize(Sent[c][m])[j]
      BY <3>1, <3>2
    <3> QED BY <3>3 DEF m
  <2> HIDE DEF p, f, e, r, L
  <2>4. ASSUME NEW j \in 1 .. Len(Units), j <= 2 + p.size PROVE Units[j] = Serialize(p)[j]
    <3>1. j \in 1 .. L /\ j \in 1 .. 2 + p.size
      BY <1>3, <2>2, <2>4
    <3> QED BY <1>2, <1>3, <2>3, <3>1
  <2>5. /\ Len(Units) < 2 + p.size => Deserialize(Units) = {"short"}
        /\ ~(Len(Units) < 2 + p.size) => Deserialize(Units) = {"packet"} /\ Parsed(Units) = p
    BY <1>3, <2>2, <2>4, DeserializeAlone
  <2>6. (r < f) <=> (Len(Units) < 2 + p.size)
    BY <1>1, <1>2, <1>3, <2>2, <2>3
  <2> QED BY <1>6, <2>5, <2>6 DEF p, f, r
<1> QED BY <1>5, <1>6

\* The next packet of c is parsed.
LEMMA AloneCuts ==
    ASSUME RegistryServerAssumption, ServerTypes, ServerTypes', NEW c \in Conns,
           NEW k \in 0 .. Len(Sent[c]), Served(c, k), Waiting(c, k),
           k < Len(Sent[c]), ~(received[c] < End(c, k + 1)),
           CutsOff(c, Sent[c][k + 1]), thread[c].at = "parsing"
    PROVE  Served(c, k + 1)'
<1> DEFINE r == received[c]
           e == End(c, k)
           f == End(c, k + 1)
           p == Sent[c][k + 1]
           L == Len(parser)
           m == 2 + p.size
<1>1. e \in Nat /\ r \in Nat /\ e <= r /\ Len(Sent[c]) \in Nat
  BY AloneWaits, StreamProperties DEF ServerTypes, Served
<1>2. /\ L = r - e
      /\ \A i \in 1 .. L : parser[i].conn = c /\ parser[i].unit = Stream(c)[e + i]
  BY DEF Waiting
<1>3. k + 1 \in 1 .. Len(Sent[c]) /\ (k + 1) - 1 = k /\ k + 1 \in 0 .. Len(Sent[c])
  BY <1>1
<1>4. f = e + m /\ p.size \in Nat /\ p \in Packets
  <2> DEFINE l == k + 1
  <2>1. l \in 1 .. Len(Sent[c]) /\ l - 1 = k
    BY <1>3
  <2> HIDE DEF l
  <2>2. End(c, l) = End(c, l - 1) + 2 + Sent[c][l].size /\ Sent[c][l].size \in Nat
        /\ Sent[c][l] \in Packets
    BY <2>1, StreamProperties
  <2>3. End(c, l) = End(c, k) + 2 + Sent[c][l].size
    BY <2>1, <2>2
  <2>4. f = e + 2 + p.size /\ p.size \in Nat /\ p \in Packets
    BY <2>2, <2>3 DEF l
  <2> DEFINE z == p.size
  <2>5. f = e + 2 + z /\ z \in Nat /\ e \in Nat
    BY <1>1, <2>4
  <2> HIDE DEF e, f, z
  <2>6. f = e + (2 + z)
    BY <2>5
  <2> QED BY <2>4, <2>6 DEF z
<1>5. /\ m \in 2 .. Len(parser)
      /\ parser' = SubSeq(parser, m + 1, Len(parser))
      /\ thread' = [thread EXCEPT ![c].packets = Append(@, p)]
      /\ UNCHANGED <<up, received, handled>>
  BY DEF CutsOff
<1>6. /\ thread \in [Conns -> [at : {"idle", "parsing", "handling"}, packets : Seq(Packets)]]
      /\ parser \in Seq([conn : up, unit : SentUnit])
  BY DEF ServerTypes
<1>7. thread'[c].at = "parsing" /\ thread'[c].packets = Append(thread[c].packets, p)
  BY <1>5, <1>6
<1>8. Len(Pipe(c)') = k + 1 /\ \A i \in 1 .. k + 1 : Pipe(c)'[i] = Sent[c][i]
  <2> DEFINE h == handled[c]
             t == thread[c].packets
  <2>1. h \in Seq(Packets) /\ t \in Seq(Packets) /\ h \o t \in Seq(Packets)
    BY PipeType DEF Pipe
  <2>2. Pipe(c)' = h \o Append(t, p)
    BY <1>5, <1>7 DEF Pipe
  <2>3. Len(h \o t) = k /\ \A i \in 1 .. k : (h \o t)[i] = Sent[c][i]
    BY DEF Served, Pipe
  <2> HIDE DEF h, t, p, m, f, e, r, L
  <2>4. Pipe(c)' = Append(h \o t, p)
    BY <1>4, <2>1, <2>2, Grown
  <2>5. /\ Len(Pipe(c)') = k + 1
        /\ \A i \in 1 .. k : Pipe(c)'[i] = Sent[c][i]
        /\ Pipe(c)'[k + 1] = p
    BY <1>4, <2>1, <2>3, <2>4, AppendProperties
  <2>6. \A i \in 1 .. k + 1 : i \in 1 .. k \/ i = k + 1
    BY <1>1
  <2> QED BY <2>5, <2>6 DEF p
<1> HIDE DEF m, p
<1>9. /\ L \in Nat /\ Len(parser') = L - m
      /\ \A i \in 1 .. L - m : parser'[i] = parser[m + i] /\ m + i \in 1 .. L
  <2>1. L \in Nat
    BY <1>6, LenProperties
  <2>2. m \in 0 .. L
    BY <1>5, <2>1
  <2> DEFINE E == [conn : up, unit : SentUnit]
  <2>3. parser \in Seq(E)
    BY <1>6
  <2> HIDE DEF E
  <2>4. /\ Len(SubSeq(parser, m + 1, L)) = L - m
        /\ \A i \in 1 .. L - m : SubSeq(parser, m + 1, L)[i] = parser[m + i] /\ m + i \in 1 .. L
    BY <2>2, <2>3, Dropped
  <2> QED BY <1>5, <2>1, <2>4
<1>10. e' = e /\ f' = f /\ r' = r
  BY <1>5 DEF e, f, r, End
<1>11. /\ f \in Nat /\ m \in Nat /\ f <= r /\ L - m = r - f
       /\ \A i \in 1 .. L - m : f + i = e + (m + i)
  <2> HIDE DEF e, f, L, r
  <2>1. m \in Nat /\ m <= L
    BY <1>5, <1>9 DEF L
  <2>2. f = e + m /\ L = r - e
    BY <1>2, <1>4
  <2> QED BY <1>1, <2>1, <2>2
<1>12. ASSUME NEW i \in 1 .. Len(parser')
       PROVE  parser'[i].conn = c /\ parser'[i].unit = Stream(c)[f + i]
  <2>1. parser'[i] = parser[m + i] /\ m + i \in 1 .. L /\ f + i = e + (m + i)
    BY <1>9, <1>11
  <2> QED BY <1>2, <2>1
<1>13. r = f => c \notin Owners'
  <2> SUFFICES ASSUME r = f PROVE c \notin Owners'
    OBVIOUS
  <2>1. Len(parser') = 0
    BY <1>9, <1>11
  <2>2. DOMAIN parser' = 1 .. Len(parser')
    BY ParserProperties DEF ServerTypes
  <2>3. DOMAIN parser' = {}
    BY <2>1, <2>2
  <2> QED BY <2>3 DEF Owners
<1>14. Waiting(c, k + 1)'
  <2>1. Len(parser') = r - f
    BY <1>9, <1>11
  <2> QED BY <1>10, <1>12, <2>1 DEF Waiting, Stream, f, r
<1> QED BY <1>3, <1>7, <1>8, <1>10, <1>11, <1>13, <1>14 DEF Served, f, r

LEMMA AloneParses ==
    ASSUME RegistryServerAssumption, ServerTypes, ServerTypes', NEW c \in Conns,
           NEW outcome \in Outcomes, NEW skip \in {1, Len(parser)}, Parse(c, outcome, skip),
           NEW k \in 0 .. Len(Sent[c]), Served(c, k), c \notin disturbed'
    PROVE  \E l \in 0 .. Len(Sent[c]) : Served(c, l)'
<1>1. /\ disturbed' = disturbed \cup Meets(c) /\ thread[c].at = "parsing"
      /\ UNCHANGED <<up, received, handled>>
  BY Parses
<1>2. Owners \subseteq {c}
  BY <1>1 DEF Meets
<1>3. Waiting(c, k)
  BY <1>2, AloneWaits
<1>4. Len(Sent[c]) \in Nat
  BY StreamProperties
<1>5. CASE k < Len(Sent[c]) /\ ~(received[c] < End(c, k + 1))
  <2>1. Deserialize(Units) = {"packet"} /\ Parsed(Units) = Sent[c][k + 1]
    BY <1>2, <1>5, AloneRound
  <2>2. /\ parser[2].unit = Length(Parsed(Units))
        /\ 2 + Parsed(Units).size \in 2 .. Len(parser)
        /\ parser' = SubSeq(parser, 2 + Parsed(Units).size + 1, Len(parser))
        /\ thread' = [thread EXCEPT ![c].packets = Append(@, Parsed(Units))]
    BY <2>1, Parses
  <2>3. CutsOff(c, Sent[c][k + 1])
    BY <1>1, <2>1, <2>2 DEF CutsOff
  <2>4. Served(c, k + 1)'
    BY <1>1, <1>3, <1>5, <2>3, AloneCuts
  <2>5. k + 1 \in 0 .. Len(Sent[c])
    BY <1>4, <1>5
  <2> QED BY <2>4, <2>5
<1>6. CASE ~(k < Len(Sent[c]) /\ ~(received[c] < End(c, k + 1)))
  <2>1. Deserialize(Units) = {"short"}
    BY <1>2, <1>6, AloneRound
  <2>2. parser' = parser /\ thread' = [thread EXCEPT ![c].at = "handling"]
    BY <2>1, Parses
  <2>3. thread \in [Conns -> [at : {"idle", "parsing", "handling"}, packets : Seq(Packets)]]
    BY DEF ServerTypes
  <2>4. thread'[c].packets = thread[c].packets
    BY <2>2, <2>3
  <2>5. Pipe(c)' = Pipe(c)
    BY <1>1, <2>4 DEF Pipe
  <2>6. received'[c] = received[c]
    BY <1>1
  <2>7. k < Len(Sent[c]) => received[c] < End(c, k + 1)
    BY <1>6
  <2>8. Served(c, k)'
    BY <2>2, <2>5, <2>6, <2>7, AloneKept
  <2> QED BY <2>8
<1> QED BY <1>5, <1>6

\* After a round of ParseAll the parser holds what is left of it.
LEMMA Remains ==
    ASSUME RegistryServerAssumption, ServerTypes, NEW c \in Conns,
           NEW outcome \in Outcomes, NEW skip \in {1, Len(parser)}, Parse(c, outcome, skip)
    PROVE  \E m \in 0 .. Len(parser) : parser' = SubSeq(parser, m + 1, Len(parser))
<1>1. Len(parser) \in Nat /\ parser \in Seq([conn : up, unit : SentUnit])
  BY ParserProperties DEF ServerTypes
<1>2. parser = SubSeq(parser, 0 + 1, Len(parser)) /\ 0 \in 0 .. Len(parser)
  BY <1>1, SubSeqFull
<1>3. CASE outcome = "packet"
  <2> DEFINE m == 2 + Parsed(Units).size
  <2>1. m \in 2 .. Len(parser) /\ parser' = SubSeq(parser, m + 1, Len(parser))
    BY <1>3, Parses
  <2> HIDE DEF m
  <2>2. m \in 0 .. Len(parser)
    BY <1>1, <2>1
  <2> QED BY <2>1, <2>2
<1>4. CASE outcome = "bad"
  <2>1. skip \in 0 .. Len(parser) /\ parser' = SubSeq(parser, skip + 1, Len(parser))
    BY <1>4, Parses
  <2> QED BY <2>1
<1>5. CASE outcome = "short"
  <2>1. parser' = parser
    BY <1>5, Parses
  <2> QED BY <1>2, <2>1
<1> QED BY <1>3, <1>4, <1>5 DEF Outcomes

LEMMA OwnersLeft ==
    ASSUME ServerTypes, ServerTypes', NEW m \in 0 .. Len(parser),
           parser' = SubSeq(parser, m + 1, Len(parser))
    PROVE  Owners' \subseteq Owners
<1> DEFINE E == [conn : up, unit : SentUnit]
<1>1. parser \in Seq(E) /\ DOMAIN parser = 1 .. Len(parser)
  BY ParserProperties DEF ServerTypes
<1>2. DOMAIN parser' = 1 .. Len(parser')
  BY ParserProperties DEF ServerTypes
<1> HIDE DEF E
<1>3. /\ Len(parser') = Len(parser) - m
      /\ \A i \in 1 .. Len(parser) - m : parser'[i] = parser[m + i] /\ m + i \in 1 .. Len(parser)
  <2> DEFINE rest == SubSeq(parser, m + 1, Len(parser))
  <2>1. /\ rest \in Seq(E)
        /\ Len(rest) = Len(parser) - m
        /\ \A i \in 1 .. Len(parser) - m : /\ rest[i] = parser[m + i]
                                          /\ m + i \in 1 .. Len(parser)
                                          /\ \A k \in 1 .. m : m + i # k
    <3>1. parser \in Seq(E)
      BY <1>1
    <3> HIDE DEF E
    <3> QED BY ONLY <3>1, m \in 0 .. Len(parser), Dropped
  <2>2. parser' = rest
    OBVIOUS
  <2> HIDE DEF rest
  <2> QED BY <2>1, <2>2
<1>4. \A i \in DOMAIN parser' : parser'[i].conn \in Owners
  <2> SUFFICES ASSUME NEW i \in 1 .. Len(parser') PROVE parser'[i].conn \in Owners
    BY <1>2
  <2>1. parser'[i] = parser[m + i] /\ m + i \in DOMAIN parser
    BY <1>1, <1>3
  <2> QED BY <2>1 DEF Owners
<1> QED BY <1>4 DEF Owners

LEMMA AloneNext ==
    ASSUME RegistryServerAssumption, AloneInv, [Next]_vars
    PROVE  AloneInv'
<1>1. ServerTypes /\ ServerTypes'
  BY ServerTypesNext DEF AloneInv
<1>2. /\ thread \in [Conns -> [at : {"idle", "parsing", "handling"}, packets : Seq(Packets)]]
      /\ handled \in [Conns -> Seq(Packets)] /\ received \in [Conns -> Nat] /\ up \subseteq Conns
  BY <1>1 DEF ServerTypes
<1>3. SUFFICES ASSUME NEW c \in up', c \notin disturbed'
               PROVE  \E k \in 0 .. Len(Sent[c]) : Served(c, k)'
  BY <1>1 DEF AloneInv
<1>4. c \in Conns /\ Len(Sent[c]) \in Nat
  BY <1>1, <1>3, StreamProperties DEF ServerTypes
<1>5. ASSUME c \in up, c \notin disturbed
      PROVE  \E k \in 0 .. Len(Sent[c]) : Served(c, k)
  BY <1>5 DEF AloneInv
<1>6. ASSUME up' = up, disturbed' = disturbed, parser' = parser, received' = received,
             Pipe(c)' = Pipe(c), thread'[c].at # "parsing" => thread[c].at # "parsing"
      PROVE  \E k \in 0 .. Len(Sent[c]) : Served(c, k)'
  <2>1. PICK k \in 0 .. Len(Sent[c]) : Served(c, k)
    BY <1>3, <1>5, <1>6
  <2>2. thread'[c].at # "parsing" /\ k < Len(Sent[c]) => received[c] < End(c, k + 1)
    BY <1>6, <2>1 DEF Served
  <2>3. Served(c, k)'
    BY <1>4, <1>6, <2>1, <2>2, AloneKept
  <2> QED BY <2>3
<1>7. ASSUME c \in up, c \notin disturbed, c \notin Owners, c \notin Owners',
             received'[c] = received[c], Pipe(c)' = Pipe(c), thread'[c].at = thread[c].at
      PROVE  \E k \in 0 .. Len(Sent[c]) : Served(c, k)'
  <2>1. PICK k \in 0 .. Len(Sent[c]) : Served(c, k)
    BY <1>3, <1>5, <1>7
  <2>2. Served(c, k)'
    BY <1>1, <1>4, <1>7, <2>1, AloneOther
  <2> QED BY <2>2
<1>8. ASSUME NEW d \in Conns, OnConnection(d)
      PROVE  \E k \in 0 .. Len(Sent[c]) : Served(c, k)'
  <2>1. CASE d = c
    <3>1. Served(c, 0)'
      BY <1>1, <1>4, <1>8, <2>1, AloneConnects
    <3> QED BY <1>4, <3>1
  <2>2. CASE d # c
    <3>1. /\ up' = up \cup {d} /\ parser' = <<>> /\ disturbed' = disturbed \cup Owners
          /\ UNCHANGED <<received, thread, handled>>
      BY <1>8 DEF OnConnection
    <3>2. c \in up /\ c \notin disturbed /\ c \notin Owners
      BY <1>3, <2>2, <3>1
    <3>3. c \notin Owners'
      BY <3>1, EmptySeq DEF Owners
    <3>4. Pipe(c)' = Pipe(c)
      BY <3>1 DEF Pipe
    <3> QED BY <1>7, <3>1, <3>2, <3>3, <3>4
  <2> QED BY <2>1, <2>2
<1>9. ASSUME NEW d \in Conns, HandlePacket(d)
      PROVE  \E k \in 0 .. Len(Sent[c]) : Served(c, k)'
  <2>1. /\ thread[d].packets # <<>> /\ thread[d].at = "handling"
        /\ handled' = [handled EXCEPT ![d] = Append(handled[d], Head(thread[d].packets))]
        /\ thread' = [thread EXCEPT ![d].packets = Tail(thread[d].packets)]
        /\ UNCHANGED <<up, received, parser, disturbed>>
    BY <1>9 DEF HandlePacket, Runs
  <2>2. c # d => Pipe(c)' = Pipe(c)
    BY <1>2, <1>4, <2>1 DEF Pipe
  <2>3. c = d => Pipe(c)' = Pipe(c)
    <3> SUFFICES ASSUME c = d PROVE Pipe(c)' = Pipe(c)
      OBVIOUS
    <3> DEFINE h == handled[c]
               t == thread[c].packets
    <3>1. h \in Seq(Packets) /\ t \in Seq(Packets) /\ t # <<>>
      BY <1>2, <1>4, <2>1
    <3>2. handled'[c] = Append(h, Head(t)) /\ thread'[c].packets = Tail(t)
      BY <1>2, <1>4, <2>1
    <3>3. Pipe(c)' = Append(h, Head(t)) \o Tail(t)
      BY <3>2 DEF Pipe
    <3>4. Pipe(c) = h \o t
      BY DEF Pipe
    <3> HIDE DEF h, t
    <3> QED BY <3>1, <3>3, <3>4, Moved
  <2>4. thread'[c].at = thread[c].at
    BY <1>2, <1>4, <2>1
  <2> QED BY <1>6, <2>1, <2>2, <2>3, <2>4
<1>10. ASSUME NEW d \in Conns, OnMessageReturns(d)
       PROVE  \E k \in 0 .. Len(Sent[c]) : Served(c, k)'
  <2>1. /\ thread[d].at = "handling" /\ thread' = [thread EXCEPT ![d].at = "idle"]
        /\ UNCHANGED <<up, received, parser, handled, disturbed>>
    BY <1>10 DEF OnMessageReturns, Runs
  <2>2. thread'[c].packets = thread[c].packets
        /\ (thread'[c].at # "parsing" => thread[c].at # "parsing")
    BY <1>2, <1>4, <2>1
  <2>3. Pipe(c)' = Pipe(c)
    BY <2>1, <2>2 DEF Pipe
  <2> QED BY <1>6, <2>1, <2>2, <2>3
<1>11. ASSUME NEW d \in Conns, NEW n \in 1 .. Len(Stream(d)), Feed(d, n)
       PROVE  \E k \in 0 .. Len(Sent[c]) : Served(c, k)'
  <2>1. /\ disturbed' = disturbed \cup Meets(d) /\ UNCHANGED <<up, handled>>
        /\ received' = [received EXCEPT ![d] = received[d] + n]
        /\ thread' = [thread EXCEPT ![d].at = "parsing"]
    BY <1>1, <1>11, Feeds
  <2>2. c \in up /\ c \notin disturbed
    BY <1>3, <2>1
  <2>3. CASE d = c
    <3>1. PICK k \in 0 .. Len(Sent[c]) : Served(c, k)
      BY <1>3, <1>5, <2>2
    <3>2. Served(c, k)'
      BY <1>1, <1>3, <1>4, <1>11, <2>3, <3>1, AloneFeeds
    <3> QED BY <3>2
  <2>4. CASE d # c
    <3>1. c \notin Owners
      BY <1>3, <2>1, <2>4 DEF Meets
    <3>2. c \notin Owners'
      <4>1. /\ Len(parser) \in Nat /\ n \in Nat /\ Len(parser') = Len(parser) + n
            /\ \A i \in 1 .. Len(parser) : parser'[i] = parser[i]
            /\ \A i \in 1 .. n : parser'[Len(parser) + i].conn = d
        <5>1. /\ Len(parser) \in Nat /\ n \in Nat /\ Len(parser') = Len(parser) + n
              /\ \A i \in 1 .. Len(parser) : parser'[i] = parser[i]
              /\ \A i \in 1 .. n : parser'[Len(parser) + i] =
                    [conn |-> d, unit |-> Stream(d)[received[d] + i]]
          BY <1>1, <1>11, Feeds
        <5>2. ASSUME NEW i \in 1 .. n PROVE parser'[Len(parser) + i].conn = d
          <6>1. parser'[Len(parser) + i] = [conn |-> d, unit |-> Stream(d)[received[d] + i]]
            BY <5>1
          <6> QED BY <6>1
        <5> QED BY <5>1, <5>2
      <4>2. DOMAIN parser' = 1 .. Len(parser') /\ DOMAIN parser = 1 .. Len(parser)
        BY <1>1, ParserProperties DEF ServerTypes
      <4>3. ASSUME NEW i \in 1 .. Len(parser') PROVE parser'[i].conn # c
        <5>1. CASE i \in 1 .. Len(parser)
          BY <3>1, <4>1, <4>2, <5>1 DEF Owners
        <5>2. CASE i \notin 1 .. Len(parser)
          <6>1. i - Len(parser) \in 1 .. n /\ i = Len(parser) + (i - Len(parser))
            BY <4>1, <5>2
          <6> QED BY <2>4, <4>1, <6>1
        <5> QED BY <5>1, <5>2
      <4> QED BY <4>2, <4>3 DEF Owners
    <3>3. received'[c] = received[c] /\ thread'[c] = thread[c]
      BY <1>2, <1>4, <2>1, <2>4
    <3>4. Pipe(c)' = Pipe(c)
      BY <2>1, <3>3 DEF Pipe
    <3> QED BY <1>7, <2>2, <3>1, <3>2, <3>3, <3>4
  <2> QED BY <2>3, <2>4
<1>12. ASSUME NEW d \in Conns, NEW outcome \in Outcomes, NEW skip \in {1, Len(parser)},
              Parse(d, outcome, skip)
       PROVE  \E k \in 0 .. Len(Sent[c]) : Served(c, k)'
  <2>1. /\ disturbed' = disturbed \cup Meets(d) /\ UNCHANGED <<up, received, handled>>
    BY <1>1, <1>12, Parses
  <2>2. c \in up /\ c \notin disturbed
    BY <1>3, <2>1
  <2>3. CASE d = c
    <3>1. PICK k \in 0 .. Len(Sent[c]) : Served(c, k)
      BY <1>3, <1>5, <2>2
    <3> QED BY <1>1, <1>3, <1>4, <1>12, <2>3, <3>1, AloneParses
  <2>4. CASE d # c
    <3>1. c \notin Owners
      BY <1>3, <2>1, <2>4 DEF Meets
    <3>2. thread'[c] = thread[c]
      <4>1. \/ thread' = thread
            \/ thread' = [thread EXCEPT ![d].at = "handling"]
            \/ thread' = [thread EXCEPT ![d].packets = Append(@, Parsed(Units))]
        BY <1>1, <1>12, Parses
      <4> QED BY <1>2, <1>4, <2>4, <4>1
    <3>3. c \notin Owners'
      <4>1. PICK m \in 0 .. Len(parser) : parser' = SubSeq(parser, m + 1, Len(parser))
        BY <1>1, <1>12, Remains
      <4> QED BY <1>1, <3>1, <4>1, OwnersLeft
    <3>4. Pipe(c)' = Pipe(c) /\ received'[c] = received[c]
      BY <2>1, <3>2 DEF Pipe
    <3> QED BY <1>7, <2>2, <3>1, <3>2, <3>3, <3>4
  <2> QED BY <2>3, <2>4
<1>13. ASSUME NEW d \in Conns, NEW e \in Conns, Race(d, e)
       PROVE  \E k \in 0 .. Len(Sent[c]) : Served(c, k)'
  <2>1. UNCHANGED <<up, received, parser, thread, handled, disturbed>>
    BY <1>13 DEF Race
  <2>2. Pipe(c)' = Pipe(c)
    BY <2>1 DEF Pipe
  <2> QED BY <1>6, <2>1, <2>2
<1>14. CASE UNCHANGED vars
  <2>1. UNCHANGED <<up, received, parser, thread, handled, disturbed>>
    BY <1>14 DEF vars
  <2>2. Pipe(c)' = Pipe(c)
    BY <2>1 DEF Pipe
  <2> QED BY <1>6, <2>1, <2>2
<1> QED BY <1>8, <1>9, <1>10, <1>11, <1>12, <1>13, <1>14 DEF Next

\* What is answered to the packets h, one after the other.
Responses(h) == FlattenSeq([i \in DOMAIN h |-> Response(h[i])])

AnswerRecord == [seq : Nat, success : BOOLEAN]

LEMMA ResponseType ==
    ASSUME RegistryServerAssumption, NEW p \in Packets
    PROVE  Response(p) \in Seq(AnswerRecord)
<1>1. p \in AiSchedulePacket
  BY PacketsType
<1>2. p.seq \in Nat
  BY <1>1 DEF AiSchedulePacket
<1>3. FromJsonSucceeds(p) \in BOOLEAN
  BY DEF FromJsonSucceeds
<1>4. [seq |-> p.seq, success |-> FromJsonSucceeds(p)] \in AnswerRecord
      /\ [seq |-> p.seq, success |-> TRUE] \in AnswerRecord
  BY <1>2, <1>3 DEF AnswerRecord
<1> HIDE DEF AnswerRecord
<1>5. \A e \in AnswerRecord : <<e>> \in Seq(AnswerRecord)
  OBVIOUS
<1>6. Response(p) \in {<<>>, <<[seq |-> p.seq, success |-> FromJsonSucceeds(p)]>>,
                       <<[seq |-> p.seq, success |-> TRUE]>>}
  <2>1. CASE p.type = "REGISTER_WORKER"
    BY <2>1 DEF Response
  <2>2. CASE p.type = "TASK_QUERY" /\ FromJsonSucceeds(p)
    BY <2>2 DEF Response
  <2>3. CASE ~(p.type = "REGISTER_WORKER") /\ ~(p.type = "TASK_QUERY" /\ FromJsonSucceeds(p))
    BY <2>3 DEF Response
  <2> QED BY <2>1, <2>2, <2>3
<1> QED BY <1>4, <1>5, <1>6, EmptySeq

LEMMA ResponsesStep ==
    ASSUME RegistryServerAssumption, NEW h \in Seq(Packets), NEW p \in Packets
    PROVE  Responses(<<>>) = <<>> /\ Responses(Append(h, p)) = Responses(h) \o Response(p)
<1> DEFINE g == Append(h, p)
           n == Len(h)
           s == [i \in 1 .. n + 1 |-> Response(g[i])]
<1>1. /\ n \in Nat /\ DOMAIN h = 1 .. n /\ \A i \in 1 .. n : h[i] \in Packets
      /\ g \in Seq(Packets) /\ Len(g) = n + 1 /\ DOMAIN g = 1 .. n + 1
      /\ \A i \in 1 .. n : g[i] = h[i]
      /\ g[n + 1] = p
  <2>1. n \in Nat /\ DOMAIN h = 1 .. n /\ \A i \in 1 .. n : h[i] \in Packets
    BY LenProperties, ElementOfSeq
  <2>2. /\ g \in Seq(Packets) /\ Len(g) = n + 1
        /\ \A i \in 1 .. n : g[i] = h[i]
        /\ g[n + 1] = p
    BY AppendProperties
  <2>3. DOMAIN g = 1 .. n + 1
    BY <2>2, LenProperties
  <2> QED BY <2>1, <2>2, <2>3
<1> HIDE DEF g, n
<1>2. n + 1 \in Nat /\ n + 1 \in 1 .. n + 1 /\ (n + 1) - 1 = n
      /\ \A i \in 1 .. n : i \in 1 .. n + 1
  BY <1>1
<1>3. \A i \in 1 .. n + 1 : g[i] \in Packets
  BY <1>1, <1>2, ElementOfSeq
<1>4. s \in Seq(Seq(AnswerRecord)) /\ Len(s) = n + 1
  <2>1. s \in [1 .. n + 1 -> Seq(AnswerRecord)]
    BY <1>3, ResponseType
  <2>2. DOMAIN s = 1 .. n + 1
    OBVIOUS
  <2> HIDE DEF s
  <2>3. s \in Seq(Seq(AnswerRecord))
    BY <1>2, <2>1, SeqDef
  <2>4. Len(s) = n + 1
    BY <1>2, <2>2, <2>3, LenProperties
  <2> QED BY <2>3, <2>4
<1>5. Flat(s, 0) = <<>> /\ Flat(s, n + 1) = Flat(s, n) \o s[n + 1]
  <2> HIDE DEF s
  <2> DEFINE l == n + 1
  <2>1. l \in 1 .. Len(s) /\ l - 1 = n
    BY <1>2, <1>4
  <2> HIDE DEF l
  <2>2. Flat(s, 0) = <<>> /\ Flat(s, l) = Flat(s, l - 1) \o s[l]
    BY <1>4, <2>1, FlatStep
  <2>3. Flat(s, l) = Flat(s, n) \o s[l]
    BY <2>1, <2>2
  <2> QED BY <2>2, <2>3 DEF l
<1>6. Responses(g) = Flat(s, n + 1)
  <2>1. [i \in DOMAIN g |-> Response(g[i])] = [i \in 1 .. n + 1 |-> s[i]]
    BY <1>1
  <2> QED BY <2>1 DEF Responses, Flat
<1>7. Responses(h) = Flat(s, n)
  <2>1. [i \in DOMAIN h |-> Response(h[i])] = [i \in 1 .. n |-> s[i]]
    BY <1>1, <1>2
  <2> QED BY <2>1 DEF Responses, Flat
<1>8. s[n + 1] = Response(p)
  BY <1>1, <1>2
<1>9. Responses(<<>>) = <<>>
  <2>1. DOMAIN <<>> = {} /\ 1 .. 0 = {}
    BY EmptySeq
  <2>2. [i \in DOMAIN <<>> |-> Response(<<>>[i])] = [i \in 1 .. 0 |-> s[i]]
    BY <2>1
  <2> QED BY <1>5, <2>2 DEF Responses, Flat
<1> QED BY <1>5, <1>6, <1>7, <1>8, <1>9 DEF g

\* Every packet handled is answered where it was parsed.
AnswersInv == answers = [c \in Conns |-> Responses(handled[c])]

LEMMA AnswersInit == RegistryServerAssumption /\ Init => AnswersInv
<1> SUFFICES ASSUME RegistryServerAssumption, Init PROVE AnswersInv
  OBVIOUS
<1>1. Responses(<<>>) = <<>>
  <2>1. FlattenSeq([i \in 1 .. 0 |-> <<>>[i]]) = <<>>
    BY EmptySeq, FlatStep DEF Flat
  <2>2. [i \in DOMAIN <<>> |-> Response(<<>>[i])] = [i \in 1 .. 0 |-> <<>>[i]]
    BY EmptySeq
  <2> QED BY <2>1, <2>2 DEF Responses
<1> QED BY <1>1 DEF AnswersInv, Init

LEMMA AnswersNext ==
    ASSUME RegistryServerAssumption, ServerTypes, AnswersInv, [Next]_vars
    PROVE  AnswersInv'
<1>1. /\ handled \in [Conns -> Seq(Packets)]
      /\ thread \in [Conns -> [at : {"idle", "parsing", "handling"}, packets : Seq(Packets)]]
      /\ answers = [c \in Conns |-> Responses(handled[c])]
  BY DEF ServerTypes, AnswersInv
<1>2. ASSUME UNCHANGED <<handled, answers>> PROVE AnswersInv'
  BY <1>1, <1>2 DEF AnswersInv, Responses, Response
<1>3. ASSUME NEW c \in Conns, HandlePacket(c) PROVE AnswersInv'
  <2> DEFINE t == thread[c].packets
             p == Head(t)
  <2>1. /\ t # <<>> /\ t \in Seq(Packets)
        /\ handled' = [handled EXCEPT ![c] = Append(handled[c], p)]
        /\ answers' = [answers EXCEPT ![c] = answers[c] \o Response(p)]
    BY <1>1, <1>3 DEF HandlePacket
  <2>2. p \in Packets
    <3> HIDE DEF t
    <3> QED BY <2>1, HeadTailProperties
  <2> HIDE DEF p
  <2>3. Responses(Append(handled[c], p)) = Responses(handled[c]) \o Response(p)
    BY <1>1, <2>2, ResponsesStep
  <2>4. answers' = [d \in Conns |-> Responses(handled'[d])]
    BY <1>1, <2>1, <2>3
  <2>5. \A h : Responses(h)' = Responses(h)
    BY DEF Responses, Response
  <2> QED BY <2>4 DEF AnswersInv, Responses, Response
<1>4. UNCHANGED <<handled, answers>> \/ \E c \in Conns : HandlePacket(c)
  <2>1. ASSUME NEW c \in Conns, NEW n \in 1 .. Len(Stream(c)), Feed(c, n)
        PROVE  UNCHANGED <<handled, answers>>
    BY <2>1 DEF Feed
  <2>2. ASSUME NEW c \in Conns, NEW outcome \in Outcomes, NEW skip \in {1, Len(parser)},
               Parse(c, outcome, skip)
        PROVE  UNCHANGED <<handled, answers>>
    BY <2>2 DEF Parse
  <2>3. ASSUME NEW c \in Conns, NEW d \in Conns, Race(c, d)
        PROVE  UNCHANGED <<handled, answers>>
    BY <2>3 DEF Race
  <2>4. ASSUME NEW c \in Conns, OnConnection(c) \/ OnMessageReturns(c)
        PROVE  UNCHANGED <<handled, answers>>
    BY <2>4 DEF OnConnection, OnMessageReturns
  <2>5. CASE UNCHANGED vars
    BY <2>5 DEF vars
  <2> QED BY <2>1, <2>2, <2>3, <2>4, <2>5 DEF Next
<1> QED BY <1>2, <1>3, <1>4

\* The packets that are whole in what c has read are those its thread parsed.
LEMMA WholeServed ==
    ASSUME RegistryServerAssumption, ServerTypes, NEW c \in Conns, thread[c].at = "idle",
           NEW k \in 0 .. Len(Sent[c]), Served(c, k)
    PROVE  handled[c] = Whole(c, received[c])
<1> DEFINE n == received[c]
           Fits(j) == End(c, j) <= n /\ (j < Len(Sent[c]) => End(c, j + 1) > n)
<1>1. /\ Sent[c] \in Seq(Packets) /\ Len(Sent[c]) \in Nat
      /\ \A j \in 0 .. Len(Sent[c]) : End(c, j) \in Nat
      /\ \A i \in 0 .. Len(Sent[c]) : \A j \in i .. Len(Sent[c]) : End(c, i) <= End(c, j)
  BY StreamProperties
<1>2. n \in Nat
  BY DEF ServerTypes
<1>3. k \in 0 .. Len(Sent[c]) /\ End(c, k) <= n /\ (k < Len(Sent[c]) => n < End(c, k + 1))
  BY DEF Served
<1>4. ASSUME NEW j \in 0 .. Len(Sent[c]), Fits(j) PROVE j = k
  <2>1. CASE j < k
    <3>1. j < Len(Sent[c]) /\ j + 1 \in 0 .. Len(Sent[c]) /\ k \in j + 1 .. Len(Sent[c])
      BY <1>1, <1>3, <2>1
    <3>2. End(c, j + 1) <= End(c, k) /\ End(c, j + 1) \in Nat /\ End(c, k) \in Nat
      BY <1>1, <1>3, <3>1
    <3>3. End(c, j + 1) > n
      BY <1>4, <3>1
    <3> QED BY <1>2, <1>3, <3>2, <3>3
  <2>2. CASE k < j
    <3>1. k < Len(Sent[c]) /\ k + 1 \in 0 .. Len(Sent[c]) /\ j \in k + 1 .. Len(Sent[c])
      BY <1>1, <1>3, <2>2
    <3>2. End(c, k + 1) <= End(c, j) /\ End(c, k + 1) \in Nat /\ End(c, j) \in Nat
      BY <1>1, <3>1
    <3>3. End(c, j) <= n /\ n < End(c, k + 1)
      BY <1>3, <1>4, <3>1
    <3> QED BY <1>2, <3>2, <3>3
  <2> QED BY <1>1, <2>1, <2>2
<1>5. Fits(k)
  <2>1. k < Len(Sent[c]) => End(c, k + 1) \in Nat
    BY <1>1
  <2> QED BY <1>2, <1>3, <2>1
<1>6. k = CHOOSE j \in 0 .. Len(Sent[c]) : Fits(j)
  <2> HIDE DEF Fits
  <2> QED BY <1>4, <1>5
<1>7. Whole(c, n) = SubSeq(Sent[c], 1, k)
  BY <1>6 DEF Whole, End
<1> HIDE DEF n, Fits
<1>8. /\ SubSeq(Sent[c], 1, k) \in Seq(Packets) /\ Len(SubSeq(Sent[c], 1, k)) = k
      /\ \A i \in 1 .. k : SubSeq(Sent[c], 1, k)[i] = Sent[c][i]
  <2> DEFINE s == Sent[c]
  <2>1. s \in Seq(Packets) /\ Len(s) \in Nat /\ k \in 0 .. Len(s)
    BY <1>1
  <2> HIDE DEF s
  <2>2. \A i \in 1 .. k : i \in 1 .. Len(s)
    BY <2>1
  <2>3. /\ SubSeq(s, 1, k) \in Seq(Packets)
        /\ Len(SubSeq(s, 1, k)) = (IF 1 <= k + 1 THEN k - 1 + 1 ELSE 0)
        /\ \A i \in 1 .. k - 1 + 1 : SubSeq(s, 1, k)[i] = s[1 + i - 1]
    BY <2>1, <2>2, SubSeqProperties
  <2>4. 1 <= k + 1 /\ k - 1 + 1 = k /\ \A i \in 1 .. k : 1 + i - 1 = i
    BY <2>1
  <2> QED BY <2>3, <2>4 DEF s
<1>9. handled[c] \in Seq(Packets) /\ Pipe(c) = handled[c]
  <2>1. handled[c] \in Seq(Packets) /\ thread[c].packets = <<>>
    BY PipeType DEF ServerTypes
  <2> QED BY <2>1, ConcatEmptySeq DEF Pipe
<1>10. Len(handled[c]) = k /\ \A i \in 1 .. k : handled[c][i] = Sent[c][i]
  BY <1>9 DEF Served
<1>11. handled[c] = SubSeq(Sent[c], 1, k)
  <2> DEFINE a == handled[c]
             b == SubSeq(Sent[c], 1, k)
  <2>1. a \in Seq(Packets) /\ b \in Seq(Packets) /\ Len(a) = k /\ Len(b) = k
        /\ \A i \in 1 .. k : a[i] = b[i]
    BY <1>8, <1>9, <1>10
  <2> HIDE DEF a, b
  <2>2. a = b
    BY <2>1, SeqEqual
  <2> QED BY <2>2 DEF a, b
<1> QED BY <1>7, <1>11 DEF n

\* A connection whose bytes meet no other's in the shared parser is served as
\* if it were alone: whatever the reads, the packets that have arrived were
\* handled, each once and in the order of sending, and answered to it.
THEOREM ServedAsAloneCorrect == Spec => []ServedAsAlone
<1> USE RegistryServerAssumption
<1>1. Init => AloneInv /\ AnswersInv
  <2> SUFFICES ASSUME Init PROVE AloneInv /\ AnswersInv
    OBVIOUS
  <2>1. up = {}
    BY DEF Init
  <2> QED BY <2>1, ServerTypesInit, AnswersInit DEF AloneInv
<1>2. AloneInv /\ AnswersInv /\ [Next]_vars => AloneInv' /\ AnswersInv'
  BY AloneNext, AnswersNext DEF AloneInv
<1>3. AloneInv /\ AnswersInv => ServedAsAlone
  <2> SUFFICES ASSUME AloneInv, AnswersInv,
                      NEW c \in up \ disturbed, ~undefined, thread[c].at = "idle"
               PROVE  LET whole == Whole(c, received[c])
                      IN  /\ handled[c] = whole
                          /\ answers[c] = FlattenSeq([i \in DOMAIN whole |->
                                 CASE whole[i].type = "REGISTER_WORKER" ->
                                        <<[seq |-> whole[i].seq,
                                           success |-> WorkerRegisterReq \subseteq whole[i].fields]>>
                                   [] whole[i].type = "TASK_QUERY" /\ "task_id" \in whole[i].fields ->
                                        <<[seq |-> whole[i].seq, success |-> TRUE]>>
                                   [] OTHER -> <<>>])
    BY DEF ServedAsAlone
  <2>1. c \in Conns
    BY DEF AloneInv, ServerTypes
  <2>2. PICK k \in 0 .. Len(Sent[c]) : Served(c, k)
    BY DEF AloneInv
  <2> DEFINE whole == Whole(c, received[c])
             Answer(p) == CASE p.type = "REGISTER_WORKER" ->
                                 <<[seq |-> p.seq, success |-> WorkerRegisterReq \subseteq p.fields]>>
                            [] p.type = "TASK_QUERY" /\ "task_id" \in p.fields ->
                                 <<[seq |-> p.seq, success |-> TRUE]>>
                            [] OTHER -> <<>>
  <2>3. handled[c] = whole
    BY <2>1, <2>2, WholeServed DEF AloneInv
  <2>4. answers[c] = Responses(whole)
    BY <2>1, <2>3 DEF AnswersInv
  <2> HIDE DEF whole
  <2>5. \A p : Response(p) = Answer(p)
    <3> SUFFICES ASSUME NEW p PROVE Response(p) = Answer(p)
      OBVIOUS
    <3>1. CASE p.type = "REGISTER_WORKER"
      BY <3>1 DEF Response, FromJsonSucceeds, Required
    <3>2. CASE p.type = "TASK_QUERY"
      <4>1. FromJsonSucceeds(p) <=> "task_id" \in p.fields
        BY <3>2 DEF FromJsonSucceeds, Required, TaskQueryReq
      <4> QED BY <3>2, <4>1 DEF Response
    <3>3. CASE p.type # "REGISTER_WORKER" /\ p.type # "TASK_QUERY"
      BY <3>3 DEF Response
    <3> QED BY <3>1, <3>2, <3>3
  <2>6. Responses(whole) = FlattenSeq([i \in DOMAIN whole |-> Answer(whole[i])])
    BY <2>5 DEF Responses
  <2> QED BY <2>3, <2>4, <2>6 DEF whole
<1> QED BY <1>1, <1>2, <1>3, PTL DEF Spec
=============================================================================
