-------------------------- MODULE StructureProofs --------------------------
(* The data structures of IAL.  The linked lists of its first project, for any number *)
(* of elements and any order of calls: each is a sequence of values with a cursor.    *)
(* Then its queue in an array, and the hash table of its second project, for every    *)
(* size, every set of keys that hash into the table and every order of calls.         *)
EXTENDS DoublyLinkedList, SinglyLinkedList, Queue, HashTable, TLAPS, FiniteSetTheorems,
        WellFoundedInduction

-----------------------------------------------------------------------------
(* Sequences.                                                              *)

\* What InsertAt puts where.
LEMMA InsertedPlaces ==
  ASSUME NEW V, NEW s \in Seq(V), NEW k \in 1 .. Len(s) + 1, NEW e \in V
  PROVE  /\ InsertAt(s, k, e) \in Seq(V) /\ Len(InsertAt(s, k, e)) = Len(s) + 1
         /\ \A i \in 1 .. Len(s) + 1 :
              InsertAt(s, k, e)[i] = IF i < k THEN s[i] ELSE IF i = k THEN e ELSE s[i - 1]
<1> DEFINE a == SubSeq(s, 1, k - 1)
           b == SubSeq(s, k, Len(s))
           front == a \o <<e>>
           t == InsertAt(s, k, e)
<1>1. a \in Seq(V) /\ Len(a) = k - 1 /\ \A i \in 1 .. k - 1 : a[i] = s[i]
  OBVIOUS
<1>2. /\ b \in Seq(V) /\ Len(b) = Len(s) - k + 1
      /\ \A i \in 1 .. Len(s) - k + 1 : b[i] = s[k + i - 1]
  OBVIOUS
<1>3. t = front \o b
  BY DEF InsertAt
<1> HIDE DEF a, b, t
<1>4. /\ front \in Seq(V) /\ Len(front) = k /\ front[k] = e
      /\ \A i \in 1 .. k - 1 : front[i] = s[i]
  BY <1>1
<1> HIDE DEF front
<1>5. t \in Seq(V) /\ Len(t) = Len(s) + 1
  BY <1>2, <1>3, <1>4
<1>6. ASSUME NEW i \in 1 .. Len(s) + 1
      PROVE  t[i] = IF i < k THEN s[i] ELSE IF i = k THEN e ELSE s[i - 1]
  <2>1. CASE i =< k
    <3>1. t[i] = front[i]
      BY <2>1, <1>2, <1>3, <1>4, <1>5
    <3> QED BY <2>1, <3>1, <1>4
  <2>2. CASE i > k
    <3>1. t[i] = b[i - k] /\ i - k \in 1 .. Len(s) - k + 1
      BY <2>2, <1>2, <1>3, <1>4, <1>5
    <3> QED BY <2>2, <3>1, <1>2
  <2> QED BY <2>1, <2>2
<1> QED BY <1>5, <1>6 DEF t

\* What RemoveAt leaves where.
LEMMA RemainingPlaces ==
  ASSUME NEW V, NEW s \in Seq(V), NEW k \in 1 .. Len(s)
  PROVE  /\ RemoveAt(s, k) \in Seq(V) /\ Len(RemoveAt(s, k)) = Len(s) - 1
         /\ \A i \in 1 .. Len(s) - 1 : RemoveAt(s, k)[i] = IF i < k THEN s[i] ELSE s[i + 1]
<1> DEFINE a == SubSeq(s, 1, k - 1)
           b == SubSeq(s, k + 1, Len(s))
           t == RemoveAt(s, k)
<1>1. a \in Seq(V) /\ Len(a) = k - 1 /\ \A i \in 1 .. k - 1 : a[i] = s[i]
  OBVIOUS
<1>2. /\ b \in Seq(V) /\ Len(b) = Len(s) - k
      /\ \A i \in 1 .. Len(s) - k : b[i] = s[k + i]
  OBVIOUS
<1>3. t = a \o b
  BY DEF RemoveAt
<1> HIDE DEF a, b, t
<1>4. t \in Seq(V) /\ Len(t) = Len(s) - 1
  BY <1>1, <1>2, <1>3
<1>5. ASSUME NEW i \in 1 .. Len(t)
      PROVE  t[i] = IF i < k THEN s[i] ELSE s[i + 1]
  <2>1. CASE i < k
    BY <2>1, <1>1, <1>2, <1>3, <1>4
  <2>2. CASE ~(i < k)
    <3>1. t[i] = b[i - (k - 1)] /\ i - (k - 1) \in 1 .. Len(s) - k
      BY <2>2, <1>1, <1>2, <1>3, <1>4
    <3> QED BY <2>2, <3>1, <1>2
  <2> QED BY <2>1, <2>2
<1> QED BY <1>4, <1>5 DEF t

\* Sequences with the same elements in the same places are equal.
LEMMA SameSequence ==
  ASSUME NEW V, NEW s \in Seq(V), NEW t \in Seq(V), Len(s) = Len(t),
         \A i \in 1 .. Len(s) : s[i] = t[i]
  PROVE  s = t
OBVIOUS

-----------------------------------------------------------------------------
(* The chain.                                                              *)

\* The element at a place of s, NULL beyond both ends.
At(s, i) == IF i \in 1 .. Len(s) THEN s[i] ELSE NULL

\* The allocated elements, in the order of nextElement, are s.
Chained(s) ==
  /\ s \in Seq(Elements)
  /\ \A i, j \in 1 .. Len(s) : s[i] = s[j] => i = j
  /\ allocated = {s[i] : i \in 1 .. Len(s)}
  /\ firstElement = At(s, 1)
  /\ \A i \in 1 .. Len(s) : nextElement[s[i]] = At(s, i + 1)

\* They are s, and the active one is at place c.
Shown(s, c) == Chained(s) /\ c \in 0 .. Len(s) /\ activeElement = At(s, c)

\* The data and the links of every element.
Shaped ==
  /\ data = [x \in Elements |-> data[x]]
  /\ nextElement = [x \in Elements |-> nextElement[x]]

ValuesOf(s) == [i \in 1 .. Len(s) |-> data[s[i]]]

\* The same for the links back.
Backwards(s) ==
  /\ previousElement = [x \in Elements |-> previousElement[x]]
  /\ lastElement = At(s, Len(s))
  /\ \A i \in 1 .. Len(s) : previousElement[s[i]] = At(s, i - 1)

\* An element of the chain is no NULL.
LEMMA Places ==
  ASSUME NEW s, Chained(s)
  PROVE  /\ Len(s) \in Nat
         /\ \A i \in 1 .. Len(s) : s[i] \in Elements /\ s[i] \in allocated /\ s[i] # NULL
         /\ \A i \in Int : At(s, i) = NULL <=> i \notin 1 .. Len(s)
         /\ \A i, j \in 1 .. Len(s) : At(s, i) = At(s, j) => i = j
<1>1. s \in Seq(Elements) /\ allocated = {s[i] : i \in 1 .. Len(s)}
  BY DEF Chained
<1>2. \A i \in 1 .. Len(s) : s[i] \in Elements /\ s[i] \in allocated /\ s[i] # NULL
  BY <1>1, ElementsAssumption
<1>3. \A i \in Int : At(s, i) = NULL <=> i \notin 1 .. Len(s)
  BY <1>2 DEF At
<1>4. \A i, j \in 1 .. Len(s) : At(s, i) = At(s, j) => i = j
  BY DEF At, Chained
<1> QED BY <1>1, <1>2, <1>3, <1>4

\* nextElement leads through one chain only.
LEMMA OneChain ==
  ASSUME NEW s, NEW t, Chained(s), t \in Seq(Elements), IsChain(t)
  PROVE  s = t
<1> DEFINE Less == {p \in Nat \X Nat : p[1] < p[2]}
           Differ == {i \in Nat \ {0} : At(s, i) # At(t, i)}
<1>1. /\ Len(s) \in Nat /\ Len(t) \in Nat /\ DOMAIN t = 1 .. Len(t) /\ s \in Seq(Elements)
      /\ \A i \in 1 .. Len(s) : s[i] # NULL
      /\ \A i \in 1 .. Len(t) : t[i] # NULL
  BY Places, ElementsAssumption DEF Chained
<1>2. firstElement = At(t, 1) /\ \A i \in 1 .. Len(t) : nextElement[t[i]] = At(t, i + 1)
  BY <1>1 DEF IsChain, At
<1>3. Differ = {}
  <2> SUFFICES ASSUME Differ # {} PROVE FALSE
    OBVIOUS
  <2>1. IsWellFoundedOn(Less, Nat)
    BY NatLessThanWellFounded DEF OpToRel
  <2>2. PICK n \in Differ : \A m \in Differ : <<m, n>> \notin Less
    <3>1. Differ \subseteq Nat
      OBVIOUS
    <3> HIDE DEF Less, Differ
    <3> QED BY <2>1, <3>1, WFMin
  <2>3. n # 1
    BY <2>2, <1>2 DEF Chained
  <2>4. n \in Nat /\ n > 1 /\ n - 1 \in Nat \ {0} /\ <<n - 1, n>> \in Less
    BY <2>2, <2>3
  <2>5. At(s, n - 1) = At(t, n - 1)
    BY <2>2, <2>4
  <2>6. CASE n - 1 \in 1 .. Len(s)
    <3>1. n - 1 \in 1 .. Len(t) /\ s[n - 1] = t[n - 1]
      BY <2>5, <2>6, <1>1 DEF At
    <3>2. nextElement[s[n - 1]] = At(s, n) /\ nextElement[t[n - 1]] = At(t, n)
      <4>1. (n - 1) + 1 = n
        BY <2>4
      <4> QED BY <4>1, <3>1, <2>6, <1>2 DEF Chained
    <3> QED BY <3>1, <3>2, <2>2
  <2>7. CASE n - 1 \notin 1 .. Len(s)
    <3>1. n - 1 \notin 1 .. Len(t)
      BY <2>5, <2>7, <1>1 DEF At
    <3>2. At(s, n) = NULL /\ At(t, n) = NULL
      BY <2>4, <2>7, <3>1, <1>1 DEF At
    <3> QED BY <3>2, <2>2
  <2> QED BY <2>6, <2>7
<1>4. \A i \in Nat \ {0} : At(s, i) = At(t, i)
  BY <1>3
<1>5. Len(s) = Len(t)
  <2>1. At(t, Len(t) + 1) = NULL /\ At(s, Len(s) + 1) = NULL
    BY <1>1 DEF At
  <2>2. At(s, Len(t) + 1) = NULL /\ At(t, Len(s) + 1) = NULL
    BY <1>1, <1>4, <2>1
  <2>3. Len(t) + 1 \notin 1 .. Len(s) /\ Len(s) + 1 \notin 1 .. Len(t)
    BY <1>1, <2>2 DEF At
  <2> QED BY <1>1, <2>3
<1>6. \A i \in 1 .. Len(s) : s[i] = t[i]
  BY <1>1, <1>4, <1>5 DEF At
<1> QED BY <1>1, <1>5, <1>6, SameSequence

\* Every allocated element is in the chain once.
LEMMA ChainIsSequence ==
  ASSUME NEW s, Chained(s)
  PROVE  s \in SetToSeqs(allocated) /\ IsChain(s)
<1>1. s \in Seq(Elements) /\ Len(s) \in Nat /\ s \in [1 .. Len(s) -> allocated]
  BY Places DEF Chained
<1>2. Cardinality(allocated) = Len(s)
  <2>1. s \in Bijection(1 .. Len(s), allocated)
    BY <1>1 DEF Chained, Bijection, Injection, Surjection, IsInjective
  <2>2. ExistsBijection(1 .. Len(s), allocated)
    BY <2>1 DEF ExistsBijection
  <2>3. IsFiniteSet(1 .. Len(s)) /\ Cardinality(1 .. Len(s)) = Len(s)
    <3>1. 1 \in Int /\ Len(s) \in Int
      BY <1>1
    <3>2. /\ IsFiniteSet(1 .. Len(s))
          /\ Cardinality(1 .. Len(s)) = IF 1 > Len(s) THEN 0 ELSE Len(s) - 1 + 1
      BY ONLY <3>1, FS_Interval
    <3> QED BY ONLY <1>1, <3>2
  <2> QED BY <2>2, <2>3, FS_Bijection
<1>3. \A i, j \in 1 .. Len(s) : i # j => s[i] # s[j]
  BY DEF Chained
<1>4. s \in SetToSeqs(allocated)
  BY <1>1, <1>2, <1>3 DEF SetToSeqs
<1>5. firstElement = (IF s = <<>> THEN NULL ELSE s[1])
  BY <1>1 DEF Chained, At
<1>6. \A i \in DOMAIN s : nextElement[s[i]] = IF i = Len(s) THEN NULL ELSE s[i + 1]
  BY <1>1 DEF Chained, At
<1> QED BY <1>4, <1>5, <1>6 DEF IsChain

\* The chain is what the refinement mapping chooses.
Mapped ==
  \A s, c : Shown(s, c) => ChainIsAllocated /\ Items = ValuesOf(s) /\ Cursor = c

\* It is, in every state.
LEMMA Mapping == Mapped
<1> SUFFICES ASSUME NEW s, NEW c, Shown(s, c)
             PROVE  ChainIsAllocated /\ Items = ValuesOf(s) /\ Cursor = c
  BY DEF Mapped
<1>1. /\ Chained(s) /\ s \in Seq(Elements) /\ DOMAIN s = 1 .. Len(s)
      /\ s \in SetToSeqs(allocated) /\ IsChain(s)
      /\ c \in 0 .. Len(s) /\ activeElement = At(s, c)
  BY SMTT(30), ChainIsSequence DEF Shown, Chained
<1>2. ASSUME NEW t \in SetToSeqs(allocated), IsChain(t)
      PROVE  t = s
  <2>1. t \in Seq(Elements)
    <3>1. allocated \subseteq Elements
      BY <1>1, Places DEF Chained
    <3>2. Cardinality(allocated) = Len(s) /\ Len(s) \in Nat
      <4>1. /\ s \in [1 .. Cardinality(allocated) -> allocated]
        BY <1>1 DEF SetToSeqs
      <4>2. DOMAIN s = 1 .. Len(s) /\ Len(s) \in Nat
        BY <1>1
      <4>3. IsFiniteSet(allocated)
        <5>1. s \in Surjection(1 .. Len(s), allocated)
          BY <1>1, Places DEF Chained, Surjection
        <5>2. IsFiniteSet(1 .. Len(s))
          BY <4>2, FS_Interval
        <5> QED BY <5>1, <5>2, FS_Surjection
      <4>4. Cardinality(allocated) \in Nat
        BY <4>3, FS_CardinalityType
      <4>5. 1 .. Cardinality(allocated) = 1 .. Len(s)
        BY <4>1, <4>2
      <4> QED BY <4>2, <4>4, <4>5
    <3>3. t \in [1 .. Len(s) -> allocated]
      BY <3>2 DEF SetToSeqs
    <3> QED BY <3>1, <3>2, <3>3
  <2> QED BY <2>1, <1>1, <1>2, OneChain
<1>3. Chain = s
  BY <1>1, <1>2 DEF Chain
<1>4. activeElement \in allocated \cup {NULL}
  BY <1>1, Places DEF At
<1>5. Items = ValuesOf(s)
  BY <1>1, <1>3 DEF Items, ValuesOf
<1>6. Cursor = c
  <2>1. CASE activeElement = NULL
    BY <2>1, <1>1, Places DEF Cursor
  <2>2. CASE activeElement # NULL
    <3>1. c \in 1 .. Len(s) /\ s[c] = activeElement
      BY <2>2, <1>1 DEF At
    <3>2. \A i \in 1 .. Len(s) : s[i] = activeElement => i = c
      BY <3>1, <1>1 DEF Chained
    <3> QED BY <2>2, <3>1, <3>2, <1>1, <1>3 DEF Cursor
  <2> QED BY <2>1, <2>2
<1> QED BY <1>1, <1>4, <1>5, <1>6 DEF ChainIsAllocated

-----------------------------------------------------------------------------
(* Insertion and deletion at a place of the chain, which is how every       *)
(* operation that changes a link reads.                                     *)

\* A new element at place k: the cursor stays with its element.
LEMMA InsertionShown ==
  ASSUME NEW s, NEW c, Shown(s, c), Shaped, NEW k \in 1 .. Len(s) + 1,
         NEW e \in Elements, NEW d, Allocate(e, d),
         nextElement' = [x \in Elements |-> IF x = e THEN At(s, k)
                           ELSE IF x = At(s, k - 1) THEN e ELSE nextElement[x]],
         firstElement' = IF k = 1 THEN e ELSE firstElement,
         activeElement' = activeElement
  PROVE  /\ Shown(InsertAt(s, k, e), IF c >= k THEN c + 1 ELSE c)' /\ Shaped'
         /\ ValuesOf(InsertAt(s, k, e))' = InsertAt(ValuesOf(s), k, d)
<1> DEFINE t == InsertAt(s, k, e)
           u == IF c >= k THEN c + 1 ELSE c
<1>1. /\ s \in Seq(Elements) /\ Len(s) \in Nat /\ c \in 0 .. Len(s) /\ k \in 1 .. Len(s) + 1
      /\ \A i \in 1 .. Len(s) : s[i] \in Elements /\ s[i] # e /\ s[i] # NULL
      /\ \A i, j \in 1 .. Len(s) : s[i] = s[j] => i = j
      /\ e # NULL /\ e \notin allocated
  BY Places, ElementsAssumption DEF Shown, Chained, Allocate
<1>2. /\ t \in Seq(Elements) /\ Len(t) = Len(s) + 1
      /\ \A i \in 1 .. Len(s) + 1 :
           t[i] = IF i < k THEN s[i] ELSE IF i = k THEN e ELSE s[i - 1]
  BY <1>1, InsertedPlaces
<1> HIDE DEF t
<1>3. \A i \in Int : At(t, i) = IF i < k THEN At(s, i) ELSE IF i = k THEN e ELSE At(s, i - 1)
  BY <1>1, <1>2 DEF At
<1>4. \A i, j \in 1 .. Len(t) : t[i] = t[j] => i = j
  <2> DEFINE from(i) == IF i < k THEN i ELSE i - 1
  <2>1. \A i \in 1 .. Len(t) : i # k => from(i) \in 1 .. Len(s) /\ t[i] = s[from(i)] /\ t[i] # e
    BY <1>1, <1>2
  <2>2. t[k] = e
    BY <1>1, <1>2
  <2>3. \A i, j \in 1 .. Len(t) : i # k /\ j # k /\ from(i) = from(j) => i = j
    BY <1>1, <1>2
  <2> HIDE DEF from
  <2> QED BY <2>1, <2>2, <2>3, <1>1
<1>5. allocated' = {t[i] : i \in 1 .. Len(t)}
  <2>1. \A i \in 1 .. Len(t) : t[i] \in allocated \cup {e}
    BY <1>1, <1>2 DEF Shown, Chained
  <2>2. \A i \in 1 .. Len(s) : \E j \in 1 .. Len(t) : t[j] = s[i]
    <3> TAKE i \in 1 .. Len(s)
    <3>1. CASE i < k
      <4>1. i \in 1 .. Len(t) /\ t[i] = s[i]
        BY <3>1, <1>1, <1>2
      <4> QED BY <4>1
    <3>2. CASE ~(i < k)
      <4>1. i + 1 \in 1 .. Len(t) /\ t[i + 1] = s[i]
        BY <3>2, <1>1, <1>2
      <4> QED BY <4>1
    <3> QED BY <3>1, <3>2
  <2>3. k \in 1 .. Len(t) /\ t[k] = e
    BY <1>1, <1>2
  <2>4. allocated' = allocated \cup {e} /\ allocated = {s[i] : i \in 1 .. Len(s)}
    BY DEF Shown, Chained, Allocate
  <2> QED BY <2>1, <2>2, <2>3, <2>4
<1>6. firstElement' = At(t, 1)
  BY <1>1, <1>3 DEF Shown, Chained
<1>7. ASSUME NEW i \in 1 .. Len(t) PROVE nextElement'[t[i]] = At(t, i + 1)
  <2>1. i \in Int /\ i + 1 \in Int
    BY <1>1, <1>2
  <2>2. CASE i < k - 1
    <3>1. i \in 1 .. Len(s) /\ t[i] = s[i] /\ s[i] # At(s, k - 1) /\ At(t, i + 1) = At(s, i + 1)
      BY <2>1, <2>2, <1>1, <1>2, <1>3 DEF At
    <3> QED BY <3>1, <1>1 DEF Shown, Chained
  <2>3. CASE i = k - 1
    <3>1. i \in 1 .. Len(s) /\ t[i] = s[i] /\ s[i] = At(s, k - 1) /\ At(t, i + 1) = e
      BY <2>1, <2>3, <1>1, <1>2, <1>3 DEF At
    <3> QED BY <3>1, <1>1
  <2>4. CASE i = k
    <3>1. t[i] = e /\ At(t, i + 1) = At(s, k)
      BY <2>1, <2>4, <1>1, <1>2, <1>3
    <3> QED BY <3>1, <1>1
  <2>5. CASE i > k
    <3>1. /\ i - 1 \in 1 .. Len(s) /\ t[i] = s[i - 1] /\ s[i - 1] # At(s, k - 1)
          /\ At(t, i + 1) = At(s, i)
      BY <2>1, <2>5, <1>1, <1>2, <1>3 DEF At
    <3>2. nextElement[s[i - 1]] = At(s, (i - 1) + 1) /\ (i - 1) + 1 = i
      BY <2>1, <3>1 DEF Shown, Chained
    <3> QED BY <3>1, <3>2, <1>1
  <2> QED BY <2>1, <2>2, <2>3, <2>4, <2>5, <1>1
<1>8. u \in 0 .. Len(t) /\ activeElement' = At(t, u)
  BY SMTT(30), <1>1, <1>2, <1>3 DEF Shown
<1>9. Shown(t, u)'
  BY <1>2, <1>4, <1>5, <1>6, <1>7, <1>8 DEF Shown, Chained, At
<1>10. /\ data' = [x \in Elements |-> data'[x]]
       /\ \A x \in Elements : data'[x] = IF x = e THEN d ELSE data[x]
  <2>1. data' = [data EXCEPT ![e] = d]
    BY DEF Allocate
  <2> QED BY <2>1 DEF Shaped
<1>11. Shaped'
  BY <1>10 DEF Shaped
<1>12. ValuesOf(t)' = InsertAt(ValuesOf(s), k, d)
  <2> DEFINE V == {data[x] : x \in Elements} \cup {d}
             old == ValuesOf(s)
             new == [i \in 1 .. Len(t) |-> data'[t[i]]]
             other == InsertAt(old, k, d)
  <2>1. old \in Seq(V) /\ Len(old) = Len(s) /\ \A i \in 1 .. Len(s) : old[i] = data[s[i]]
    BY <1>1 DEF ValuesOf
  <2>2. /\ other \in Seq(V) /\ Len(other) = Len(s) + 1
        /\ \A i \in 1 .. Len(s) + 1 :
             other[i] = IF i < k THEN old[i] ELSE IF i = k THEN d ELSE old[i - 1]
    <3>1. d \in V /\ k \in 1 .. Len(old) + 1
      BY <2>1
    <3> HIDE DEF V, old
    <3> QED BY <2>1, <3>1, InsertedPlaces
  <2>3. \A i \in 1 .. Len(t) : new[i] = data'[t[i]]
    OBVIOUS
  <2>4. ASSUME NEW i \in 1 .. Len(t) PROVE new[i] = other[i] /\ other[i] \in V
    <3>1. i \in 1 .. Len(s) + 1 /\ new[i] = data'[t[i]]
      BY <2>3, <1>2
    <3>2. (\A x \in Elements : data[x] \in V) /\ d \in V
      OBVIOUS
    <3> HIDE DEF new, old, other, V
    <3>3. CASE i < k
      <4>1. i \in 1 .. Len(s) /\ t[i] = s[i] /\ other[i] = old[i]
        BY <3>1, <3>3, <2>2, <1>1, <1>2
      <4> QED BY <4>1, <3>1, <3>2, <2>1, <1>1, <1>10
    <3>4. CASE i = k
      <4>1. t[i] = e /\ other[i] = d
        BY <3>1, <3>4, <2>2, <1>1, <1>2
      <4> QED BY <4>1, <3>1, <3>2, <1>1, <1>10
    <3>5. CASE i > k
      <4>1. i - 1 \in 1 .. Len(s) /\ t[i] = s[i - 1] /\ other[i] = old[i - 1]
        BY <3>1, <3>5, <2>2, <1>1, <1>2
      <4> QED BY <4>1, <3>1, <3>2, <2>1, <1>1, <1>10
    <3> QED BY <3>1, <3>3, <3>4, <3>5, <1>1
  <2>5. new \in Seq(V) /\ Len(new) = Len(t)
    <3>1. Len(t) \in Nat
      BY <1>2
    <3>2. \A i \in 1 .. Len(t) : new[i] \in V
      <4> HIDE DEF new, other, V
      <4> QED BY <2>4
    <3>3. new \in [1 .. Len(t) -> V]
      <4> HIDE DEF V
      <4> QED BY <3>2
    <3> HIDE DEF new
    <3> QED BY <3>1, <3>3
  <2>6. new = other
    <3> HIDE DEF new, old, other, V
    <3> QED BY <2>2, <2>4, <2>5, <1>2, SameSequence
  <2>7. ValuesOf(t)' = new
    BY DEF ValuesOf
  <2> QED BY <2>6, <2>7
<1> QED BY <1>9, <1>11, <1>12 DEF t

\* The element at place k is freed: the cursor stays with its element, or is nowhere.
LEMMA DeletionShown ==
  ASSUME NEW s, NEW c, Shown(s, c), Shaped, NEW k \in 1 .. Len(s), Free(s[k]),
         nextElement' = [x \in Elements |-> IF x = s[k] THEN NULL
                           ELSE IF x = At(s, k - 1) THEN At(s, k + 1) ELSE nextElement[x]],
         firstElement' = IF k = 1 THEN At(s, 2) ELSE firstElement,
         activeElement' = IF c = k THEN NULL ELSE activeElement
  PROVE  /\ Shown(RemoveAt(s, k), IF c < k THEN c ELSE IF c = k THEN 0 ELSE c - 1)' /\ Shaped'
         /\ ValuesOf(RemoveAt(s, k))' = RemoveAt(ValuesOf(s), k)
<1> DEFINE t == RemoveAt(s, k)
           u == IF c < k THEN c ELSE IF c = k THEN 0 ELSE c - 1
           e == s[k]
<1>1. /\ s \in Seq(Elements) /\ Len(s) \in Nat /\ c \in 0 .. Len(s) /\ k \in 1 .. Len(s)
      /\ \A i \in 1 .. Len(s) : s[i] \in Elements /\ s[i] # NULL /\ (i # k => s[i] # e)
      /\ \A i, j \in 1 .. Len(s) : s[i] = s[j] => i = j
  BY Places DEF Shown, Chained
<1>2. /\ t \in Seq(Elements) /\ Len(t) = Len(s) - 1
      /\ \A i \in 1 .. Len(s) - 1 : t[i] = IF i < k THEN s[i] ELSE s[i + 1]
  BY <1>1, RemainingPlaces
<1> HIDE DEF t
<1>3. \A i \in Int : At(t, i) = IF i < k THEN At(s, i) ELSE At(s, i + 1)
  BY <1>1, <1>2 DEF At
<1>4. \A i, j \in 1 .. Len(t) : t[i] = t[j] => i = j
  BY SMTT(30), <1>1, <1>2
<1>5. allocated' = {t[i] : i \in 1 .. Len(t)}
  <2>1. \A i \in 1 .. Len(t) : t[i] \in allocated \ {e}
    BY <1>1, <1>2 DEF Shown, Chained
  <2>2. \A i \in 1 .. Len(s) : i # k => \E j \in 1 .. Len(t) : t[j] = s[i]
    <3> TAKE i \in 1 .. Len(s)
    <3> HAVE i # k
    <3>1. CASE i < k
      <4>1. i \in 1 .. Len(t) /\ t[i] = s[i]
        BY <3>1, <1>1, <1>2
      <4> QED BY <4>1
    <3>2. CASE ~(i < k)
      <4>1. i - 1 \in 1 .. Len(t) /\ t[i - 1] = s[i]
        BY <3>2, <1>1, <1>2
      <4> QED BY <4>1
    <3> QED BY <3>1, <3>2
  <2>3. allocated' = allocated \ {e} /\ allocated = {s[i] : i \in 1 .. Len(s)}
    BY DEF Shown, Chained, Free
  <2> QED BY <2>1, <2>2, <2>3
<1>6. firstElement' = At(t, 1)
  <2>1. At(t, 1) = IF 1 < k THEN At(s, 1) ELSE At(s, 2)
    <3>1. 1 + 1 = 2 /\ 1 \in Int
      OBVIOUS
    <3> QED BY <3>1, <1>3
  <2>2. firstElement = At(s, 1)
    BY DEF Shown, Chained
  <2>3. k = 1 <=> ~(1 < k)
    BY <1>1
  <2> QED BY <2>1, <2>2, <2>3
<1>7. ASSUME NEW i \in 1 .. Len(t) PROVE nextElement'[t[i]] = At(t, i + 1)
  <2>1. i \in Int /\ i + 1 \in Int
    BY <1>1, <1>2
  <2>2. CASE i < k - 1
    <3>1. /\ i \in 1 .. Len(s) /\ t[i] = s[i] /\ s[i] # At(s, k - 1) /\ s[i] # e
          /\ At(t, i + 1) = At(s, i + 1)
      BY SMTT(30), <2>1, <2>2, <1>1, <1>2, <1>3 DEF At
    <3> QED BY <3>1, <1>1 DEF Shown, Chained
  <2>3. CASE i = k - 1
    <3>1. /\ i \in 1 .. Len(s) /\ t[i] = s[i] /\ s[i] = At(s, k - 1) /\ s[i] # e
          /\ At(t, i + 1) = At(s, k + 1)
      BY SMTT(30), <2>1, <2>3, <1>1, <1>2, <1>3 DEF At
    <3> QED BY <3>1, <1>1
  <2>4. CASE i >= k
    <3>1. i + 1 \in 1 .. Len(s) /\ i + 1 # k /\ t[i] = s[i + 1] /\ s[i + 1] # e
      BY <2>1, <2>4, <1>1, <1>2
    <3>2. s[i + 1] # At(s, k - 1)
      <4>1. k - 1 \in 1 .. Len(s) => k - 1 # i + 1
        BY <2>4, <1>1, <1>2
      <4> QED BY <3>1, <4>1, <1>1 DEF At
    <3>3. At(t, i + 1) = At(s, (i + 1) + 1)
      <4>1. ~(i + 1 < k)
        BY <2>1, <2>4, <1>1
      <4> QED BY <2>1, <4>1, <1>3
    <3>4. nextElement[s[i + 1]] = At(s, (i + 1) + 1)
      BY <3>1 DEF Shown, Chained
    <3> QED BY <3>1, <3>2, <3>3, <3>4, <1>1
  <2> QED BY <2>1, <2>2, <2>3, <2>4, <1>1
<1>8. u \in 0 .. Len(t) /\ activeElement' = At(t, u)
  BY SMTT(30), <1>1, <1>2, <1>3 DEF Shown, At
<1>9. Shown(t, u)'
  BY <1>2, <1>4, <1>5, <1>6, <1>7, <1>8 DEF Shown, Chained, At
<1>10. /\ data' = [x \in Elements |-> data'[x]]
       /\ \A x \in Elements : x # e => data'[x] = data[x]
  <2>1. data' = [data EXCEPT ![e] = NULL]
    BY DEF Free
  <2> QED BY <2>1 DEF Shaped
<1>11. Shaped'
  BY <1>10 DEF Shaped
<1>12. ValuesOf(t)' = RemoveAt(ValuesOf(s), k)
  <2> DEFINE V == {data[x] : x \in Elements}
             old == ValuesOf(s)
             new == [i \in 1 .. Len(t) |-> data'[t[i]]]
             other == RemoveAt(old, k)
  <2>1. old \in Seq(V) /\ Len(old) = Len(s) /\ \A i \in 1 .. Len(s) : old[i] = data[s[i]]
    BY <1>1 DEF ValuesOf
  <2>2. /\ other \in Seq(V) /\ Len(other) = Len(s) - 1
        /\ \A i \in 1 .. Len(s) - 1 : other[i] = IF i < k THEN old[i] ELSE old[i + 1]
    <3>1. k \in 1 .. Len(old)
      BY <2>1
    <3> HIDE DEF V, old
    <3> QED BY <2>1, <3>1, RemainingPlaces
  <2>3. \A i \in 1 .. Len(t) : new[i] = data'[t[i]]
    OBVIOUS
  <2>4. ASSUME NEW i \in 1 .. Len(t) PROVE new[i] = other[i] /\ other[i] \in V
    <3>1. i \in 1 .. Len(s) - 1 /\ new[i] = data'[t[i]]
      BY <2>3, <1>2
    <3>2. \A x \in Elements : data[x] \in V
      OBVIOUS
    <3> HIDE DEF new, old, other, V
    <3>3. CASE i < k
      <4>1. i \in 1 .. Len(s) /\ i # k /\ t[i] = s[i] /\ other[i] = old[i]
        BY <3>1, <3>3, <2>2, <1>1, <1>2
      <4> QED BY <4>1, <3>1, <3>2, <2>1, <1>1, <1>10
    <3>4. CASE ~(i < k)
      <4>1. i + 1 \in 1 .. Len(s) /\ i + 1 # k /\ t[i] = s[i + 1] /\ other[i] = old[i + 1]
        BY <3>1, <3>4, <2>2, <1>1, <1>2
      <4> QED BY <4>1, <3>1, <3>2, <2>1, <1>1, <1>10
    <3> QED BY <3>3, <3>4
  <2>5. new \in Seq(V) /\ Len(new) = Len(t)
    <3>1. Len(t) \in Nat
      BY <1>2
    <3>2. \A i \in 1 .. Len(t) : new[i] \in V
      <4> HIDE DEF new, other, V
      <4> QED BY <2>4
    <3>3. new \in [1 .. Len(t) -> V]
      <4> HIDE DEF V
      <4> QED BY <3>2
    <3> HIDE DEF new
    <3> QED BY <3>1, <3>3
  <2>6. new = other
    <3> HIDE DEF new, old, other, V
    <3> QED BY <2>2, <2>4, <2>5, <1>2, SameSequence
  <2>7. ValuesOf(t)' = new
    BY DEF ValuesOf
  <2> QED BY <2>6, <2>7
<1> QED BY <1>9, <1>11, <1>12 DEF t

\* An operation that changes neither links nor data, but perhaps the cursor.
LEMMA MoveShown ==
  ASSUME NEW s, NEW c, Shown(s, c), Shaped, NEW u \in 0 .. Len(s),
         KeepsElements, activeElement' = At(s, u)
  PROVE  Shown(s, u)' /\ Shaped' /\ ValuesOf(s)' = ValuesOf(s)
BY DEF Shown, Chained, Shaped, ValuesOf, KeepsElements, At

-----------------------------------------------------------------------------
(* The operations of the abstract list.                                    *)

\* The abstract list before and after a step.
LEMMA Pictures ==
  ASSUME Mapped, Mapped', NEW s, NEW c, Shown(s, c), NEW t, NEW u, Shown(t, u)'
  PROVE  /\ Items = ValuesOf(s) /\ Cursor = c
         /\ Items' = ValuesOf(t)' /\ Cursor' = u
BY DEF Mapped

\* CursorList takes its sequence operators through its own instance.
LEMMA SameOperators ==
  ASSUME NEW q, NEW k, NEW d
  PROVE  Promise!InsertAt(q, k, d) = InsertAt(q, k, d) /\ Promise!RemoveAt(q, k) = RemoveAt(q, k)
BY DEF Promise!InsertAt, InsertAt, Promise!RemoveAt, RemoveAt

\* Insertion at the two ends.
LEMMA InsertedAtEnds ==
  ASSUME NEW V, NEW q, NEW d, q \in Seq(V), d \in V
  PROVE  InsertAt(q, 1, d) = <<d>> \o q /\ InsertAt(q, Len(q) + 1, d) = Append(q, d)
<1>1. InsertAt(q, 1, d) = <<d>> \o q
  <2> DEFINE l == InsertAt(q, 1, d)
             r == <<d>> \o q
  <2>1. /\ l \in Seq(V) /\ Len(l) = Len(q) + 1
        /\ \A i \in 1 .. Len(q) + 1 : l[i] = IF i < 1 THEN q[i] ELSE IF i = 1 THEN d ELSE q[i - 1]
    BY InsertedPlaces
  <2>2. /\ r \in Seq(V) /\ Len(r) = Len(q) + 1
        /\ \A i \in 1 .. Len(q) + 1 : r[i] = IF i = 1 THEN d ELSE q[i - 1]
    OBVIOUS
  <2> HIDE DEF l, r
  <2>3. \A i \in 1 .. Len(l) : l[i] = r[i]
    BY <2>1, <2>2
  <2>4. l = r
    BY <2>1, <2>2, <2>3, SameSequence
  <2> QED BY <2>4 DEF l, r
<1>2. InsertAt(q, Len(q) + 1, d) = Append(q, d)
  <2> DEFINE a == SubSeq(q, 1, (Len(q) + 1) - 1)
             b == SubSeq(q, Len(q) + 1, Len(q))
             r == Append(q, d)
  <2>1. Len(q) \in Nat /\ (Len(q) + 1) - 1 = Len(q)
    OBVIOUS
  <2>2. a = q
    <3>1. a \in Seq(V) /\ Len(a) = Len(q) /\ \A i \in 1 .. Len(q) : a[i] = q[i]
      BY <2>1
    <3> HIDE DEF a
    <3> QED BY <3>1, SameSequence
  <2>3. b = <<>>
    BY <2>1
  <2>4. q \o <<d>> = r
    BY <2>1
  <2>5. r \o <<>> = r
    <3>1. r \in Seq(V)
      OBVIOUS
    <3> HIDE DEF r
    <3> QED BY <3>1
  <2>6. InsertAt(q, Len(q) + 1, d) = a \o <<d>> \o b
    BY DEF InsertAt
  <2> HIDE DEF a, b, r
  <2> QED BY <2>2, <2>3, <2>4, <2>5, <2>6 DEF r
<1> QED BY <1>1, <1>2

\* Insertions at both ends and after the cursor, by the place they insert at.
LEMMA InsertionsOfPromise ==
  ASSUME Mapped, NEW s, NEW c, Shown(s, c), NEW d, NEW op, NEW k,
         Promise!Does(op, InsertAt(Items, k, d), IF Cursor >= k THEN Cursor + 1 ELSE Cursor)
  PROVE  /\ op = "InsertFirst" /\ k = 1 => Promise!Insert(d)
         /\ op = "InsertLast" /\ k = Len(s) + 1 => Promise!Insert(d)
         /\ op = "InsertAfter" /\ k = c + 1 /\ c # 0 => Promise!Insert(d)
<1> DEFINE V == {data[x] : x \in Elements} \cup {d}
<1>1. /\ Items = ValuesOf(s) /\ Cursor = c /\ c \in 0 .. Len(s) /\ Len(s) \in Nat
      /\ \A i \in 1 .. Len(s) : s[i] \in Elements
  BY Places DEF Mapped, Shown
<1>2. Items \in Seq(V) /\ Len(Items) = Len(s) /\ d \in V
  BY <1>1 DEF ValuesOf
<1> HIDE DEF V
<1>3. InsertAt(Items, 1, d) = <<d>> \o Items /\ InsertAt(Items, Len(Items) + 1, d) = Append(Items, d)
  BY <1>2, InsertedAtEnds
<1>4. CASE op = "InsertFirst" /\ k = 1
  BY <1>1, <1>3, <1>4 DEF Promise!Insert, Promise!Does
<1>5. CASE op = "InsertLast" /\ k = Len(s) + 1
  BY <1>1, <1>2, <1>3, <1>5 DEF Promise!Insert, Promise!Does
<1>6. CASE op = "InsertAfter" /\ k = c + 1 /\ c # 0
  BY <1>1, <1>6, SameOperators DEF Promise!Insert, Promise!Does
<1> QED BY <1>4, <1>5, <1>6

\* An element is linked in at place k.
LinkedAt(s, k, e) ==
  /\ nextElement' = [x \in Elements |-> IF x = e THEN At(s, k)
                       ELSE IF x = At(s, k - 1) THEN e ELSE nextElement[x]]
  /\ firstElement' = IF k = 1 THEN e ELSE firstElement
  /\ activeElement' = activeElement

\* The lists, concrete and abstract, have the new element at place k.
Inserted(op, s, c, k, e, d) ==
  /\ Promise!Does(op, InsertAt(Items, k, d), IF Cursor >= k THEN Cursor + 1 ELSE Cursor)
  /\ Shown(InsertAt(s, k, e), IF c >= k THEN c + 1 ELSE c)' /\ Shaped'

\* An insertion at place k, as an operation of the abstract list.
LEMMA Inserts ==
  ASSUME Mapped, Mapped', NEW s, NEW c, Shown(s, c), Shaped, NEW k, k \in 1 .. Len(s) + 1,
         NEW op, NEW e, NEW d, e \in Elements, Allocate(e, d), Returned(<<op>>, <<>>),
         LinkedAt(s, k, e)
  PROVE  Inserted(op, s, c, k, e, d)
<1> DEFINE t == InsertAt(s, k, e)
           u == IF c >= k THEN c + 1 ELSE c
<1>1. Shown(t, u)' /\ Shaped' /\ ValuesOf(t)' = InsertAt(ValuesOf(s), k, d)
  BY InsertionShown DEF LinkedAt
<1> HIDE DEF t, u
<1>2. Items = ValuesOf(s) /\ Cursor = c /\ Items' = ValuesOf(t)' /\ Cursor' = u
  BY <1>1, Pictures
<1>3. Items' = InsertAt(Items, k, d)
  BY <1>1, <1>2
<1>4. Cursor' = IF Cursor >= k THEN Cursor + 1 ELSE Cursor
  BY <1>2 DEF u
<1> QED BY <1>1, <1>3, <1>4 DEF Inserted, Promise!Does, Returned, t, u

\* The gap at place k is closed.
ClosedAt(s, c, k) ==
  /\ nextElement' = [x \in Elements |-> IF x = s[k] THEN NULL
                       ELSE IF x = At(s, k - 1) THEN At(s, k + 1) ELSE nextElement[x]]
  /\ firstElement' = IF k = 1 THEN At(s, 2) ELSE firstElement
  /\ activeElement' = IF c = k THEN NULL ELSE activeElement

\* The lists, concrete and abstract, have lost the element at place k.
Removed(op, s, c, k) ==
  /\ Promise!Removes(op, k)
  /\ Shown(RemoveAt(s, k), IF c < k THEN c ELSE IF c = k THEN 0 ELSE c - 1)' /\ Shaped'

\* A deletion at place k, as an operation of the abstract list.
LEMMA Deletes ==
  ASSUME Mapped, Mapped', NEW s, NEW c, Shown(s, c), Shaped, NEW k, k \in 1 .. Len(s),
         NEW op, Free(s[k]), Returned(<<op>>, <<>>), ClosedAt(s, c, k)
  PROVE  Removed(op, s, c, k)
<1> DEFINE t == RemoveAt(s, k)
           u == IF c < k THEN c ELSE IF c = k THEN 0 ELSE c - 1
<1>1. Shown(t, u)' /\ Shaped' /\ ValuesOf(t)' = RemoveAt(ValuesOf(s), k)
  BY DeletionShown DEF ClosedAt
<1> HIDE DEF t, u
<1>2. Items = ValuesOf(s) /\ Cursor = c /\ Items' = ValuesOf(t)' /\ Cursor' = u
  BY <1>1, Pictures
<1>3. Items' = Promise!RemoveAt(Items, k)
  BY <1>1, <1>2, SameOperators
<1>4. k \in DOMAIN Items
  BY <1>2 DEF ValuesOf
<1>5. Cursor' = CASE Cursor < k -> Cursor [] Cursor = k -> 0 [] OTHER -> Cursor - 1
  <2>1. Cursor = c /\ Cursor' = (IF c < k THEN c ELSE IF c = k THEN 0 ELSE c - 1)
    BY <1>2 DEF u
  <2>2. c \in Int /\ k \in Int
    BY Places DEF Shown
  <2> QED BY <2>1, <2>2
<1> QED BY <1>1, <1>3, <1>4, <1>5 DEF Removed, Promise!Removes, Promise!Does, Returned, t, u

\* An operation that changes neither links nor data, as one of the abstract list.
LEMMA Stays ==
  ASSUME Mapped, Mapped', NEW s, NEW c, Shown(s, c), Shaped, NEW u \in 0 .. Len(s),
         KeepsElements, activeElement' = At(s, u)
  PROVE  /\ Items' = Items /\ Cursor' = u /\ Cursor = c
         /\ Items = ValuesOf(s) /\ DOMAIN Items = 1 .. Len(s) /\ Len(Items) = Len(s)
         /\ Shown(s, u)' /\ Shaped'
<1>1. Shown(s, u)' /\ Shaped' /\ ValuesOf(s)' = ValuesOf(s)
  BY MoveShown
<1>2. Items = ValuesOf(s) /\ Cursor = c /\ Items' = ValuesOf(s)' /\ Cursor' = u
  BY <1>1, Pictures
<1>3. DOMAIN ValuesOf(s) = 1 .. Len(s) /\ Len(ValuesOf(s)) = Len(s)
  BY Places DEF ValuesOf, Shown
<1> QED BY <1>1, <1>2, <1>3

\* Moving the active element along the chain, or to nowhere.
LEMMA CursorMoves ==
  ASSUME Mapped, Mapped', NEW s, NEW c, Shown(s, c), Shaped, NEW u \in 0 .. Len(s),
         NEW op, NEW e, Activate(op, e), e = At(s, u)
  PROVE  Promise!Does(op, Items, u) /\ (\E v : Shown(s, v)') /\ Shaped'
<1>1. KeepsElements /\ activeElement' = At(s, u) /\ Returned(<<op>>, <<>>)
  BY DEF Activate
<1>2. Items' = Items /\ Cursor' = u /\ Shown(s, u)' /\ Shaped'
  BY <1>1, Stays
<1> QED BY <1>1, <1>2 DEF Promise!Does, Returned

\* What both lists do without touching a link: look, move, set a value, refuse.
LEMMA SharedSteps ==
  ASSUME Mapped, Mapped', NEW s, NEW c, Shown(s, c), Shaped
  PROVE  /\ \A op \in {"GetFirst", "GetValue"} :
              Reading(op, IF op = "GetFirst" THEN firstElement ELSE activeElement) =>
                Promise!Look /\ Shown(s, c)' /\ Shaped'
         /\ IsActive => Promise!Look /\ Shown(s, c)' /\ Shaped'
         /\ Activate("First", firstElement) =>
              Promise!Move /\ (\E u : Shown(s, u)') /\ Shaped'
         /\ Activate("Next", Follow(nextElement)) =>
              Promise!Move /\ (\E u : Shown(s, u)') /\ Shaped'
         /\ \A d \in Values : SetValue(d) => Promise!SetValue(d) /\ Shown(s, c)' /\ Shaped'
<1> DEFINE Alike == KeepsElements /\ activeElement' = activeElement
<1>1. /\ Items = ValuesOf(s) /\ Cursor = c /\ s \in Seq(Elements)
      /\ c \in 0 .. Len(s) /\ Len(s) \in Nat /\ activeElement = At(s, c) /\ Chained(s)
      /\ DOMAIN Items = 1 .. Len(s) /\ Len(Items) = Len(s)
  BY Places DEF Mapped, Shown, ValuesOf, Chained
<1>2. /\ activeElement = NULL <=> c = 0
      /\ firstElement = NULL <=> Len(s) = 0
      /\ firstElement = At(s, 1)
      /\ c # 0 => activeElement = s[c] /\ activeElement \in Elements
      /\ Len(s) # 0 => firstElement = s[1]
      /\ \A i \in 1 .. Len(s) : Items[i] = data[s[i]]
  BY SMTT(30), <1>1, Places DEF Chained, At, ValuesOf
<1>3. ASSUME Alike
      PROVE  Items' = Items /\ Cursor' = Cursor /\ Shown(s, c)' /\ Shaped'
  BY <1>1, <1>3, Stays
<1>4. ASSUME NEW op \in {"GetFirst", "GetValue"},
             Reading(op, IF op = "GetFirst" THEN firstElement ELSE activeElement)
      PROVE  Promise!Look /\ Shown(s, c)' /\ Shaped'
  <2>1. Alike
    BY <1>4 DEF Reading, KeepsElements
  <2>2. Items' = Items /\ Cursor' = Cursor /\ Shown(s, c)' /\ Shaped'
    BY <2>1, <1>3
  <2>3. CASE op = "GetFirst"
    <3>1. call' = <<"GetFirst">> /\ result' = IF firstElement = NULL THEN <<"error">> ELSE <<data[firstElement]>>
      BY <1>4, <2>3 DEF Reading, Returned
    <3>2. result' = IF 1 \in DOMAIN Items THEN <<Items[1]>> ELSE <<"error">>
      BY <3>1, <1>1, <1>2
    <3>3. Promise!Reads("GetFirst", 1)
      BY <3>1, <3>2, <2>2 DEF Promise!Reads, Promise!Returns
    <3> QED BY <3>3, <2>2 DEF Promise!Look
  <2>4. CASE op = "GetValue"
    <3>1. call' = <<"GetValue">> /\ result' = IF activeElement = NULL THEN <<"error">> ELSE <<data[activeElement]>>
      BY <1>4, <2>4 DEF Reading, Returned
    <3>2. result' = IF Cursor \in DOMAIN Items THEN <<Items[Cursor]>> ELSE <<"error">>
      BY <3>1, <1>1, <1>2
    <3>3. Promise!Reads("GetValue", Cursor)
      BY <3>1, <3>2, <2>2 DEF Promise!Reads, Promise!Returns
    <3> QED BY <3>3, <2>2 DEF Promise!Look
  <2> QED BY <2>3, <2>4
<1>5. ASSUME IsActive
      PROVE  Promise!Look /\ Shown(s, c)' /\ Shaped'
  <2>1. Items' = Items /\ Cursor' = Cursor /\ Shown(s, c)' /\ Shaped'
    <3>1. Alike
      BY <1>5 DEF IsActive, KeepsElements
    <3> QED BY <3>1, <1>3
  <2>2. (activeElement # NULL) = (Cursor # 0)
    BY <1>1, <1>2
  <2>3. Promise!Returns("IsActive", <<Cursor # 0>>)
    BY <1>5, <2>1, <2>2 DEF Promise!Returns, IsActive, Returned
  <2> QED BY <2>1, <2>3 DEF Promise!Look
<1>6. ASSUME Activate("First", firstElement)
      PROVE  Promise!Move /\ (\E u : Shown(s, u)') /\ Shaped'
  <2> DEFINE u == IF 1 \in DOMAIN Items THEN 1 ELSE 0
  <2>1. u \in 0 .. Len(s) /\ firstElement = At(s, u)
    BY <1>1, <1>2 DEF At
  <2>2. Promise!Does("First", Items, u) /\ (\E v : Shown(s, v)') /\ Shaped'
    BY <1>6, <2>1, CursorMoves
  <2> QED BY <2>2 DEF Promise!Move, Promise!Moves
<1>7. ASSUME Activate("Next", Follow(nextElement))
      PROVE  Promise!Move /\ (\E u : Shown(s, u)') /\ Shaped'
  <2> DEFINE at == IF Cursor = 0 THEN 0 ELSE Cursor + 1
             u == IF at \in DOMAIN Items THEN at ELSE 0
  <2>1. u \in 0 .. Len(s) /\ Follow(nextElement) = At(s, u)
    <3>1. CASE c = 0
      BY <3>1, <1>1, <1>2 DEF At, Follow
    <3>2. CASE c # 0
      <4>1. Follow(nextElement) = At(s, c + 1)
        BY <3>2, <1>1, <1>2 DEF Follow, Chained
      <4> QED BY <3>2, <4>1, <1>1 DEF At
    <3> QED BY <3>1, <3>2
  <2>2. Promise!Does("Next", Items, u) /\ (\E v : Shown(s, v)') /\ Shaped'
    <3> HIDE DEF u
    <3> QED BY <1>7, <2>1, CursorMoves
  <2> QED BY <2>2 DEF Promise!Move, Promise!Moves
<1>8. ASSUME NEW d \in Values, SetValue(d)
      PROVE  Promise!SetValue(d) /\ Shown(s, c)' /\ Shaped'
  <2>1. /\ UNCHANGED <<allocated, nextElement, firstElement, activeElement>>
        /\ call' = <<"SetValue">> /\ result' = <<>>
        /\ data' = IF activeElement = NULL THEN data ELSE [data EXCEPT ![activeElement] = d]
    BY <1>8 DEF SetValue, Returned
  <2>2. Shown(s, c)'
    BY <2>1 DEF Shown, Chained
  <2>3. /\ Shaped'
        /\ \A x \in Elements : data'[x] = IF c # 0 /\ x = activeElement THEN d ELSE data[x]
    BY <2>1, <1>2 DEF Shaped
  <2>4. Items' = ValuesOf(s)' /\ Cursor' = c
    BY <2>2, <1>1, Pictures DEF Shown
  <2>5. ValuesOf(s)' = IF c = 0 THEN Items ELSE [Items EXCEPT ![c] = d]
    <3>1. \A i \in 1 .. Len(s) : data'[s[i]] = IF i = c THEN d ELSE data[s[i]]
      BY <2>3, <1>1, <1>2 DEF Chained
    <3>2. Items = [i \in 1 .. Len(s) |-> data[s[i]]]
      BY <1>1 DEF ValuesOf
    <3>3. ValuesOf(s)' = [i \in 1 .. Len(s) |-> data'[s[i]]]
      BY DEF ValuesOf
    <3>4. CASE c = 0
      BY <3>1, <3>2, <3>3, <3>4
    <3>5. CASE c # 0
      <4>1. [Items EXCEPT ![c] = d] = [i \in 1 .. Len(s) |-> IF i = c THEN d ELSE data[s[i]]]
        BY <3>2, <3>5, <1>1
      <4>2. [i \in 1 .. Len(s) |-> data'[s[i]]] = [i \in 1 .. Len(s) |-> IF i = c THEN d ELSE data[s[i]]]
        BY <3>1
      <4> QED BY <3>5, <3>3, <4>1, <4>2
    <3> QED BY <3>4, <3>5
  <2> QED BY <2>1, <2>2, <2>3, <2>4, <2>5, <1>1 DEF Promise!SetValue, Promise!Does
<1> QED BY <1>4, <1>5, <1>6, <1>7, <1>8

\* An operation that only answers.
LEMMA Answers ==
  ASSUME Mapped, Mapped', NEW s, NEW c, Shown(s, c), Shaped,
         NEW op, NEW answer, Returned(<<op>>, answer), KeepsElements, activeElement' = activeElement
  PROVE  Promise!Returns(op, answer) /\ Shown(s, c)' /\ Shaped'
<1>1. activeElement' = At(s, c) /\ c \in 0 .. Len(s)
  BY DEF Shown
<1>2. Items' = Items /\ Cursor' = Cursor /\ Shown(s, c)' /\ Shaped'
  BY <1>1, Stays
<1> QED BY <1>2 DEF Promise!Returns, Returned

\* Where the pointers of a list are.
LEMMA PlacesOfPointers ==
  ASSUME NEW s, NEW c, Shown(s, c)
  PROVE  /\ s \in Seq(Elements) /\ Len(s) \in Nat /\ c \in 0 .. Len(s)
         /\ firstElement = At(s, 1) /\ activeElement = At(s, c)
         /\ Follow(nextElement) = At(s, IF c = 0 THEN 0 ELSE c + 1)
         /\ (activeElement = NULL <=> c = 0) /\ (firstElement = NULL <=> Len(s) = 0)
         /\ \A i \in 1 .. Len(s) :
              /\ At(s, i) = s[i] /\ s[i] \in Elements
              /\ s[i] = activeElement <=> i = c
<1>1. /\ s \in Seq(Elements) /\ Len(s) \in Nat /\ c \in 0 .. Len(s)
      /\ firstElement = At(s, 1) /\ activeElement = At(s, c)
      /\ \A i \in 1 .. Len(s) : s[i] \in Elements /\ s[i] # NULL
  BY Places DEF Shown, Chained
<1>2. activeElement = NULL <=> c = 0
  BY <1>1 DEF At
<1>3. firstElement = NULL <=> Len(s) = 0
  BY <1>1 DEF At
<1>4. Follow(nextElement) = At(s, IF c = 0 THEN 0 ELSE c + 1)
  <2>1. CASE c = 0
    BY <2>1, <1>1, <1>2 DEF Follow, At
  <2>2. CASE c # 0
    <3>1. c \in 1 .. Len(s) /\ activeElement = s[c]
      BY <2>2, <1>1 DEF At
    <3> QED BY <2>2, <3>1, <1>2 DEF Follow, Shown, Chained
  <2> QED BY <2>1, <2>2
<1>5. \A i \in 1 .. Len(s) : s[i] = activeElement <=> i = c
  <2> TAKE i \in 1 .. Len(s)
  <2>1. CASE c = 0
    BY <2>1, <1>1, <1>2
  <2>2. CASE c # 0
    <3>1. c \in 1 .. Len(s) /\ activeElement = s[c]
      BY <2>2, <1>1 DEF At
    <3> QED BY <3>1 DEF Shown, Chained
  <2> QED BY <2>1, <2>2
<1> QED BY <1>1, <1>2, <1>3, <1>4, <1>5 DEF At

\* The early returns and failed allocations that both lists have.
LEMMA SharedRefusals ==
  ASSUME Mapped, Mapped', NEW s, NEW c, Shown(s, c), Shaped
  PROVE  /\ activeElement = NULL /\ NothingToDo("InsertAfter") =>
              (\E d \in Values : Promise!Insert(d)) /\ Shown(s, c)' /\ Shaped'
         /\ firstElement = NULL /\ NothingToDo("DeleteFirst") =>
              Promise!Delete /\ Shown(s, c)' /\ Shaped'
         /\ Follow(nextElement) = NULL /\ NothingToDo("DeleteAfter") =>
              Promise!Delete /\ Shown(s, c)' /\ Shaped'
         /\ MallocFails("InsertFirst") => Promise!OutOfMemory /\ Shown(s, c)' /\ Shaped'
         /\ activeElement # NULL /\ MallocFails("InsertAfter") =>
              Promise!OutOfMemory /\ Shown(s, c)' /\ Shaped'
<1>1. /\ Len(s) \in Nat /\ c \in 0 .. Len(s) /\ DOMAIN Items = 1 .. Len(s) /\ Cursor = c
      /\ activeElement = NULL <=> c = 0
      /\ firstElement = NULL <=> Len(s) = 0
      /\ Follow(nextElement) = At(s, IF c = 0 THEN 0 ELSE c + 1)
      /\ \A i \in Int : At(s, i) = NULL <=> i \notin 1 .. Len(s)
  BY Places, PlacesOfPointers DEF Mapped, ValuesOf, Shown
<1>2. ASSUME NEW op, NothingToDo(op)
      PROVE  Promise!Returns(op, <<>>) /\ Shown(s, c)' /\ Shaped'
  BY <1>2, Answers DEF NothingToDo
<1>3. ASSUME NEW op, MallocFails(op)
      PROVE  Promise!Returns(op, <<"error">>) /\ Shown(s, c)' /\ Shaped'
  BY <1>3, Answers DEF MallocFails
<1>4. ASSUME activeElement = NULL, NothingToDo("InsertAfter")
      PROVE  (\E d \in Values : Promise!Insert(d)) /\ Shown(s, c)' /\ Shaped'
  <2>1. \A d \in Values : Promise!Insert(d)
    BY <1>1, <1>2, <1>4 DEF Promise!Insert
  <2> QED BY <2>1, <1>2, <1>4, ValuesAssumption
<1>5. ASSUME firstElement = NULL, NothingToDo("DeleteFirst")
      PROVE  Promise!Delete /\ Shown(s, c)' /\ Shaped'
  <2>1. Promise!Removes("DeleteFirst", 1)
    BY <1>1, <1>2, <1>5 DEF Promise!Removes
  <2> QED BY <2>1, <1>2, <1>5 DEF Promise!Delete
<1>6. ASSUME Follow(nextElement) = NULL, NothingToDo("DeleteAfter")
      PROVE  Promise!Delete /\ Shown(s, c)' /\ Shaped'
  <2> DEFINE at == IF Cursor = 0 THEN 0 ELSE Cursor + 1
  <2>1. at \notin DOMAIN Items
    BY <1>1, <1>6
  <2>2. Promise!Removes("DeleteAfter", at)
    <3> HIDE DEF at
    <3> QED BY <2>1, <1>2, <1>6 DEF Promise!Removes
  <2> QED BY <2>2, <1>2, <1>6 DEF Promise!Delete
<1>7. ASSUME MallocFails("InsertFirst")
      PROVE  Promise!OutOfMemory /\ Shown(s, c)' /\ Shaped'
  BY <1>3, <1>7 DEF Promise!OutOfMemory
<1>8. ASSUME activeElement # NULL, MallocFails("InsertAfter")
      PROVE  Promise!OutOfMemory /\ Shown(s, c)' /\ Shaped'
  BY <1>1, <1>3, <1>8 DEF Promise!OutOfMemory
<1> QED BY <1>4, <1>5, <1>6, <1>7, <1>8

\* An empty list, at the beginning and after Dispose.
LEMMA Emptied ==
  ASSUME allocated = {}, data = [e \in Elements |-> NULL],
         nextElement = [e \in Elements |-> NULL], firstElement = NULL, activeElement = NULL
  PROVE  Shown(<<>>, 0) /\ Shaped /\ ValuesOf(<<>>) = <<>>
<1>1. <<>> \in Seq(Elements) /\ Len(<<>>) = 0 /\ \A i : i \notin 1 .. 0
  OBVIOUS
<1>2. At(<<>>, 1) = NULL /\ At(<<>>, 0) = NULL
  BY <1>1 DEF At
<1>3. Chained(<<>>)
  BY <1>1, <1>2 DEF Chained
<1>4. ValuesOf(<<>>) = <<>>
  BY <1>1 DEF ValuesOf
<1> QED BY <1>1, <1>2, <1>3, <1>4 DEF Shown, Shaped

\* Dispose leaves it.
LEMMA Disposes ==
  ASSUME Mapped', DisposeElements
  PROVE  Promise!Dispose /\ Shown(<<>>, 0)' /\ Shaped'
<1>1. Shown(<<>>, 0)' /\ Shaped' /\ (ValuesOf(<<>>) = <<>>)'
  <2>1. <<>> \in Seq(Elements) /\ Len(<<>>) = 0 /\ \A i : i \notin 1 .. 0
    OBVIOUS
  <2>2. At(<<>>, 1) = NULL /\ At(<<>>, 0) = NULL
    BY <2>1 DEF At
  <2>3. Chained(<<>>)'
    BY <2>1, <2>2 DEF Chained, DisposeElements
  <2>4. (ValuesOf(<<>>) = <<>>)'
    BY <2>1 DEF ValuesOf
  <2> QED BY <2>1, <2>2, <2>3, <2>4 DEF Shown, Shaped, DisposeElements
<1>2. Items' = <<>> /\ Cursor' = 0
  BY <1>1 DEF Mapped
<1> QED BY <1>1, <1>2 DEF Promise!Dispose, Promise!Does, DisposeElements, Returned

-----------------------------------------------------------------------------
(* The singly linked list.                                                 *)

\* The elements are one chain and the cursor is in it, or nowhere.
InOneChain == Shaped /\ \E s, c : Shown(s, c)

\* Inserting into the singly linked list.
LEMMA ListInserts ==
  ASSUME Mapped, Mapped', NEW s, NEW c, Shown(s, c), Shaped, NEW e \in Elements, NEW d \in Values,
         List_InsertFirst(e, d) \/ List_InsertAfter(e, d)
  PROVE  Promise!Insert(d) /\ InOneChain'
<1>1. /\ s \in Seq(Elements) /\ Len(s) \in Nat /\ c \in 0 .. Len(s)
      /\ firstElement = At(s, 1) /\ activeElement = At(s, c) /\ (activeElement = NULL <=> c = 0)
      /\ At(s, 0) = NULL /\ NULL \notin Elements
      /\ \A i \in 1 .. Len(s) : nextElement[s[i]] = At(s, i + 1) /\ At(s, i) = s[i]
  BY PlacesOfPointers, ElementsAssumption DEF Shown, Chained, At
<1>2. CASE List_InsertFirst(e, d)
  <2>1. /\ Allocate(e, d) /\ Returned(<<"InsertFirst">>, <<>>) /\ activeElement' = activeElement
        /\ firstElement' = e /\ nextElement' = [nextElement EXCEPT ![e] = firstElement]
    BY <1>2 DEF List_InsertFirst, List_Insert
  <2>2. nextElement' = [x \in Elements |-> IF x = e THEN At(s, 1)
                          ELSE IF x = At(s, 1 - 1) THEN e ELSE nextElement[x]]
    BY <2>1, <1>1 DEF Shaped
  <2>3. 1 \in 1 .. Len(s) + 1 /\ firstElement' = IF 1 = 1 THEN e ELSE firstElement
    BY <2>1, <1>1
  <2>4. Inserted("InsertFirst", s, c, 1, e, d)
    <3>1. LinkedAt(s, 1, e)
      BY <2>1, <2>2, <2>3 DEF LinkedAt
    <3> QED BY <3>1, <2>1, <2>3, Inserts
  <2>5. Promise!Insert(d)
    BY <2>4, InsertionsOfPromise DEF Inserted
  <2> QED BY <2>4, <2>5 DEF InOneChain, Inserted
<1>3. CASE List_InsertAfter(e, d)
  <2> DEFINE k == c + 1
  <2>1. /\ Allocate(e, d) /\ Returned(<<"InsertAfter">>, <<>>) /\ activeElement' = activeElement
        /\ firstElement' = firstElement /\ activeElement # NULL
        /\ nextElement' = [nextElement EXCEPT ![e] = nextElement[activeElement],
                                              ![activeElement] = e]
    BY <1>3 DEF List_InsertAfter, List_Insert
  <2>2. c \in 1 .. Len(s) /\ k \in 1 .. Len(s) + 1 /\ k # 1 /\ k - 1 = c /\ c # 0 /\ activeElement = s[c]
    BY <2>1, <1>1
  <2>3. activeElement # e /\ activeElement \in Elements
    BY <2>1, <2>2, Places DEF Shown, Allocate
  <2>4. nextElement[activeElement] = At(s, k) /\ At(s, k - 1) = activeElement
    BY <2>2, <1>1
  <2> HIDE DEF k
  <2>5. nextElement' = [x \in Elements |-> IF x = e THEN At(s, k)
                          ELSE IF x = At(s, k - 1) THEN e ELSE nextElement[x]]
    BY <2>1, <2>3, <2>4 DEF Shaped
  <2>6. firstElement' = IF k = 1 THEN e ELSE firstElement
    BY <2>1, <2>2
  <2>7. Inserted("InsertAfter", s, c, k, e, d)
    <3>1. LinkedAt(s, k, e)
      BY <2>1, <2>5, <2>6 DEF LinkedAt
    <3> QED BY <3>1, <2>1, <2>2, Inserts
  <2>8. Promise!Insert(d)
    BY SMTT(30), <2>2, <2>7, InsertionsOfPromise DEF k, Inserted
  <2> QED BY <2>7, <2>8 DEF InOneChain, Inserted
<1> QED BY <1>2, <1>3

\* Deleting from it.
LEMMA ListDeletes ==
  ASSUME Mapped, Mapped', NEW s, NEW c, Shown(s, c), Shaped, List_DeleteFirst \/ List_DeleteAfter
  PROVE  Promise!Delete /\ InOneChain'
<1>1. /\ s \in Seq(Elements) /\ Len(s) \in Nat /\ c \in 0 .. Len(s)
      /\ firstElement = At(s, 1) /\ activeElement = At(s, c)
      /\ (activeElement = NULL <=> c = 0) /\ (firstElement = NULL <=> Len(s) = 0)
      /\ Follow(nextElement) = At(s, IF c = 0 THEN 0 ELSE c + 1)
      /\ \A i \in 1 .. Len(s) : At(s, i) = s[i] /\ (s[i] = activeElement <=> i = c)
  BY PlacesOfPointers
<1>2. /\ Cursor = c /\ At(s, 0) = NULL /\ NULL \notin Elements
      /\ \A i \in 1 .. Len(s) : nextElement[s[i]] = At(s, i + 1)
  BY ElementsAssumption DEF Shown, Chained, At, Mapped
<1>3. CASE List_DeleteFirst
  <2>1. /\ Free(firstElement) /\ Returned(<<"DeleteFirst">>, <<>>) /\ firstElement # NULL
        /\ activeElement' = IF activeElement = firstElement THEN NULL ELSE activeElement
        /\ firstElement' = nextElement[firstElement]
        /\ nextElement' = Ended(nextElement, firstElement)
    BY <1>3 DEF List_DeleteFirst
  <2>2. 1 \in 1 .. Len(s) /\ firstElement = s[1] /\ 1 + 1 = 2 /\ 1 - 1 = 0
    BY <2>1, <1>1
  <2>3. nextElement' = [x \in Elements |-> IF x = s[1] THEN NULL
                          ELSE IF x = At(s, 1 - 1) THEN At(s, 1 + 1) ELSE nextElement[x]]
    BY <2>1, <2>2, <1>1, <1>2 DEF Ended
  <2>4. /\ firstElement' = IF 1 = 1 THEN At(s, 2) ELSE firstElement
        /\ activeElement' = IF c = 1 THEN NULL ELSE activeElement
    BY <2>1, <2>2, <1>1, <1>2
  <2>5. Removed("DeleteFirst", s, c, 1)
    <3>1. ClosedAt(s, c, 1)
      BY <2>3, <2>4 DEF ClosedAt
    <3> QED BY <3>1, <2>1, <2>2, Deletes
  <2> QED BY <2>5 DEF InOneChain, Promise!Delete, Removed
<1>4. CASE List_DeleteAfter
  <2> DEFINE k == c + 1
  <2>1. LET e == Follow(nextElement) IN
        /\ e # NULL /\ Free(e) /\ Returned(<<"DeleteAfter">>, <<>>)
        /\ nextElement' = [Ended(nextElement, e) EXCEPT ![activeElement] = nextElement[e]]
        /\ UNCHANGED <<firstElement, activeElement>>
    BY <1>4 DEF List_DeleteAfter
  <2>2. c # 0 /\ c \in 1 .. Len(s) /\ k \in 1 .. Len(s) /\ k # 1 /\ k - 1 = c /\ c # k
    BY <2>1, <1>1 DEF At
  <2>3. /\ Follow(nextElement) = s[k] /\ nextElement[s[k]] = At(s, k + 1)
        /\ At(s, k - 1) = activeElement /\ s[k] # activeElement
    BY <2>2, <1>1, <1>2
  <2> HIDE DEF k
  <2>4. nextElement' = [x \in Elements |-> IF x = s[k] THEN NULL
                          ELSE IF x = At(s, k - 1) THEN At(s, k + 1) ELSE nextElement[x]]
    BY <2>1, <2>3 DEF Ended
  <2>5. /\ firstElement' = IF k = 1 THEN At(s, 2) ELSE firstElement
        /\ activeElement' = IF c = k THEN NULL ELSE activeElement
    BY <2>1, <2>2
  <2>6. Removed("DeleteAfter", s, c, k)
    <3>1. ClosedAt(s, c, k)
      BY <2>4, <2>5 DEF ClosedAt
    <3> QED BY <3>1, <2>1, <2>2, <2>3, Deletes
  <2>7. k = IF Cursor = 0 THEN 0 ELSE Cursor + 1
    BY <2>2, <1>2 DEF k
  <2> QED BY <2>6, <2>7 DEF InOneChain, Promise!Delete, Removed
<1> QED BY <1>3, <1>4

\* A call of the singly linked list is a call of the abstract one.
LEMMA ListSteps ==
  ASSUME Mapped, Mapped', InOneChain, [List_Next]_elementVars
  PROVE  [Promise!Next]_(Promise!listVars) /\ InOneChain'
<1>1. PICK s, c : Shown(s, c)
  BY DEF InOneChain
<1>2. Shaped
  BY DEF InOneChain
<1>3. ASSUME Shown(s, c)' /\ Shaped'
      PROVE  InOneChain'
  BY <1>3 DEF InOneChain
<1>4. CASE \E e \in Elements, d \in Values : List_InsertFirst(e, d) \/ List_InsertAfter(e, d)
  BY <1>1, <1>2, <1>4, ListInserts DEF Promise!Next
<1>5. CASE List_DeleteFirst \/ List_DeleteAfter
  BY <1>1, <1>2, <1>5, ListDeletes DEF Promise!Next
<1>6. CASE List_NothingToDo \/ List_Fails
  BY <1>1, <1>2, <1>3, <1>6, SharedRefusals DEF Promise!Next, List_NothingToDo, List_Fails
<1>7. CASE List_Move
  <2>1. Promise!Move /\ (\E u : Shown(s, u)') /\ Shaped'
    BY <1>1, <1>2, <1>7, SharedSteps DEF List_Move
  <2> QED BY <2>1 DEF Promise!Next, InOneChain
<1>8. CASE List_Get
  <2>1. Promise!Look /\ Shown(s, c)' /\ Shaped'
    <3>1. CASE Reading("GetFirst", firstElement)
      <4>1. Reading("GetFirst", IF "GetFirst" = "GetFirst" THEN firstElement ELSE activeElement)
        BY <3>1
      <4> QED BY <4>1, <1>1, <1>2, SharedSteps
    <3>2. CASE Reading("GetValue", activeElement)
      <4>1. Reading("GetValue", IF "GetValue" = "GetFirst" THEN firstElement ELSE activeElement)
        BY <3>2
      <4> QED BY <4>1, <1>1, <1>2, SharedSteps
    <3>3. CASE IsActive
      BY <3>3, <1>1, <1>2, SharedSteps
    <3> QED BY <1>8, <3>1, <3>2, <3>3 DEF List_Get
  <2> QED BY <2>1, <1>3 DEF Promise!Next
<1>9. CASE List_Dispose
  BY <1>9, Disposes DEF Promise!Next, InOneChain, List_Dispose
<1>10. CASE \E d \in Values : List_SetValue(d)
  BY <1>1, <1>2, <1>3, <1>10, SharedSteps DEF Promise!Next, List_SetValue
<1>11. CASE UNCHANGED elementVars
  <2>1. activeElement' = At(s, c) /\ c \in 0 .. Len(s) /\ KeepsElements /\ UNCHANGED <<call, result>>
    BY <1>1, <1>11 DEF Shown, elementVars, KeepsElements
  <2>2. Items' = Items /\ Cursor' = Cursor /\ Shown(s, c)' /\ Shaped'
    BY <2>1, <1>1, <1>2, Stays
  <2> QED BY <2>1, <2>2, <1>3 DEF Promise!listVars
<1> QED BY <1>4, <1>5, <1>6, <1>7, <1>8, <1>9, <1>10, <1>11 DEF List_Next

\* Both lists begin empty.
LEMMA BeginsEmpty ==
  ASSUME Mapped, ElementsInit
  PROVE  Promise!Init /\ Shown(<<>>, 0) /\ Shaped
<1>1. Shown(<<>>, 0) /\ Shaped /\ ValuesOf(<<>>) = <<>>
  BY Emptied DEF ElementsInit
<1>2. Items = <<>> /\ Cursor = 0
  BY <1>1 DEF Mapped
<1> QED BY <1>1, <1>2 DEF Promise!Init, ElementsInit

\* The singly linked list is a sequence with a cursor, whatever is called in
\* whatever order and whichever malloc() fails.
THEOREM SingleActsAsCursorList == List_Spec => ActsAsCursorList
<1> DEFINE M == Mapped
<1>1. M
  BY Mapping
<1> HIDE DEF M
<1>2. []M
  BY <1>1, PTL
<1>3. M /\ List_Init => Promise!Init /\ InOneChain
  BY BeginsEmpty DEF M, List_Init, InOneChain
<1>4. M /\ M' /\ InOneChain /\ [List_Next]_elementVars =>
        [Promise!Next]_(Promise!listVars) /\ InOneChain'
  BY ListSteps DEF M
<1> QED BY <1>2, <1>3, <1>4, PTL DEF List_Spec, ActsAsCursorList, Promise!Spec

\* It loses no element and keeps no pointer to freed memory.
THEOREM SingleKeepsChain == List_Spec => []ChainIsAllocated
<1> DEFINE M == Mapped
<1>1. M
  BY Mapping
<1> HIDE DEF M
<1>2. []M
  BY <1>1, PTL
<1>3. M /\ List_Init => InOneChain
  BY BeginsEmpty DEF M, List_Init, InOneChain
<1>4. M /\ M' /\ InOneChain /\ [List_Next]_elementVars => InOneChain'
  BY ListSteps DEF M
<1>5. M /\ InOneChain => ChainIsAllocated
  BY DEF M, Mapped, InOneChain
<1> QED BY <1>2, <1>3, <1>4, <1>5, PTL DEF List_Spec

-----------------------------------------------------------------------------
(* The doubly linked list.                                                 *)

\* The elements are one chain in both directions, and the cursor is in it, or nowhere.
InBothChains == Shaped /\ \E s, c : Shown(s, c) /\ Backwards(s)

\* The pointers back, and that lastElement is the other end.
LEMMA PlacesBack ==
  ASSUME NEW s, NEW c, Shown(s, c), Backwards(s)
  PROVE  /\ lastElement = At(s, Len(s)) /\ (lastElement = NULL <=> Len(s) = 0)
         /\ Follow(previousElement) = At(s, IF c = 0 THEN 0 ELSE c - 1)
<1>1. /\ s \in Seq(Elements) /\ Len(s) \in Nat /\ c \in 0 .. Len(s)
      /\ activeElement = At(s, c) /\ (activeElement = NULL <=> c = 0)
      /\ \A i \in 1 .. Len(s) : At(s, i) = s[i] /\ s[i] # NULL
  BY PlacesOfPointers, Places DEF Shown
<1>2. lastElement = At(s, Len(s)) /\ \A i \in 1 .. Len(s) : previousElement[s[i]] = At(s, i - 1)
  BY DEF Backwards
<1>3. lastElement = NULL <=> Len(s) = 0
  BY <1>1, <1>2 DEF At
<1>4. Follow(previousElement) = At(s, IF c = 0 THEN 0 ELSE c - 1)
  <2>1. CASE c = 0
    BY <2>1, <1>1 DEF Follow, At
  <2>2. CASE c # 0
    <3>1. c \in 1 .. Len(s) /\ activeElement = s[c]
      BY <2>2, <1>1
    <3> QED BY <2>2, <3>1, <1>1, <1>2 DEF Follow
  <2> QED BY <2>1, <2>2
<1> QED BY <1>2, <1>3, <1>4

\* The links back of a list with a new element at place k.
LEMMA InsertedBack ==
  ASSUME NEW s, NEW c, Shown(s, c), Backwards(s), NEW k \in 1 .. Len(s) + 1, NEW e \in Elements,
         e \notin allocated,
         previousElement' = [x \in Elements |-> IF x = e THEN At(s, k - 1)
                               ELSE IF x = At(s, k) THEN e ELSE previousElement[x]],
         lastElement' = IF k = Len(s) + 1 THEN e ELSE lastElement
  PROVE  Backwards(InsertAt(s, k, e))'
<1> DEFINE t == InsertAt(s, k, e)
<1>1. /\ s \in Seq(Elements) /\ Len(s) \in Nat /\ k \in 1 .. Len(s) + 1
      /\ \A i \in 1 .. Len(s) : s[i] \in Elements /\ s[i] # e /\ s[i] # NULL
      /\ \A i, j \in 1 .. Len(s) : s[i] = s[j] => i = j
      /\ e # NULL
  BY Places, ElementsAssumption DEF Shown, Chained
<1>2. /\ t \in Seq(Elements) /\ Len(t) = Len(s) + 1
      /\ \A i \in 1 .. Len(s) + 1 :
           t[i] = IF i < k THEN s[i] ELSE IF i = k THEN e ELSE s[i - 1]
  BY <1>1, InsertedPlaces
<1> HIDE DEF t
<1>3. \A i \in Int : At(t, i) = IF i < k THEN At(s, i) ELSE IF i = k THEN e ELSE At(s, i - 1)
  BY <1>1, <1>2 DEF At
<1>4. lastElement = At(s, Len(s)) /\ \A i \in 1 .. Len(s) : previousElement[s[i]] = At(s, i - 1)
  BY DEF Backwards
<1>5. lastElement' = At(t, Len(t))
  <2>1. At(t, Len(t)) = IF k = Len(s) + 1 THEN e ELSE At(s, Len(s))
    BY <1>1, <1>2, <1>3
  <2> QED BY <2>1, <1>4
<1>6. ASSUME NEW i \in 1 .. Len(t) PROVE previousElement'[t[i]] = At(t, i - 1)
  <2>1. i \in Int /\ i - 1 \in Int
    BY <1>1, <1>2
  <2>2. CASE i < k
    <3>1. /\ i \in 1 .. Len(s) /\ t[i] = s[i] /\ s[i] # At(s, k)
          /\ At(t, i - 1) = At(s, i - 1)
      BY <2>1, <2>2, <1>1, <1>2, <1>3 DEF At
    <3> QED BY <3>1, <1>1, <1>4
  <2>3. CASE i = k
    <3>1. t[i] = e /\ At(t, i - 1) = At(s, k - 1)
      BY <2>1, <2>3, <1>1, <1>2, <1>3
    <3> QED BY <3>1, <1>1
  <2>4. CASE i = k + 1
    <3>1. k \in 1 .. Len(s) /\ t[i] = s[k] /\ s[k] = At(s, k) /\ At(t, i - 1) = e
      BY <2>1, <2>4, <1>1, <1>2, <1>3 DEF At
    <3> QED BY <3>1, <1>1
  <2>5. CASE i > k + 1
    <3>1. /\ i - 1 \in 1 .. Len(s) /\ t[i] = s[i - 1] /\ s[i - 1] # At(s, k)
          /\ At(t, i - 1) = At(s, (i - 1) - 1)
      BY <2>1, <2>5, <1>1, <1>2, <1>3 DEF At
    <3>2. previousElement[s[i - 1]] = At(s, (i - 1) - 1)
      BY <3>1, <1>4
    <3> QED BY <3>1, <3>2, <1>1
  <2> QED BY <2>1, <2>2, <2>3, <2>4, <2>5, <1>1
<1>7. previousElement' = [x \in Elements |-> previousElement'[x]]
  OBVIOUS
<1>8. Backwards(t)'
  BY <1>5, <1>6, <1>7 DEF Backwards, At
<1> QED BY <1>8 DEF t

\* The links back of a list that lost the element at place k.
LEMMA RemovedBack ==
  ASSUME NEW s, NEW c, Shown(s, c), Backwards(s), NEW k \in 1 .. Len(s),
         previousElement' = [x \in Elements |-> IF x = s[k] THEN NULL
                               ELSE IF x = At(s, k + 1) THEN At(s, k - 1) ELSE previousElement[x]],
         lastElement' = IF k = Len(s) THEN At(s, k - 1) ELSE lastElement
  PROVE  Backwards(RemoveAt(s, k))'
<1> DEFINE t == RemoveAt(s, k)
<1>1. /\ s \in Seq(Elements) /\ Len(s) \in Nat /\ k \in 1 .. Len(s)
      /\ \A i \in 1 .. Len(s) : s[i] \in Elements /\ s[i] # NULL
      /\ \A i, j \in 1 .. Len(s) : s[i] = s[j] => i = j
  BY Places DEF Shown, Chained
<1>2. /\ t \in Seq(Elements) /\ Len(t) = Len(s) - 1
      /\ \A i \in 1 .. Len(s) - 1 : t[i] = IF i < k THEN s[i] ELSE s[i + 1]
  BY <1>1, RemainingPlaces
<1> HIDE DEF t
<1>3. \A i \in Int : At(t, i) = IF i < k THEN At(s, i) ELSE At(s, i + 1)
  BY <1>1, <1>2 DEF At
<1>4. lastElement = At(s, Len(s)) /\ \A i \in 1 .. Len(s) : previousElement[s[i]] = At(s, i - 1)
  BY DEF Backwards
<1>5. lastElement' = At(t, Len(t))
  <2>1. CASE k = Len(s)
    <3>1. Len(t) = k - 1 /\ At(t, k - 1) = At(s, k - 1)
      BY <2>1, <1>1, <1>2, <1>3
    <3> QED BY <2>1, <3>1
  <2>2. CASE k # Len(s)
    <3>1. Len(t) \in Int /\ ~(Len(t) < k) /\ Len(t) + 1 = Len(s)
      BY <2>2, <1>1, <1>2
    <3>2. At(t, Len(t)) = At(s, Len(s))
      BY <3>1, <1>3
    <3> QED BY <2>2, <3>2, <1>4
  <2> QED BY <2>1, <2>2
<1>6. ASSUME NEW i \in 1 .. Len(t) PROVE previousElement'[t[i]] = At(t, i - 1)
  <2>1. i \in Int /\ i - 1 \in Int
    BY <1>1, <1>2
  <2>2. CASE i < k
    <3>1. /\ i \in 1 .. Len(s) /\ t[i] = s[i] /\ s[i] # At(s, k + 1) /\ s[i] # s[k]
          /\ At(t, i - 1) = At(s, i - 1)
      BY SMTT(30), <2>1, <2>2, <1>1, <1>2, <1>3 DEF At
    <3> QED BY <3>1, <1>1, <1>4
  <2>3. CASE i = k
    <3>1. /\ k + 1 \in 1 .. Len(s) /\ t[i] = s[k + 1] /\ s[k + 1] = At(s, k + 1) /\ s[k + 1] # s[k]
          /\ At(t, i - 1) = At(s, k - 1)
      BY <2>1, <2>3, <1>1, <1>2, <1>3 DEF At
    <3> QED BY <3>1, <1>1
  <2>4. CASE i > k
    <3>1. /\ i + 1 \in 1 .. Len(s) /\ t[i] = s[i + 1] /\ s[i + 1] # At(s, k + 1) /\ s[i + 1] # s[k]
          /\ At(t, i - 1) = At(s, (i + 1) - 1)
      BY <2>1, <2>4, <1>1, <1>2, <1>3 DEF At
    <3>2. previousElement[s[i + 1]] = At(s, (i + 1) - 1)
      BY <3>1, <1>4
    <3> QED BY <3>1, <3>2, <1>1
  <2> QED BY <2>1, <2>2, <2>3, <2>4, <1>1
<1>7. previousElement' = [x \in Elements |-> previousElement'[x]]
  OBVIOUS
<1>8. Backwards(t)'
  BY <1>5, <1>6, <1>7 DEF Backwards, At
<1> QED BY <1>8 DEF t

\* DLL_Insert between two neighbours is an insertion at the place between them.
LEMMA DoublyInserted ==
  ASSUME Mapped, Mapped', NEW s, NEW c, Shown(s, c), Shaped, Backwards(s),
         NEW k, k \in 1 .. Len(s) + 1, NEW op, NEW e, NEW d, e \in Elements,
         DLL_Insert(op, e, d, At(s, k - 1), At(s, k))
  PROVE  Inserted(op, s, c, k, e, d) /\ InBothChains'
<1>1. /\ Len(s) \in Nat /\ NULL \notin Elements
      /\ \A i \in 1 .. Len(s) : s[i] \in allocated
      /\ \A i \in Int : At(s, i) = NULL <=> i \notin 1 .. Len(s)
  BY Places, ElementsAssumption DEF Shown
<1>2. /\ Allocate(e, d) /\ Returned(<<op>>, <<>>) /\ activeElement' = activeElement
      /\ Link(e, At(s, k - 1), At(s, k)) /\ e \notin allocated
  BY DEF DLL_Insert, Allocate
<1>3. k \in Int /\ k - 1 \in Int /\ (k - 1 \notin 1 .. Len(s) <=> k = 1) /\ (k \notin 1 .. Len(s) <=> k = Len(s) + 1)
  BY <1>1
<1>4. (At(s, k - 1) = NULL <=> k = 1) /\ (At(s, k) = NULL <=> k = Len(s) + 1)
  BY <1>1, <1>3
<1>5. At(s, k - 1) # e /\ At(s, k) # e
  BY <1>1, <1>2 DEF At
<1>6. ASSUME NEW x \in Elements, NEW link, NEW from, NEW to, from # e
      PROVE  (CASE x = e -> to [] x = from -> e [] OTHER -> link[x])
               = IF x = e THEN to ELSE IF x = from THEN e ELSE link[x]
  <2>1. CASE x = e
    BY <2>1, <1>6
  <2>2. CASE x = from
    BY <2>2, <1>6
  <2> QED BY <2>1, <2>2
<1>7. LinkedAt(s, k, e)
  <2>1. nextElement' = [x \in Elements |-> IF x = e THEN At(s, k)
                          ELSE IF x = At(s, k - 1) THEN e ELSE nextElement[x]]
    BY <1>2, <1>5, <1>6 DEF Link
  <2> QED BY <2>1, <1>2, <1>4 DEF LinkedAt, Link
<1>8. Inserted(op, s, c, k, e, d)
  BY <1>2, <1>7, Inserts
<1>9. Backwards(InsertAt(s, k, e))'
  <2>1. previousElement' = [x \in Elements |-> IF x = e THEN At(s, k - 1)
                              ELSE IF x = At(s, k) THEN e ELSE previousElement[x]]
    BY <1>2, <1>5, <1>6 DEF Link
  <2>2. lastElement' = IF k = Len(s) + 1 THEN e ELSE lastElement
    BY <1>2, <1>4 DEF Link
  <2> QED BY <2>1, <2>2, <1>2, InsertedBack
<1> QED BY <1>8, <1>9 DEF Inserted, InBothChains

\* DLL_Delete between two neighbours is a deletion at the place between them.
LEMMA DoublyDeleted ==
  ASSUME Mapped, Mapped', NEW s, NEW c, Shown(s, c), Shaped, Backwards(s),
         NEW k, k \in 1 .. Len(s), NEW op,
         DLL_Delete(op, s[k], At(s, k - 1), At(s, k + 1)),
         activeElement' = IF c = k THEN NULL ELSE activeElement
  PROVE  Promise!Removes(op, k) /\ InBothChains'
<1>1. /\ Len(s) \in Nat /\ NULL \notin Elements
      /\ \A i \in 1 .. Len(s) : s[i] \in Elements
      /\ \A i \in Int : At(s, i) = NULL <=> i \notin 1 .. Len(s)
      /\ \A i, j \in 1 .. Len(s) : At(s, i) = At(s, j) => i = j
      /\ At(s, k) = s[k]
  BY Places, ElementsAssumption DEF Shown, At
<1>2. /\ Free(s[k]) /\ Returned(<<op>>, <<>>) /\ Unlink(s[k], At(s, k - 1), At(s, k + 1))
  BY DEF DLL_Delete
<1>3. /\ k \in Int /\ k - 1 \in Int /\ k + 1 \in Int
      /\ (k - 1 \notin 1 .. Len(s) <=> k = 1) /\ (k + 1 \notin 1 .. Len(s) <=> k = Len(s))
  BY <1>1
<1>4. /\ At(s, k - 1) = NULL <=> k = 1
      /\ At(s, k + 1) = NULL <=> k = Len(s)
      /\ At(s, k - 1) # s[k] /\ At(s, k + 1) # s[k]
      /\ k = 1 => At(s, k + 1) = At(s, 2)
  <2>1. (At(s, k - 1) = NULL <=> k = 1) /\ (At(s, k + 1) = NULL <=> k = Len(s))
    BY <1>1, <1>3
  <2>2. At(s, k - 1) # s[k] /\ At(s, k + 1) # s[k]
    BY <1>1, <1>3 DEF At
  <2>3. k = 1 => k + 1 = 2
    OBVIOUS
  <2> QED BY <2>1, <2>2, <2>3
<1>5. ClosedAt(s, c, k)
  <2>1. nextElement' = [x \in Elements |-> IF x = s[k] THEN NULL
                          ELSE IF x = At(s, k - 1) THEN At(s, k + 1) ELSE nextElement[x]]
    BY <1>2, <1>4 DEF Unlink, Ended
  <2>2. firstElement' = IF k = 1 THEN At(s, 2) ELSE firstElement
    BY <1>2, <1>4 DEF Unlink
  <2> QED BY <2>1, <2>2 DEF ClosedAt
<1>6. Removed(op, s, c, k)
  BY <1>2, <1>5, Deletes
<1>7. Backwards(RemoveAt(s, k))'
  <2>1. previousElement' = [x \in Elements |-> IF x = s[k] THEN NULL
                              ELSE IF x = At(s, k + 1) THEN At(s, k - 1) ELSE previousElement[x]]
    BY <1>2, <1>4 DEF Unlink, Ended
  <2>2. lastElement' = IF k = Len(s) THEN At(s, k - 1) ELSE lastElement
    BY <1>2, <1>4 DEF Unlink
  <2> QED BY <2>1, <2>2, RemovedBack
<1> QED BY <1>6, <1>7 DEF Removed, InBothChains

\* The abstract list as it stands.
LEMMA Standing ==
  ASSUME Mapped, NEW s, NEW c, Shown(s, c)
  PROVE  Cursor = c /\ Items = ValuesOf(s) /\ DOMAIN Items = 1 .. Len(s) /\ Len(Items) = Len(s)
<1>1. Cursor = c /\ Items = ValuesOf(s) /\ Len(s) \in Nat
  BY Places DEF Mapped, Shown
<1> QED BY <1>1 DEF ValuesOf

\* Inserting into the doubly linked list.
LEMMA DoublyInserts ==
  ASSUME Mapped, Mapped', NEW s, NEW c, Shown(s, c), Shaped, Backwards(s),
         NEW e \in Elements, NEW d \in Values,
         \/ DLL_InsertFirst(e, d) \/ DLL_InsertLast(e, d)
         \/ DLL_InsertAfter(e, d) \/ DLL_InsertBefore(e, d)
  PROVE  Promise!Insert(d) /\ InBothChains'
<1>1. /\ Len(s) \in Nat /\ c \in 0 .. Len(s) /\ Cursor = c /\ Len(Items) = Len(s)
      /\ firstElement = At(s, 1) /\ activeElement = At(s, c) /\ (activeElement = NULL <=> c = 0)
      /\ lastElement = At(s, Len(s))
      /\ At(s, 0) = NULL /\ At(s, Len(s) + 1) = NULL
  BY PlacesOfPointers, PlacesBack, Standing DEF At
<1>2. \A i \in 1 .. Len(s) :
        /\ nextElement[s[i]] = At(s, i + 1) /\ previousElement[s[i]] = At(s, i - 1)
        /\ At(s, i) = s[i]
  BY DEF Shown, Chained, Backwards, At
<1>3. CASE DLL_InsertFirst(e, d)
  <2>1. 1 \in 1 .. Len(s) + 1 /\ 1 - 1 = 0
    BY <1>1
  <2>2. DLL_Insert("InsertFirst", e, d, At(s, 1 - 1), At(s, 1))
    BY <1>1, <1>3, <2>1 DEF DLL_InsertFirst
  <2>3. Inserted("InsertFirst", s, c, 1, e, d) /\ InBothChains'
    BY <2>1, <2>2, DoublyInserted
  <2> QED BY <2>3, InsertionsOfPromise DEF Inserted
<1>4. CASE DLL_InsertLast(e, d)
  <2> DEFINE k == Len(s) + 1
  <2>1. k \in 1 .. Len(s) + 1 /\ k - 1 = Len(s) /\ k = Len(s) + 1
    BY <1>1
  <2>2. DLL_Insert("InsertLast", e, d, At(s, k - 1), At(s, k))
    BY <1>1, <1>4, <2>1 DEF DLL_InsertLast
  <2> HIDE DEF k
  <2>3. Inserted("InsertLast", s, c, k, e, d) /\ InBothChains'
    BY <2>1, <2>2, DoublyInserted
  <2> QED BY <2>1, <2>3, InsertionsOfPromise DEF Inserted
<1>5. CASE DLL_InsertAfter(e, d)
  <2> DEFINE k == c + 1
  <2>1. c \in 1 .. Len(s) /\ c # 0 /\ k \in 1 .. Len(s) + 1 /\ k - 1 = c /\ k = c + 1
    BY <1>1, <1>5 DEF DLL_InsertAfter
  <2>2. DLL_Insert("InsertAfter", e, d, At(s, k - 1), At(s, k))
    BY <1>1, <1>2, <1>5, <2>1 DEF DLL_InsertAfter
  <2> HIDE DEF k
  <2>3. Inserted("InsertAfter", s, c, k, e, d) /\ InBothChains'
    BY <2>1, <2>2, DoublyInserted
  <2>4. Promise!Does("InsertAfter", InsertAt(Items, k, d), IF Cursor >= k THEN Cursor + 1 ELSE Cursor)
    BY <2>3 DEF Inserted
  <2>5. Promise!Does("InsertAfter", InsertAt(Items, c + 1, d), c)
    <3>1. ~(c >= c + 1)
      BY <1>1
    <3> QED BY <1>1, <2>1, <2>4, <3>1
  <2>6. Promise!Insert(d)
    BY <1>1, <2>1, <2>5, SameOperators DEF Promise!Insert
  <2> QED BY <2>3, <2>6
<1>6. CASE DLL_InsertBefore(e, d)
  <2>1. c \in 1 .. Len(s) /\ c # 0 /\ c \in 1 .. Len(s) + 1
    BY <1>1, <1>6 DEF DLL_InsertBefore
  <2>2. DLL_Insert("InsertBefore", e, d, At(s, c - 1), At(s, c))
    BY <1>1, <1>2, <1>6, <2>1 DEF DLL_InsertBefore
  <2>3. Inserted("InsertBefore", s, c, c, e, d) /\ InBothChains'
    BY <2>1, <2>2, DoublyInserted
  <2>4. Promise!Does("InsertBefore", InsertAt(Items, c, d), c + 1)
    BY <1>1, <2>3 DEF Inserted
  <2>5. Promise!Insert(d)
    BY <1>1, <2>1, <2>4, SameOperators DEF Promise!Insert
  <2> QED BY <2>3, <2>5
<1> QED BY <1>3, <1>4, <1>5, <1>6

\* Deleting from it.
LEMMA DoublyDeletes ==
  ASSUME Mapped, Mapped', NEW s, NEW c, Shown(s, c), Shaped, Backwards(s),
         DLL_DeleteFirst \/ DLL_DeleteLast \/ DLL_DeleteAfter \/ DLL_DeleteBefore
  PROVE  Promise!Delete /\ InBothChains'
<1>1. /\ Len(s) \in Nat /\ c \in 0 .. Len(s) /\ Cursor = c /\ Len(Items) = Len(s)
      /\ firstElement = At(s, 1) /\ (firstElement = NULL <=> Len(s) = 0)
      /\ activeElement = At(s, c) /\ (activeElement = NULL <=> c = 0)
      /\ lastElement = At(s, Len(s)) /\ (lastElement = NULL <=> Len(s) = 0)
      /\ Follow(nextElement) = At(s, IF c = 0 THEN 0 ELSE c + 1)
      /\ Follow(previousElement) = At(s, IF c = 0 THEN 0 ELSE c - 1)
      /\ At(s, 0) = NULL /\ At(s, Len(s) + 1) = NULL
  BY PlacesOfPointers, PlacesBack, Standing DEF At
<1>2. \A i \in 1 .. Len(s) :
        /\ nextElement[s[i]] = At(s, i + 1) /\ previousElement[s[i]] = At(s, i - 1)
        /\ At(s, i) = s[i] /\ (s[i] = activeElement <=> i = c)
  BY PlacesOfPointers DEF Shown, Chained, Backwards
<1>3. CASE DLL_DeleteFirst
  <2>1. 1 \in 1 .. Len(s) /\ 1 - 1 = 0 /\ firstElement = s[1] /\ (s[1] = activeElement <=> 1 = c)
    BY <1>1, <1>2, <1>3 DEF DLL_DeleteFirst
  <2>2. DLL_Delete("DeleteFirst", s[1], At(s, 1 - 1), At(s, 1 + 1))
    BY <1>1, <1>2, <1>3, <2>1 DEF DLL_DeleteFirst
  <2>3. activeElement' = IF c = 1 THEN NULL ELSE activeElement
    BY <1>3, <2>1 DEF DLL_DeleteFirst
  <2>4. Promise!Removes("DeleteFirst", 1) /\ InBothChains'
    BY <2>1, <2>2, <2>3, DoublyDeleted
  <2> QED BY <2>4 DEF Promise!Delete
<1>4. CASE DLL_DeleteLast
  <2> DEFINE k == Len(s)
  <2>1. k \in 1 .. Len(s) /\ lastElement = s[k] /\ (s[k] = activeElement <=> k = c) /\ k = Len(Items)
    BY <1>1, <1>2, <1>4 DEF DLL_DeleteLast
  <2>2. DLL_Delete("DeleteLast", s[k], At(s, k - 1), At(s, k + 1))
    BY <1>1, <1>2, <1>4, <2>1 DEF DLL_DeleteLast
  <2>3. activeElement' = IF c = k THEN NULL ELSE activeElement
    BY <1>4, <2>1 DEF DLL_DeleteLast
  <2> HIDE DEF k
  <2>4. Promise!Removes("DeleteLast", k) /\ InBothChains'
    BY <2>1, <2>2, <2>3, DoublyDeleted
  <2> QED BY <2>1, <2>4 DEF Promise!Delete
<1>5. CASE DLL_DeleteAfter
  <2> DEFINE k == c + 1
  <2>1. Follow(nextElement) # NULL
    BY <1>5 DEF DLL_DeleteAfter
  <2>2. /\ c # 0 /\ k \in 1 .. Len(s) /\ k - 1 = c /\ c # k
        /\ k = IF Cursor = 0 THEN 0 ELSE Cursor + 1
    BY <1>1, <2>1 DEF At
  <2>3. Follow(nextElement) = s[k] /\ activeElement = At(s, k - 1)
    BY <1>1, <1>2, <2>2
  <2> HIDE DEF k
  <2>4. DLL_Delete("DeleteAfter", s[k], At(s, k - 1), At(s, k + 1))
    BY <1>2, <1>5, <2>2, <2>3 DEF DLL_DeleteAfter
  <2>5. activeElement' = IF c = k THEN NULL ELSE activeElement
    BY <1>5, <2>2 DEF DLL_DeleteAfter
  <2>6. Promise!Removes("DeleteAfter", k) /\ InBothChains'
    BY <2>2, <2>4, <2>5, DoublyDeleted
  <2> QED BY <2>2, <2>6 DEF Promise!Delete
<1>6. CASE DLL_DeleteBefore
  <2> DEFINE k == c - 1
  <2>1. Follow(previousElement) # NULL
    BY <1>6 DEF DLL_DeleteBefore
  <2>2. /\ c # 0 /\ k \in 1 .. Len(s) /\ k + 1 = c /\ c # k
        /\ k = IF Cursor = 0 THEN 0 ELSE Cursor - 1
    BY <1>1, <2>1 DEF At
  <2>3. Follow(previousElement) = s[k] /\ activeElement = At(s, k + 1)
    BY <1>1, <1>2, <2>2
  <2> HIDE DEF k
  <2>4. DLL_Delete("DeleteBefore", s[k], At(s, k - 1), At(s, k + 1))
    BY <1>2, <1>6, <2>2, <2>3 DEF DLL_DeleteBefore
  <2>5. activeElement' = IF c = k THEN NULL ELSE activeElement
    BY <1>6, <2>2 DEF DLL_DeleteBefore
  <2>6. Promise!Removes("DeleteBefore", k) /\ InBothChains'
    BY <2>2, <2>4, <2>5, DoublyDeleted
  <2> QED BY <2>2, <2>6 DEF Promise!Delete
<1> QED BY <1>3, <1>4, <1>5, <1>6

\* The calls that only the doubly linked list has and that change no link.
LEMMA DoublyOwnSteps ==
  ASSUME Mapped, Mapped', NEW s, NEW c, Shown(s, c), Shaped, Backwards(s)
  PROVE  /\ activeElement = NULL /\ NothingToDo("InsertBefore") =>
              (\E d \in Values : Promise!Insert(d)) /\ Shown(s, c)' /\ Shaped'
         /\ lastElement = NULL /\ NothingToDo("DeleteLast") =>
              Promise!Delete /\ Shown(s, c)' /\ Shaped'
         /\ Follow(previousElement) = NULL /\ NothingToDo("DeleteBefore") =>
              Promise!Delete /\ Shown(s, c)' /\ Shaped'
         /\ MallocFails("InsertLast") => Promise!OutOfMemory /\ Shown(s, c)' /\ Shaped'
         /\ activeElement # NULL /\ MallocFails("InsertBefore") =>
              Promise!OutOfMemory /\ Shown(s, c)' /\ Shaped'
         /\ Reading("GetLast", lastElement) => Promise!Look /\ Shown(s, c)' /\ Shaped'
         /\ Activate("Last", lastElement) =>
              Promise!Move /\ (\E u : Shown(s, u)') /\ Shaped'
         /\ Activate("Previous", Follow(previousElement)) =>
              Promise!Move /\ (\E u : Shown(s, u)') /\ Shaped'
<1>1. /\ Len(s) \in Nat /\ c \in 0 .. Len(s) /\ Cursor = c
      /\ DOMAIN Items = 1 .. Len(s) /\ Len(Items) = Len(s) /\ Items = ValuesOf(s)
      /\ (activeElement = NULL <=> c = 0)
      /\ lastElement = At(s, Len(s)) /\ (lastElement = NULL <=> Len(s) = 0)
      /\ Follow(previousElement) = At(s, IF c = 0 THEN 0 ELSE c - 1)
      /\ \A i \in 1 .. Len(s) : At(s, i) = s[i]
      /\ \A i \in Int : At(s, i) = NULL <=> i \notin 1 .. Len(s)
  BY PlacesOfPointers, PlacesBack, Standing, Places DEF Shown
<1>2. ASSUME NEW op, NothingToDo(op)
      PROVE  Promise!Returns(op, <<>>) /\ Shown(s, c)' /\ Shaped'
  BY <1>2, Answers DEF NothingToDo
<1>3. ASSUME NEW op, MallocFails(op)
      PROVE  Promise!Returns(op, <<"error">>) /\ Shown(s, c)' /\ Shaped'
  BY <1>3, Answers DEF MallocFails
<1>4. ASSUME activeElement = NULL, NothingToDo("InsertBefore")
      PROVE  (\E d \in Values : Promise!Insert(d)) /\ Shown(s, c)' /\ Shaped'
  <2>1. \A d \in Values : Promise!Insert(d)
    BY <1>1, <1>2, <1>4 DEF Promise!Insert
  <2> QED BY <2>1, <1>2, <1>4, ValuesAssumption
<1>5. ASSUME lastElement = NULL, NothingToDo("DeleteLast")
      PROVE  Promise!Delete /\ Shown(s, c)' /\ Shaped'
  <2>1. Len(Items) \notin DOMAIN Items
    BY <1>1, <1>5
  <2>2. Promise!Removes("DeleteLast", Len(Items))
    BY <2>1, <1>2, <1>5 DEF Promise!Removes
  <2> QED BY <2>2, <1>2, <1>5 DEF Promise!Delete
<1>6. ASSUME Follow(previousElement) = NULL, NothingToDo("DeleteBefore")
      PROVE  Promise!Delete /\ Shown(s, c)' /\ Shaped'
  <2> DEFINE at == IF Cursor = 0 THEN 0 ELSE Cursor - 1
  <2>1. at \notin DOMAIN Items
    BY <1>1, <1>6
  <2>2. Promise!Removes("DeleteBefore", at)
    <3> HIDE DEF at
    <3> QED BY <2>1, <1>2, <1>6 DEF Promise!Removes
  <2> QED BY <2>2, <1>2, <1>6 DEF Promise!Delete
<1>7. ASSUME MallocFails("InsertLast")
      PROVE  Promise!OutOfMemory /\ Shown(s, c)' /\ Shaped'
  BY <1>3, <1>7 DEF Promise!OutOfMemory
<1>8. ASSUME activeElement # NULL, MallocFails("InsertBefore")
      PROVE  Promise!OutOfMemory /\ Shown(s, c)' /\ Shaped'
  BY <1>1, <1>3, <1>8 DEF Promise!OutOfMemory
<1>9. ASSUME Reading("GetLast", lastElement)
      PROVE  Promise!Look /\ Shown(s, c)' /\ Shaped'
  <2> DEFINE answer == IF lastElement = NULL THEN <<"error">> ELSE <<data[lastElement]>>
  <2>1. Returned(<<"GetLast">>, answer) /\ KeepsElements /\ activeElement' = activeElement
    BY <1>9 DEF Reading, KeepsElements
  <2>2. answer = IF Len(Items) \in DOMAIN Items THEN <<Items[Len(Items)]>> ELSE <<"error">>
    BY <1>1 DEF ValuesOf
  <2> HIDE DEF answer
  <2>3. Promise!Returns("GetLast", answer) /\ Shown(s, c)' /\ Shaped'
    BY <2>1, Answers
  <2>4. Promise!Reads("GetLast", Len(Items))
    BY <2>2, <2>3 DEF Promise!Reads
  <2> QED BY <2>3, <2>4 DEF Promise!Look
<1>10. ASSUME Activate("Last", lastElement)
       PROVE  Promise!Move /\ (\E u : Shown(s, u)') /\ Shaped'
  <2> DEFINE u == IF Len(Items) \in DOMAIN Items THEN Len(Items) ELSE 0
  <2>1. u \in 0 .. Len(s) /\ lastElement = At(s, u)
    BY <1>1
  <2>2. Promise!Does("Last", Items, u) /\ (\E v : Shown(s, v)') /\ Shaped'
    <3> HIDE DEF u
    <3> QED BY <1>10, <2>1, CursorMoves
  <2> QED BY <2>2 DEF Promise!Move, Promise!Moves
<1>11. ASSUME Activate("Previous", Follow(previousElement))
       PROVE  Promise!Move /\ (\E u : Shown(s, u)') /\ Shaped'
  <2> DEFINE at == IF Cursor = 0 THEN 0 ELSE Cursor - 1
             u == IF at \in DOMAIN Items THEN at ELSE 0
  <2>1. u \in 0 .. Len(s) /\ Follow(previousElement) = At(s, u)
    BY <1>1
  <2>2. Promise!Does("Previous", Items, u) /\ (\E v : Shown(s, v)') /\ Shaped'
    <3> HIDE DEF u
    <3> QED BY <1>11, <2>1, CursorMoves
  <2> QED BY <2>2 DEF Promise!Move, Promise!Moves
<1> QED BY <1>4, <1>5, <1>6, <1>7, <1>8, <1>9, <1>10, <1>11

\* A call of the doubly linked list is a call of the abstract one.
LEMMA DoublySteps ==
  ASSUME Mapped, Mapped', InBothChains, [DLL_Next]_dllVars
  PROVE  [Promise!Next]_(Promise!listVars) /\ InBothChains'
<1>1. PICK s, c : Shown(s, c) /\ Backwards(s)
  BY DEF InBothChains
<1>2. Shaped
  BY DEF InBothChains
<1>3. ASSUME (\E u : Shown(s, u)') /\ Shaped', UNCHANGED <<previousElement, lastElement>>
      PROVE  InBothChains'
  <2>1. Backwards(s)'
    BY <1>1, <1>3 DEF Backwards, At
  <2> QED BY <1>3, <2>1 DEF InBothChains
<1>4. CASE \E e \in Elements, d \in Values :
             \/ DLL_InsertFirst(e, d) \/ DLL_InsertLast(e, d)
             \/ DLL_InsertAfter(e, d) \/ DLL_InsertBefore(e, d)
  BY <1>1, <1>2, <1>4, DoublyInserts DEF Promise!Next
<1>5. CASE DLL_DeleteFirst \/ DLL_DeleteLast \/ DLL_DeleteAfter \/ DLL_DeleteBefore
  BY <1>1, <1>2, <1>5, DoublyDeletes DEF Promise!Next
<1>6. CASE DLL_NothingToDo
  <2>1. /\ Shown(s, c)' /\ Shaped'
        /\ Promise!Delete \/ \E d \in Values : Promise!Insert(d)
    BY <1>1, <1>2, <1>6, SharedRefusals, DoublyOwnSteps DEF DLL_NothingToDo
  <2> QED BY <2>1, <1>3, <1>6 DEF Promise!Next, DLL_NothingToDo
<1>7. CASE DLL_Fails
  <2>1. Shown(s, c)' /\ Shaped' /\ Promise!OutOfMemory
    BY <1>1, <1>2, <1>7, SharedRefusals, DoublyOwnSteps DEF DLL_Fails
  <2> QED BY <2>1, <1>3, <1>7 DEF Promise!Next, DLL_Fails
<1>8. CASE DLL_Move /\ UNCHANGED <<previousElement, lastElement>>
  <2>1. Promise!Move /\ (\E u : Shown(s, u)') /\ Shaped'
    BY <1>1, <1>2, <1>8, SharedSteps, DoublyOwnSteps DEF DLL_Move
  <2> QED BY <2>1, <1>3, <1>8 DEF Promise!Next
<1>9. CASE DLL_Get /\ UNCHANGED <<previousElement, lastElement>>
  <2>1. Promise!Look /\ Shown(s, c)' /\ Shaped'
    <3>1. CASE Reading("GetFirst", firstElement)
      <4>1. Reading("GetFirst", IF "GetFirst" = "GetFirst" THEN firstElement ELSE activeElement)
        BY <3>1
      <4> QED BY <4>1, <1>1, <1>2, SharedSteps
    <3>2. CASE Reading("GetValue", activeElement)
      <4>1. Reading("GetValue", IF "GetValue" = "GetFirst" THEN firstElement ELSE activeElement)
        BY <3>2
      <4> QED BY <4>1, <1>1, <1>2, SharedSteps
    <3>3. CASE IsActive
      BY <3>3, <1>1, <1>2, SharedSteps
    <3>4. CASE Reading("GetLast", lastElement)
      BY <3>4, <1>1, <1>2, DoublyOwnSteps
    <3> QED BY <1>9, <3>1, <3>2, <3>3, <3>4 DEF DLL_Get
  <2> QED BY <2>1, <1>3, <1>9 DEF Promise!Next
<1>10. CASE (\E d \in Values : DLL_SetValue(d)) /\ UNCHANGED <<previousElement, lastElement>>
  BY <1>1, <1>2, <1>3, <1>10, SharedSteps DEF Promise!Next, DLL_SetValue
<1>11. CASE DLL_Dispose
  <2>1. Promise!Dispose /\ Shown(<<>>, 0)' /\ Shaped'
    BY <1>11, Disposes DEF DLL_Dispose
  <2>2. At(<<>>, 0) = NULL /\ Len(<<>>) = 0
    BY DEF At
  <2>3. Backwards(<<>>)'
    BY <1>11, <2>2 DEF Backwards, DLL_Dispose
  <2> QED BY <2>1, <2>3 DEF Promise!Next, InBothChains
<1>12. CASE UNCHANGED dllVars
  <2>1. /\ activeElement' = At(s, c) /\ c \in 0 .. Len(s) /\ KeepsElements
        /\ UNCHANGED <<call, result, previousElement, lastElement>>
    BY <1>1, <1>12 DEF Shown, dllVars, elementVars, KeepsElements
  <2>2. Items' = Items /\ Cursor' = Cursor /\ Shown(s, c)' /\ Shaped'
    BY <2>1, <1>1, <1>2, Stays
  <2> QED BY <2>1, <2>2, <1>3 DEF Promise!listVars
<1> QED BY <1>4, <1>5, <1>6, <1>7, <1>8, <1>9, <1>10, <1>11, <1>12 DEF DLL_Next

\* It begins empty, in both directions.
LEMMA DoublyBegins ==
  ASSUME Mapped, DLL_Init
  PROVE  Promise!Init /\ InBothChains
<1>1. Promise!Init /\ Shown(<<>>, 0) /\ Shaped
  BY BeginsEmpty DEF DLL_Init
<1>2. At(<<>>, 0) = NULL /\ Len(<<>>) = 0
  BY DEF At
<1>3. Backwards(<<>>)
  BY <1>2 DEF Backwards, DLL_Init
<1> QED BY <1>1, <1>3 DEF InBothChains

\* In both chains, neighbours know each other and only the ends have none.
LEMMA NeighboursAgree == ASSUME InBothChains PROVE LinksAgree
<1>1. PICK s, c : Shown(s, c) /\ Backwards(s)
  BY DEF InBothChains
<1>2. /\ Len(s) \in Nat /\ firstElement = At(s, 1) /\ lastElement = At(s, Len(s))
      /\ (firstElement = NULL <=> Len(s) = 0) /\ (lastElement = NULL <=> Len(s) = 0)
      /\ \A i \in 1 .. Len(s) : /\ s[i] \in allocated /\ s[i] # NULL /\ At(s, i) = s[i]
                                /\ nextElement[s[i]] = At(s, i + 1)
                                /\ previousElement[s[i]] = At(s, i - 1)
      /\ \A i \in Int : At(s, i) = NULL <=> i \notin 1 .. Len(s)
      /\ \A i, j \in 1 .. Len(s) : s[i] = s[j] => i = j
  <2>1. Chained(s)
    BY <1>1 DEF Shown
  <2>2. /\ \A i \in 1 .. Len(s) : s[i] \in allocated /\ s[i] # NULL
        /\ \A i \in Int : At(s, i) = NULL <=> i \notin 1 .. Len(s)
    BY <2>1, Places
  <2>3. \A i \in 1 .. Len(s) : nextElement[s[i]] = At(s, i + 1) /\ previousElement[s[i]] = At(s, i - 1)
    BY <1>1, <2>1 DEF Chained, Backwards
  <2>4. /\ Len(s) \in Nat /\ firstElement = At(s, 1) /\ (firstElement = NULL <=> Len(s) = 0)
        /\ \A i \in 1 .. Len(s) : At(s, i) = s[i]
    BY <1>1, PlacesOfPointers
  <2>5. lastElement = At(s, Len(s)) /\ (lastElement = NULL <=> Len(s) = 0)
    BY <1>1, PlacesBack
  <2>6. \A i, j \in 1 .. Len(s) : s[i] = s[j] => i = j
    BY <2>1 DEF Chained
  <2> QED BY <2>2, <2>3, <2>4, <2>5, <2>6
<1>3. ASSUME NEW e \in allocated
      PROVE  /\ nextElement[e] \in allocated \cup {NULL}
             /\ previousElement[e] \in allocated \cup {NULL}
             /\ nextElement[e] # NULL => previousElement[nextElement[e]] = e
             /\ previousElement[e] # NULL => nextElement[previousElement[e]] = e
             /\ (previousElement[e] = NULL) = (e = firstElement)
             /\ (nextElement[e] = NULL) = (e = lastElement)
  <2>1. PICK i \in 1 .. Len(s) : e = s[i]
    BY <1>1 DEF Shown, Chained
  <2>2. /\ i \in Int /\ i + 1 \in Int /\ i - 1 \in Int
        /\ nextElement[e] = At(s, i + 1) /\ previousElement[e] = At(s, i - 1)
    BY <1>2, <2>1
  <2>3. CASE i < Len(s)
    <3>1. i + 1 \in 1 .. Len(s) /\ nextElement[e] = s[i + 1] /\ (i + 1) - 1 = i
      BY <2>2, <2>3, <1>2
    <3>2. previousElement[s[i + 1]] = s[i]
      BY <3>1, <1>2
    <3>3. nextElement[e] # NULL /\ e # lastElement /\ nextElement[e] \in allocated
      BY <3>1, <2>1, <2>3, <1>2
    <3>4. /\ nextElement[e] \in allocated /\ previousElement[nextElement[e]] = e
          /\ (nextElement[e] = NULL) = (e = lastElement)
      BY <3>1, <3>2, <3>3, <2>1
    <3>5. CASE i = 1
      BY <3>4, <3>5, <2>1, <2>2, <1>2
    <3>6. CASE i > 1
      <4>1. i - 1 \in 1 .. Len(s) /\ previousElement[e] = s[i - 1] /\ (i - 1) + 1 = i
        BY <2>2, <3>6, <1>2
      <4>2. nextElement[s[i - 1]] = s[i] /\ s[i - 1] # NULL /\ e # firstElement /\ s[i - 1] \in allocated
        BY <4>1, <2>1, <3>6, <1>2
      <4> QED BY <3>4, <4>1, <4>2, <2>1
    <3> QED BY <3>5, <3>6, <2>2
  <2>4. CASE i = Len(s)
    <3>1. nextElement[e] = NULL /\ e = lastElement
      BY <2>1, <2>2, <2>4, <1>2
    <3>2. CASE i = 1
      BY <3>1, <3>2, <2>1, <2>2, <1>2
    <3>3. CASE i > 1
      <4>1. i - 1 \in 1 .. Len(s) /\ previousElement[e] = s[i - 1] /\ (i - 1) + 1 = i
        BY <2>2, <3>3, <1>2
      <4>2. nextElement[s[i - 1]] = s[i] /\ s[i - 1] # NULL /\ e # firstElement /\ s[i - 1] \in allocated
        BY <4>1, <2>1, <3>3, <1>2
      <4> QED BY <3>1, <4>1, <4>2, <2>1
    <3> QED BY <3>2, <3>3, <2>2
  <2> QED BY <2>2, <2>3, <2>4
<1> QED BY <1>2, <1>3 DEF LinksAgree

\* The doubly linked list is a sequence with a cursor, whatever is called in
\* whatever order and whichever malloc() fails.
THEOREM DoublyActsAsCursorList == DLL_Spec => ActsAsCursorList
<1> DEFINE M == Mapped
<1>1. M
  BY Mapping
<1> HIDE DEF M
<1>2. []M
  BY <1>1, PTL
<1>3. M /\ DLL_Init => Promise!Init /\ InBothChains
  BY DoublyBegins DEF M
<1>4. M /\ M' /\ InBothChains /\ [DLL_Next]_dllVars =>
        [Promise!Next]_(Promise!listVars) /\ InBothChains'
  BY DoublySteps DEF M
<1> QED BY <1>2, <1>3, <1>4, PTL DEF DLL_Spec, ActsAsCursorList, Promise!Spec

\* Both directions and both ends of the doubly linked list agree, it loses no
\* element and keeps no pointer to freed memory.
THEOREM LinksStayTogether == DLL_Spec => [](LinksAgree /\ ChainIsAllocated)
<1> DEFINE M == Mapped
<1>1. M
  BY Mapping
<1> HIDE DEF M
<1>2. []M
  BY <1>1, PTL
<1>3. M /\ DLL_Init => InBothChains
  BY DoublyBegins DEF M
<1>4. M /\ M' /\ InBothChains /\ [DLL_Next]_dllVars => InBothChains'
  BY DoublySteps DEF M
<1>5. M /\ InBothChains => LinksAgree /\ ChainIsAllocated
  BY NeighboursAgree DEF M, Mapped, InBothChains
<1> QED BY <1>2, <1>3, <1>4, <1>5, PTL DEF DLL_Spec

-----------------------------------------------------------------------------
(* The queue of c203, for every size, every data and every sequence of calls. *)

\* The free place is behind what was accepted, which lies from place 0 on, with
\* the '*' of Queue_Init behind it: it never comes round.  firstIndex does, as often
\* as it is told to.
QueueInv ==
  /\ accepted \in Seq(QueueData)
  /\ removed \in Nat
  /\ Len(accepted) < QUEUE_SIZE
  /\ freeIndex = Len(accepted)
  /\ firstIndex = removed % QUEUE_SIZE
  /\ array = [i \in 0 .. QUEUE_SIZE - 1 |->
                IF i < Len(accepted) THEN accepted[i + 1] ELSE "*"]

\* The next place, or the first one from the last.
LEMMA NextIndex ==
  ASSUME NEW index \in 0 .. QUEUE_SIZE - 1
  PROVE  nextIndex(index) = IF index = QUEUE_SIZE - 1 THEN 0 ELSE index + 1
BY QueueAssumption DEF nextIndex

\* The remainder is the only number below the divisor that differs from the number
\* by a multiple of it.
LEMMA Remainder ==
  ASSUME NEW Q \in Nat \ {0}, NEW n \in Nat, NEW k \in Nat, NEW r \in 0 .. Q - 1,
         n = k * Q + r
  PROVE  n % Q = r
BY Z3

\* Every number is some rounds of the array and a place in it.
LEMMA Rounds ==
  ASSUME NEW n \in Nat, NEW Q \in Nat \ {0}
  PROVE  \E k \in Nat : \E r \in 0 .. Q - 1 : n = k * Q + r /\ n % Q = r
<1>1. n = Q * (n \div Q) + (n % Q)
  BY SMTT(20)
<1>2. n % Q \in 0 .. Q - 1 /\ n \div Q \in Nat
  BY SMT
<1>3. n = (n \div Q) * Q + (n % Q)
  BY <1>1, <1>2, SMT
<1> QED BY <1>2, <1>3, Zenon

\* Going round: the next place is that of the next turn.
LEMMA GoingRound ==
  ASSUME NEW n \in Nat, NEW Q \in Nat \ {0}
  PROVE  ((n % Q) + 1) % Q = (n + 1) % Q
<1>1. PICK k \in Nat : \E r \in 0 .. Q - 1 : n = k * Q + r /\ n % Q = r
  BY Rounds
<1>4. PICK r \in 0 .. Q - 1 : n = k * Q + r /\ n % Q = r
  BY <1>1
<1>2. CASE r < Q - 1
  <2>1. n + 1 = k * Q + (r + 1) /\ r + 1 \in 0 .. Q - 1
    BY <1>4, <1>2
  <2>2. (n + 1) % Q = r + 1
    BY <2>1, n + 1 \in Nat, k + 1 \in Nat, Q \in Nat \ {0}, Remainder,
       Zenon
  <2>3. (r + 1) % Q = r + 1
    BY <2>1
  <2> QED BY <1>4, <2>2, <2>3
<1>3. CASE r = Q - 1
  <2>1. n + 1 = (k + 1) * Q + 0 /\ 0 \in 0 .. Q - 1
    BY <1>4, <1>3, SMT
  <2>2. (n + 1) % Q = 0
    BY <2>1, n + 1 \in Nat, k + 1 \in Nat, Q \in Nat \ {0}, Remainder,
       Zenon
  <2> QED BY <1>4, <1>3, <2>2
<1> QED BY <1>2, <1>3

\* firstIndex goes round with the turns.
LEMMA NextTurn ==
  ASSUME NEW n \in Nat
  PROVE  /\ n % QUEUE_SIZE \in 0 .. QUEUE_SIZE - 1
         /\ nextIndex(n % QUEUE_SIZE) = (n + 1) % QUEUE_SIZE
<1>1. n % QUEUE_SIZE \in 0 .. QUEUE_SIZE - 1
  BY QueueAssumption
<1>2. nextIndex(n % QUEUE_SIZE) = (n + 1) % QUEUE_SIZE
  BY QueueAssumption, GoingRound, Zenon DEF nextIndex
<1> QED BY <1>1, <1>2

\* The empty queue satisfies the invariant.
LEMMA QueueInit == Queue_Init => QueueInv
BY QueueAssumption DEF Queue_Init, QueueInv

\* Queue_Dequeue and Queue_Remove keep the invariant.
LEMMA RemoveStep ==
  ASSUME QueueInv, NEW answer, Queue_Remove(answer)
  PROVE  QueueInv'
<1>1. removed' = removed + 1 /\ firstIndex' = removed' % QUEUE_SIZE
  BY NextTurn DEF QueueInv, Queue_Remove
<1> QED BY <1>1 DEF QueueInv, Queue_Remove

\* Queue_Enqueue keeps it, also when the queue is full.
LEMMA EnqueueStep ==
  ASSUME QueueInv, NEW d \in QueueData, Queue_Enqueue(d)
  PROVE  QueueInv'
<1> USE QueueAssumption DEF QueueInv
<1>1. freeIndex \in 0 .. QUEUE_SIZE - 1
  OBVIOUS
<1>2. freeIndex' = freeIndex + 1 /\ freeIndex + 1 < QUEUE_SIZE
  BY <1>1, NextIndex DEF Queue_Enqueue, Queue_IsFull
<1>3. accepted' = Append(accepted, d) /\ array' = [array EXCEPT ![freeIndex] = d]
  BY DEF Queue_Enqueue
<1>4. /\ accepted' \in Seq(QueueData)
      /\ Len(accepted') = Len(accepted) + 1
      /\ \A i \in 1 .. Len(accepted) : accepted'[i] = accepted[i]
      /\ accepted'[Len(accepted) + 1] = d
  BY <1>3
<1>5. array' = [i \in 0 .. QUEUE_SIZE - 1 |->
                 IF i = freeIndex THEN d ELSE array[i]]
  BY <1>3
<1>6. ASSUME NEW i \in 0 .. QUEUE_SIZE - 1
      PROVE  (IF i = freeIndex THEN d ELSE array[i])
               = IF i < Len(accepted') THEN accepted'[i + 1] ELSE "*"
  <2>1. CASE i < Len(accepted)
    <3>1. i + 1 \in 1 .. Len(accepted) /\ i # freeIndex
      BY <2>1
    <3> QED BY <2>1, <3>1, <1>4
  <2>2. CASE i = Len(accepted)
    BY <2>2, <1>4
  <2>3. CASE i > Len(accepted)
    BY <2>3, <1>4
  <2> QED BY <2>1, <2>2, <2>3
<1>7. array' = [i \in 0 .. QUEUE_SIZE - 1 |->
                 IF i < Len(accepted') THEN accepted'[i + 1] ELSE "*"]
  BY <1>5, <1>6, Zenon
<1> QED BY <1>2, <1>4, <1>7 DEF Queue_Enqueue

\* Every operation keeps it.
LEMMA QueueStep == QueueInv /\ [Queue_Next]_queueVars => QueueInv'
<1> SUFFICES ASSUME QueueInv, [Queue_Next]_queueVars PROVE QueueInv'
  OBVIOUS
<1>1. CASE Queue_Error
  BY <1>1 DEF Queue_Error, KeepsQueue, QueueInv
<1>2. CASE Queue_Front
  BY <1>2 DEF Queue_Front, KeepsQueue, QueueInv
<1>3. CASE \/ Queue_Remove(<<>>) \/ Queue_Dequeue
  BY <1>3, RemoveStep DEF Queue_Dequeue
<1>4. ASSUME NEW d \in QueueData, Queue_Enqueue(d) PROVE QueueInv'
  BY <1>4, EnqueueStep
<1>5. CASE UNCHANGED queueVars
  BY <1>5 DEF queueVars, QueueInv
<1> QED BY <1>1, <1>2, <1>3, <1>4, <1>5 DEF Queue_Next

\* What Queue_Dequeue and Queue_Front give out, and when the queue calls itself
\* empty or full, for every QUEUE_SIZE and every mixture of Enqueue, Remove, Dequeue
\* and Front calls, those on a queue whose values are all gone included.
THEOREM QueueGivesInTurn == Queue_Spec => []GivesInTurn
<1>1. QueueInv => GivesInTurn
  <2> SUFFICES ASSUME QueueInv PROVE GivesInTurn
    OBVIOUS
  <2> USE QueueAssumption DEF QueueInv
  <2>1. array[firstIndex] = IF removed % QUEUE_SIZE < Len(accepted)
                            THEN accepted[(removed % QUEUE_SIZE) + 1] ELSE "*"
    BY NextTurn
  <2>2. Queue_IsEmpty <=> accepted = <<>>
    BY DEF Queue_IsEmpty
  <2>3. Queue_IsFull <=> Len(accepted) = QUEUE_SIZE - 1
    BY NextIndex DEF Queue_IsFull
  <2> QED BY <2>1, <2>2, <2>3 DEF GivesInTurn
<1>2. Queue_Spec => []QueueInv
  BY QueueInit, QueueStep, PTL DEF Queue_Spec
<1> QED BY <1>1, <1>2, PTL

-----------------------------------------------------------------------------
(* The hash table.                                                         *)

HashItem == [key : HashKeys, value : HashValues]
Indices == 0 .. HT_SIZE - 1

\* A list that may stand at index i.
ListOK(i, s) ==
  /\ s \in Seq(HashItem)
  /\ \A m, n \in DOMAIN s :
       get_hash(s[m].key) = i /\ (s[m].key = s[n].key => m = n)

HashInv ==
  /\ DOMAIN table = Indices /\ table = [i \in Indices |-> table[i]]
  /\ \A i \in Indices : ListOK(i, table[i])

\* SelectInSeq gives a place that there is.
LEMMA MinOfPlaces ==
  ASSUME NEW n \in Nat, NEW I \in SUBSET (1 .. n), I # {}
  PROVE  Min(I) \in I
<1>1. I \subseteq Nat
  OBVIOUS
<1> DEFINE Less == {p \in Nat \X Nat : p[1] < p[2]}
<1>2. IsWellFoundedOn(Less, Nat)
  BY NatLessThanWellFounded DEF OpToRel
<1>3. PICK x \in I : \A y \in I : <<y, x>> \notin Less
  <2> HIDE DEF Less
  <2> QED BY <1>1, <1>2, WFMin
<1>4. ASSUME NEW y \in I PROVE x =< y
  <2>1. <<y, x>> \in Nat \X Nat /\ x \in Nat /\ y \in Nat
    BY <1>1
  <2>2. ~(y < x)
    BY <2>1, <1>3
  <2> QED BY <2>1, <2>2
<1> QED BY <1>4 DEF Min

\* ht_search() answers with an item of the key if its chain holds one.
LEMMA SearchFinds ==
  ASSUME HashInv, NEW key \in HashKeys
  PROVE  LET list == table[get_hash(key)] IN
         /\ ht_search(key) = 0 => \A m \in DOMAIN list : list[m].key # key
         /\ ht_search(key) # 0 =>
              ht_search(key) \in DOMAIN list /\ list[ht_search(key)].key = key
<1> DEFINE list == table[get_hash(key)]
           I == {m \in 1 .. Len(list) : list[m].key = key}
<1>1. list \in Seq(HashItem)
  BY HashAssumption DEF HashInv, ListOK, Indices
<1>2. ht_search(key) = IF I # {} THEN Min(I) ELSE 0
  BY DEF ht_search, SelectInSeq
<1>3. I # {} => Min(I) \in I
  <2>1. I \in SUBSET (1 .. Len(list)) /\ Len(list) \in Nat
    BY <1>1
  <2> HIDE DEF I, list
  <2> QED BY <2>1, MinOfPlaces
<1>4. DOMAIN list = 1 .. Len(list)
  BY <1>1
<1> HIDE DEF list
<1>5. I = {} => \A m \in DOMAIN list : list[m].key # key
  BY <1>4
<1>6. I # {} => Min(I) \in DOMAIN list /\ list[Min(I)].key = key /\ Min(I) # 0
  BY <1>3, <1>4
<1>7. /\ ht_search(key) = 0 => \A m \in DOMAIN list : list[m].key # key
      /\ ht_search(key) # 0 =>
           ht_search(key) \in DOMAIN list /\ list[ht_search(key)].key = key
  BY <1>2, <1>5, <1>6
<1> QED BY <1>7 DEF list

\* What a call puts at one index is all it changes.
LEMMA OneListChanges ==
  ASSUME HashInv, NEW h \in Indices, NEW s, ListOK(h, s),
         table' = [table EXCEPT ![h] = s]
  PROVE  HashInv'
<1>1. DOMAIN table' = Indices /\ table' = [i \in Indices |-> table'[i]]
  BY DEF HashInv
<1>2. ASSUME NEW i \in Indices PROVE ListOK(i, table'[i])
  <2>1. table'[i] = IF i = h THEN s ELSE table[i]
    BY DEF HashInv
  <2>2. CASE i = h
    BY <2>1, <2>2
  <2>3. CASE i # h
    <3>1. ListOK(i, table[i])
      BY DEF HashInv
    <3> QED BY <2>1, <2>3, <3>1
  <2> QED BY <2>2, <2>3
<1> QED BY <1>1, <1>2 DEF HashInv

\* An item of a new key may be put in front of its chain.
LEMMA InsertFront ==
  ASSUME NEW i, NEW s, ListOK(i, s), NEW item \in HashItem, get_hash(item.key) = i,
         \A m \in DOMAIN s : s[m].key # item.key
  PROVE  ListOK(i, <<item>> \o s)
<1> DEFINE t == <<item>> \o s
<1>1. /\ s \in Seq(HashItem) /\ t \in Seq(HashItem) /\ Len(t) = Len(s) + 1
      /\ t[1] = item /\ \A m \in 2 .. Len(t) : t[m] = s[m - 1]
  BY DEF ListOK
<1>2. DOMAIN s = 1 .. Len(s) /\ DOMAIN t = 1 .. Len(t)
  BY <1>1
<1> HIDE DEF t
<1>3. ASSUME NEW m \in DOMAIN t, NEW n \in DOMAIN t
      PROVE  get_hash(t[m].key) = i /\ (t[m].key = t[n].key => m = n)
  <2>1. \A k \in DOMAIN t : k = 1 \/ (k - 1 \in DOMAIN s /\ t[k] = s[k - 1])
    BY <1>1, <1>2
  <2>2. CASE m = 1
    BY <2>1, <2>2, <1>1
  <2>3. CASE m # 1
    BY <2>1, <2>3, <1>1, <1>2 DEF ListOK
  <2> QED BY <2>2, <2>3
<1>4. ListOK(i, t)
  BY <1>1, <1>3 DEF ListOK
<1> QED BY <1>4 DEF t

\* A new value in an item changes no key.
LEMMA ReplaceValue ==
  ASSUME NEW i, NEW s, ListOK(i, s), NEW k \in DOMAIN s, NEW value \in HashValues
  PROVE  ListOK(i, [s EXCEPT ![k].value = value])
<1> DEFINE t == [s EXCEPT ![k].value = value]
<1>1. s \in Seq(HashItem) /\ DOMAIN t = DOMAIN s /\ DOMAIN s = 1 .. Len(s)
  BY DEF ListOK
<1>2. ASSUME NEW m \in DOMAIN s PROVE t[m] \in HashItem /\ t[m].key = s[m].key
  <2>1. s[m] \in HashItem
    BY <1>1
  <2>2. t[m] = IF m = k THEN [s[m] EXCEPT !.value = value] ELSE s[m]
    OBVIOUS
  <2> HIDE DEF t
  <2> QED BY <2>1, <2>2 DEF HashItem
<1>3. t \in Seq(HashItem)
  <2>1. Len(s) \in Nat
    BY <1>1
  <2>2. s \in [1 .. Len(s) -> HashItem]
    BY <1>1
  <2>3. t = [m \in 1 .. Len(s) |-> t[m]]
    BY <2>2
  <2> HIDE DEF t
  <2> QED BY <2>1, <2>3, <1>1, <1>2
<1> HIDE DEF t
<1>4. ListOK(i, t)
  BY <1>1, <1>2, <1>3 DEF ListOK
<1> QED BY <1>4 DEF t

\* RemoveAt closes the gap.
LEMMA RemovedPlaces ==
  ASSUME NEW s \in Seq(HashItem), NEW k \in 1 .. Len(s)
  PROVE  /\ RemoveAt(s, k) \in Seq(HashItem) /\ Len(RemoveAt(s, k)) = Len(s) - 1
         /\ \A m \in 1 .. Len(s) - 1 : RemoveAt(s, k)[m] = IF m < k THEN s[m] ELSE s[m + 1]
<1> DEFINE t == RemoveAt(s, k)
<1> DEFINE a == SubSeq(s, 1, k - 1)
           b == SubSeq(s, k + 1, Len(s))
<1>1. a \in Seq(HashItem) /\ Len(a) = k - 1 /\ \A m \in 1 .. k - 1 : a[m] = s[m]
  OBVIOUS
<1>2. /\ b \in Seq(HashItem) /\ Len(b) = Len(s) - k
      /\ \A m \in 1 .. Len(s) - k : b[m] = s[k + m]
  OBVIOUS
<1>3. t = a \o b
  BY DEF RemoveAt
<1> HIDE DEF a, b, t
<1>4. t \in Seq(HashItem) /\ Len(t) = Len(s) - 1
  BY <1>1, <1>2, <1>3
<1>5. ASSUME NEW m \in 1 .. Len(t)
      PROVE  t[m] = IF m < k THEN s[m] ELSE s[m + 1]
  <2>1. CASE m < k
    BY <2>1, <1>1, <1>2, <1>3, <1>4
  <2>2. CASE ~(m < k)
    <3>1. t[m] = b[m - (k - 1)] /\ m - (k - 1) \in 1 .. Len(s) - k
      BY <2>2, <1>1, <1>2, <1>3, <1>4
    <3> QED BY SMTT(30), <3>1, <2>2, <1>2
  <2> QED BY <2>1, <2>2
<1> QED BY <1>4, <1>5 DEF t

\* A chain without one of its items is still a chain of its index.
LEMMA RemoveItem ==
  ASSUME NEW i, NEW s, ListOK(i, s), NEW k \in DOMAIN s
  PROVE  ListOK(i, RemoveAt(s, k))
<1> DEFINE t == RemoveAt(s, k)
<1>1. s \in Seq(HashItem) /\ k \in 1 .. Len(s)
  BY DEF ListOK
<1>2. /\ t \in Seq(HashItem) /\ Len(t) = Len(s) - 1
      /\ \A m \in 1 .. Len(t) : t[m] = IF m < k THEN s[m] ELSE s[m + 1]
  BY <1>1, RemovedPlaces
<1> HIDE DEF t
<1> DEFINE from(m) == IF m < k THEN m ELSE m + 1
<1>3. \A m \in DOMAIN t : from(m) \in DOMAIN s /\ t[m] = s[from(m)]
  BY <1>1, <1>2
<1>4. \A m, n \in DOMAIN t : from(m) = from(n) => m = n
  BY <1>1, <1>2
<1> HIDE DEF from
<1>5. ListOK(i, t)
  BY <1>2, <1>3, <1>4 DEF ListOK
<1> QED BY <1>5 DEF t

\* Every call keeps the invariant of the table.
LEMMA HashStep == HashInv /\ [ht_Next]_tableVars => HashInv'
<1> SUFFICES ASSUME HashInv, [ht_Next]_tableVars PROVE HashInv'
  OBVIOUS
<1>1. \A key \in HashKeys : get_hash(key) \in Indices /\ ListOK(get_hash(key), table[get_hash(key)])
  BY HashAssumption DEF HashInv, Indices
<1>2. ASSUME NEW key \in HashKeys, NEW value \in HashValues, ht_insert(key, value)
      PROVE  HashInv'
  <2> DEFINE list == table[get_hash(key)]
             item == [key |-> key, value |-> value]
  <2>1. CASE ht_search(key) = 0
    <3>1. ListOK(get_hash(key), <<item>> \o list)
      <4>1. item \in HashItem /\ item.key = key
        BY DEF HashItem
      <4>2. \A m \in DOMAIN list : list[m].key # item.key
        BY <2>1, SearchFinds
      <4> HIDE DEF item
      <4> QED BY <4>1, <4>2, <1>1, InsertFront
    <3>2. table' = [table EXCEPT ![get_hash(key)] = <<item>> \o list]
      BY <1>2, <2>1 DEF ht_insert
    <3> QED BY <3>1, <3>2, <1>1, OneListChanges
  <2>2. CASE ht_search(key) # 0
    <3>1. ListOK(get_hash(key), [list EXCEPT ![ht_search(key)].value = value])
      BY <2>2, <1>1, SearchFinds, ReplaceValue
    <3>2. table' = [table EXCEPT ![get_hash(key)] =
                      [list EXCEPT ![ht_search(key)].value = value]]
      BY <1>2, <2>2 DEF ht_insert
    <3> QED BY <3>1, <3>2, <1>1, OneListChanges
  <2> QED BY <2>1, <2>2
<1>3. ASSUME NEW key \in HashKeys, ht_delete(key)
      PROVE  HashInv'
  <2>1. CASE ht_search(key) = 0
    <3>1. table' = [table EXCEPT ![get_hash(key)] = table[get_hash(key)]]
      BY <1>3, <2>1 DEF ht_delete
    <3> QED BY <3>1, <1>1, OneListChanges
  <2>2. CASE ht_search(key) # 0
    <3>1. ListOK(get_hash(key), RemoveAt(table[get_hash(key)], ht_search(key)))
      BY <2>2, <1>1, SearchFinds, RemoveItem
    <3>2. table' = [table EXCEPT ![get_hash(key)] =
                      RemoveAt(table[get_hash(key)], ht_search(key))]
      BY <1>3, <2>2 DEF ht_delete
    <3> QED BY <3>1, <3>2, <1>1, OneListChanges
  <2> QED BY <2>1, <2>2
<1>4. CASE ht_delete_all
  BY <1>4 DEF ht_delete_all, HashInv, ListOK, Indices
<1>5. CASE \/ \E key \in HashKeys : ht_get(key)
           \/ UNCHANGED tableVars
  <2>1. table' = table
    BY <1>5 DEF ht_get, tableVars
  <2> QED BY <2>1 DEF HashInv
<1> QED BY <1>2, <1>3, <1>4, <1>5 DEF ht_Next

\* A key has one item, in the list of its hash, for every HT_SIZE, every key that
\* hashes into the table and every order of insert, get, delete and delete_all.
THEOREM KeysAreUnique == ht_Spec => []OneItemPerKey
<1>1. ht_init => HashInv
  BY DEF ht_init, HashInv, ListOK, Indices
<1>2. HashInv => OneItemPerKey
  BY DEF HashInv, OneItemPerKey, ListOK
<1>3. ht_Spec => []HashInv
  BY <1>1, HashStep, PTL DEF ht_Spec
<1> QED BY <1>2, <1>3, PTL
-----------------------------------------------------------------------------
(* The table as a map.  What a table stores is a relation between keys and *)
(* values; a map stands for a table that stores its pairs and no others.   *)

Stored(T, k, v) == [key |-> k, value |-> v] \in ToSet(T[get_hash(k)])

StandsFor(T, f) ==
  /\ f = [k \in DOMAIN f |-> f[k]]
  /\ DOMAIN f \subseteq HashKeys /\ \A k \in DOMAIN f : f[k] \in HashValues
  /\ \A k \in HashKeys, v \in HashValues :
       (k \in DOMAIN f /\ f[k] = v) <=> Stored(T, k, v)

\* A table is stood for by one map.
LEMMA OneMap ==
  ASSUME NEW T, NEW f, NEW g, StandsFor(T, f), StandsFor(T, g)
  PROVE  f = g
<1>1. \A k \in HashKeys, v \in HashValues :
        (k \in DOMAIN f /\ f[k] = v) <=> (k \in DOMAIN g /\ g[k] = v)
  BY DEF StandsFor
<1>2. DOMAIN f \subseteq HashKeys /\ \A k \in DOMAIN f : f[k] \in HashValues
  BY DEF StandsFor
<1>3. DOMAIN g \subseteq HashKeys /\ \A k \in DOMAIN g : g[k] \in HashValues
  BY DEF StandsFor
<1>4. DOMAIN f = DOMAIN g /\ \A k \in DOMAIN f : f[k] = g[k]
  BY <1>1, <1>2, <1>3
<1>5. f = [k \in DOMAIN f |-> f[k]] /\ g = [k \in DOMAIN g |-> g[k]]
  BY DEF StandsFor
<1> QED BY <1>4, <1>5

\* The map read off by searching stands for the table.
LEMMA ContentsStand == HashInv => StandsFor(table, Contents)
<1> SUFFICES ASSUME HashInv PROVE StandsFor(table, Contents)
  OBVIOUS
<1> DEFINE list(k) == table[get_hash(k)]
<1>1. \A k \in HashKeys : ListOK(get_hash(k), list(k))
  BY HashAssumption DEF HashInv, Indices
<1>2. DOMAIN Contents = {k \in HashKeys : ht_search(k) # 0}
  BY DEF Contents
<1>3. ASSUME NEW k \in DOMAIN Contents
      PROVE  /\ ht_search(k) \in DOMAIN list(k) /\ list(k)[ht_search(k)].key = k
             /\ Contents[k] = list(k)[ht_search(k)].value
             /\ list(k)[ht_search(k)] = [key |-> k, value |-> Contents[k]]
             /\ Contents[k] \in HashValues
  <2>1. k \in HashKeys /\ ht_search(k) # 0
    BY <1>2
  <2>2. ht_search(k) \in DOMAIN list(k) /\ list(k)[ht_search(k)].key = k
    BY <2>1, SearchFinds
  <2>3. Contents[k] = list(k)[ht_search(k)].value
    BY <2>1 DEF Contents
  <2>4. list(k)[ht_search(k)] \in HashItem
    BY <2>1, <2>2, <1>1 DEF ListOK
  <2> QED BY <2>2, <2>3, <2>4 DEF HashItem
<1>4. ASSUME NEW k \in HashKeys, NEW v \in HashValues, Stored(table, k, v)
      PROVE  k \in DOMAIN Contents /\ Contents[k] = v
  <2>1. PICK m \in DOMAIN list(k) : list(k)[m] = [key |-> k, value |-> v]
    BY <1>4 DEF Stored, ToSet
  <2>2. list(k)[m].key = k /\ list(k)[m].value = v
    BY <2>1
  <2>3. k \in DOMAIN Contents
    BY <2>2, <1>2, SearchFinds
  <2>4. m = ht_search(k)
    <3>1. ListOK(get_hash(k), list(k))
      BY <1>1
    <3>2. ht_search(k) \in DOMAIN list(k) /\ list(k)[ht_search(k)].key = k
      BY <2>3, <1>3
    <3> HIDE DEF list
    <3> QED BY <2>2, <3>1, <3>2 DEF ListOK
  <2> QED BY <2>2, <2>3, <2>4, <1>3
<1>5. ASSUME NEW k \in DOMAIN Contents
      PROVE  Stored(table, k, Contents[k])
  BY <1>3 DEF Stored, ToSet
<1>6. Contents = [k \in DOMAIN Contents |-> Contents[k]]
  BY DEF Contents
<1> QED BY <1>2, <1>3, <1>4, <1>5, <1>6 DEF StandsFor

\* What the three changes of a chain make of its items.
LEMMA FrontItems ==
  ASSUME NEW s \in Seq(HashItem), NEW item \in HashItem
  PROVE  ToSet(<<item>> \o s) = ToSet(s) \cup {item}
<1> DEFINE t == <<item>> \o s
<1>1. /\ t \in Seq(HashItem) /\ Len(t) = Len(s) + 1
      /\ t[1] = item /\ \A m \in 1 .. Len(s) : t[m + 1] = s[m]
  OBVIOUS
<1>2. DOMAIN s = 1 .. Len(s) /\ DOMAIN t = 1 .. Len(t) /\ Len(s) \in Nat
  BY <1>1
<1> HIDE DEF t
<1>3. \A n \in DOMAIN t : n = 1 \/ (n - 1 \in DOMAIN s /\ t[n] = s[n - 1])
  BY <1>1, <1>2
<1>4. \A m \in DOMAIN s : m + 1 \in DOMAIN t /\ t[m + 1] = s[m]
  BY <1>1, <1>2
<1>5. ToSet(t) = ToSet(s) \cup {item}
  BY <1>1, <1>2, <1>3, <1>4 DEF ToSet
<1> QED BY <1>5 DEF t

\* The item with the new value takes the place of the old one.
LEMMA ReplacedItems ==
  ASSUME NEW i, NEW s, ListOK(i, s), NEW k \in DOMAIN s, NEW value \in HashValues, NEW x
  PROVE  x \in ToSet([s EXCEPT ![k].value = value]) <=>
           \/ x = [key |-> s[k].key, value |-> value]
           \/ x \in ToSet(s) /\ x.key # s[k].key
<1> DEFINE t == [s EXCEPT ![k].value = value]
           new == [key |-> s[k].key, value |-> value]
<1>1. s \in Seq(HashItem) /\ DOMAIN t = DOMAIN s /\ s[k] \in HashItem
  BY DEF ListOK
<1>2. \A m \in DOMAIN s : t[m] = IF m = k THEN [s[k] EXCEPT !.value = value] ELSE s[m]
  OBVIOUS
<1>3. [s[k] EXCEPT !.value = value] = new
  BY <1>1 DEF HashItem
<1>4. \A m \in DOMAIN s : m # k <=> s[m].key # s[k].key
  BY DEF ListOK
<1> HIDE DEF t, new
<1>5. x \in ToSet(t) <=> x = new \/ (x \in ToSet(s) /\ x.key # s[k].key)
  BY <1>1, <1>2, <1>3, <1>4 DEF ToSet
<1> QED BY <1>5 DEF t, new

\* The item is gone and no other.
LEMMA RemovedItems ==
  ASSUME NEW i, NEW s, ListOK(i, s), NEW k \in DOMAIN s, NEW x
  PROVE  x \in ToSet(RemoveAt(s, k)) <=> x \in ToSet(s) /\ x.key # s[k].key
<1> DEFINE t == RemoveAt(s, k)
<1>1. /\ t \in Seq(HashItem) /\ Len(t) = Len(s) - 1
      /\ \A m \in 1 .. Len(t) : t[m] = IF m < k THEN s[m] ELSE s[m + 1]
  <2>1. s \in Seq(HashItem) /\ k \in 1 .. Len(s)
    BY DEF ListOK
  <2> QED BY <2>1, RemovedPlaces
<1>2. s \in Seq(HashItem) /\ DOMAIN s = 1 .. Len(s) /\ Len(s) \in Nat /\ k \in 1 .. Len(s)
  BY DEF ListOK
<1>3. \A m \in DOMAIN s : m # k <=> s[m].key # s[k].key
  BY DEF ListOK
<1> HIDE DEF t
<1>4. DOMAIN t = 1 .. Len(t)
  BY <1>1
<1>5. \A n \in DOMAIN t : \E m \in DOMAIN s : m # k /\ t[n] = s[m]
  <2> TAKE n \in DOMAIN t
  <2>1. CASE n < k
    BY <2>1, <1>1, <1>2, <1>4
  <2>2. CASE ~(n < k)
    <3>1. n + 1 \in DOMAIN s /\ n + 1 # k /\ t[n] = s[n + 1]
      BY <2>2, <1>1, <1>2, <1>4
    <3> QED BY <3>1
  <2> QED BY <2>1, <2>2
<1>6. \A m \in DOMAIN s : m # k => \E n \in DOMAIN t : t[n] = s[m]
  <2> TAKE m \in DOMAIN s
  <2> HAVE m # k
  <2>1. CASE m < k
    BY <2>1, <1>1, <1>2, <1>4
  <2>2. CASE ~(m < k)
    <3>1. m - 1 \in DOMAIN t /\ t[m - 1] = s[m]
      BY <2>2, <1>1, <1>2, <1>4
    <3> QED BY <3>1
  <2> QED BY <2>1, <2>2
<1>7. x \in ToSet(t) <=> x \in ToSet(s) /\ x.key # s[k].key
  BY <1>3, <1>5, <1>6 DEF ToSet
<1> QED BY <1>7 DEF t


\* A call changes what one key is stored with, delete_all that of all keys.
LEMMA StoredAfter ==
  ASSUME HashInv, NEW key \in HashKeys, NEW k \in HashKeys, NEW v \in HashValues
  PROVE  /\ \A value \in HashValues : ht_insert(key, value) =>
              (Stored(table', k, v) <=> IF k = key THEN v = value ELSE Stored(table, k, v))
         /\ ht_delete(key) =>
              (Stored(table', k, v) <=> k # key /\ Stored(table, k, v))
<1> DEFINE h == get_hash(key)
           list == table[h]
           pair == [key |-> k, value |-> v]
<1>1. /\ h \in Indices /\ ListOK(h, list) /\ get_hash(k) \in Indices
      /\ \A s : table' = [table EXCEPT ![h] = s] =>
           table'[get_hash(k)] = IF get_hash(k) = h THEN s ELSE table[get_hash(k)]
  BY HashAssumption DEF HashInv, Indices
<1>2. pair \in HashItem /\ pair.key = k /\ pair.value = v
  BY DEF HashItem
<1>3. ht_search(key) = 0 => ~Stored(table, key, v)
  <2>1. ht_search(key) = 0 => \A m \in DOMAIN list : list[m].key # key
    BY SearchFinds
  <2> QED BY <2>1 DEF Stored, ToSet
<1>4. list \in Seq(HashItem)
  BY <1>1 DEF ListOK
<1>5. ht_search(key) # 0 => ht_search(key) \in DOMAIN list /\ list[ht_search(key)].key = key
  BY SearchFinds
<1>6. \A s : table' = [table EXCEPT ![h] = s] =>
        (Stored(table', k, v) <=> IF get_hash(k) = h THEN pair \in ToSet(s) ELSE Stored(table, k, v))
  BY <1>1 DEF Stored
<1>7. k = key => get_hash(k) = h
  OBVIOUS
<1>8. get_hash(k) = h => (Stored(table, k, v) <=> pair \in ToSet(list))
  BY DEF Stored
<1>9. ASSUME NEW value \in HashValues, ht_insert(key, value)
      PROVE  Stored(table', k, v) <=> IF k = key THEN v = value ELSE Stored(table, k, v)
  <2> DEFINE item == [key |-> key, value |-> value]
  <2>1. pair = item <=> k = key /\ v = value
    OBVIOUS
  <2>2. CASE ht_search(key) = 0
    <3>1. item \in HashItem
      BY DEF HashItem
    <3>2. pair \in ToSet(<<item>> \o list) <=> pair \in ToSet(list) \/ pair = item
      <4> HIDE DEF item, pair, list
      <4> QED BY <3>1, <1>4, FrontItems
    <3>3. table' = [table EXCEPT ![h] = <<item>> \o list]
      BY <1>9, <2>2 DEF ht_insert
    <3>4. k = key => ~Stored(table, k, v)
      BY <2>2, <1>3
    <3>5. Stored(table', k, v)
            <=> IF get_hash(k) = h THEN pair \in ToSet(<<item>> \o list) ELSE Stored(table, k, v)
      BY <1>6, <3>3
    <3> HIDE DEF item, pair, list, h
    <3> QED BY <3>2, <3>4, <3>5, <2>1, <1>7, <1>8
  <2>3. CASE ht_search(key) # 0
    <3> DEFINE new == [list EXCEPT ![ht_search(key)].value = value]
    <3>1. pair \in ToSet(new) <=> pair = item \/ (pair \in ToSet(list) /\ pair.key # key)
      <4>1. ht_search(key) \in DOMAIN list /\ list[ht_search(key)].key = key
        BY <2>3, <1>5
      <4> HIDE DEF pair, list
      <4> QED BY <4>1, <1>1, ReplacedItems
    <3>2. table' = [table EXCEPT ![h] = new]
      BY <1>9, <2>3 DEF ht_insert
    <3>3. Stored(table', k, v)
            <=> IF get_hash(k) = h THEN pair \in ToSet(new) ELSE Stored(table, k, v)
      BY <1>6, <3>2
    <3> HIDE DEF item, pair, list, h, new
    <3> QED BY <3>1, <3>3, <2>1, <1>2, <1>7, <1>8
  <2> QED BY <2>2, <2>3
<1>10. ASSUME ht_delete(key)
       PROVE  Stored(table', k, v) <=> k # key /\ Stored(table, k, v)
  <2>1. CASE ht_search(key) = 0
    <3>1. table' = [table EXCEPT ![h] = list]
      BY <1>10, <2>1 DEF ht_delete
    <3>2. k = key => ~Stored(table, k, v)
      BY <2>1, <1>3
    <3>3. Stored(table', k, v)
            <=> IF get_hash(k) = h THEN pair \in ToSet(list) ELSE Stored(table, k, v)
      BY <1>6, <3>1
    <3> HIDE DEF pair, list, h
    <3> QED BY <3>2, <3>3, <1>8
  <2>2. CASE ht_search(key) # 0
    <3> DEFINE new == RemoveAt(list, ht_search(key))
    <3>1. pair \in ToSet(new) <=> pair \in ToSet(list) /\ pair.key # key
      <4>1. ht_search(key) \in DOMAIN list /\ list[ht_search(key)].key = key
        BY <2>2, <1>5
      <4> HIDE DEF pair, list
      <4> QED BY <4>1, <1>1, RemovedItems
    <3>2. table' = [table EXCEPT ![h] = new]
      BY <1>10, <2>2 DEF ht_delete
    <3>3. Stored(table', k, v)
            <=> IF get_hash(k) = h THEN pair \in ToSet(new) ELSE Stored(table, k, v)
      BY <1>6, <3>2
    <3> HIDE DEF pair, list, h, new
    <3> QED BY <3>1, <3>3, <1>2, <1>7, <1>8
  <2> QED BY <2>1, <2>2
<1> QED BY <1>9, <1>10

\* Every call is one of the map, with its answer.
LEMMA CallIsMapped ==
  ASSUME HashInv, StandsFor(table', Contents'), [ht_Next]_tableVars
  PROVE  [HashMap!Next]_(HashMap!mapVars)
<1>1. StandsFor(table, Contents)
  BY ContentsStand
<1>2. StandsFor(table', Contents') /\ (table' = table => Contents' = Contents)
  BY <1>1, OneMap
<1>3. /\ Contents = [k \in DOMAIN Contents |-> Contents[k]]
      /\ DOMAIN Contents \subseteq HashKeys /\ \A k \in DOMAIN Contents : Contents[k] \in HashValues
      /\ \A k \in HashKeys, v \in HashValues :
           (k \in DOMAIN Contents /\ Contents[k] = v) <=> Stored(table, k, v)
  BY <1>1 DEF StandsFor
<1>4. ASSUME NEW key \in HashKeys, NEW value \in HashValues, ht_insert(key, value)
      PROVE  HashMap!Put(key, value)
  <2> DEFINE f == [x \in DOMAIN Contents \cup {key} |-> IF x = key THEN value ELSE Contents[x]]
  <2>1. \A k \in HashKeys, v \in HashValues :
          Stored(table', k, v) <=> IF k = key THEN v = value ELSE Stored(table, k, v)
    BY <1>4, StoredAfter
  <2>2. f = [k \in DOMAIN f |-> f[k]] /\ DOMAIN f = DOMAIN Contents \cup {key}
    OBVIOUS
  <2>3. \A k \in DOMAIN f : f[k] = IF k = key THEN value ELSE Contents[k]
    OBVIOUS
  <2>4. StandsFor(table', f)
    <3> HIDE DEF f
    <3> QED BY <2>1, <2>2, <2>3, <1>3 DEF StandsFor
  <2>5. Contents' = f
    BY <2>4, <1>2, OneMap
  <2> QED BY <2>5, <1>4 DEF HashMap!Put, ht_insert, ht_Returned
<1>5. ASSUME NEW key \in HashKeys, ht_delete(key)
      PROVE  HashMap!Remove(key)
  <2> DEFINE f == [x \in DOMAIN Contents \ {key} |-> Contents[x]]
  <2>1. \A k \in HashKeys, v \in HashValues :
          Stored(table', k, v) <=> k # key /\ Stored(table, k, v)
    BY <1>5, StoredAfter
  <2>2. f = [k \in DOMAIN f |-> f[k]] /\ DOMAIN f = DOMAIN Contents \ {key}
    OBVIOUS
  <2>3. \A k \in DOMAIN f : f[k] = Contents[k]
    OBVIOUS
  <2>4. StandsFor(table', f)
    <3> HIDE DEF f
    <3> QED BY <2>1, <2>2, <2>3, <1>3 DEF StandsFor
  <2>5. Contents' = f
    BY <2>4, <1>2, OneMap
  <2> QED BY <2>5, <1>5 DEF HashMap!Remove, HashMap!Restrict, ht_delete, ht_Returned
<1>6. ASSUME NEW key \in HashKeys, ht_get(key)
      PROVE  HashMap!Get(key)
  <2>1. Contents' = Contents
    BY <1>6, <1>2 DEF ht_get
  <2>2. key \in DOMAIN Contents <=> ht_search(key) # 0
    BY DEF Contents
  <2>3. ht_search(key) # 0 => Contents[key] = table[get_hash(key)][ht_search(key)].value
    BY DEF Contents
  <2> QED BY <2>1, <2>2, <2>3, <1>6 DEF HashMap!Get, ht_get, ht_Returned
<1>7. CASE ht_delete_all
  <2> DEFINE f == [k \in {} |-> 0]
  <2>1. \A k \in HashKeys : table'[get_hash(k)] = <<>>
    BY <1>7, HashAssumption DEF ht_delete_all
  <2>2. \A k \in HashKeys, v \in HashValues : ~Stored(table', k, v)
    BY <2>1 DEF Stored, ToSet
  <2>3. StandsFor(table', f)
    BY <2>2 DEF StandsFor
  <2>4. Contents' = f
    BY <2>3, <1>2, OneMap
  <2> QED BY <2>4, <1>7 DEF HashMap!Next, HashMap!Clear, ht_delete_all, ht_Returned
<1>8. CASE UNCHANGED tableVars
  BY <1>8, <1>2 DEF HashMap!mapVars, tableVars
<1> QED BY <1>4, <1>5, <1>6, <1>7, <1>8 DEF ht_Next, HashMap!Next

\* The table implements a finite map, answers included, for every HT_SIZE and every key
\* that hashes into the table: colliding keys never show each other's values, and a
\* value once deleted or replaced never comes back (hashtable.c, all of it).
THEOREM TableImplementsMap == ht_Spec => TableIsMap
<1>1. ht_init => HashInv /\ HashMap!Init
  <2>1. ASSUME ht_init PROVE HashInv
    BY <2>1 DEF ht_init, HashInv, ListOK, Indices
  <2>2. ASSUME ht_init PROVE Contents = [k \in {} |-> 0]
    <3>1. \A k \in HashKeys : table[get_hash(k)] = <<>>
      BY <2>2, HashAssumption DEF ht_init
    <3>2. \A k \in HashKeys, v \in HashValues : ~Stored(table, k, v)
      BY <3>1 DEF Stored, ToSet
    <3>3. StandsFor(table, [k \in {} |-> 0])
      BY <3>2 DEF StandsFor
    <3> QED BY <3>3, <2>1, <2>2, ContentsStand, OneMap
  <2> QED BY <2>1, <2>2 DEF HashMap!Init, ht_init
<1>2. HashInv /\ HashInv' /\ [ht_Next]_tableVars => [HashMap!Next]_(HashMap!mapVars)
  <2> DEFINE Stands == StandsFor(table, Contents)
  <2>1. HashInv => Stands
    BY ContentsStand
  <2>2. Stands' => StandsFor(table', Contents')
    OBVIOUS
  <2> HIDE DEF Stands
  <2>3. HashInv' => Stands'
    BY <2>1, PTL
  <2> QED BY <2>2, <2>3, CallIsMapped
<1>3. ht_Spec => []HashInv
  BY <1>1, HashStep, PTL DEF ht_Spec
<1> QED BY <1>1, <1>2, <1>3, PTL DEF ht_Spec, TableIsMap, HashMap!Spec
=============================================================================
