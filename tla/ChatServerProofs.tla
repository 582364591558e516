-------------------------- MODULE ChatServerProofs --------------------------
(* The chat server for every set of clients and channels, every size of its  *)
(* buffers and every order in which lines, connections and events arrive.    *)
EXTENDS ChatServer, TLAPS, FiniteSetTheorems, SequenceTheorems

-----------------------------------------------------------------------------
(* Induction.  What a recursive function computes is a fact about the set of *)
(* the numbers it has been shown for.                                        *)

\* Induction over the natural numbers, as a fact about a set of them: a least
\* number outside S would have a predecessor in it.
LEMMA Counting ==
  ASSUME NEW S \in SUBSET Nat, 0 \in S, \A n \in S : n + 1 \in S
  PROVE  \A n \in Nat : n \in S
<1> DEFINE Less == {p \in Nat \X Nat : p[1] < p[2]}
           Rest == Nat \ S
<1>1. IsWellFoundedOn(Less, Nat)
  BY NatLessThanWellFounded DEF OpToRel
<1> SUFFICES ASSUME Rest # {} PROVE FALSE
  OBVIOUS
<1>2. PICK x \in Rest : \A y \in Rest : <<y, x>> \notin Less
  <2>1. Rest \subseteq Nat
    OBVIOUS
  <2> HIDE DEF Less, Rest
  <2> QED BY <1>1, <2>1, WFMin
<1>3. x \in Nat \ {0} /\ x - 1 \in Nat /\ x - 1 < x
  BY <1>2
<1>4. x - 1 \in S
  BY <1>2, <1>3
<1>5. (x - 1) + 1 = x
  BY <1>3
<1> QED BY <1>2, <1>4, <1>5

\* The values of a recursion over 1 .. n whose step g[i] stays in V.
StepValues(n, b, g, f) == f[0] = b /\ \A i \in 1 .. n : f[i] = g[i][f[i - 1]]

\* A function computed step by step from its first value exists.
LEMMA StepsExist ==
  ASSUME NEW n \in Nat, NEW V, NEW b \in V, NEW g \in [1 .. n -> [V -> V]]
  PROVE  \E f \in [0 .. n -> V] : StepValues(n, b, g, f)
<1> DEFINE Steps(f, m) == f[0] = b /\ \A i \in 1 .. m : f[i] = g[i][f[i - 1]]
           S == {m \in Nat : m <= n => \E f \in [0 .. m -> V] : Steps(f, m)}
<1>1. 0 \in S
  <2>1. [i \in 0 .. 0 |-> b] \in [0 .. 0 -> V]
    OBVIOUS
  <2>2. Steps([i \in 0 .. 0 |-> b], 0)
    OBVIOUS
  <2> QED BY <2>1, <2>2
<1>2. ASSUME NEW m \in S PROVE m + 1 \in S
  <2> SUFFICES ASSUME m + 1 <= n PROVE \E f \in [0 .. m + 1 -> V] : Steps(f, m + 1)
    OBVIOUS
  <2>1. PICK f \in [0 .. m -> V] : Steps(f, m)
    OBVIOUS
  <2> DEFINE h == [i \in 0 .. m + 1 |-> IF i = m + 1 THEN g[m + 1][f[m]] ELSE f[i]]
  <2>2. f[m] \in V /\ m + 1 \in 1 .. n
    BY <2>1
  <2>3. g[m + 1][f[m]] \in V
    BY <2>2
  <2>4. h \in [0 .. m + 1 -> V]
    BY <2>1, <2>3
  <2>5. h[0] = b
    BY <2>1
  <2>6. ASSUME NEW i \in 1 .. m + 1 PROVE h[i] = g[i][h[i - 1]]
    <3>1. h[i - 1] = f[i - 1]
      OBVIOUS
    <3>2. CASE i = m + 1
      BY <3>1, <3>2
    <3>3. CASE i # m + 1
      BY <2>1, <3>1, <3>3
    <3> QED BY <3>2, <3>3
  <2> HIDE DEF h
  <2> QED BY <2>4, <2>5, <2>6
<1>3. n \in S
  <2> HIDE DEF S
  <2>1. S \in SUBSET Nat
    BY DEF S
  <2> QED BY <1>1, <1>2, <2>1, Counting
<1> QED BY <1>3 DEF StepValues

\* Such a function has its values where its steps stay.
LEMMA StepsTyped ==
  ASSUME NEW n \in Nat, NEW V, NEW f, DOMAIN f = 0 .. n, f = [i \in 0 .. n |-> f[i]],
         f[0] \in V, \A i \in 1 .. n : f[i - 1] \in V => f[i] \in V
  PROVE  f \in [0 .. n -> V]
<1> DEFINE R == {m \in Nat : m <= n => f[m] \in V}
<1>1. 0 \in R
  OBVIOUS
<1>2. ASSUME NEW m \in R PROVE m + 1 \in R
  <2> SUFFICES ASSUME m + 1 <= n PROVE f[m + 1] \in V
    OBVIOUS
  <2>1. m + 1 \in 1 .. n /\ (m + 1) - 1 = m /\ f[m] \in V
    OBVIOUS
  <2> QED BY <2>1
<1>3. \A m \in Nat : m \in R
  <2>1. R \in SUBSET Nat
    OBVIOUS
  <2> HIDE DEF R
  <2> QED BY <1>1, <1>2, <2>1, Counting
<1>4. \A m \in 0 .. n : f[m] \in V
  BY <1>3
<1> QED BY <1>4

\* Two such functions with the same first value and the same steps are the same.
SameSteps(n, f, h) ==
  f[0] = h[0] /\ \A i \in 1 .. n : f[i - 1] = h[i - 1] => f[i] = h[i]

SameValues(n, f, h) == \A i \in 0 .. n : f[i] = h[i]

\* Two functions computed by the same steps are equal where both are defined.
LEMMA StepsAgree ==
  ASSUME NEW n \in Nat, NEW f, NEW h, SameSteps(n, f, h)
  PROVE  SameValues(n, f, h)
<1> DEFINE R == {m \in Nat : m <= n => f[m] = h[m]}
<1> USE DEF SameSteps
<1>1. 0 \in R
  OBVIOUS
<1>2. ASSUME NEW m \in R PROVE m + 1 \in R
  <2> SUFFICES ASSUME m + 1 <= n PROVE f[m + 1] = h[m + 1]
    OBVIOUS
  <2>1. m + 1 \in 1 .. n /\ (m + 1) - 1 = m /\ f[m] = h[m]
    OBVIOUS
  <2> QED BY <2>1
<1>3. \A m \in Nat : m \in R
  <2>1. R \in SUBSET Nat
    OBVIOUS
  <2> HIDE DEF R
  <2> QED BY <1>1, <1>2, <2>1, Counting
<1> QED BY <1>3 DEF SameValues

-----------------------------------------------------------------------------
(* Keep.                                                                     *)

KeepValues(s, S, f) ==
  /\ Keep(s, S) = f[Len(s)]
  /\ f[0] = <<>>
  /\ \A i \in 1 .. Len(s) :
       f[i] = IF s[i] \in S THEN Append(f[i - 1], s[i]) ELSE f[i - 1]

\* The function inside Keep exists and computes sequences.
LEMMA KeepIsComputed ==
  ASSUME NEW V, NEW s \in Seq(V), NEW S
  PROVE  \E f \in [0 .. Len(s) -> Seq(V)] : KeepValues(s, S, f)
<1> DEFINE n == Len(s)
           W == Seq(V)
           g == [i \in 1 .. n |-> [v \in W |-> IF s[i] \in S THEN Append(v, s[i]) ELSE v]]
           Equation(h) ==
             h = [i \in 0 .. n |->
                    IF i = 0 THEN <<>>
                    ELSE IF s[i] \in S THEN Append(h[i - 1], s[i]) ELSE h[i - 1]]
           kept == CHOOSE h : Equation(h)
<1>1. n \in Nat /\ <<>> \in W
  OBVIOUS
<1>2. g \in [1 .. n -> [W -> W]]
  <2> SUFFICES ASSUME NEW i \in 1 .. n, NEW v \in W
               PROVE  (IF s[i] \in S THEN Append(v, s[i]) ELSE v) \in W
    OBVIOUS
  <2>1. s[i] \in V
    OBVIOUS
  <2> QED BY <2>1
<1>3. \E f \in [0 .. n -> W] : StepValues(n, <<>>, g, f)
  <2> HIDE DEF n, g, W
  <2> QED BY <1>1, <1>2, StepsExist
<1>4. PICK f \in [0 .. n -> W] : f[0] = <<>> /\ \A i \in 1 .. n : f[i] = g[i][f[i - 1]]
  BY <1>3 DEF StepValues
<1>5. Equation(f)
  <2>1. ASSUME NEW i \in 1 .. n
        PROVE  f[i] = IF s[i] \in S THEN Append(f[i - 1], s[i]) ELSE f[i - 1]
    <3> HIDE DEF n, W
    <3>1. f[i - 1] \in W
      BY <1>1, <1>4
    <3> QED BY <1>4, <3>1
  <2>2. f = [i \in 0 .. n |-> f[i]]
    OBVIOUS
  <2> HIDE DEF n
  <2>3. \A i \in 0 .. n : i = 0 \/ i \in 1 .. n
    BY <1>1
  <2> QED BY <1>4, <2>1, <2>2, <2>3
<1>6. Equation(kept) /\ Keep(s, S) = kept[n]
  BY <1>5 DEF Keep
<1>7. /\ DOMAIN kept = 0 .. n
      /\ kept = [i \in 0 .. n |-> kept[i]]
      /\ kept[0] = <<>>
      /\ \A i \in 1 .. n :
           kept[i] = IF s[i] \in S THEN Append(kept[i - 1], s[i]) ELSE kept[i - 1]
  <2>1. Equation(kept)
    BY <1>6
  <2> HIDE DEF kept, n
  <2>2. DOMAIN kept = 0 .. n /\ kept = [i \in 0 .. n |-> kept[i]]
    BY <2>1
  <2>3. \A i \in 0 .. n :
          kept[i] = IF i = 0 THEN <<>>
                    ELSE IF s[i] \in S THEN Append(kept[i - 1], s[i]) ELSE kept[i - 1]
    BY <2>1
  <2>4. 0 \in 0 .. n /\ \A i \in 1 .. n : i \in 0 .. n /\ i # 0
    BY <1>1
  <2> QED BY <2>2, <2>3, <2>4
<1>8. kept \in [0 .. n -> W]
  <2>1. \A i \in 1 .. n : s[i] \in V
    OBVIOUS
  <2>2. \A i \in 1 .. n : kept[i - 1] \in W => kept[i] \in W
    <3> SUFFICES ASSUME NEW i \in 1 .. n, kept[i - 1] \in W PROVE kept[i] \in W
      OBVIOUS
    <3>1. s[i] \in V
      BY <2>1
    <3>2. kept[i] = IF s[i] \in S THEN Append(kept[i - 1], s[i]) ELSE kept[i - 1]
      BY <1>7
    <3> HIDE DEF kept, n
    <3> QED BY <3>1, <3>2
  <2> HIDE DEF kept, n, W
  <2> QED BY <1>1, <1>7, <2>2, StepsTyped
<1> HIDE DEF kept
<1> QED BY <1>6, <1>7, <1>8 DEF KeepValues

Distinct(s) == \A i, j \in DOMAIN s : s[i] = s[j] => i = j

\* What Append does to the elements of a sequence.
LEMMA AppendSet ==
  ASSUME NEW V, NEW s \in Seq(V), NEW x \in V
  PROVE  /\ Append(s, x) \in Seq(V) /\ Len(Append(s, x)) = Len(s) + 1
         /\ ToSet(Append(s, x)) = ToSet(s) \cup {x}
         /\ Distinct(s) /\ x \notin ToSet(s) => Distinct(Append(s, x))
<1> DEFINE t == Append(s, x)
<1>1. /\ t \in Seq(V) /\ Len(t) = Len(s) + 1 /\ Len(s) \in Nat
      /\ DOMAIN s = 1 .. Len(s) /\ DOMAIN t = 1 .. Len(s) + 1
      /\ \A i \in 1 .. Len(s) : t[i] = s[i]
      /\ t[Len(s) + 1] = x
  OBVIOUS
<1> HIDE DEF t
<1>2. ToSet(t) = ToSet(s) \cup {x}
  <2>1. ASSUME NEW y \in ToSet(t) PROVE y \in ToSet(s) \cup {x}
    <3>1. PICK i \in 1 .. Len(s) + 1 : y = t[i]
      BY <1>1 DEF ToSet
    <3>2. CASE i = Len(s) + 1
      BY <1>1, <3>1, <3>2
    <3>3. CASE i \in 1 .. Len(s)
      BY <1>1, <3>1, <3>3 DEF ToSet
    <3> QED BY <1>1, <3>2, <3>3
  <2>2. ASSUME NEW y \in ToSet(s) PROVE y \in ToSet(t)
    <3>1. PICK i \in 1 .. Len(s) : y = s[i]
      BY <1>1 DEF ToSet
    <3> QED BY <1>1, <3>1 DEF ToSet
  <2>3. x \in ToSet(t)
    BY <1>1 DEF ToSet
  <2> QED BY <2>1, <2>2, <2>3
<1>3. Distinct(s) /\ x \notin ToSet(s) => Distinct(t)
  <2> SUFFICES ASSUME Distinct(s), x \notin ToSet(s), NEW i \in 1 .. Len(s) + 1,
                      NEW j \in 1 .. Len(s) + 1, t[i] = t[j]
               PROVE  i = j
    BY <1>1 DEF Distinct
  <2>1. \A k \in 1 .. Len(s) : s[k] # x
    BY <1>1 DEF ToSet
  <2> QED BY <1>1, <2>1 DEF Distinct
<1> QED BY <1>1, <1>2, <1>3 DEF t

\* What Keep returns: the elements that are in S, each as often as before.
LEMMA Kept ==
  ASSUME NEW V, NEW s \in Seq(V), NEW S
  PROVE  /\ Keep(s, S) \in Seq(V) /\ Len(Keep(s, S)) <= Len(s)
         /\ ToSet(Keep(s, S)) = ToSet(s) \cap S
         /\ Distinct(s) => Distinct(Keep(s, S))
<1>0. PICK f \in [0 .. Len(s) -> Seq(V)] : KeepValues(s, S, f)
  BY KeepIsComputed
<1>1. /\ Keep(s, S) = f[Len(s)]
      /\ f[0] = <<>>
      /\ \A i \in 1 .. Len(s) :
           f[i] = IF s[i] \in S THEN Append(f[i - 1], s[i]) ELSE f[i - 1]
  BY <1>0 DEF KeepValues
<1> DEFINE n == Len(s)
           W == Seq(V)
           Seen(i) == {s[j] : j \in 1 .. i}
<1> DEFINE OK(t, i) == /\ Len(t) <= i /\ ToSet(t) = Seen(i) \cap S
                       /\ Distinct(s) => Distinct(t)
           R == {i \in Nat : i <= n => OK(f[i], i)}
<1>2. n \in Nat /\ DOMAIN s = 1 .. n /\ \A i \in 1 .. n : s[i] \in V
  OBVIOUS
<1>3. 0 \in R
  BY <1>1 DEF ToSet, Distinct
<1>4. ASSUME NEW i \in R PROVE i + 1 \in R
  <2> SUFFICES ASSUME i + 1 <= n PROVE OK(f[i + 1], i + 1)
    OBVIOUS
  <2>1. i \in Nat /\ i + 1 \in 1 .. n /\ i \in 0 .. n
    BY <1>2
  <2>2. f[i] \in Seq(V) /\ f[i + 1] \in Seq(V)
    BY <2>1
  <2>3. OK(f[i], i)
    BY <2>1, <1>2
  <2>4. s[i + 1] \in V
    BY <1>2, <2>1
  <2>5. Seen(i + 1) = Seen(i) \cup {s[i + 1]}
    <3>1. 1 .. i + 1 = (1 .. i) \cup {i + 1}
      BY <2>1
    <3> QED BY <3>1
  <2>6. f[i + 1] = IF s[i + 1] \in S THEN Append(f[i], s[i + 1]) ELSE f[i]
    BY <1>1, <2>1
  <2>7. Distinct(s) => s[i + 1] \notin Seen(i)
    BY <1>2, <2>1 DEF Distinct
  <2>8. Len(f[i]) \in Nat
    BY <2>2
  <2> HIDE DEF Seen
  <2>9. CASE s[i + 1] \in S
    <3>1. f[i + 1] = Append(f[i], s[i + 1])
      BY <2>6, <2>9
    <3>2. /\ Len(f[i + 1]) = Len(f[i]) + 1
          /\ ToSet(f[i + 1]) = ToSet(f[i]) \cup {s[i + 1]}
          /\ Distinct(f[i]) /\ s[i + 1] \notin ToSet(f[i]) => Distinct(f[i + 1])
      BY <2>2, <2>4, <3>1, AppendSet
    <3>3. Len(f[i + 1]) <= i + 1
      BY <2>1, <2>3, <2>8, <3>2
    <3>4. ToSet(f[i + 1]) = Seen(i + 1) \cap S
      BY <2>3, <2>5, <2>9, <3>2
    <3>5. Distinct(s) => Distinct(f[i + 1])
      BY <2>3, <2>7, <3>2
    <3> QED BY <3>3, <3>4, <3>5
  <2>10. CASE s[i + 1] \notin S
    <3>1. f[i + 1] = f[i]
      BY <2>6, <2>10
    <3>2. Len(f[i]) <= i + 1
      BY <2>1, <2>3, <2>8
    <3>3. ToSet(f[i]) = Seen(i + 1) \cap S
      BY <2>3, <2>5, <2>10
    <3> QED BY <2>3, <3>1, <3>2, <3>3
  <2> QED BY <2>9, <2>10
<1>5. n \in R
  <2>1. R \in SUBSET Nat
    OBVIOUS
  <2> HIDE DEF R
  <2> QED BY <1>2, <1>3, <1>4, <2>1, Counting
<1>6. OK(f[n], n) /\ f[n] \in Seq(V)
  BY <1>1, <1>2, <1>5
<1>7. Seen(n) = ToSet(s)
  BY <1>2 DEF ToSet
<1> QED BY <1>1, <1>6, <1>7

-----------------------------------------------------------------------------
(* What the sends of a handler put into each socket.                         *)

Sends == [to : Clients, lines : Seq(ServerLines)]

LineValues(c, s, f) ==
  /\ LinesTo(c, s) = f[Len(s)]
  /\ f[0] = <<>>
  /\ \A i \in 1 .. Len(s) :
       f[i] = IF s[i].to = c THEN f[i - 1] \o s[i].lines ELSE f[i - 1]

\* The function inside LinesTo exists and computes lines.
LEMMA LinesAreComputed ==
  ASSUME NEW s \in Seq(Sends), NEW c
  PROVE  \E f \in [0 .. Len(s) -> Seq(ServerLines)] : LineValues(c, s, f)
<1> DEFINE n == Len(s)
           W == Seq(ServerLines)
           g == [i \in 1 .. n |-> [v \in W |-> IF s[i].to = c THEN v \o s[i].lines ELSE v]]
           Equation(h) ==
             h = [i \in 0 .. n |->
                    IF i = 0 THEN <<>>
                    ELSE IF s[i].to = c THEN h[i - 1] \o s[i].lines ELSE h[i - 1]]
           lines == CHOOSE h : Equation(h)
<1>1. n \in Nat /\ <<>> \in W
  OBVIOUS
<1>2. g \in [1 .. n -> [W -> W]]
  <2> SUFFICES ASSUME NEW i \in 1 .. n, NEW v \in W
               PROVE  (IF s[i].to = c THEN v \o s[i].lines ELSE v) \in W
    OBVIOUS
  <2>1. s[i] \in Sends
    OBVIOUS
  <2>2. s[i].lines \in W
    BY <2>1 DEF Sends
  <2> HIDE DEF n
  <2> QED BY <2>2
<1>3. \E f \in [0 .. n -> W] : StepValues(n, <<>>, g, f)
  <2> HIDE DEF n, g, W
  <2> QED BY <1>1, <1>2, StepsExist
<1>4. PICK f \in [0 .. n -> W] : f[0] = <<>> /\ \A i \in 1 .. n : f[i] = g[i][f[i - 1]]
  BY <1>3 DEF StepValues
<1>5. Equation(f)
  <2>1. ASSUME NEW i \in 1 .. n
        PROVE  f[i] = IF s[i].to = c THEN f[i - 1] \o s[i].lines ELSE f[i - 1]
    <3> HIDE DEF n, W
    <3>1. f[i - 1] \in W
      BY <1>1, <1>4
    <3> QED BY <1>4, <3>1
  <2>2. f = [i \in 0 .. n |-> f[i]]
    OBVIOUS
  <2> HIDE DEF n
  <2>3. \A i \in 0 .. n : i = 0 \/ i \in 1 .. n
    BY <1>1
  <2> QED BY <1>4, <2>1, <2>2, <2>3
<1>6. Equation(lines) /\ LinesTo(c, s) = lines[n]
  BY <1>5 DEF LinesTo
<1>7. /\ DOMAIN lines = 0 .. n
      /\ lines = [i \in 0 .. n |-> lines[i]]
      /\ lines[0] = <<>>
      /\ \A i \in 1 .. n :
           lines[i] = IF s[i].to = c THEN lines[i - 1] \o s[i].lines ELSE lines[i - 1]
  <2>1. Equation(lines)
    BY <1>6
  <2> HIDE DEF lines, n
  <2>2. DOMAIN lines = 0 .. n /\ lines = [i \in 0 .. n |-> lines[i]]
    BY <2>1
  <2>3. \A i \in 0 .. n :
          lines[i] = IF i = 0 THEN <<>>
                     ELSE IF s[i].to = c THEN lines[i - 1] \o s[i].lines ELSE lines[i - 1]
    BY <2>1
  <2>4. 0 \in 0 .. n /\ \A i \in 1 .. n : i \in 0 .. n /\ i # 0
    BY <1>1
  <2> QED BY <2>2, <2>3, <2>4
<1>8. lines \in [0 .. n -> W]
  <2>1. ASSUME NEW i \in 1 .. n PROVE s[i].lines \in W
    <3>1. s[i] \in Sends
      OBVIOUS
    <3> QED BY <3>1 DEF Sends
  <2>2. \A i \in 1 .. n : lines[i - 1] \in W => lines[i] \in W
    <3> SUFFICES ASSUME NEW i \in 1 .. n, lines[i - 1] \in W PROVE lines[i] \in W
      OBVIOUS
    <3>1. s[i].lines \in W
      BY <2>1
    <3>2. lines[i] = IF s[i].to = c THEN lines[i - 1] \o s[i].lines ELSE lines[i - 1]
      BY <1>7
    <3> HIDE DEF lines, n
    <3> QED BY <3>1, <3>2
  <2> HIDE DEF lines, n, W
  <2> QED BY <1>1, <1>7, <2>2, StepsTyped
<1> HIDE DEF lines
<1> QED BY <1>6, <1>7, <1>8 DEF LineValues

Associates(a, b, d) == (a \o b) \o d = a \o (b \o d)

\* Concatenation associates.
LEMMA LinesAssociate ==
  ASSUME NEW a \in Seq(ServerLines), NEW b \in Seq(ServerLines), NEW d \in Seq(ServerLines)
  PROVE  Associates(a, b, d)
BY ConcatAssociative DEF Associates

\* Two sequences of sends, one after the other.
LEMMA LinesConcat ==
  ASSUME NEW s \in Seq(Sends), NEW t \in Seq(Sends), NEW c
  PROVE  /\ LinesTo(c, s \o t) = LinesTo(c, s) \o LinesTo(c, t)
         /\ LinesTo(c, s) \in Seq(ServerLines)
<1>1. PICK u \in Seq(Sends), m \in Nat, n \in Nat :
        /\ u = s \o t /\ m = Len(s) /\ n = Len(t) /\ Len(u) = m + n
        /\ \A i \in 1 .. m : u[i] = s[i]
        /\ \A i \in 1 .. n : u[m + i] = t[i]
  <2>1. s \o t \in Seq(Sends) /\ Len(s) \in Nat /\ Len(t) \in Nat
    OBVIOUS
  <2>2. /\ Len(s \o t) = Len(s) + Len(t)
        /\ \A i \in 1 .. Len(s) : (s \o t)[i] = s[i]
        /\ \A i \in 1 .. Len(t) : (s \o t)[Len(s) + i] = t[i]
    OBVIOUS
  <2> QED BY <2>1, <2>2
<1>2. PICK f \in [0 .. m + n -> Seq(ServerLines)] : LineValues(c, u, f)
  BY <1>1, LinesAreComputed
<1>3. PICK g \in [0 .. m -> Seq(ServerLines)] : LineValues(c, s, g)
  BY <1>1, LinesAreComputed
<1>4. PICK h \in [0 .. n -> Seq(ServerLines)] : LineValues(c, t, h)
  BY <1>1, LinesAreComputed
<1>5. \A i \in 0 .. m : f[i] = g[i]
  <2>1. f[0] = g[0]
    BY <1>2, <1>3 DEF LineValues
  <2>2. ASSUME NEW i \in 1 .. m, f[i - 1] = g[i - 1] PROVE f[i] = g[i]
    <3>1. i \in 1 .. m + n /\ u[i] = s[i]
      BY <1>1
    <3>2. f[i] = IF u[i].to = c THEN f[i - 1] \o u[i].lines ELSE f[i - 1]
      <4>1. \A k \in 1 .. m + n :
              f[k] = IF u[k].to = c THEN f[k - 1] \o u[k].lines ELSE f[k - 1]
        BY <1>1, <1>2 DEF LineValues
      <4> QED BY <3>1, <4>1, Zenon
    <3>3. g[i] = IF s[i].to = c THEN g[i - 1] \o s[i].lines ELSE g[i - 1]
      <4>1. \A k \in 1 .. m :
              g[k] = IF s[k].to = c THEN g[k - 1] \o s[k].lines ELSE g[k - 1]
        BY <1>1, <1>3 DEF LineValues
      <4> QED BY <4>1, Zenon
    <3> QED BY <2>2, <3>1, <3>2, <3>3, Zenon
  <2>3. SameSteps(m, f, g)
    BY <2>1, <2>2 DEF SameSteps
  <2>4. SameValues(m, f, g)
    BY <2>3, StepsAgree
  <2> QED BY <2>4 DEF SameValues
<1> DEFINE F == [i \in 0 .. n |-> f[m + i]]
           H == [i \in 0 .. n |-> g[m] \o h[i]]
<1>6. F[0] = H[0]
  <2>1. g[m] \in Seq(ServerLines) /\ m \in 0 .. m /\ m + 0 = m /\ 0 \in 0 .. n
    OBVIOUS
  <2>2. g[m] \o <<>> = g[m]
    BY <2>1, ConcatEmptySeq
  <2>3. h[0] = <<>>
    BY <1>4 DEF LineValues
  <2> QED BY <1>5, <2>1, <2>2, <2>3
<1>7. ASSUME NEW i \in 1 .. n, F[i - 1] = H[i - 1] PROVE F[i] = H[i]
  <2>1. /\ m + i \in 1 .. m + n /\ (m + i) - 1 = m + (i - 1) /\ m \in 0 .. m
        /\ i \in 0 .. n /\ i - 1 \in 0 .. n
    OBVIOUS
  <2>2. f[m + i] = IF t[i].to = c THEN f[m + (i - 1)] \o t[i].lines ELSE f[m + (i - 1)]
    <3>1. u[m + i] = t[i]
      BY <1>1
    <3>2. \A k \in 1 .. m + n :
            f[k] = IF u[k].to = c THEN f[k - 1] \o u[k].lines ELSE f[k - 1]
      BY <1>1, <1>2 DEF LineValues
    <3>3. f[m + i] = IF u[m + i].to = c THEN f[(m + i) - 1] \o u[m + i].lines
                     ELSE f[(m + i) - 1]
      BY <2>1, <3>2, Zenon
    <3>4. (m + i) - 1 = m + (i - 1)
      OBVIOUS
    <3> HIDE DEF F, H
    <3> QED BY <3>1, <3>3, <3>4, Zenon
  <2>3. h[i] = IF t[i].to = c THEN h[i - 1] \o t[i].lines ELSE h[i - 1]
    BY <1>1, <1>4 DEF LineValues
  <2>4. f[m + (i - 1)] = g[m] \o h[i - 1]
    BY <1>7, <2>1
  <2>5. g[m] \in Seq(ServerLines) /\ h[i - 1] \in Seq(ServerLines)
    BY <2>1
  <2>6. t[i].lines \in Seq(ServerLines)
    <3>1. t[i] \in Sends
      BY <1>1
    <3> QED BY <3>1 DEF Sends
  <2>7. (g[m] \o h[i - 1]) \o t[i].lines = g[m] \o (h[i - 1] \o t[i].lines)
    <3>1. Associates(g[m], h[i - 1], t[i].lines)
      BY <2>5, <2>6, LinesAssociate
    <3> QED BY <3>1 DEF Associates
  <2>8. f[m + i] = g[m] \o h[i]
    BY <2>2, <2>3, <2>4, <2>7
  <2> QED BY <2>1, <2>8
<1>8. F[n] = H[n]
  <2> HIDE DEF F, H
  <2>1. SameSteps(n, F, H)
    BY <1>6, <1>7 DEF SameSteps
  <2>2. SameValues(n, F, H)
    BY <2>1, StepsAgree
  <2>3. n \in 0 .. n
    OBVIOUS
  <2> QED BY <2>2, <2>3 DEF SameValues
<1>9. f[m + n] = g[m] \o h[n] /\ g[m] \in Seq(ServerLines)
  <2>1. n \in 0 .. n /\ m \in 0 .. m
    OBVIOUS
  <2>2. F[n] = f[m + n] /\ H[n] = g[m] \o h[n]
    BY <2>1
  <2>3. g[m] \in Seq(ServerLines)
    BY <2>1
  <2> QED BY <1>8, <2>2, <2>3, Zenon
<1> QED BY <1>1, <1>2, <1>3, <1>4, <1>9 DEF LineValues

\* A socket that no send goes to, and one that a single send goes to.
LEMMA LinesNone ==
  ASSUME NEW s \in Seq(Sends), NEW c, \A i \in 1 .. Len(s) : s[i].to # c
  PROVE  LinesTo(c, s) = <<>>
<1>1. PICK f \in [0 .. Len(s) -> Seq(ServerLines)] : LineValues(c, s, f)
  BY LinesAreComputed
<1> DEFINE H == [i \in 0 .. Len(s) |-> <<>>]
<1>2. SameSteps(Len(s), f, H)
  <2>1. f[0] = H[0]
    BY <1>1 DEF LineValues
  <2>2. ASSUME NEW i \in 1 .. Len(s), f[i - 1] = H[i - 1] PROVE f[i] = H[i]
    <3>1. f[i] = IF s[i].to = c THEN f[i - 1] \o s[i].lines ELSE f[i - 1]
      BY <1>1 DEF LineValues
    <3>2. i \in 0 .. Len(s) /\ i - 1 \in 0 .. Len(s)
      OBVIOUS
    <3> QED BY <2>2, <3>1, <3>2
  <2> QED BY <2>1, <2>2 DEF SameSteps
<1>3. SameValues(Len(s), f, H) /\ Len(s) \in 0 .. Len(s)
  <2>1. Len(s) \in Nat
    OBVIOUS
  <2> HIDE DEF H
  <2> QED BY <1>2, <2>1, StepsAgree
<1> QED BY <1>1, <1>3 DEF LineValues, SameValues

\* No sends, no lines.
LEMMA LinesEmpty ==
  ASSUME NEW c
  PROVE  LinesTo(c, <<>>) = <<>>
<1>1. \A s \in Seq(Sends) : Len(s) = 0 => LinesTo(c, s) = <<>>
  <2> SUFFICES ASSUME NEW s \in Seq(Sends), Len(s) = 0 PROVE LinesTo(c, s) = <<>>
    OBVIOUS
  <2>1. \A i \in 1 .. Len(s) : s[i].to # c
    OBVIOUS
  <2> QED BY <2>1, LinesNone
<1>2. <<>> \in Seq(Sends) /\ Len(<<>>) = 0
  OBVIOUS
<1> QED BY <1>1, <1>2, Zenon

\* A socket that a single send goes to gets the lines of that send.
LEMMA LinesOnce ==
  ASSUME NEW s \in Seq(Sends), NEW c, NEW k \in 1 .. Len(s),
         \A i \in 1 .. Len(s) : s[i].to = c <=> i = k
  PROVE  LinesTo(c, s) = s[k].lines
<1>1. PICK f \in [0 .. Len(s) -> Seq(ServerLines)] : LineValues(c, s, f)
  BY LinesAreComputed
<1> DEFINE H == [i \in 0 .. Len(s) |-> IF i < k THEN <<>> ELSE s[k].lines]
<1>2. SameSteps(Len(s), f, H)
  <2>1. f[0] = H[0]
    BY <1>1 DEF LineValues
  <2>2. ASSUME NEW i \in 1 .. Len(s), f[i - 1] = H[i - 1] PROVE f[i] = H[i]
    <3>1. f[i] = IF s[i].to = c THEN f[i - 1] \o s[i].lines ELSE f[i - 1]
      BY <1>1 DEF LineValues
    <3>2. s[k].lines \in Seq(ServerLines)
      <4>1. s[k] \in Sends
        OBVIOUS
      <4> QED BY <4>1 DEF Sends
    <3>3. <<>> \o s[k].lines = s[k].lines
      BY <3>2
    <3>4. i \in 0 .. Len(s) /\ i - 1 \in 0 .. Len(s)
      OBVIOUS
    <3>5. CASE i < k
      BY <2>2, <3>1, <3>4, <3>5
    <3>6. CASE i = k
      <4>1. f[i - 1] = <<>>
        BY <2>2, <3>4, <3>6
      <4>2. f[i] = s[k].lines
        BY <3>1, <3>3, <3>6, <4>1
      <4> QED BY <3>4, <3>6, <4>2
    <3>7. CASE i > k
      BY <2>2, <3>1, <3>4, <3>7
    <3> QED BY <3>5, <3>6, <3>7
  <2> QED BY <2>1, <2>2 DEF SameSteps
<1>3. SameValues(Len(s), f, H) /\ Len(s) \in 0 .. Len(s)
  <2>1. Len(s) \in Nat
    OBVIOUS
  <2> HIDE DEF H
  <2> QED BY <1>2, <2>1, StepsAgree
<1> QED BY <1>1, <1>3 DEF LineValues, SameValues

\* A send to one socket.
LEMMA LinesOfTo ==
  ASSUME NEW c \in Clients, NEW l \in Seq(ServerLines), NEW d
  PROVE  /\ To(c, l) \in Seq(Sends)
         /\ LinesTo(d, To(c, l)) = IF d = c THEN l ELSE <<>>
<1> DEFINE s == To(c, l)
<1>1. s \in Seq(Sends) /\ Len(s) = 1 /\ s[1].to = c /\ s[1].lines = l
  BY DEF To, Sends
<1> HIDE DEF s
<1>2. CASE d = c
  <2>1. 1 \in 1 .. Len(s) /\ \A i \in 1 .. Len(s) : s[i].to = d <=> i = 1
    BY <1>1, <1>2
  <2>2. LinesTo(d, s) = s[1].lines
    BY <1>1, <2>1, LinesOnce
  <2> QED BY <1>1, <1>2, <2>2 DEF s
<1>3. CASE d # c
  <2>1. LinesTo(d, s) = <<>>
    BY <1>1, <1>3, LinesNone
  <2> QED BY <1>1, <1>3, <2>1 DEF s
<1> QED BY <1>2, <1>3

\* The same lines for each target.
SendEach(targets, l) == [i \in DOMAIN targets |-> [to |-> targets[i], lines |-> l]]

\* A loop over a vector of clients that sends the same to each of them.
LEMMA LinesOfEach ==
  ASSUME NEW T \in Seq(Clients), Distinct(T), NEW l \in Seq(ServerLines), NEW d
  PROVE  /\ SendEach(T, l) \in Seq(Sends) /\ Len(SendEach(T, l)) = Len(T)
         /\ LinesTo(d, SendEach(T, l)) = IF d \in ToSet(T) THEN l ELSE <<>>
<1> DEFINE s == SendEach(T, l)
<1>1. DOMAIN T = 1 .. Len(T) /\ Len(T) \in Nat /\ \A i \in 1 .. Len(T) : T[i] \in Clients
  OBVIOUS
<1>2. /\ s \in Seq(Sends) /\ Len(s) = Len(T)
      /\ \A i \in 1 .. Len(s) : s[i].to = T[i] /\ s[i].lines = l
  <2>1. s \in [1 .. Len(T) -> Sends]
    BY <1>1 DEF SendEach, Sends
  <2>2. s \in Seq(Sends) /\ Len(s) = Len(T)
    <3> HIDE DEF s
    <3> QED BY <1>1, <2>1
  <2>3. \A i \in 1 .. Len(T) : s[i].to = T[i] /\ s[i].lines = l
    BY <1>1 DEF SendEach
  <2> HIDE DEF s
  <2> QED BY <2>2, <2>3
<1> HIDE DEF s
<1>3. CASE d \in ToSet(T)
  <2>1. PICK k \in 1 .. Len(T) : T[k] = d
    BY <1>1, <1>3 DEF ToSet
  <2>2. \A i \in 1 .. Len(s) : s[i].to = d <=> i = k
    BY <1>1, <1>2, <2>1 DEF Distinct
  <2>3. k \in 1 .. Len(s)
    BY <1>2
  <2>4. LinesTo(d, s) = s[k].lines
    BY <1>2, <2>2, <2>3, LinesOnce
  <2> QED BY <1>2, <1>3, <2>3, <2>4 DEF s
<1>4. CASE d \notin ToSet(T)
  <2>1. \A i \in 1 .. Len(s) : s[i].to # d
    BY <1>1, <1>2, <1>4 DEF ToSet
  <2>2. LinesTo(d, s) = <<>>
    BY <1>2, <2>1, LinesNone
  <2> QED BY <1>2, <1>4, <2>2 DEF s
<1> QED BY <1>3, <1>4

-----------------------------------------------------------------------------
(* What lines tell the client that reads them.                               *)

\* A line that is passed on as it came begins with none of the keywords.
LEMMA RawShape ==
  ASSUME NEW text \in ClientLines
  PROVE  (<<"RAW">> \o text)[1] = "RAW"
<1>1. \E V : text \in Seq(V)
  <2>1. CASE text \in {<<"AUTH">>, <<"MSG">>, <<"BADJOIN">>, <<"ERR">>, <<"BYE">>,
                       <<"OTHER">>, <<"SHORT">>}
    <3>1. PICK keyword : text = <<keyword>>
      BY <2>1, Zenon
    <3>2. <<keyword>> \in Seq({keyword})
      OBVIOUS
    <3> QED BY <3>1, <3>2
  <2>2. CASE text \in {"JOIN"} \X Channels
    <3>1. PICK r : text = <<"JOIN", r>>
      BY <2>2
    <3>2. <<"JOIN", r>> \in Seq({"JOIN", r})
      OBVIOUS
    <3> QED BY <3>1, <3>2
  <2> QED BY <2>1, <2>2 DEF ClientLines
<1>2. PICK V : text \in Seq(V)
  BY <1>1
<1>3. <<"RAW">> \in Seq({"RAW"} \cup V) /\ text \in Seq({"RAW"} \cup V)
  BY <1>2
<1> QED BY <1>3

\* The keyword of a line, and whom a line about somebody is about.
LEMMA LineShapes ==
  ASSUME NEW line \in ServerLines
  PROVE  line[1] \in {"JOINED", "LEFT", "SAID"} => line[2] \in Clients
<1>1. CASE line \in {<<"REPLY", "OK">>, <<"REPLY", "NOK">>, <<"ERROR">>, <<"BYE">>}
  BY <1>1
<1>2. CASE line \in {"JOINED", "LEFT", "SAID"} \X Clients
  BY <1>2
<1>3. CASE line \in {<<"RAW">> \o text : text \in ClientLines}
  <2>1. PICK text \in ClientLines : line = <<"RAW">> \o text
    BY <1>3
  <2>2. line[1] = "RAW"
    BY <2>1, RawShape
  <2> QED BY <2>2
<1> QED BY <1>1, <1>2, <1>3 DEF ServerLines

\* A line tells of clients.
LEMMA TellsTyped ==
  ASSUME NEW c \in Clients, NEW known \in SUBSET Clients, NEW line \in ServerLines
  PROVE  Tells(c, known, line) \in SUBSET Clients
<1>1. CASE line[1] = "JOINED"
  BY <1>1, LineShapes DEF Tells
<1>2. CASE line[1] # "JOINED"
  BY <1>2 DEF Tells
<1> QED BY <1>1, <1>2

ReadValues(c, known, lines, f) ==
  /\ Reads(c, known, lines) = f[Len(lines)]
  /\ f[0] = known
  /\ \A i \in 1 .. Len(lines) : f[i] = Tells(c, f[i - 1], lines[i])

\* The function inside Reads exists and computes sets of clients.
LEMMA ReadsAreComputed ==
  ASSUME NEW s \in Seq(ServerLines), NEW c \in Clients, NEW known \in SUBSET Clients
  PROVE  \E f \in [0 .. Len(s) -> SUBSET Clients] : ReadValues(c, known, s, f)
<1> DEFINE n == Len(s)
           W == SUBSET Clients
           g == [i \in 1 .. n |-> [v \in W |-> Tells(c, v, s[i])]]
           Equation(h) ==
             h = [i \in 0 .. n |-> IF i = 0 THEN known ELSE Tells(c, h[i - 1], s[i])]
           told == CHOOSE h : Equation(h)
<1>1. n \in Nat /\ known \in W
  OBVIOUS
<1>2. \A i \in 1 .. n : \A v \in W : Tells(c, v, s[i]) \in W
  <2> SUFFICES ASSUME NEW i \in 1 .. n, NEW v \in W PROVE Tells(c, v, s[i]) \in W
    OBVIOUS
  <2>1. s[i] \in ServerLines
    OBVIOUS
  <2> QED BY <2>1, TellsTyped
<1>3. g \in [1 .. n -> [W -> W]]
  <2> HIDE DEF n, W
  <2> QED BY <1>2
<1>4. \E f \in [0 .. n -> W] : StepValues(n, known, g, f)
  <2> HIDE DEF n, g, W
  <2> QED BY <1>1, <1>3, StepsExist
<1>5. PICK f \in [0 .. n -> W] : f[0] = known /\ \A i \in 1 .. n : f[i] = g[i][f[i - 1]]
  BY <1>4 DEF StepValues
<1>6. Equation(f)
  <2>1. ASSUME NEW i \in 1 .. n PROVE f[i] = Tells(c, f[i - 1], s[i])
    <3> HIDE DEF n, W
    <3>1. f[i - 1] \in W
      BY <1>1, <1>5
    <3> QED BY <1>5, <3>1
  <2>2. f = [i \in 0 .. n |-> f[i]]
    OBVIOUS
  <2> HIDE DEF n
  <2>3. \A i \in 0 .. n : i = 0 \/ i \in 1 .. n
    BY <1>1
  <2> QED BY <1>5, <2>1, <2>2, <2>3
<1>7. Equation(told) /\ Reads(c, known, s) = told[n]
  BY <1>6 DEF Reads
<1>8. /\ DOMAIN told = 0 .. n
      /\ told = [i \in 0 .. n |-> told[i]]
      /\ told[0] = known
      /\ \A i \in 1 .. n : told[i] = Tells(c, told[i - 1], s[i])
  <2>1. Equation(told)
    BY <1>7
  <2> HIDE DEF told, n
  <2>2. DOMAIN told = 0 .. n /\ told = [i \in 0 .. n |-> told[i]]
    BY <2>1
  <2>3. \A i \in 0 .. n : told[i] = IF i = 0 THEN known ELSE Tells(c, told[i - 1], s[i])
    BY <2>1
  <2>4. 0 \in 0 .. n /\ \A i \in 1 .. n : i \in 0 .. n /\ i # 0
    BY <1>1
  <2> QED BY <2>2, <2>3, <2>4
<1>9. told \in [0 .. n -> W]
  <2>1. \A i \in 1 .. n : told[i - 1] \in W => told[i] \in W
    <3> HIDE DEF told, n, W
    <3> QED BY <1>2, <1>8
  <2> HIDE DEF told, n, W
  <2> QED BY <1>1, <1>8, <2>1, StepsTyped
<1> HIDE DEF told
<1> QED BY <1>7, <1>8, <1>9 DEF ReadValues

\* What a client has been told is a set of clients.
LEMMA ReadsTyped ==
  ASSUME NEW s \in Seq(ServerLines), NEW c \in Clients, NEW known \in SUBSET Clients
  PROVE  Reads(c, known, s) \in SUBSET Clients
<1>1. PICK f \in [0 .. Len(s) -> SUBSET Clients] : ReadValues(c, known, s, f)
  BY ReadsAreComputed
<1>2. Len(s) \in 0 .. Len(s)
  OBVIOUS
<1> QED BY <1>1, <1>2 DEF ReadValues

\* Lines about nobody, one line, two lines.
LEMMA ReadsNothing ==
  ASSUME NEW s \in Seq(ServerLines), NEW c \in Clients, NEW known \in SUBSET Clients,
         \A i \in 1 .. Len(s) : s[i][1] \notin {"JOINED", "LEFT"}
  PROVE  Reads(c, known, s) = known
<1>1. PICK f \in [0 .. Len(s) -> SUBSET Clients] : ReadValues(c, known, s, f)
  BY ReadsAreComputed
<1> DEFINE H == [i \in 0 .. Len(s) |-> known]
<1>2. SameSteps(Len(s), f, H)
  <2>1. f[0] = H[0]
    BY <1>1 DEF ReadValues
  <2>2. ASSUME NEW i \in 1 .. Len(s), f[i - 1] = H[i - 1] PROVE f[i] = H[i]
    <3>1. f[i] = Tells(c, f[i - 1], s[i])
      BY <1>1 DEF ReadValues
    <3>2. i \in 0 .. Len(s) /\ i - 1 \in 0 .. Len(s)
      OBVIOUS
    <3>3. Tells(c, known, s[i]) = known
      BY DEF Tells
    <3> QED BY <2>2, <3>1, <3>2, <3>3
  <2> QED BY <2>1, <2>2 DEF SameSteps
<1>3. SameValues(Len(s), f, H) /\ Len(s) \in 0 .. Len(s)
  <2>1. Len(s) \in Nat
    OBVIOUS
  <2> HIDE DEF H
  <2> QED BY <1>2, <2>1, StepsAgree
<1> QED BY <1>1, <1>3 DEF ReadValues, SameValues

\* One line.
LEMMA ReadsOne ==
  ASSUME NEW a \in ServerLines, NEW c \in Clients, NEW known \in SUBSET Clients
  PROVE  Reads(c, known, <<a>>) = Tells(c, known, a)
<1>1. <<a>> \in Seq(ServerLines) /\ Len(<<a>>) = 1 /\ <<a>>[1] = a
  OBVIOUS
<1>2. PICK f \in [0 .. Len(<<a>>) -> SUBSET Clients] : ReadValues(c, known, <<a>>, f)
  BY <1>1, ReadsAreComputed
<1> QED BY <1>1, <1>2 DEF ReadValues

\* Two lines, in their order.
LEMMA ReadsTwo ==
  ASSUME NEW a \in ServerLines, NEW b \in ServerLines,
         NEW c \in Clients, NEW known \in SUBSET Clients
  PROVE  Reads(c, known, <<a, b>>) = Tells(c, Tells(c, known, a), b)
<1>1. <<a, b>> \in Seq(ServerLines) /\ Len(<<a, b>>) = 2 /\ <<a, b>>[1] = a /\ <<a, b>>[2] = b
  OBVIOUS
<1>2. PICK f \in [0 .. Len(<<a, b>>) -> SUBSET Clients] : ReadValues(c, known, <<a, b>>, f)
  BY <1>1, ReadsAreComputed
<1>3. f[1] = Tells(c, f[0], a) /\ f[2] = Tells(c, f[1], b) /\ f[0] = known
  BY <1>1, <1>2 DEF ReadValues
<1> QED BY <1>1, <1>2, <1>3 DEF ReadValues

\* How many messages lines hold.
LEMMA MessagesTyped ==
  ASSUME NEW s \in Seq(ServerLines)
  PROVE  Messages(s) \in Nat
<1> DEFINE M == {i \in DOMAIN s : s[i][1] = "SAID"}
<1>1. M \in SUBSET (1 .. Len(s)) /\ Len(s) \in Nat /\ 1 \in Nat
  OBVIOUS
<1>2. IsFiniteSet(1 .. Len(s))
  BY <1>1, FS_Interval
<1>3. IsFiniteSet(M)
  BY <1>1, <1>2, FS_Subset
<1> HIDE DEF M
<1>4. Cardinality(M) \in Nat
  BY <1>3, FS_CardinalityType
<1> QED BY <1>4 DEF M, Messages

\* Lines none of which is a message.
LEMMA MessagesNone ==
  ASSUME NEW s \in Seq(ServerLines), \A i \in 1 .. Len(s) : s[i][1] # "SAID"
  PROVE  Messages(s) = 0
<1>1. {i \in DOMAIN s : s[i][1] = "SAID"} = {}
  OBVIOUS
<1> QED BY <1>1, FS_EmptySet DEF Messages

\* Lines the first of which alone is a message.
LEMMA MessagesOne ==
  ASSUME NEW s \in Seq(ServerLines), s # <<>>,
         \A i \in 1 .. Len(s) : s[i][1] = "SAID" <=> i = 1
  PROVE  Messages(s) = 1
<1>1. {i \in DOMAIN s : s[i][1] = "SAID"} = {1}
  OBVIOUS
<1> QED BY <1>1, FS_Singleton DEF Messages

-----------------------------------------------------------------------------
(* The sequences the server keeps.                                           *)

\* Contains, as membership.
LEMMA ContainsElement ==
  ASSUME NEW V, NEW s \in Seq(V), NEW x
  PROVE  Contains(s, x) <=> x \in ToSet(s)
<1>1. DOMAIN s = 1 .. Len(s)
  OBVIOUS
<1> QED BY <1>1 DEF Contains, ToSet

\* The empty sequence.
LEMMA EmptySet ==
  ASSUME NEW V
  PROVE  <<>> \in Seq(V) /\ Distinct(<<>>) /\ ToSet(<<>>) = {} /\ Len(<<>>) = 0
BY DEF Distinct, ToSet

\* What Tail leaves of a sequence without repetition: all but its head.
LEMMA TailSet ==
  ASSUME NEW V, NEW s \in Seq(V), Distinct(s), s # <<>>
  PROVE  /\ Tail(s) \in Seq(V) /\ Distinct(Tail(s)) /\ Len(Tail(s)) = Len(s) - 1
         /\ Head(s) \in ToSet(s) /\ Head(s) \in V
         /\ ToSet(Tail(s)) = ToSet(s) \ {Head(s)}
<1> DEFINE t == Tail(s)
<1>1. /\ t \in Seq(V) /\ Len(t) = Len(s) - 1 /\ Len(s) \in Nat \ {0}
      /\ \A i \in 1 .. Len(t) : t[i] = s[i + 1]
      /\ Head(s) = s[1] /\ DOMAIN s = 1 .. Len(s) /\ DOMAIN t = 1 .. Len(t)
      /\ s[1] \in V
  OBVIOUS
<1> HIDE DEF t
<1>2. Distinct(t)
  <2> SUFFICES ASSUME NEW i \in 1 .. Len(t), NEW j \in 1 .. Len(t), t[i] = t[j]
               PROVE  i = j
    BY <1>1 DEF Distinct
  <2>1. i + 1 \in DOMAIN s /\ j + 1 \in DOMAIN s /\ s[i + 1] = s[j + 1]
    BY <1>1
  <2>2. i + 1 = j + 1
    BY <2>1 DEF Distinct
  <2> QED BY <2>2
<1>3. ASSUME NEW x \in ToSet(t) PROVE x \in ToSet(s) \ {s[1]}
  <2>1. PICK i \in 1 .. Len(t) : x = t[i]
    BY <1>1 DEF ToSet
  <2>2. i + 1 \in DOMAIN s /\ 1 \in DOMAIN s /\ x = s[i + 1] /\ i + 1 # 1
    BY <1>1, <2>1
  <2> QED BY <2>2 DEF Distinct, ToSet
<1>4. ASSUME NEW x \in ToSet(s) \ {s[1]} PROVE x \in ToSet(t)
  <2>1. PICK i \in 1 .. Len(s) : x = s[i]
    BY <1>1 DEF ToSet
  <2>2. i # 1
    BY <2>1
  <2>3. i - 1 \in 1 .. Len(t) /\ (i - 1) + 1 = i
    BY <1>1, <2>2
  <2>4. x = t[i - 1]
    BY <1>1, <2>1, <2>3
  <2> QED BY <1>1, <2>3, <2>4 DEF ToSet
<1>5. s[1] \in ToSet(s)
  BY <1>1 DEF ToSet
<1> QED BY <1>1, <1>2, <1>3, <1>4, <1>5 DEF t

\* A sequence without repetition, cut in two.
LEMMA SplitSet ==
  ASSUME NEW V, NEW s \in Seq(V), Distinct(s), NEW k \in 0 .. Len(s)
  PROVE  LET front == SubSeq(s, 1, k)
             back == SubSeq(s, k + 1, Len(s))
         IN /\ front \in Seq(V) /\ Distinct(front) /\ Len(front) = k
            /\ back \in Seq(V) /\ Distinct(back)
            /\ ToSet(front) \cup ToSet(back) = ToSet(s)
            /\ ToSet(front) \cap ToSet(back) = {}
<1> DEFINE t == SubSeq(s, 1, k)
           u == SubSeq(s, k + 1, Len(s))
<1>1. /\ t \in Seq(V) /\ Len(t) = k /\ \A i \in 1 .. k : t[i] = s[i]
      /\ u \in Seq(V) /\ Len(u) = Len(s) - k /\ \A i \in 1 .. Len(s) - k : u[i] = s[k + i]
      /\ Len(s) \in Nat /\ DOMAIN s = 1 .. Len(s)
      /\ DOMAIN t = 1 .. k /\ DOMAIN u = 1 .. Len(s) - k
  OBVIOUS
<1> HIDE DEF t, u
<1>2. Distinct(t) /\ Distinct(u)
  <2>1. Distinct(t)
    BY <1>1 DEF Distinct
  <2>2. ASSUME NEW i \in 1 .. Len(s) - k, NEW j \in 1 .. Len(s) - k, u[i] = u[j]
        PROVE  i = j
    <3>1. k + i \in DOMAIN s /\ k + j \in DOMAIN s /\ s[k + i] = s[k + j]
      BY <1>1, <2>2
    <3>2. k + i = k + j
      BY <3>1 DEF Distinct
    <3> QED BY <3>2
  <2> QED BY <1>1, <2>1, <2>2 DEF Distinct
<1>3. \A x : x \in ToSet(t) <=> \E i \in 1 .. k : x = s[i]
  <2>1. \A x : x \in ToSet(t) <=> \E i \in 1 .. k : x = t[i]
    BY <1>1 DEF ToSet
  <2> QED BY <1>1, <2>1
<1>4. \A x : x \in ToSet(u) <=> \E i \in 1 .. Len(s) - k : x = s[k + i]
  <2>1. \A x : x \in ToSet(u) <=> \E i \in 1 .. Len(s) - k : x = u[i]
    BY <1>1 DEF ToSet
  <2>2. \A i \in 1 .. Len(s) - k : u[i] = s[k + i]
    BY <1>1
  <2> QED BY Zenon, <2>1, <2>2
<1>5. \A x : x \in ToSet(s) <=> \E i \in 1 .. Len(s) : x = s[i]
  BY <1>1 DEF ToSet
<1>6. ASSUME NEW x PROVE x \in ToSet(s) <=> x \in ToSet(t) \/ x \in ToSet(u)
  <2>1. ASSUME x \in ToSet(s) PROVE x \in ToSet(t) \/ x \in ToSet(u)
    <3>1. PICK i \in 1 .. Len(s) : x = s[i]
      BY <1>5, <2>1
    <3>2. CASE i <= k
      <4>1. i \in 1 .. k
        BY <1>1, <3>2
      <4> QED BY <1>3, <3>1, <4>1
    <3>3. CASE i > k
      <4>1. i - k \in 1 .. Len(s) - k /\ k + (i - k) = i
        BY <1>1, <3>3
      <4>2. x = s[k + (i - k)]
        BY <3>1, <4>1
      <4> QED BY <1>4, <4>1, <4>2
    <3> QED BY <1>1, <3>2, <3>3
  <2>2. ASSUME x \in ToSet(t) PROVE x \in ToSet(s)
    BY <1>1, <1>3, <1>5, <2>2
  <2>3. ASSUME x \in ToSet(u) PROVE x \in ToSet(s)
    <3>1. PICK i \in 1 .. Len(s) - k : x = s[k + i]
      BY <1>4, <2>3
    <3>2. k + i \in 1 .. Len(s)
      BY <1>1
    <3> QED BY <1>5, <3>1, <3>2
  <2> QED BY <2>1, <2>2, <2>3
<1>7. ASSUME NEW x, x \in ToSet(t), x \in ToSet(u) PROVE FALSE
  <2>1. PICK i \in 1 .. k : x = s[i]
    BY <1>3, <1>7
  <2>2. PICK j \in 1 .. Len(s) - k : x = s[k + j]
    BY <1>4, <1>7
  <2>3. i \in DOMAIN s /\ k + j \in DOMAIN s /\ i # k + j
    BY <1>1
  <2> QED BY <2>1, <2>2, <2>3 DEF Distinct
<1>8. ToSet(t) \cup ToSet(u) = ToSet(s) /\ ToSet(t) \cap ToSet(u) = {}
  BY <1>6, <1>7
<1> QED BY <1>1, <1>2, <1>8 DEF t, u

\* The smaller of two numbers.
LEMMA MinOfTwo ==
  ASSUME NEW a \in Nat, NEW b \in Nat
  PROVE  Min({a, b}) = IF a <= b THEN a ELSE b
<1>1. \E x \in {a, b} : \A y \in {a, b} : x =< y
  OBVIOUS
<1>2. Min({a, b}) \in {a, b} /\ \A y \in {a, b} : Min({a, b}) =< y
  BY <1>1 DEF Min
<1> QED BY <1>2

\* A set of places that is not empty has a greatest.
LEMMA MaxOfPlaces ==
  ASSUME NEW n \in Nat, NEW I \in SUBSET (0 .. n), I # {}
  PROVE  Max(I) \in I
<1> DEFINE Less == {p \in Nat \X Nat : p[1] < p[2]}
           J == {n - i : i \in I}
<1>1. IsWellFoundedOn(Less, Nat)
  BY NatLessThanWellFounded DEF OpToRel
<1>2. J \subseteq Nat /\ J # {}
  <2>1. \A i \in I : i \in 0 .. n /\ n - i \in Nat
    OBVIOUS
  <2> QED BY <2>1
<1>3. PICK j \in J : \A k \in J : <<k, j>> \notin Less
  <2> HIDE DEF Less, J
  <2> QED BY <1>1, <1>2, WFMin
<1>4. PICK x \in I : j = n - x
  OBVIOUS
<1>5. ASSUME NEW y \in I PROVE x >= y
  <2>1. n - y \in J /\ n - y \in Nat /\ j \in Nat
    BY <1>2
  <2>2. ~(n - y < j)
    BY <1>3, <2>1
  <2> QED BY <1>4, <2>1, <2>2
<1> QED BY <1>5 DEF Max

-----------------------------------------------------------------------------
(* The inductive invariant of the server.                                    *)

Sockets == Clients \cup {"listen"}
Members == {"Accept", "Auth", "Open"}

Types ==
  /\ server \in {"loop", "blocked", "batch", "stopped", "died"}
  /\ force_quit = (interrupts > 0) /\ interrupts \in 0 .. MaxInterrupts
  /\ state \in [Clients -> {"none", "Accept", "Auth", "Open", "End"}]
  /\ channel \in [Clients -> Channels]
  /\ peer \in [Clients -> {"away", "connected", "closed", "reset"}]
  /\ view \in [Clients -> SUBSET Clients] /\ mail \in [Clients -> Nat]

Buffers ==
  /\ toServer \in [Clients -> Seq(ClientLines)]
  /\ toClient \in [Clients -> Seq(ServerLines)]
  /\ \A c \in Clients : Len(toClient[c]) <= SendBuffer

\* Each queue holds a socket once.
Queues ==
  /\ clients \in Seq(Clients) /\ Distinct(clients)
  /\ backlog \in Seq(Clients) /\ Distinct(backlog)
  /\ ready \in Seq(Sockets) /\ Distinct(ready)
  /\ events \in Seq(Sockets) /\ Distinct(events)
  /\ (server = "batch") = (events # <<>>) /\ Len(events) <= MaxEvents

\* The vector holds who has been accepted and has not left; nobody else is
\* reported.
Accounts ==
  /\ \A c \in Clients : c \in ToSet(clients) <=> state[c] \in Members
  /\ \A f \in ToSet(events) \cup ToSet(ready) : f \in ToSet(clients) \cup {"listen"}
  /\ \A c \in Clients : peer[c] = "away" => c \notin ToSet(backlog) /\ state[c] = "none"
  /\ \A c \in ToSet(backlog) : state[c] = "none"

ServerInv == Types /\ Buffers /\ Queues /\ Accounts

\* Clients are not further ahead than MaxUnread lines.  This part is about the
\* arbitrary clients of Spec only.
Ahead == \A c \in Clients : Len(toServer[c]) <= MaxUnread

\* Then nothing is left lying on a socket of the vector.
Awake ==
  /\ Ahead
  /\ RecvLines >= MaxUnread =>
       \A c \in Clients :
         c \in ToSet(clients) /\ Running /\ toServer[c] # <<>>
           => c \in ToSet(ready) \cup ToSet(events)

\* The initial state satisfies the invariant.
LEMMA ServerInitial == ServerInit => ServerInv
<1> SUFFICES ASSUME ServerInit PROVE ServerInv
  OBVIOUS
<1>1. Types
  <2>1. MaxInterrupts \in Nat
    BY ServerAssumption
  <2>2. interrupts \in 0 .. MaxInterrupts /\ ~(interrupts > 0)
    BY <2>1 DEF ServerInit
  <2>3. force_quit = (interrupts > 0)
    <3>1. force_quit = FALSE
      BY DEF ServerInit
    <3>2. (interrupts > 0) = FALSE
      BY <2>2
    <3> QED BY <3>1, <3>2, Zenon
  <2>4. /\ state \in [Clients -> {"none", "Accept", "Auth", "Open", "End"}]
        /\ channel \in [Clients -> Channels]
        /\ peer \in [Clients -> {"away", "connected", "closed", "reset"}]
        /\ view \in [Clients -> SUBSET Clients] /\ mail \in [Clients -> Nat]
        /\ server \in {"loop", "blocked", "batch", "stopped", "died"}
    BY ServerAssumption DEF ServerInit
  <2> QED BY <2>2, <2>3, <2>4, Zenon DEF Types
<1>2. Buffers
  <2>1. SendBuffer \in Nat
    BY ServerAssumption
  <2> QED BY <2>1, EmptySet DEF ServerInit, Buffers
<1>3. Queues
  <2>1. MaxEvents \in Nat
    BY ServerAssumption
  <2> QED BY <2>1, EmptySet DEF ServerInit, Queues
<1>4. Accounts
  BY EmptySet DEF ServerInit, Accounts, Members
<1> QED BY <1>1, <1>2, <1>3, <1>4 DEF ServerInv

\* What a handler gets rid of: some of its sends, each of which fitted.
LEMMA AcceptedIsPrefix ==
  ASSUME NEW s \in Seq(Sends)
  PROVE  \E k \in 0 .. Len(s) :
           Accepted(s) = SubSeq(s, 1, k) /\ \A i \in 1 .. k : Fits(i, s)
<1> DEFINE fitting == {n \in 0 .. Len(s) : \A i \in 1 .. n : Fits(i, s)}
<1>1. fitting \in SUBSET (0 .. Len(s)) /\ fitting # {} /\ Len(s) \in Nat
  <2>1. 0 \in fitting
    OBVIOUS
  <2> QED BY <2>1
<1>2. Max(fitting) \in fitting
  <2> HIDE DEF fitting
  <2> QED BY <1>1, MaxOfPlaces
<1>3. Accepted(s) = SubSeq(s, 1, Max(fitting))
  BY DEF Accepted
<1> HIDE DEF fitting
<1>4. Max(fitting) \in 0 .. Len(s) /\ \A i \in 1 .. Max(fitting) : Fits(i, s)
  BY <1>2 DEF fitting
<1> QED BY <1>3, <1>4

\* What is sent never overfills a socket.
LEMMA AcceptedFits ==
  ASSUME ServerInv, NEW s \in Seq(Sends), NEW c \in Clients
  PROVE  /\ Accepted(s) \in Seq(Sends)
         /\ LinesTo(c, Accepted(s)) \in Seq(ServerLines)
         /\ Len(toClient[c]) + Len(LinesTo(c, Accepted(s))) <= SendBuffer
<1>1. PICK k \in 0 .. Len(s) :
        Accepted(s) = SubSeq(s, 1, k) /\ \A i \in 1 .. k : Fits(i, s)
  BY AcceptedIsPrefix
<1> DEFINE front(i) == SubSeq(s, 1, i)
           Bound(i) == Len(toClient[c]) + Len(LinesTo(c, front(i))) <= SendBuffer
           S == {i \in Nat : i <= k => Bound(i)}
<1>2. Len(s) \in Nat /\ k \in Nat /\ \A i \in 0 .. k : front(i) \in Seq(Sends)
  OBVIOUS
<1>3. toClient[c] \in Seq(ServerLines) /\ Len(toClient[c]) <= SendBuffer
  BY DEF ServerInv, Buffers
<1>4. 0 \in S
  <2>1. front(0) = <<>> /\ Len(<<>>) = 0
    OBVIOUS
  <2>2. LinesTo(c, front(0)) = <<>>
    BY <2>1, LinesEmpty, Zenon
  <2>3. Len(toClient[c]) \in Nat
    BY <1>3
  <2> HIDE DEF front
  <2>4. Bound(0)
    BY <1>3, <2>1, <2>2, <2>3
  <2> HIDE DEF Bound
  <2> QED BY <2>4
<1>5. ASSUME NEW i \in S PROVE i + 1 \in S
  <2>0. SUFFICES ASSUME i + 1 <= k PROVE Bound(i + 1)
    <3> HIDE DEF Bound
    <3> QED OBVIOUS
  <2>1. i \in 0 .. k /\ i + 1 \in 1 .. k /\ i + 1 \in 1 .. Len(s) /\ Bound(i)
    <3> HIDE DEF Bound
    <3> QED BY <1>2, <2>0
  <2>2. Fits(i + 1, s)
    BY <1>1, <2>1
  <2>3. CASE s[i + 1].to = c
    BY <2>2, <2>3 DEF Fits
  <2>4. CASE s[i + 1].to # c
    <3> DEFINE one == <<s[i + 1]>>
    <3>1. one \in Seq(Sends) /\ Len(one) = 1 /\ one[1] = s[i + 1]
      BY <2>1
    <3>2. front(i + 1) = front(i) \o one
      BY <2>1, <1>2
    <3>3. front(i) \in Seq(Sends)
      BY <1>2, <2>1
    <3> HIDE DEF one, front
    <3>4. LinesTo(c, one) = <<>>
      BY <2>4, <3>1, LinesNone
    <3>5. /\ LinesTo(c, front(i + 1)) = LinesTo(c, front(i)) \o LinesTo(c, one)
          /\ LinesTo(c, front(i)) \in Seq(ServerLines)
      <4>1. /\ LinesTo(c, front(i) \o one) = LinesTo(c, front(i)) \o LinesTo(c, one)
            /\ LinesTo(c, front(i)) \in Seq(ServerLines)
        BY <3>1, <3>3, LinesConcat
      <4> QED BY <3>2, <4>1
    <3>6. LinesTo(c, front(i + 1)) = LinesTo(c, front(i))
      BY <3>4, <3>5
    <3> QED BY <2>1, <3>6
  <2> QED BY <2>3, <2>4
<1>6. k \in S
  <2>1. S \in SUBSET Nat
    OBVIOUS
  <2> HIDE DEF S
  <2> QED BY <1>2, <1>4, <1>5, <2>1, Counting
<1>7. Bound(k)
  <2> HIDE DEF Bound
  <2> QED BY <1>2, <1>6
<1>8. Accepted(s) \in Seq(Sends)
  BY <1>1, <1>2
<1>9. LinesTo(c, Accepted(s)) \in Seq(ServerLines)
  BY <1>8, EmptySet, LinesConcat
<1> QED BY <1>1, <1>7, <1>8, <1>9

\* What every handler sends is typed and fits.
LEMMA TransmitKeeps ==
  ASSUME ServerInv, NEW s \in Seq(Sends), Transmit(Accepted(s))
  PROVE  /\ toClient' \in [Clients -> Seq(ServerLines)]
         /\ \A c \in Clients : Len(toClient'[c]) <= SendBuffer
         /\ view' \in [Clients -> SUBSET Clients]
         /\ mail' \in [Clients -> Nat]
<1> DEFINE out == [c \in Clients |-> LinesTo(c, Accepted(s))]
<1>1. /\ toClient' = [c \in Clients |-> toClient[c] \o out[c]]
      /\ view' = [c \in Clients |-> Reads(c, view[c], out[c])]
      /\ mail' = [c \in Clients |-> mail[c] + Messages(out[c])]
  BY DEF Transmit
<1>2. ASSUME NEW c \in Clients
      PROVE  /\ out[c] \in Seq(ServerLines)
             /\ Len(toClient[c]) + Len(out[c]) <= SendBuffer
  BY AcceptedFits
<1> HIDE DEF out
<1>3. ASSUME NEW c \in Clients
      PROVE  /\ toClient[c] \o out[c] \in Seq(ServerLines)
             /\ Len(toClient[c] \o out[c]) <= SendBuffer
             /\ Reads(c, view[c], out[c]) \in SUBSET Clients
             /\ mail[c] + Messages(out[c]) \in Nat
  <2>1. toClient[c] \in Seq(ServerLines) /\ view[c] \in SUBSET Clients /\ mail[c] \in Nat
    BY DEF ServerInv, Buffers, Types
  <2>2. Reads(c, view[c], out[c]) \in SUBSET Clients
    BY <1>2, <2>1, ReadsTyped
  <2>3. Messages(out[c]) \in Nat
    BY <1>2, MessagesTyped
  <2>4. PICK t \in Seq(ServerLines), o \in Seq(ServerLines) : t = toClient[c] /\ o = out[c]
    BY <1>2, <2>1
  <2>5. t \o o \in Seq(ServerLines) /\ Len(t \o o) = Len(t) + Len(o)
    OBVIOUS
  <2>6. mail[c] + Messages(out[c]) \in Nat
    BY <2>1, <2>3
  <2>7. Len(toClient[c] \o out[c]) <= SendBuffer
    BY <1>2, <2>4, <2>5
  <2> QED BY <2>2, <2>4, <2>5, <2>6, <2>7
<1> QED BY <1>1, <1>3

-----------------------------------------------------------------------------
(* The handlers.  What they have in common: a handler of client c leaves the *)
(* other clients alone, and puts c, and c only, out of the vector when it    *)
(* puts it out of the states of a member.                                    *)

GoodHandler(c, sends, newState, newChannel, newClients) ==
  /\ sends \in Seq(Sends)
  /\ newState \in [Clients -> {"none", "Accept", "Auth", "Open", "End"}]
  /\ newChannel \in [Clients -> Channels]
  /\ newClients \in Seq(Clients) /\ Distinct(newClients)
  /\ \A d \in Clients : d \in ToSet(newClients) <=> newState[d] \in Members
  /\ \A d \in Clients \ {c} : newState[d] = state[d]
  /\ ToSet(newClients) \subseteq ToSet(clients)

Handled(c) ==
  /\ Recv(c)
  /\ \E sends, newState, newChannel, newClients :
       /\ GoodHandler(c, sends, newState, newChannel, newClients)
       /\ Handle(sends, newState, newChannel, newClients)

\* Whose turn it is is in the vector.
LEMMA TurnOfMember ==
  ASSUME ServerInv, NEW c \in Clients, Turn(c)
  PROVE  /\ events # <<>> /\ c \in ToSet(clients) /\ state[c] \in Members
         /\ c \notin ToSet(Tail(events))
         /\ \A f \in ToSet(events) : f = c \/ f \in ToSet(Tail(events))
<1>1. events \in Seq(Sockets) /\ Distinct(events) /\ events # <<>> /\ Head(events) = c
  BY DEF ServerInv, Queues, Turn
<1>2. /\ Head(events) \in ToSet(events)
      /\ ToSet(Tail(events)) = ToSet(events) \ {Head(events)}
  BY <1>1, TailSet
<1>3. c # "listen"
  BY ServerAssumption
<1>4. c \in ToSet(clients)
  BY <1>1, <1>2, <1>3 DEF ServerInv, Accounts
<1>5. state[c] \in Members
  BY <1>4 DEF ServerInv, Accounts
<1> QED BY <1>1, <1>2, <1>4, <1>5

\* recv() takes the front of what has arrived, all of it if it fits.
LEMMA RecvTakes ==
  ASSUME ServerInv, NEW c \in Clients, Recv(c)
  PROVE  /\ toServer' \in [Clients -> Seq(ClientLines)]
         /\ Ahead => Ahead'
         /\ \A d \in Clients \ {c} : toServer'[d] = toServer[d]
         /\ ToSet(toServer'[c]) \subseteq ToSet(toServer[c])
         /\ Ahead /\ RecvLines >= MaxUnread => toServer'[c] = <<>>
         /\ toServer[c] \in Seq(ClientLines) /\ toServer[c] # <<>>
         /\ Received(c) \in Seq(ClientLines) /\ Received(c) # <<>>
         /\ First(c) \in ClientLines /\ First(c) = Received(c)[1]
<1> DEFINE t == toServer[c]
           n == Min({RecvLines, Len(t)})
<1>1. /\ t \in Seq(ClientLines) /\ Len(t) \in Nat /\ t # <<>>
      /\ Ahead => Len(t) <= MaxUnread
  BY DEF ServerInv, Buffers, Recv, Ahead
<1>2. RecvLines \in Nat \ {0} /\ MaxUnread \in Nat
  BY ServerAssumption
<1>3. n = IF RecvLines <= Len(t) THEN RecvLines ELSE Len(t)
  <2> HIDE DEF t
  <2> QED BY <1>1, <1>2, MinOfTwo
<1>4. toServer' = [toServer EXCEPT ![c] = SubSeq(t, Len(Received(c)) + 1, Len(t))]
  BY DEF Recv
<1>5. Received(c) = SubSeq(t, 1, n)
  BY DEF Received
<1> HIDE DEF n, t
<1>6. Len(t) # 0
  BY <1>1
<1>7. n \in 1 .. Len(t) /\ (Ahead /\ RecvLines >= MaxUnread => n = Len(t))
  BY <1>1, <1>2, <1>3, <1>6
<1>8. /\ Received(c) \in Seq(ClientLines) /\ Len(Received(c)) = n
      /\ Received(c)[1] = t[1] /\ Received(c) # <<>>
  BY <1>1, <1>5, <1>7
<1>9. /\ SubSeq(t, n + 1, Len(t)) \in Seq(ClientLines)
      /\ Len(SubSeq(t, n + 1, Len(t))) = Len(t) - n
      /\ n = Len(t) => SubSeq(t, n + 1, Len(t)) = <<>>
  BY <1>1, <1>7
<1>10. Head(t) = t[1] /\ t[1] \in ClientLines
  BY <1>1, <1>6
<1>11. toServer \in [Clients -> Seq(ClientLines)]
  BY DEF ServerInv, Buffers
<1>12. \A d \in Clients :
         toServer'[d] = IF d = c THEN SubSeq(t, n + 1, Len(t)) ELSE toServer[d]
  BY <1>4, <1>8, <1>11
<1>13. toServer' \in [Clients -> Seq(ClientLines)]
  BY <1>4, <1>8, <1>9, <1>11
<1>14. Ahead => Len(t) - n <= MaxUnread
  BY <1>1, <1>2, <1>7
<1>15. Ahead => Ahead'
  BY <1>9, <1>11, <1>12, <1>14 DEF Ahead
<1>16. Ahead /\ RecvLines >= MaxUnread => toServer'[c] = <<>>
  BY <1>7, <1>9, <1>12
<1>17. ToSet(SubSeq(t, n + 1, Len(t))) \subseteq ToSet(t)
  BY <1>1, <1>7 DEF ToSet
<1>18. ToSet(toServer'[c]) \subseteq ToSet(t)
  BY <1>12, <1>17
<1> QED BY <1>1, <1>8, <1>10, <1>12, <1>13, <1>15, <1>16, <1>18 DEF t, First

\* What a handler does: all it sends arrives, or the server dies of the first send
\* that does not.
LEMMA HandleEffect ==
  ASSUME NEW sends, NEW newState, NEW newChannel, NEW newClients,
         Handle(sends, newState, newChannel, newClients)
  PROVE  /\ Transmit(Accepted(sends))
         /\ ready' = Keep(ready, {"listen"} \cup ToSet(newClients))
         /\ \/ /\ Accepted(sends) = sends
               /\ TurnDone
               /\ state' = newState /\ channel' = newChannel /\ clients' = newClients
            \/ Accepted(sends) # sends /\ Dies /\ UNCHANGED memory
BY DEF Handle

\* A turn that handles a client keeps the invariant and loses no wakeup.
LEMMA HandledKeeps ==
  ASSUME ServerInv, NEW c \in Clients, Handled(c)
  PROVE  ServerInv' /\ (Awake => Awake')
<1>1. PICK sends, newState, newChannel, newClients :
        /\ GoodHandler(c, sends, newState, newChannel, newClients)
        /\ Handle(sends, newState, newChannel, newClients)
  BY Zenon DEF Handled
<1>2. Recv(c) /\ Turn(c)
  BY DEF Handled, Recv
<1>3. /\ Transmit(Accepted(sends))
      /\ ready' = Keep(ready, {"listen"} \cup ToSet(newClients))
      /\ \/ /\ TurnDone
            /\ state' = newState /\ channel' = newChannel /\ clients' = newClients
         \/ Dies /\ UNCHANGED memory
  BY <1>1, HandleEffect
<1>4. UNCHANGED <<backlog, peer, sent, force_quit, interrupts>>
  BY <1>2, <1>3 DEF Recv, TurnDone, Dies
<1>5. /\ events # <<>> /\ c \in ToSet(clients) /\ state[c] \in Members
      /\ c \notin ToSet(Tail(events))
      /\ \A f \in ToSet(events) : f = c \/ f \in ToSet(Tail(events))
  BY <1>2, TurnOfMember
<1>6. /\ ready' \in Seq(Sockets) /\ Distinct(ready')
      /\ ToSet(ready') = ToSet(ready) \cap ({"listen"} \cup ToSet(newClients))
  <2>1. ready \in Seq(Sockets) /\ Distinct(ready)
    BY DEF ServerInv, Queues
  <2> QED BY <1>3, <2>1, Kept
<1>7. /\ Tail(events) \in Seq(Sockets) /\ Distinct(Tail(events))
      /\ Len(Tail(events)) = Len(events) - 1 /\ Len(events) \in Nat \ {0}
      /\ ToSet(Tail(events)) \subseteq ToSet(events)
  <2>1. events \in Seq(Sockets) /\ Distinct(events) /\ events # <<>>
    BY <1>5 DEF ServerInv, Queues
  <2>2. Len(events) \in Nat \ {0}
    BY <2>1
  <2> QED BY <2>1, <2>2, TailSet
<1>8. /\ toServer' \in [Clients -> Seq(ClientLines)]
      /\ Ahead => Ahead'
      /\ \A d \in Clients \ {c} : toServer'[d] = toServer[d]
      /\ Ahead /\ RecvLines >= MaxUnread => toServer'[c] = <<>>
  BY <1>2, RecvTakes
<1>9. /\ toClient' \in [Clients -> Seq(ServerLines)]
      /\ \A d \in Clients : Len(toClient'[d]) <= SendBuffer
      /\ view' \in [Clients -> SUBSET Clients] /\ mail' \in [Clients -> Nat]
  BY <1>1, <1>3, TransmitKeeps DEF GoodHandler
<1>10. Buffers'
  BY <1>8, <1>9 DEF Buffers
<1>11. force_quit' = (interrupts' > 0) /\ interrupts' \in 0 .. MaxInterrupts
  BY <1>4 DEF ServerInv, Types
<1>12. peer' \in [Clients -> {"away", "connected", "closed", "reset"}]
  BY <1>4 DEF ServerInv, Types
<1>13. CASE /\ TurnDone
            /\ state' = newState /\ channel' = newChannel /\ clients' = newClients
  <2>1. /\ events' = Tail(events)
        /\ server' = IF Len(events) = 1 THEN "loop" ELSE "batch"
    BY <1>13 DEF TurnDone
  <2>2. Types'
    <3>1. /\ state' \in [Clients -> {"none", "Accept", "Auth", "Open", "End"}]
          /\ channel' \in [Clients -> Channels]
      BY <1>1, <1>13 DEF GoodHandler
    <3>2. server' \in {"loop", "blocked", "batch", "stopped", "died"}
      BY <2>1
    <3> QED BY <1>9, <1>11, <1>12, <3>1, <3>2, Zenon DEF Types
  <2>3. Queues'
    <3>1. clients' \in Seq(Clients) /\ Distinct(clients')
      BY <1>1, <1>13 DEF GoodHandler
    <3>2. backlog' \in Seq(Clients) /\ Distinct(backlog')
      BY <1>4 DEF ServerInv, Queues
    <3>3. events' \in Seq(Sockets) /\ Distinct(events') /\ Len(events') = Len(events) - 1
      BY <1>7, <2>1
    <3>4. server' = "batch" <=> events' # <<>>
      <4>1. Len(events') = 0 <=> events' = <<>>
        BY SMTT(30), <3>3
      <4>2. Len(events') = 0 <=> Len(events) = 1
        BY <1>7, <3>3
      <4> QED BY <2>1, <4>1, <4>2
    <3>5. Len(events') <= MaxEvents
      <4>1. Len(events) <= MaxEvents /\ MaxEvents \in Nat
        BY ServerAssumption DEF ServerInv, Queues
      <4> QED BY <1>7, <3>3, <4>1
    <3> QED BY <1>6, <3>1, <3>2, <3>3, <3>4, <3>5 DEF Queues
  <2>4. Accounts'
    <3>1. \A d \in Clients : d \in ToSet(clients') <=> state'[d] \in Members
      BY <1>1, <1>13 DEF GoodHandler
    <3>2. ASSUME NEW f \in ToSet(events') \cup ToSet(ready')
          PROVE  f \in ToSet(clients') \cup {"listen"}
      <4>1. CASE f \in ToSet(ready')
        BY <1>6, <1>13, <4>1
      <4>2. CASE f \in ToSet(events')
        <5>1. f \in ToSet(events) /\ f # c
          BY <1>5, <1>7, <2>1, <4>2
        <5>2. CASE f = "listen"
          BY <5>2
        <5>3. CASE f # "listen"
          <6>1. f \in ToSet(clients)
            BY <5>1, <5>3 DEF ServerInv, Accounts
          <6>2. f \in Clients
            <7>1. clients \in Seq(Clients)
              BY DEF ServerInv, Queues
            <7> QED BY <6>1, <7>1 DEF ToSet
          <6>3. state[f] \in Members
            BY <6>1, <6>2 DEF ServerInv, Accounts
          <6>4. state'[f] = state[f]
            BY <1>1, <1>13, <5>1, <6>2 DEF GoodHandler
          <6> QED BY <3>1, <6>2, <6>3, <6>4
        <5> QED BY <5>2, <5>3
      <4> QED BY <4>1, <4>2
    <3>3. ASSUME NEW d \in Clients, state[d] = "none" PROVE state'[d] = "none"
      <4>1. d # c
        BY <1>5, <3>3 DEF Members
      <4> QED BY <1>1, <1>13, <3>3, <4>1 DEF GoodHandler
    <3>4. \A d \in ToSet(backlog) : d \in Clients
      <4>1. backlog \in Seq(Clients)
        BY DEF ServerInv, Queues
      <4> QED BY <4>1 DEF ToSet
    <3>5. \A d \in Clients : peer'[d] = "away" => d \notin ToSet(backlog') /\ state'[d] = "none"
      BY <1>4, <3>3 DEF ServerInv, Accounts
    <3>6. \A d \in ToSet(backlog') : state'[d] = "none"
      BY <1>4, <3>3, <3>4 DEF ServerInv, Accounts
    <3> QED BY <3>1, <3>2, <3>5, <3>6 DEF Accounts
  <2>5. ASSUME Awake PROVE Awake'
    <3> SUFFICES ASSUME RecvLines >= MaxUnread, NEW d \in Clients, d \in ToSet(clients'),
                        toServer'[d] # <<>>
                 PROVE  d \in ToSet(ready') \cup ToSet(events')
      BY <1>8, <2>5 DEF Awake
    <3>1. d # c /\ toServer[d] # <<>>
      BY <1>8, <2>5 DEF Awake
    <3>2. d \in ToSet(clients)
      BY <1>1, <1>13 DEF GoodHandler
    <3>3. Running
      BY <1>2 DEF Turn, Running
    <3>4. d \in ToSet(ready) \cup ToSet(events)
      BY <2>5, <3>1, <3>2, <3>3 DEF Awake
    <3> QED BY <1>5, <1>6, <1>13, <2>1, <3>1, <3>4
  <2> QED BY <1>10, <2>2, <2>3, <2>4, <2>5 DEF ServerInv
<1>14. CASE Dies /\ UNCHANGED memory
  <2>1. events' = <<>> /\ server' = "died" /\ UNCHANGED <<clients, state, channel>>
    BY <1>14 DEF Dies, memory
  <2>2. Types'
    <3>1. /\ state' \in [Clients -> {"none", "Accept", "Auth", "Open", "End"}]
          /\ channel' \in [Clients -> Channels]
      BY <2>1 DEF ServerInv, Types
    <3>2. server' \in {"loop", "blocked", "batch", "stopped", "died"}
      BY <2>1
    <3> QED BY <1>9, <1>11, <1>12, <3>1, <3>2, Zenon DEF Types
  <2>3. Queues'
    <3>1. clients' \in Seq(Clients) /\ Distinct(clients')
      BY <2>1 DEF ServerInv, Queues
    <3>2. backlog' \in Seq(Clients) /\ Distinct(backlog')
      BY <1>4 DEF ServerInv, Queues
    <3>3. MaxEvents \in Nat
      BY ServerAssumption
    <3>4. events' \in Seq(Sockets) /\ Distinct(events') /\ Len(events') <= MaxEvents
      BY <2>1, <3>3, EmptySet
    <3> QED BY <1>6, <2>1, <3>1, <3>2, <3>4 DEF Queues
  <2>4. Accounts'
    <3>1. \A f \in ToSet(events') \cup ToSet(ready') : f \in ToSet(clients') \cup {"listen"}
      <4>1. ToSet(events') = {}
        BY <2>1, EmptySet
      <4> QED BY <1>6, <2>1, <4>1 DEF ServerInv, Accounts
    <3> QED BY <1>4, <2>1, <3>1 DEF ServerInv, Accounts
  <2>5. Awake => Awake'
    BY <1>8, <2>1 DEF Awake, Running
  <2> QED BY <1>10, <2>2, <2>3, <2>4, <2>5 DEF ServerInv
<1> QED BY <1>3, <1>13, <1>14

\* The sends of the handlers.
LEMMA AudienceSet ==
  ASSUME ServerInv, NEW st, NEW ch, NEW r
  PROVE  /\ Audience(st, ch, r) \in Seq(Clients) /\ Distinct(Audience(st, ch, r))
         /\ \A d : d \in ToSet(Audience(st, ch, r)) <=>
                     d \in ToSet(clients) /\ st[d] = "Open" /\ ch[d] = r
<1>1. clients \in Seq(Clients) /\ Distinct(clients)
  BY DEF ServerInv, Queues
<1>2. \A d \in ToSet(clients) : d \in Clients
  BY <1>1 DEF ToSet
<1> DEFINE S == {d \in Clients : st[d] = "Open" /\ ch[d] = r}
<1>3. Audience(st, ch, r) = Keep(clients, S)
  BY DEF Audience
<1>4. /\ Keep(clients, S) \in Seq(Clients) /\ Distinct(Keep(clients, S))
      /\ ToSet(Keep(clients, S)) = ToSet(clients) \cap S
  <2> HIDE DEF S
  <2> QED BY <1>1, Kept
<1> QED BY <1>2, <1>3, <1>4

\* The other open clients of c's channel, each once.
LEMMA OthersSet ==
  ASSUME ServerInv, NEW c \in Clients
  PROVE  /\ Others(c) \in Seq(Clients) /\ Distinct(Others(c))
         /\ \A d : d \in ToSet(Others(c)) <=>
              d \in ToSet(clients) \ {c} /\ state[d] = "Open" /\ channel[d] = channel[c]
<1> DEFINE A == Audience(state, channel, channel[c])
<1>1. /\ A \in Seq(Clients) /\ Distinct(A)
      /\ \A d : d \in ToSet(A) <=>
                  d \in ToSet(clients) /\ state[d] = "Open" /\ channel[d] = channel[c]
  BY AudienceSet
<1>2. \A d \in ToSet(A) : d \in Clients
  BY <1>1 DEF ToSet
<1>3. Others(c) = Keep(A, Clients \ {c})
  BY DEF Others
<1> HIDE DEF A
<1>4. /\ Keep(A, Clients \ {c}) \in Seq(Clients) /\ Distinct(Keep(A, Clients \ {c}))
      /\ ToSet(Keep(A, Clients \ {c})) = ToSet(A) \cap (Clients \ {c})
  BY <1>1, Kept
<1> QED BY <1>1, <1>2, <1>3, <1>4

\* The lines the handlers send.
LEMMA ServerLinesTyped ==
  /\ <<"REPLY", "OK">> \in ServerLines /\ <<"REPLY", "NOK">> \in ServerLines
  /\ <<"ERROR">> \in ServerLines /\ <<"BYE">> \in ServerLines
  /\ \A c \in Clients : /\ <<"JOINED", c>> \in ServerLines
                        /\ <<"LEFT", c>> \in ServerLines
                        /\ <<"SAID", c>> \in ServerLines
  /\ \A line \in ClientLines : <<"RAW">> \o line \in ServerLines
BY DEF ServerLines

\* A sequence of one line.
LEMMA OneLine ==
  ASSUME NEW line \in ServerLines
  PROVE  <<line>> \in Seq(ServerLines) /\ Len(<<line>>) = 1 /\ <<line>>[1] = line
OBVIOUS

\* ToEach, as SendEach.
LEMMA LinesOfToEach ==
  ASSUME NEW T \in Seq(Clients), Distinct(T), NEW line \in ServerLines, NEW d
  PROVE  /\ ToEach(T, line) \in Seq(Sends)
         /\ LinesTo(d, ToEach(T, line)) = IF d \in ToSet(T) THEN <<line>> ELSE <<>>
<1>1. ToEach(T, line) = SendEach(T, <<line>>)
  BY DEF ToEach, SendEach
<1>2. <<line>> \in Seq(ServerLines)
  BY OneLine
<1> DEFINE l == <<line>>
<1>3. l \in Seq(ServerLines)
  BY <1>2
<1> HIDE DEF l
<1>4. /\ SendEach(T, l) \in Seq(Sends)
      /\ LinesTo(d, SendEach(T, l)) = IF d \in ToSet(T) THEN l ELSE <<>>
  BY <1>3, LinesOfEach
<1> QED BY <1>1, <1>4 DEF l

\* One loop of sends after another.
LEMMA SendsConcat ==
  ASSUME NEW s \in Seq(Sends), NEW t \in Seq(Sends)
  PROVE  s \o t \in Seq(Sends)
OBVIOUS

\* A handler that leaves the vector as it is.
LEMMA StayIsGood ==
  ASSUME ServerInv, NEW c \in Clients, c \in ToSet(clients), NEW sends \in Seq(Sends),
         NEW new \in Members, NEW newChannel \in [Clients -> Channels]
  PROVE  /\ GoodHandler(c, sends, [state EXCEPT ![c] = new], newChannel, clients)
         /\ new = state[c] => [state EXCEPT ![c] = new] = state
<1>1. state \in [Clients -> {"none", "Accept", "Auth", "Open", "End"}]
  BY DEF ServerInv, Types
<1>2. [state EXCEPT ![c] = new] \in [Clients -> {"none", "Accept", "Auth", "Open", "End"}]
  BY <1>1 DEF Members
<1>3. clients \in Seq(Clients) /\ Distinct(clients)
  BY DEF ServerInv, Queues
<1>4. \A d \in Clients : d \in ToSet(clients) <=> [state EXCEPT ![c] = new][d] \in Members
  BY <1>1 DEF ServerInv, Accounts
<1>5. \A d \in Clients \ {c} : [state EXCEPT ![c] = new][d] = state[d]
  BY <1>1
<1>6. new = state[c] => [state EXCEPT ![c] = new] = state
  BY <1>1
<1> QED BY <1>2, <1>3, <1>4, <1>5, <1>6 DEF GoodHandler

\* A handler that puts c out.
LEMMA LeaveIsGood ==
  ASSUME ServerInv, NEW c \in Clients, NEW sends \in Seq(Sends)
  PROVE  GoodHandler(c, sends, [state EXCEPT ![c] = "End"], channel,
                     Keep(clients, Clients \ {c}))
<1>1. /\ state \in [Clients -> {"none", "Accept", "Auth", "Open", "End"}]
      /\ channel \in [Clients -> Channels]
  BY DEF ServerInv, Types
<1>2. [state EXCEPT ![c] = "End"] \in [Clients -> {"none", "Accept", "Auth", "Open", "End"}]
  BY <1>1
<1>3. clients \in Seq(Clients) /\ Distinct(clients)
  BY DEF ServerInv, Queues
<1> DEFINE rest == Keep(clients, Clients \ {c})
<1>4. /\ rest \in Seq(Clients) /\ Distinct(rest)
      /\ ToSet(rest) = ToSet(clients) \cap (Clients \ {c})
  BY <1>3, Kept
<1> HIDE DEF rest
<1>5. \A d \in Clients : d \in ToSet(rest) <=> [state EXCEPT ![c] = "End"][d] \in Members
  BY <1>1, <1>4 DEF ServerInv, Accounts, Members
<1>6. \A d \in Clients \ {c} : [state EXCEPT ![c] = "End"][d] = state[d]
  BY <1>1
<1>7. ToSet(rest) \subseteq ToSet(clients)
  BY <1>4
<1>8. GoodHandler(c, sends, [state EXCEPT ![c] = "End"], channel, rest)
  BY <1>1, <1>2, <1>4, <1>5, <1>6, <1>7 DEF GoodHandler
<1> QED BY <1>8 DEF rest

\* The sends of each handler, and the lines they put into the socket of d.
Line(told, line) == IF told THEN <<line>> ELSE <<>>

OpenedBy(c) == [state EXCEPT ![c] = "Open"]
MovedTo(c, r) == [channel EXCEPT ![c] = r]
AuthSends(c) ==
  To(c, <<<<"REPLY", "OK">>>>) \o ToEach(Audience(OpenedBy(c), channel, Default), <<"JOINED", c>>)
JoinSends(c, r) ==
  To(c, <<<<"REPLY", "OK">>>>)
    \o ToEach(Others(c), <<"LEFT", c>>)
    \o ToEach(Audience(state, MovedTo(c, r), r), <<"JOINED", c>>)
LeaveSends(c, farewell) == farewell \o ToEach(Others(c), <<"LEFT", c>>)
RawLines(c) == [i \in 1 .. Len(Received(c)) - 1 |-> <<"RAW">> \o Received(c)[i + 1]]
TextOf(c) == <<<<"SAID", c>>>> \o RawLines(c)

\* A reply reaches the client that asked and nobody else.
LEMMA ReplyLines ==
  ASSUME NEW c \in Clients, NEW line \in ServerLines, NEW d
  PROVE  /\ To(c, <<line>>) \in Seq(Sends)
         /\ LinesTo(d, To(c, <<line>>)) = Line(d = c, line)
<1> DEFINE l == <<line>>
<1>1. l \in Seq(ServerLines)
  BY OneLine
<1> HIDE DEF l
<1>2. To(c, l) \in Seq(Sends) /\ LinesTo(d, To(c, l)) = IF d = c THEN l ELSE <<>>
  BY <1>1, LinesOfTo
<1> QED BY <1>2 DEF l, Line

\* Who gets what when c authenticates.
LEMMA AuthLines ==
  ASSUME ServerInv, NEW c \in Clients, NEW d
  PROVE  LET A == Audience(OpenedBy(c), channel, Default) IN
         /\ AuthSends(c) \in Seq(Sends)
         /\ LinesTo(d, AuthSends(c))
              = Line(d = c, <<"REPLY", "OK">>) \o Line(d \in ToSet(A), <<"JOINED", c>>)
<1> DEFINE A == Audience(OpenedBy(c), channel, Default)
           s == To(c, <<<<"REPLY", "OK">>>>)
           t == ToEach(A, <<"JOINED", c>>)
<1>1. s \in Seq(Sends) /\ LinesTo(d, s) = Line(d = c, <<"REPLY", "OK">>)
  BY ReplyLines, ServerLinesTyped
<1>2. A \in Seq(Clients) /\ Distinct(A)
  BY AudienceSet
<1>3. <<"JOINED", c>> \in ServerLines
  BY ServerLinesTyped
<1>4. t \in Seq(Sends) /\ LinesTo(d, t) = Line(d \in ToSet(A), <<"JOINED", c>>)
  <2> HIDE DEF A
  <2> QED BY <1>2, <1>3, LinesOfToEach DEF Line
<1> HIDE DEF A, s, t
<1>5. s \o t \in Seq(Sends) /\ LinesTo(d, s \o t) = LinesTo(d, s) \o LinesTo(d, t)
  BY <1>1, <1>4, SendsConcat, LinesConcat
<1>6. AuthSends(c) = s \o t
  BY DEF AuthSends, s, t, A
<1> QED BY <1>1, <1>4, <1>5, <1>6 DEF A

JoinTells(c, r, d) ==
  LET A == Audience(state, MovedTo(c, r), r) IN
  /\ JoinSends(c, r) \in Seq(Sends)
  /\ LinesTo(d, JoinSends(c, r))
       = (Line(d = c, <<"REPLY", "OK">>) \o Line(d \in ToSet(Others(c)), <<"LEFT", c>>))
           \o Line(d \in ToSet(A), <<"JOINED", c>>)

\* Who gets what when c moves to channel r.
LEMMA JoinLines ==
  ASSUME ServerInv, NEW c \in Clients, NEW r, NEW d
  PROVE  JoinTells(c, r, d)
<1> DEFINE A == Audience(state, MovedTo(c, r), r)
           O == Others(c)
           s == To(c, <<<<"REPLY", "OK">>>>)
           t == ToEach(O, <<"LEFT", c>>)
           u == ToEach(A, <<"JOINED", c>>)
<1>1. s \in Seq(Sends) /\ LinesTo(d, s) = Line(d = c, <<"REPLY", "OK">>)
  BY ReplyLines, ServerLinesTyped
<1>2. A \in Seq(Clients) /\ Distinct(A)
  BY AudienceSet
<1>3. O \in Seq(Clients) /\ Distinct(O)
  BY OthersSet
<1>4. <<"JOINED", c>> \in ServerLines /\ <<"LEFT", c>> \in ServerLines
  BY ServerLinesTyped
<1>5. t \in Seq(Sends) /\ LinesTo(d, t) = Line(d \in ToSet(O), <<"LEFT", c>>)
  <2> HIDE DEF O
  <2> QED BY <1>3, <1>4, LinesOfToEach DEF Line
<1>6. u \in Seq(Sends) /\ LinesTo(d, u) = Line(d \in ToSet(A), <<"JOINED", c>>)
  <2> HIDE DEF A
  <2> QED BY <1>2, <1>4, LinesOfToEach DEF Line
<1> HIDE DEF A, O, s, t, u
<1>7. s \o t \in Seq(Sends) /\ LinesTo(d, s \o t) = LinesTo(d, s) \o LinesTo(d, t)
  BY <1>1, <1>5, SendsConcat, LinesConcat
<1>8. /\ (s \o t) \o u \in Seq(Sends)
      /\ LinesTo(d, (s \o t) \o u) = LinesTo(d, s \o t) \o LinesTo(d, u)
  <2>1. ASSUME NEW v \in Seq(Sends)
        PROVE  /\ v \o u \in Seq(Sends)
               /\ LinesTo(d, v \o u) = LinesTo(d, v) \o LinesTo(d, u)
    <3>1. v \o u \in Seq(Sends)
      BY <1>6, SendsConcat
    <3>2. LinesTo(d, v \o u) = LinesTo(d, v) \o LinesTo(d, u)
      BY <1>6, LinesConcat
    <3> QED BY <3>1, <3>2
  <2> QED BY <1>7, <2>1
<1>9. JoinSends(c, r) = (s \o t) \o u
  BY DEF JoinSends, s, t, u, A, O
<1> QED BY <1>1, <1>5, <1>6, <1>7, <1>8, <1>9, Zenon DEF A, O, JoinTells

\* Who gets what when c leaves, after its own farewell.
LEMMA LeaveLines ==
  ASSUME ServerInv, NEW c \in Clients, NEW d
  PROVE  \A farewell \in Seq(Sends) :
           /\ LeaveSends(c, farewell) \in Seq(Sends)
           /\ LinesTo(d, LeaveSends(c, farewell))
                = LinesTo(d, farewell) \o Line(d \in ToSet(Others(c)), <<"LEFT", c>>)
<1> DEFINE O == Others(c)
           t == ToEach(O, <<"LEFT", c>>)
<1>1. O \in Seq(Clients) /\ Distinct(O)
  BY OthersSet
<1>2. <<"LEFT", c>> \in ServerLines
  BY ServerLinesTyped
<1>3. t \in Seq(Sends) /\ LinesTo(d, t) = Line(d \in ToSet(O), <<"LEFT", c>>)
  <2> HIDE DEF O
  <2> QED BY <1>1, <1>2, LinesOfToEach DEF Line
<1>4. \A farewell : LeaveSends(c, farewell) = farewell \o t
  BY DEF LeaveSends
<1> HIDE DEF O, t
<1>5. ASSUME NEW v \in Seq(Sends)
      PROVE  /\ v \o t \in Seq(Sends)
             /\ LinesTo(d, v \o t) = LinesTo(d, v) \o LinesTo(d, t)
  <2>1. v \o t \in Seq(Sends)
    BY <1>3, SendsConcat
  <2>2. LinesTo(d, v \o t) = LinesTo(d, v) \o LinesTo(d, t)
    BY <1>3, LinesConcat
  <2> QED BY <2>1, <2>2
<1> QED BY <1>3, <1>4, <1>5 DEF O

\* A message is forwarded with everything that was received with it.
LEMMA TextTyped ==
  ASSUME ServerInv, NEW c \in Clients, Recv(c)
  PROVE  /\ TextOf(c) \in Seq(ServerLines) /\ TextOf(c) # <<>>
         /\ \A i \in 1 .. Len(TextOf(c)) :
              /\ TextOf(c)[i][1] \notin {"JOINED", "LEFT"}
              /\ TextOf(c)[i][1] = "SAID" <=> i = 1
<1>1. Received(c) \in Seq(ClientLines) /\ Received(c) # <<>>
  BY RecvTakes
<1> DEFINE n == Len(Received(c)) - 1
           raw == RawLines(c)
<1>2. n \in Nat /\ \A i \in 1 .. n : Received(c)[i + 1] \in ClientLines
  BY <1>1
<1>3. \A i \in 1 .. n : raw[i] \in ServerLines /\ raw[i][1] = "RAW"
  <2> SUFFICES ASSUME NEW i \in 1 .. n PROVE raw[i] \in ServerLines /\ raw[i][1] = "RAW"
    OBVIOUS
  <2>1. Received(c)[i + 1] \in ClientLines
    BY <1>2
  <2>2. raw[i] = <<"RAW">> \o Received(c)[i + 1]
    BY DEF RawLines
  <2> QED BY <2>1, <2>2, ServerLinesTyped, RawShape
<1>4. raw = [i \in 1 .. n |-> raw[i]]
  BY DEF RawLines
<1> HIDE DEF n, raw
<1>5. raw \in Seq(ServerLines) /\ Len(raw) = n
  <2>1. raw \in [1 .. n -> ServerLines]
    BY <1>3, <1>4
  <2> QED BY <1>2, <2>1
<1>6. <<"SAID", c>> \in ServerLines /\ <<"SAID", c>>[1] = "SAID"
  BY ServerLinesTyped
<1> DEFINE said == <<"SAID", c>>
<1> HIDE DEF said
<1>7. TextOf(c) = <<said>> \o raw
  BY DEF TextOf, raw, said
<1>8. said \in ServerLines /\ said[1] = "SAID"
  BY <1>6 DEF said
<1> DEFINE text == <<said>> \o raw
<1>9. /\ text \in Seq(ServerLines) /\ Len(text) = n + 1 /\ text[1] = said
      /\ \A i \in 2 .. n + 1 : text[i] = raw[i - 1]
  BY <1>2, <1>5, <1>8
<1> HIDE DEF text
<1>10. \A i \in 1 .. n + 1 : i = 1 \/ (i \in 2 .. n + 1 /\ i - 1 \in 1 .. n)
  BY <1>2
<1>11. \A i \in 1 .. Len(text) :
         text[i][1] \notin {"JOINED", "LEFT"} /\ (text[i][1] = "SAID" <=> i = 1)
  <2> SUFFICES ASSUME NEW i \in 1 .. n + 1
               PROVE  text[i][1] \notin {"JOINED", "LEFT"} /\ (text[i][1] = "SAID" <=> i = 1)
    BY <1>9
  <2>1. CASE i = 1
    BY <1>8, <1>9, <2>1
  <2>2. CASE i # 1
    <3>1. text[i][1] = "RAW"
      BY <1>3, <1>9, <1>10, <2>2
    <3> QED BY <2>2, <3>1
  <2> QED BY <2>1, <2>2
<1>12. text # <<>>
  BY <1>2, <1>9
<1> QED BY <1>7, <1>9, <1>11, <1>12 DEF text

\* Who gets what when c says something.
LEMMA MessageLines ==
  ASSUME ServerInv, NEW c \in Clients, Recv(c), NEW d
  PROVE  /\ SendEach(Others(c), TextOf(c)) \in Seq(Sends)
         /\ LinesTo(d, SendEach(Others(c), TextOf(c)))
              = IF d \in ToSet(Others(c)) THEN TextOf(c) ELSE <<>>
<1>1. Others(c) \in Seq(Clients) /\ Distinct(Others(c))
  BY OthersSet
<1>2. TextOf(c) \in Seq(ServerLines)
  BY TextTyped
<1> QED BY <1>1, <1>2, LinesOfEach

\* Each handler is one of these.
LEMMA HandlersAreGood ==
  ASSUME ServerInv, NEW c \in Clients, ServerTurn(c), ~ShortLine(c), ~Vanished(c)
  PROVE  Handled(c)
<1>1. \/ Authenticate(c) \/ RefuseAuth(c) \/ ForwardMessage(c) \/ JoinChannel(c)
      \/ RefuseJoin(c) \/ ClientErr(c) \/ ClientBye(c) \/ Unexpected(c)
  BY DEF ServerTurn
<1>2. Recv(c)
  BY <1>1 DEF Authenticate, RefuseAuth, ForwardMessage, JoinChannel, RefuseJoin, ClientErr,
              ClientBye, Unexpected
<1>3. c \in ToSet(clients) /\ state[c] \in Members
  BY <1>2, TurnOfMember DEF Recv
<1>4. channel \in [Clients -> Channels] /\ Default \in Channels
  BY ServerAssumption DEF ServerInv, Types
<1>5. ASSUME NEW sends \in Seq(Sends), NEW new \in Members, NEW moved \in [Clients -> Channels],
             Handle(sends, [state EXCEPT ![c] = new], moved, clients)
      PROVE  Handled(c)
  <2>1. GoodHandler(c, sends, [state EXCEPT ![c] = new], moved, clients)
    BY <1>3, StayIsGood
  <2> QED BY <1>2, <1>5, <2>1, Zenon DEF Handled
<1>6. ASSUME NEW sends \in Seq(Sends), NEW moved \in [Clients -> Channels],
             Handle(sends, state, moved, clients)
      PROVE  Handled(c)
  <2>1. GoodHandler(c, sends, [state EXCEPT ![c] = state[c]], moved, clients)
    BY <1>3, StayIsGood
  <2>2. [state EXCEPT ![c] = state[c]] = state
    BY DEF ServerInv, Types
  <2>3. GoodHandler(c, sends, state, moved, clients)
    BY <2>1, <2>2
  <2> QED BY <1>2, <1>6, <2>3, Zenon DEF Handled
<1>7. ASSUME NEW farewell \in Seq(Sends), LeaveServer(c, farewell)
      PROVE  Handled(c)
  <2>1. LeaveSends(c, farewell) \in Seq(Sends)
    BY LeaveLines
  <2>2. GoodHandler(c, LeaveSends(c, farewell), [state EXCEPT ![c] = "End"], channel,
                    Keep(clients, Clients \ {c}))
    BY <2>1, LeaveIsGood
  <2>3. Handle(LeaveSends(c, farewell), [state EXCEPT ![c] = "End"], channel,
               Keep(clients, Clients \ {c}))
    BY <1>7 DEF LeaveServer, LeaveSends
  <2> QED BY <1>2, <2>2, <2>3, Zenon DEF Handled
<1>8. CASE Authenticate(c)
  <2>1. AuthSends(c) \in Seq(Sends)
    BY AuthLines
  <2>2. Handle(AuthSends(c), [state EXCEPT ![c] = "Open"], channel, clients)
    BY <1>8 DEF Authenticate, AuthSends, OpenedBy
  <2>3. "Open" \in Members
    BY DEF Members
  <2> QED BY <1>4, <1>5, <2>1, <2>2, <2>3
<1>9. CASE RefuseAuth(c)
  <2>1. To(c, <<<<"REPLY", "NOK">>>>) \in Seq(Sends) /\ "Auth" \in Members
    BY ReplyLines, ServerLinesTyped DEF Members
  <2>2. Handle(To(c, <<<<"REPLY", "NOK">>>>), [state EXCEPT ![c] = "Auth"], channel, clients)
    BY <1>9 DEF RefuseAuth
  <2> QED BY <1>4, <1>5, <2>1, <2>2
<1>10. CASE ForwardMessage(c)
  <2>1. SendEach(Others(c), TextOf(c)) \in Seq(Sends)
    BY <1>2, MessageLines
  <2>2. Handle(SendEach(Others(c), TextOf(c)), state, channel, clients)
    BY <1>10 DEF ForwardMessage, SendEach, TextOf, RawLines
  <2> QED BY <1>4, <1>6, <2>1, <2>2
<1>11. CASE JoinChannel(c)
  <2> DEFINE r == First(c)[2]
  <2>1. r \in Channels
    <3>1. First(c) \in ClientLines /\ First(c)[1] = "JOIN"
      BY <1>2, <1>11, RecvTakes DEF JoinChannel
    <3>2. First(c) \in {"JOIN"} \X Channels
      BY <3>1 DEF ClientLines
    <3> QED BY <3>2
  <2>2. JoinSends(c, r) \in Seq(Sends)
    <3>1. JoinTells(c, r, c)
      BY JoinLines
    <3> QED BY <3>1 DEF JoinTells
  <2>3. Handle(JoinSends(c, r), state, MovedTo(c, r), clients)
    BY <1>11 DEF JoinChannel, JoinSends, MovedTo
  <2>4. MovedTo(c, r) \in [Clients -> Channels]
    BY <1>4, <2>1 DEF MovedTo
  <2> QED BY <1>6, <2>2, <2>3, <2>4
<1>12. CASE RefuseJoin(c)
  <2>1. To(c, <<<<"REPLY", "NOK">>>>) \in Seq(Sends)
    BY ReplyLines, ServerLinesTyped
  <2>2. Handle(To(c, <<<<"REPLY", "NOK">>>>), state, channel, clients)
    BY <1>12 DEF RefuseJoin
  <2> QED BY <1>4, <1>6, <2>1, <2>2
<1>13. To(c, <<<<"BYE">>>>) \in Seq(Sends) /\ To(c, <<<<"ERROR">>>>) \in Seq(Sends)
  BY ReplyLines, ServerLinesTyped
<1>14. CASE ClientErr(c)
  BY <1>7, <1>13, <1>14 DEF ClientErr
<1>15. CASE ClientBye(c)
  BY <1>7, <1>15, EmptySet DEF ClientBye
<1>16. CASE Unexpected(c)
  <2>1. To(c, <<<<"ERROR">>>>) \o To(c, <<<<"BYE">>>>) \in Seq(Sends)
    BY <1>13, SendsConcat
  <2> QED BY <1>7, <1>16, <2>1 DEF Unexpected
<1> QED BY <1>1, <1>8, <1>9, <1>10, <1>11, <1>12, <1>14, <1>15, <1>16

-----------------------------------------------------------------------------
(* The other steps.                                                          *)

\* A socket that wakes is on the ready list, once.
LEMMA WakesSet ==
  ASSUME ServerInv, NEW f \in Sockets
  PROVE  /\ Wakes(f) \in Seq(Sockets) /\ Distinct(Wakes(f))
         /\ ToSet(Wakes(f)) = ToSet(ready) \cup {f}
<1>1. ready \in Seq(Sockets) /\ Distinct(ready)
  BY DEF ServerInv, Queues
<1>2. Contains(ready, f) <=> f \in ToSet(ready)
  BY <1>1, ContainsElement
<1>3. CASE f \in ToSet(ready)
  BY <1>1, <1>2, <1>3 DEF Wakes
<1>4. CASE f \notin ToSet(ready)
  <2>1. Wakes(f) = Append(ready, f)
    BY <1>2, <1>4 DEF Wakes
  <2> QED BY <1>1, <1>4, <2>1, AppendSet
<1> QED BY <1>3, <1>4

\* What is in the vector, or waits for accept(), is a client.
LEMMA MembersAreClients ==
  ASSUME ServerInv
  PROVE  /\ \A c : Registered(c) <=> c \in ToSet(clients)
         /\ \A c \in ToSet(clients) : c \in Clients
         /\ \A c \in ToSet(backlog) : c \in Clients
<1>1. clients \in Seq(Clients) /\ backlog \in Seq(Clients)
  BY DEF ServerInv, Queues
<1>2. \A c : Contains(clients, c) <=> c \in ToSet(clients)
  BY <1>1, ContainsElement
<1>3. \A c \in ToSet(clients) : c \in Clients
  BY <1>1 DEF ToSet
<1>4. \A c \in ToSet(backlog) : c \in Clients
  BY <1>1 DEF ToSet
<1> QED BY <1>2, <1>3, <1>4 DEF Registered

\* epoll_wait() keeps the invariant: what it takes off the list is in the batch, or
\* has nothing to report.
LEMMA EpollWaitKeeps ==
  ASSUME ServerInv, EpollWait
  PROVE  ServerInv' /\ (Awake => Awake')
<1> DEFINE live == Keep(ready, {f \in ToSet(ready) : Pollable(f)})
           k == Min({MaxEvents, Len(live)})
           batch == SubSeq(live, 1, k)
           rest == SubSeq(live, Len(batch) + 1, Len(live))
<1>1. /\ events' = batch
      /\ server' = IF batch = <<>> THEN "blocked" ELSE "batch"
      /\ ready' = IF Contains(batch, "listen") THEN Append(rest, "listen") ELSE rest
      /\ UNCHANGED <<force_quit, interrupts, memory, history, backlog, peer, toServer,
                     toClient, sent>>
  BY DEF EpollWait
<1>2. ready \in Seq(Sockets) /\ Distinct(ready)
  BY DEF ServerInv, Queues
<1>3. /\ live \in Seq(Sockets) /\ Distinct(live)
      /\ ToSet(live) = {f \in ToSet(ready) : Pollable(f)}
  <2> DEFINE S == {f \in ToSet(ready) : Pollable(f)}
  <2>1. /\ Keep(ready, S) \in Seq(Sockets) /\ Distinct(Keep(ready, S))
        /\ ToSet(Keep(ready, S)) = ToSet(ready) \cap S
    <3> HIDE DEF S
    <3> QED BY <1>2, Kept
  <2>2. ToSet(ready) \cap S = S
    OBVIOUS
  <2> QED BY <2>1, <2>2
<1>4. MaxEvents \in Nat \ {0}
  BY ServerAssumption
<1> HIDE DEF live
<1>5. Len(live) \in Nat
  BY <1>3
<1>6. k \in 0 .. Len(live) /\ k <= MaxEvents
  <2>1. k = IF MaxEvents <= Len(live) THEN MaxEvents ELSE Len(live)
    BY <1>4, <1>5, MinOfTwo
  <2> HIDE DEF k
  <2> QED BY <1>4, <1>5, <2>1
<1> HIDE DEF k
<1>7. /\ batch \in Seq(Sockets) /\ Distinct(batch) /\ Len(batch) = k
      /\ rest \in Seq(Sockets) /\ Distinct(rest)
      /\ ToSet(batch) \cup ToSet(rest) = ToSet(live)
      /\ ToSet(batch) \cap ToSet(rest) = {}
  <2>1. /\ batch \in Seq(Sockets) /\ Distinct(batch) /\ Len(batch) = k
        /\ SubSeq(live, k + 1, Len(live)) \in Seq(Sockets)
        /\ Distinct(SubSeq(live, k + 1, Len(live)))
        /\ ToSet(batch) \cup ToSet(SubSeq(live, k + 1, Len(live))) = ToSet(live)
        /\ ToSet(batch) \cap ToSet(SubSeq(live, k + 1, Len(live))) = {}
    BY <1>3, <1>6, SplitSet
  <2> QED BY <2>1
<1> HIDE DEF batch, rest
<1>8. Contains(batch, "listen") <=> "listen" \in ToSet(batch)
  BY <1>7, ContainsElement
<1>9. /\ ready' \in Seq(Sockets) /\ Distinct(ready')
      /\ ToSet(ready') = ToSet(rest) \cup (ToSet(batch) \cap {"listen"})
  <2>1. CASE "listen" \in ToSet(batch)
    <3>1. ready' = Append(rest, "listen")
      BY <1>1, <1>8, <2>1
    <3>2. "listen" \in Sockets /\ "listen" \notin ToSet(rest)
      BY <1>7, <2>1 DEF Sockets
    <3>3. ToSet(rest) \cup {"listen"} = ToSet(rest) \cup (ToSet(batch) \cap {"listen"})
      BY <2>1
    <3> QED BY <1>7, <3>1, <3>2, <3>3, AppendSet
  <2>2. CASE "listen" \notin ToSet(batch)
    <3>1. ready' = rest
      BY <1>1, <1>8, <2>2
    <3>2. ToSet(rest) = ToSet(rest) \cup (ToSet(batch) \cap {"listen"})
      BY <2>2
    <3> QED BY <1>7, <3>1, <3>2
  <2> QED BY <2>1, <2>2
<1>10. Types'
  <2>1. UNCHANGED <<force_quit, interrupts, state, channel, peer, view, mail>>
    BY <1>1 DEF memory, history
  <2>2. server' \in {"loop", "blocked", "batch", "stopped", "died"}
    BY <1>1
  <2> QED BY <2>1, <2>2 DEF ServerInv, Types
<1>11. Buffers'
  BY <1>1 DEF ServerInv, Buffers
<1>12. Queues'
  <2>1. UNCHANGED <<clients, backlog>>
    BY <1>1 DEF memory
  <2>2. server' = "batch" <=> events' # <<>>
    BY <1>1
  <2>3. Len(events') <= MaxEvents
    BY <1>1, <1>6, <1>7
  <2> QED BY <1>1, <1>7, <1>9, <2>1, <2>2, <2>3 DEF ServerInv, Queues
<1>13. Accounts'
  <2>1. UNCHANGED <<clients, state, backlog, peer>>
    BY <1>1 DEF memory
  <2>2. \A f \in ToSet(events') \cup ToSet(ready') : f \in ToSet(ready)
    BY <1>1, <1>3, <1>7, <1>9
  <2> QED BY <2>1, <2>2 DEF ServerInv, Accounts
<1>14. ASSUME Awake PROVE Awake'
  <2> SUFFICES ASSUME RecvLines >= MaxUnread, NEW c \in Clients, c \in ToSet(clients'),
                      toServer'[c] # <<>>
               PROVE  c \in ToSet(ready') \cup ToSet(events')
    BY <1>1, <1>14 DEF Awake, Ahead
  <2>1. UNCHANGED <<clients, toServer>>
    BY <1>1 DEF memory
  <2>2. Running /\ events = <<>>
    BY DEF EpollWait, Running, ServerInv, Queues
  <2>3. c \in ToSet(ready)
    BY <1>14, <2>1, <2>2, EmptySet DEF Awake
  <2>4. c # "listen"
    BY ServerAssumption
  <2>5. Pollable(c)
    BY <2>1, <2>4 DEF Pollable
  <2> QED BY <1>1, <1>3, <1>7, <1>9, <2>3, <2>5
<1> QED BY <1>10, <1>11, <1>12, <1>13, <1>14 DEF ServerInv

\* accept() keeps the invariant: what came before the registration is reported.
LEMMA AcceptKeeps ==
  ASSUME ServerInv, AcceptClient
  PROVE  ServerInv' /\ (Awake => Awake')
<1> DEFINE c == Head(backlog)
<1>1. /\ clients' = Append(clients, c)
      /\ state' = [state EXCEPT ![c] = "Accept"]
      /\ ready' = IF Pollable(c) THEN Wakes(c) ELSE ready
      /\ backlog' = Tail(backlog)
      /\ events' = Tail(events) /\ server' = IF Len(events) = 1 THEN "loop" ELSE "batch"
      /\ UNCHANGED <<force_quit, interrupts, channel, view, mail, peer, toServer, toClient>>
      /\ backlog # <<>> /\ Turn("listen")
  BY DEF AcceptClient, TurnDone, history
<1>2. /\ backlog \in Seq(Clients) /\ Distinct(backlog)
      /\ clients \in Seq(Clients) /\ Distinct(clients)
      /\ events \in Seq(Sockets) /\ Distinct(events) /\ events # <<>>
      /\ ready \in Seq(Sockets) /\ Distinct(ready)
      /\ Head(events) = "listen" /\ server = "batch"
  BY <1>1 DEF ServerInv, Queues, Turn
<1>3. /\ c \in ToSet(backlog) /\ c \in Clients
      /\ backlog' \in Seq(Clients) /\ Distinct(backlog')
      /\ ToSet(backlog') = ToSet(backlog) \ {c}
  BY <1>1, <1>2, TailSet
<1>4. /\ events' \in Seq(Sockets) /\ Distinct(events') /\ Len(events') = Len(events) - 1
      /\ ToSet(events') = ToSet(events) \ {"listen"}
  BY <1>1, <1>2, TailSet
<1>5. state[c] = "none"
  BY <1>3 DEF ServerInv, Accounts
<1>6. c \notin ToSet(clients)
  BY <1>3, <1>5 DEF ServerInv, Accounts, Members
<1>7. /\ clients' \in Seq(Clients) /\ Distinct(clients')
      /\ ToSet(clients') = ToSet(clients) \cup {c}
  BY <1>1, <1>2, <1>3, <1>6, AppendSet
<1>8. /\ ready' \in Seq(Sockets) /\ Distinct(ready')
      /\ ToSet(ready') \subseteq ToSet(ready) \cup {c}
      /\ ToSet(ready) \subseteq ToSet(ready')
      /\ Pollable(c) => c \in ToSet(ready')
  <2>1. c \in Sockets
    BY <1>3 DEF Sockets
  <2>2. /\ Wakes(c) \in Seq(Sockets) /\ Distinct(Wakes(c))
        /\ ToSet(Wakes(c)) = ToSet(ready) \cup {c}
    BY <2>1, WakesSet
  <2> QED BY <1>1, <1>2, <2>2
<1> HIDE DEF c
<1>9. \A d \in Clients : state'[d] = IF d = c THEN "Accept" ELSE state[d]
  BY <1>1 DEF ServerInv, Types
<1>10. Types'
  <2>1. state' \in [Clients -> {"none", "Accept", "Auth", "Open", "End"}]
    BY <1>1 DEF ServerInv, Types
  <2>2. server' \in {"loop", "blocked", "batch", "stopped", "died"}
    BY <1>1
  <2> QED BY <1>1, <2>1, <2>2 DEF ServerInv, Types
<1>11. Buffers'
  BY <1>1 DEF ServerInv, Buffers
<1>12. Queues'
  <2>1. Len(events) \in Nat \ {0} /\ Len(events) <= MaxEvents /\ MaxEvents \in Nat
    BY <1>2, ServerAssumption DEF ServerInv, Queues
  <2>2. server' = "batch" <=> events' # <<>>
    <3>1. Len(events') = 0 <=> events' = <<>>
      BY SMTT(30), <1>4
    <3>2. Len(events') = 0 <=> Len(events) = 1
      BY <1>4, <2>1
    <3> QED BY <1>1, <3>1, <3>2
  <2>3. Len(events') <= MaxEvents
    BY <1>4, <2>1
  <2> QED BY <1>3, <1>4, <1>7, <1>8, <2>2, <2>3 DEF Queues
<1>13. Accounts'
  <2>1. \A d \in Clients : d \in ToSet(clients') <=> state'[d] \in Members
    BY <1>7, <1>9 DEF ServerInv, Accounts, Members
  <2>2. \A f \in ToSet(events') \cup ToSet(ready') : f \in ToSet(clients') \cup {"listen"}
    BY <1>4, <1>7, <1>8 DEF ServerInv, Accounts
  <2>3. \A d \in Clients : peer'[d] = "away" => d \notin ToSet(backlog') /\ state'[d] = "none"
    BY <1>1, <1>3, <1>9 DEF ServerInv, Accounts
  <2>4. \A d \in ToSet(backlog') : state'[d] = "none"
    BY <1>3, <1>9, MembersAreClients DEF ServerInv, Accounts
  <2> QED BY <2>1, <2>2, <2>3, <2>4 DEF Accounts
<1>14. ASSUME Awake PROVE Awake'
  <2> SUFFICES ASSUME RecvLines >= MaxUnread, NEW d \in Clients, d \in ToSet(clients'),
                      toServer'[d] # <<>>
               PROVE  d \in ToSet(ready') \cup ToSet(events')
    BY <1>1, <1>14 DEF Awake, Ahead
  <2>1. d # "listen" /\ toServer[d] # <<>>
    BY <1>1, ServerAssumption
  <2>2. CASE d = c
    BY <1>8, <2>1, <2>2 DEF Pollable
  <2>3. CASE d # c
    <3>1. Running
      BY <1>2 DEF Running
    <3>2. d \in ToSet(ready) \cup ToSet(events)
      BY <1>7, <1>14, <2>1, <2>3, <3>1 DEF Awake
    <3> QED BY <1>4, <1>8, <2>1, <3>2
  <2> QED BY <2>2, <2>3
<1> QED BY <1>10, <1>11, <1>12, <1>13, <1>14 DEF ServerInv

\* The process dies in a handler.
LEMMA DeathKeeps ==
  ASSUME ServerInv, NEW c \in Clients, ShortLine(c) \/ Vanished(c)
  PROVE  ServerInv' /\ (Awake => Awake')
<1>1. /\ server' = "died" /\ events' = <<>>
      /\ UNCHANGED <<force_quit, interrupts, clients, state, channel, backlog, ready, peer,
                     toClient, view, mail>>
  BY DEF ShortLine, Vanished, Recv, Dies, memory, history, network
<1>2. /\ toServer' \in [Clients -> Seq(ClientLines)]
      /\ Ahead => Ahead'
  <2>1. CASE ShortLine(c)
    <3>1. Recv(c)
      BY <2>1 DEF ShortLine
    <3> QED BY <3>1, RecvTakes
  <2>2. CASE Vanished(c)
    BY <2>2 DEF Vanished, network, ServerInv, Buffers, Ahead
  <2> QED BY <2>1, <2>2
<1>3. Types'
  BY <1>1 DEF ServerInv, Types
<1>4. Buffers'
  BY <1>1, <1>2 DEF ServerInv, Buffers
<1>5. Queues'
  <2>1. MaxEvents \in Nat
    BY ServerAssumption
  <2>2. events' \in Seq(Sockets) /\ Distinct(events') /\ Len(events') <= MaxEvents
    BY <1>1, <2>1, EmptySet
  <2> QED BY <1>1, <2>2 DEF ServerInv, Queues
<1>6. Accounts'
  <2>1. ToSet(events') = {}
    BY <1>1, EmptySet
  <2> QED BY <1>1, <2>1 DEF ServerInv, Accounts
<1>7. Awake => Awake'
  BY <1>1, <1>2 DEF Awake, Running
<1> QED BY <1>3, <1>4, <1>5, <1>6, <1>7 DEF ServerInv

\* SIGINT.
LEMMA InterruptCounted ==
  ASSUME ServerInv, interrupts < MaxInterrupts, interrupts' = interrupts + 1,
         force_quit' = TRUE
  PROVE  force_quit' = (interrupts' > 0) /\ interrupts' \in 0 .. MaxInterrupts
<1>1. interrupts \in Nat /\ MaxInterrupts \in Nat
  BY ServerAssumption DEF ServerInv, Types
<1>2. interrupts' \in 0 .. MaxInterrupts /\ interrupts' > 0
  BY <1>1
<1>3. (interrupts' > 0) = TRUE
  BY <1>2
<1> QED BY <1>2, <1>3, Zenon

\* The end after SIGINT keeps the invariant.
LEMMA ShutdownKeeps ==
  ASSUME ServerInv, Shutdown
  PROVE  ServerInv' /\ (Awake => Awake')
<1> DEFINE bye == ToEach(clients, <<"BYE">>)
<1>1. /\ ready = <<>> /\ events' = <<>>
      /\ Transmit(Accepted(bye))
      /\ \/ /\ server' = "stopped" /\ clients' = <<>> /\ UNCHANGED channel
            /\ state' = [c \in Clients |-> IF Contains(clients, c) THEN "End" ELSE state[c]]
         \/ server' = "died" /\ UNCHANGED memory
      /\ UNCHANGED <<backlog, ready, peer, toServer>>
  BY DEF Shutdown
<1>2. bye \in Seq(Sends)
  <2>1. clients \in Seq(Clients) /\ Distinct(clients) /\ <<"BYE">> \in ServerLines
    BY ServerLinesTyped DEF ServerInv, Queues
  <2> QED BY <2>1, LinesOfToEach
<1>3. force_quit' = (interrupts' > 0) /\ interrupts' \in 0 .. MaxInterrupts
  BY InterruptCounted DEF Shutdown
<1>4. /\ toClient' \in [Clients -> Seq(ServerLines)]
      /\ \A d \in Clients : Len(toClient'[d]) <= SendBuffer
      /\ view' \in [Clients -> SUBSET Clients] /\ mail' \in [Clients -> Nat]
  <2> HIDE DEF bye
  <2> QED BY <1>1, <1>2, TransmitKeeps
<1> HIDE DEF bye
<1>5. /\ state' \in [Clients -> {"none", "Accept", "Auth", "Open", "End"}]
      /\ channel' \in [Clients -> Channels]
      /\ clients' \in Seq(Clients) /\ Distinct(clients')
      /\ \A c \in Clients : c \in ToSet(clients') <=> state'[c] \in Members
      /\ \A c \in Clients : state[c] = "none" => state'[c] = "none"
      /\ server' \in {"stopped", "died"}
  <2>1. /\ state \in [Clients -> {"none", "Accept", "Auth", "Open", "End"}]
        /\ channel \in [Clients -> Channels]
        /\ clients \in Seq(Clients) /\ Distinct(clients)
        /\ \A c \in Clients : c \in ToSet(clients) <=> state[c] \in Members
    BY DEF ServerInv, Types, Queues, Accounts
  <2>2. CASE server' = "died" /\ UNCHANGED memory
    BY <2>1, <2>2 DEF memory
  <2>3. CASE /\ server' = "stopped" /\ clients' = <<>> /\ UNCHANGED channel
             /\ state' = [c \in Clients |-> IF Contains(clients, c) THEN "End" ELSE state[c]]
    <3>1. \A c \in Clients : Contains(clients, c) <=> state[c] \in Members
      BY <2>1, ContainsElement
    <3>2. \A c \in Clients : state'[c] = IF state[c] \in Members THEN "End" ELSE state[c]
      BY <2>3, <3>1
    <3>3. state' \in [Clients -> {"none", "Accept", "Auth", "Open", "End"}]
      BY <2>1, <2>3
    <3>4. clients' \in Seq(Clients) /\ Distinct(clients') /\ ToSet(clients') = {}
      BY <2>3, EmptySet
    <3>5. \A c \in Clients : state'[c] \notin Members
      BY <3>2 DEF Members
    <3>6. \A c \in Clients : state[c] = "none" => state'[c] = "none"
      BY <3>2 DEF Members
    <3> QED BY <2>1, <2>3, <3>3, <3>4, <3>5, <3>6
  <2> QED BY <1>1, <2>2, <2>3
<1>6. Types'
  <2>1. peer' \in [Clients -> {"away", "connected", "closed", "reset"}]
    BY <1>1 DEF ServerInv, Types
  <2>2. server' \in {"loop", "blocked", "batch", "stopped", "died"}
    BY <1>5
  <2> QED BY <1>3, <1>4, <1>5, <2>1, <2>2, Zenon DEF Types
<1>7. Buffers'
  BY <1>1, <1>4 DEF ServerInv, Buffers
<1>8. Queues'
  <2>1. MaxEvents \in Nat
    BY ServerAssumption
  <2>2. events' \in Seq(Sockets) /\ Distinct(events') /\ Len(events') <= MaxEvents
    BY <1>1, <2>1, EmptySet
  <2> QED BY <1>1, <1>5, <2>2 DEF ServerInv, Queues
<1>9. Accounts'
  <2>1. ToSet(events') = {} /\ ToSet(ready') = {}
    BY <1>1, EmptySet
  <2> QED BY <1>1, <1>5, <2>1, MembersAreClients DEF ServerInv, Accounts
<1>10. Awake => Awake'
  BY <1>1, <1>5 DEF Awake, Ahead, Running
<1> QED BY <1>6, <1>7, <1>8, <1>9, <1>10 DEF ServerInv

\* A SIGINT that only sets the flag keeps the invariant.
LEMMA FlagOnlyKeeps ==
  ASSUME ServerInv, FlagOnly
  PROVE  ServerInv' /\ (Awake => Awake')
<1>1. UNCHANGED <<server, events, clients, state, channel, backlog, ready, peer, toServer,
                  toClient, view, mail>>
  BY DEF FlagOnly, memory, network, history
<1>2. force_quit' = (interrupts' > 0) /\ interrupts' \in 0 .. MaxInterrupts
  BY InterruptCounted DEF FlagOnly
<1>3. Types'
  <2>1. /\ server' \in {"loop", "blocked", "batch", "stopped", "died"}
        /\ state' \in [Clients -> {"none", "Accept", "Auth", "Open", "End"}]
        /\ channel' \in [Clients -> Channels]
        /\ peer' \in [Clients -> {"away", "connected", "closed", "reset"}]
        /\ view' \in [Clients -> SUBSET Clients] /\ mail' \in [Clients -> Nat]
    BY <1>1 DEF ServerInv, Types
  <2> QED BY <1>2, <2>1, Zenon DEF Types
<1>4. Buffers' /\ Queues' /\ Accounts'
  BY <1>1 DEF ServerInv, Buffers, Queues, Accounts
<1>5. Awake => Awake'
  BY <1>1 DEF Awake, Ahead, Running
<1> QED BY <1>3, <1>4, <1>5 DEF ServerInv

\* The other ends of the connections.  A socket that is reported is in the vector.
LEMMA PeersKeep ==
  ASSUME ServerInv, NEW c \in Clients, AnyClient(c)
  PROVE  ServerInv' /\ (Awake => Awake')
<1>1. /\ UNCHANGED <<server, events, force_quit, interrupts, clients, state, channel, view, mail>>
  BY DEF AnyClient, Connect, ReadLines, CloseSocket, PeerReset, SendLine, process, memory, history
<1>2. /\ ready \in Seq(Sockets) /\ Distinct(ready)
      /\ backlog \in Seq(Clients) /\ Distinct(backlog)
      /\ peer \in [Clients -> {"away", "connected", "closed", "reset"}]
  BY DEF ServerInv, Queues, Types
<1>3. /\ Wakes(c) \in Seq(Sockets) /\ Distinct(Wakes(c))
      /\ ToSet(Wakes(c)) = ToSet(ready) \cup {c}
      /\ Wakes("listen") \in Seq(Sockets) /\ Distinct(Wakes("listen"))
      /\ ToSet(Wakes("listen")) = ToSet(ready) \cup {"listen"}
  BY WakesSet DEF Sockets
<1>4. Registered(c) <=> c \in ToSet(clients)
  BY MembersAreClients
<1>5. /\ ready' \in Seq(Sockets) /\ Distinct(ready')
      /\ ToSet(ready) \subseteq ToSet(ready')
      /\ \A f \in ToSet(ready') : f \in ToSet(ready) \cup ToSet(clients) \cup {"listen"}
  BY <1>2, <1>3, <1>4 DEF AnyClient, Connect, ReadLines, CloseSocket, PeerReset, SendLine
<1>6. /\ peer' \in [Clients -> {"away", "connected", "closed", "reset"}]
      /\ \A d \in Clients : peer'[d] = "away" => peer[d] = "away" /\ d \notin ToSet(backlog')
      /\ backlog' \in Seq(Clients) /\ Distinct(backlog')
      /\ \A d \in ToSet(backlog') : d \in ToSet(backlog) \/ (d = c /\ peer[c] = "away")
  <2>1. CASE Connect(c)
    <3>1. /\ peer[c] = "away" /\ peer' = [peer EXCEPT ![c] = "connected"]
          /\ backlog' = Append(backlog, c)
      BY <2>1 DEF Connect
    <3>2. c \notin ToSet(backlog)
      BY <3>1 DEF ServerInv, Accounts
    <3>3. /\ backlog' \in Seq(Clients) /\ Distinct(backlog')
          /\ ToSet(backlog') = ToSet(backlog) \cup {c}
      BY <1>2, <3>1, <3>2, AppendSet
    <3>4. \A d \in Clients : peer'[d] = IF d = c THEN "connected" ELSE peer[d]
      BY <1>2, <3>1
    <3>5. peer' \in [Clients -> {"away", "connected", "closed", "reset"}]
      BY <1>2, <3>1
    <3> QED BY <3>1, <3>3, <3>4, <3>5 DEF ServerInv, Accounts
  <2>2. CASE CloseSocket(c) \/ PeerReset(c)
    <3>1. /\ \E p \in {"closed", "reset"} : peer' = [peer EXCEPT ![c] = p]
          /\ backlog' = backlog
      BY <2>2 DEF CloseSocket, PeerReset
    <3>2. PICK p \in {"closed", "reset"} : peer' = [peer EXCEPT ![c] = p]
      BY <3>1
    <3>3. \A d \in Clients : peer'[d] = IF d = c THEN p ELSE peer[d]
      BY <1>2, <3>2
    <3>4. peer' \in [Clients -> {"away", "connected", "closed", "reset"}]
      BY <1>2, <3>2
    <3> QED BY <1>2, <3>1, <3>3, <3>4 DEF ServerInv, Accounts
  <2>3. CASE ReadLines(c) \/ \E line \in Lines : SendLine(c, line)
    <3>1. UNCHANGED <<peer, backlog>>
      BY <2>3 DEF ReadLines, SendLine
    <3> QED BY <1>2, <3>1 DEF ServerInv, Accounts
  <2> QED BY <2>1, <2>2, <2>3 DEF AnyClient
<1>7. Types'
  BY <1>1, <1>6 DEF ServerInv, Types
<1>8. /\ toServer' \in [Clients -> Seq(ClientLines)]
      /\ Ahead => Ahead'
      /\ RecvLines >= MaxUnread =>
           \A d \in Clients : \/ toServer'[d] = toServer[d]
                              \/ d \in ToSet(clients) => d \in ToSet(ready')
  <2>1. toServer \in [Clients -> Seq(ClientLines)]
    BY DEF ServerInv, Buffers
  <2>2. CASE \E line \in Lines : SendLine(c, line)
    <3>1. PICK line \in Lines : SendLine(c, line)
      BY <2>2
    <3>2. /\ toServer' = [toServer EXCEPT ![c] = Append(@, line)]
          /\ Len(toServer[c]) < MaxUnread
          /\ ready' = IF Registered(c) THEN Wakes(c) ELSE ready
      BY <3>1 DEF SendLine
    <3>3. line \in ClientLines /\ MaxUnread \in Nat
      BY LinesAssumption, ServerAssumption
    <3>4. /\ Append(toServer[c], line) \in Seq(ClientLines)
          /\ Len(Append(toServer[c], line)) = Len(toServer[c]) + 1
          /\ Len(toServer[c]) \in Nat
      BY <2>1, <3>3
    <3>5. \A d \in Clients :
            toServer'[d] = IF d = c THEN Append(toServer[c], line) ELSE toServer[d]
      BY <2>1, <3>2
    <3>6. toServer' \in [Clients -> Seq(ClientLines)]
      BY <2>1, <3>2, <3>4
    <3>7. c \in ToSet(clients) => c \in ToSet(ready')
      BY <1>3, <1>4, <3>2
    <3>8. Ahead => Ahead'
      BY <3>2, <3>3, <3>4, <3>5 DEF Ahead
    <3> QED BY <3>5, <3>6, <3>7, <3>8
  <2>3. CASE Connect(c) \/ ReadLines(c) \/ CloseSocket(c) \/ PeerReset(c)
    <3>1. toServer' = toServer
      BY <2>3 DEF Connect, ReadLines, CloseSocket, PeerReset
    <3> QED BY <2>1, <3>1 DEF Ahead
  <2> QED BY <2>2, <2>3 DEF AnyClient
<1>9. /\ toClient' \in [Clients -> Seq(ServerLines)]
      /\ \A d \in Clients : Len(toClient'[d]) <= SendBuffer
  <2>1. toClient \in [Clients -> Seq(ServerLines)] /\ \A d \in Clients : Len(toClient[d]) <= SendBuffer
    BY DEF ServerInv, Buffers
  <2>2. CASE ReadLines(c)
    <3>1. toClient' = [toClient EXCEPT ![c] = <<>>]
      BY <2>2 DEF ReadLines
    <3>2. SendBuffer \in Nat /\ <<>> \in Seq(ServerLines) /\ Len(<<>>) = 0
      BY ServerAssumption
    <3>3. \A d \in Clients : toClient'[d] = IF d = c THEN <<>> ELSE toClient[d]
      BY <2>1, <3>1
    <3>4. toClient' \in [Clients -> Seq(ServerLines)]
      BY <2>1, <3>1, <3>2
    <3> QED BY <2>1, <3>2, <3>3, <3>4
  <2>3. CASE Connect(c) \/ CloseSocket(c) \/ PeerReset(c) \/ \E line \in Lines : SendLine(c, line)
    <3>1. toClient' = toClient
      BY <2>3 DEF Connect, CloseSocket, PeerReset, SendLine
    <3> QED BY <2>1, <3>1
  <2> QED BY <2>2, <2>3 DEF AnyClient
<1>10. Buffers'
  BY <1>8, <1>9 DEF Buffers
<1>11. Queues'
  BY <1>1, <1>5, <1>6 DEF ServerInv, Queues
<1>12. Accounts'
  BY <1>1, <1>5, <1>6, MembersAreClients DEF ServerInv, Accounts
<1>13. Awake => Awake'
  <2> SUFFICES ASSUME Awake, RecvLines >= MaxUnread, NEW d \in Clients, d \in ToSet(clients'),
                      Running', toServer'[d] # <<>>
               PROVE  d \in ToSet(ready') \cup ToSet(events')
    BY <1>8 DEF Awake
  <2>1. Running /\ d \in ToSet(clients)
    BY <1>1 DEF Running
  <2>2. CASE toServer'[d] = toServer[d]
    <3>1. d \in ToSet(ready) \cup ToSet(events)
      BY <2>1, <2>2 DEF Awake
    <3> QED BY <1>1, <1>5, <3>1
  <2> QED BY <1>8, <2>1, <2>2
<1> QED BY <1>7, <1>10, <1>11, <1>12, <1>13 DEF ServerInv

-----------------------------------------------------------------------------
(* The specification.                                                      *)

\* A step of the server, of a client or of SIGINT keeps the invariant and leaves
\* nothing lying.
LEMMA StepKeeps ==
  ASSUME ServerInv, [Next]_serverVars
  PROVE  ServerInv' /\ (Awake => Awake')
<1>1. CASE EpollWait
  BY <1>1, EpollWaitKeeps
<1>2. CASE AcceptClient
  BY <1>2, AcceptKeeps
<1>3. ASSUME NEW c \in Clients, ServerTurn(c)
      PROVE  ServerInv' /\ (Awake => Awake')
  <2>1. CASE ShortLine(c) \/ Vanished(c)
    BY <2>1, DeathKeeps
  <2>2. CASE ~ShortLine(c) /\ ~Vanished(c)
    BY <1>3, <2>2, HandlersAreGood, HandledKeeps
  <2> QED BY <2>1, <2>2
<1>4. CASE Shutdown
  BY <1>4, ShutdownKeeps
<1>5. CASE FlagOnly
  BY <1>5, FlagOnlyKeeps
<1>6. ASSUME NEW c \in Clients, AnyClient(c)
      PROVE  ServerInv' /\ (Awake => Awake')
  BY <1>6, PeersKeep
<1>7. CASE UNCHANGED serverVars
  <2>1. UNCHANGED <<server, events, force_quit, interrupts, clients, state, channel,
                    backlog, ready, peer, toServer, toClient, view, mail>>
    BY <1>7 DEF serverVars, process, memory, network, history
  <2>2. Types' /\ Buffers'
    BY <2>1 DEF ServerInv, Types, Buffers
  <2>3. Queues'
    BY <2>1 DEF ServerInv, Queues
  <2>4. Accounts'
    BY <2>1 DEF ServerInv, Accounts
  <2>5. Awake => Awake'
    BY <2>1 DEF Awake, Ahead, Running
  <2> QED BY <2>2, <2>3, <2>4, <2>5 DEF ServerInv
<1> QED BY <1>1, <1>2, <1>3, <1>4, <1>5, <1>6, <1>7 DEF Next, Server

\* The invariant of the server holds in every reachable state.
THEOREM ServerInvariant == Spec => []ServerInv
<1>1. ServerInit => ServerInv
  BY ServerInitial
<1>2. ServerInv /\ [Next]_serverVars => ServerInv'
  BY StepKeeps
<1> QED BY <1>1, <1>2, PTL DEF Spec

\* Initially nobody has sent a line.
LEMMA AwakeInitial == ServerInit => Awake
<1> SUFFICES ASSUME ServerInit PROVE Awake
  OBVIOUS
<1>1. \A c \in Clients : toServer[c] = <<>> /\ Len(toServer[c]) = 0
  BY DEF ServerInit
<1>2. MaxUnread \in Nat
  BY ServerAssumption
<1> QED BY <1>1, <1>2 DEF Awake, Ahead

\* With clients that keep within MaxUnread nothing is left lying.
LEMMA AwakeInvariant == Spec => []Awake
<1>1. ServerInv /\ Awake /\ [Next]_serverVars => Awake'
  BY StepKeeps
<1> QED BY <1>1, AwakeInitial, ServerInvariant, PTL DEF Spec

\* A sequence over S holds elements of S.
LEMMA ElementsOf ==
  ASSUME NEW S, NEW s \in Seq(S)
  PROVE  ToSet(s) \subseteq S
BY DEF ToSet

\* The variables keep their ranges, the loop over events[] ends exactly when it has
\* handled its last event, and no socket holds more than its buffer.
THEOREM TypeCorrect == Spec => []TypeOK
<1>1. ServerInv /\ Awake => TypeOK
  <2> SUFFICES ASSUME ServerInv, Awake PROVE TypeOK
    OBVIOUS
  <2>1. /\ (server = "batch") = (events # <<>>)
        /\ Len(events) <= MaxEvents
        /\ ToSet(events) \cup ToSet(ready) \subseteq Clients \cup {"listen"}
    <3>1. events \in Seq(Sockets) /\ ready \in Seq(Sockets)
      BY DEF ServerInv, Queues
    <3>2. ToSet(events) \subseteq Sockets /\ ToSet(ready) \subseteq Sockets
      BY <3>1, ElementsOf
    <3> QED BY <3>2 DEF ServerInv, Queues, Sockets
  <2>2. \A c \in Clients :
          /\ ToSet(toServer[c]) \subseteq ClientLines /\ Len(toServer[c]) <= MaxUnread
          /\ ToSet(toClient[c]) \subseteq ServerLines /\ Len(toClient[c]) <= SendBuffer
    <3>1. ASSUME NEW c \in Clients
          PROVE  toServer[c] \in Seq(ClientLines) /\ toClient[c] \in Seq(ServerLines)
      BY DEF ServerInv, Buffers
    <3>2. ASSUME NEW c \in Clients
          PROVE  ToSet(toServer[c]) \subseteq ClientLines /\ ToSet(toClient[c]) \subseteq ServerLines
      BY <3>1, ElementsOf
    <3> QED BY <3>2 DEF ServerInv, Buffers, Awake, Ahead
  <2>3. interrupts <= MaxInterrupts
    BY ServerAssumption DEF ServerInv, Types
  <2> QED BY <2>1, <2>2, <2>3, Zenon DEF ServerInv, Types, TypeOK
<1> QED BY <1>1, ServerInvariant, AwakeInvariant, PTL

\* The socket of every event the loop still has to handle belongs to a client of the
\* vector, which holds each client that has been accepted and has not left, once.
THEOREM BatchIsRegistered == Spec => []BatchRegistered
<1>1. ServerInv => BatchRegistered
  <2> SUFFICES ASSUME ServerInv PROVE BatchRegistered
    OBVIOUS
  <2>1. \A c : Registered(c) <=> c \in ToSet(clients)
    BY MembersAreClients
  <2>2. \A f \in ToSet(events) \ {"listen"} : Registered(f)
    BY <2>1 DEF ServerInv, Accounts
  <2>3. \A c \in Clients : Registered(c) <=> state[c] \in {"Accept", "Auth", "Open"}
    BY <2>1 DEF ServerInv, Accounts, Members
  <2>4. \A i, j \in DOMAIN clients : clients[i] = clients[j] => i = j
    BY DEF ServerInv, Queues, Distinct
  <2> QED BY <2>2, <2>3, <2>4, Zenon DEF BatchRegistered
<1> QED BY <1>1, ServerInvariant, PTL

\* A line that has arrived on the socket of a client is never forgotten, as long as
\* what a client sends ahead fits into one recv(): edge-triggered epoll reports the
\* socket again, or the loop still has its event to handle.
THEOREM NoWakeupLost == Spec => []NoLostWakeup
<1>1. ServerInv /\ Awake => NoLostWakeup
  <2> SUFFICES ASSUME ServerInv, Awake PROVE NoLostWakeup
    OBVIOUS
  <2>1. /\ \A f : Contains(ready, f) <=> f \in ToSet(ready)
        /\ \A f : Contains(events, f) <=> f \in ToSet(events)
    <3>1. ready \in Seq(Sockets) /\ events \in Seq(Sockets)
      BY DEF ServerInv, Queues
    <3> QED BY <3>1, ContainsElement
  <2>2. \A c : Registered(c) <=> c \in ToSet(clients)
    BY MembersAreClients
  <2> QED BY <2>1, <2>2, Zenon DEF Awake, NoLostWakeup
<1> QED BY <1>1, ServerInvariant, AwakeInvariant, PTL

-----------------------------------------------------------------------------
(* The chat rooms.  What a handler sends makes its step a step of a room.  *)

\* Who is not logged in yet is in the default channel.
Newcomers ==
  \A c \in Clients : state[c] \in {"none", "Accept", "Auth"} => channel[c] = Default

Delivered(sends) ==
  /\ view' = [d \in Clients |-> Reads(d, view[d], LinesTo(d, sends))]
  /\ mail' = [d \in Clients |-> mail[d] + Messages(LinesTo(d, sends))]

\* A handler ends the server, or all it sends arrives and it leaves what it computed.
LEMMA HandleDone ==
  ASSUME NEW c \in Clients, Turn(c),
         NEW sends, NEW newState, NEW newChannel, NEW newClients,
         Handle(sends, newState, newChannel, newClients)
  PROVE  \/ ~Running' /\ UNCHANGED memory
         \/ /\ Running /\ Running' /\ Delivered(sends)
            /\ state' = newState /\ channel' = newChannel
<1>1. CASE Dies /\ UNCHANGED memory
  BY <1>1 DEF Dies, Running
<1>2. CASE /\ Accepted(sends) = sends
           /\ TurnDone
           /\ state' = newState /\ channel' = newChannel
  <2>1. Transmit(sends)
    BY <1>2, HandleEffect
  <2>2. Delivered(sends)
    <3> DEFINE out == [d \in Clients |-> LinesTo(d, sends)]
    <3>1. /\ view' = [d \in Clients |-> Reads(d, view[d], out[d])]
          /\ mail' = [d \in Clients |-> mail[d] + Messages(out[d])]
      BY <2>1 DEF Transmit
    <3>2. \A d \in Clients : out[d] = LinesTo(d, sends)
      OBVIOUS
    <3> HIDE DEF out
    <3> QED BY <3>1, <3>2 DEF Delivered
  <2>3. Running /\ Running'
    BY <1>2 DEF Turn, TurnDone, Running
  <2> QED BY <1>2, <2>2, <2>3
<1> QED BY <1>1, <1>2, HandleEffect

\* In which room a client is, before and after a step.
LEMMA RoomOf ==
  /\ \A d \in Clients :
       room[d] = IF Running /\ state[d] = "Open" THEN channel[d] ELSE Outside
  /\ \A d \in Clients :
       room'[d] = IF Running' /\ state'[d] = "Open" THEN channel'[d] ELSE Outside
  /\ room = [d \in Clients |-> room[d]] /\ room' = [d \in Clients |-> room'[d]]
BY DEF room

\* Up to two lines.
LEMMA ShortReads ==
  \A d \in Clients, known \in SUBSET Clients, a \in ServerLines, b \in ServerLines :
    /\ Reads(d, known, <<>>) = known
    /\ Reads(d, known, <<a>>) = Tells(d, known, a)
    /\ Reads(d, known, <<a, b>>) = Tells(d, Tells(d, known, a), b)
<1>1. \A d \in Clients, known \in SUBSET Clients : Reads(d, known, <<>>) = known
  <2>1. <<>> \in Seq(ServerLines)
    OBVIOUS
  <2>2. \A i \in 1 .. Len(<<>>) : <<>>[i][1] \notin {"JOINED", "LEFT"}
    OBVIOUS
  <2> DEFINE none == <<>>
  <2> HIDE DEF none
  <2>3. /\ none \in Seq(ServerLines)
        /\ \A i \in 1 .. Len(none) : none[i][1] \notin {"JOINED", "LEFT"}
    BY <2>1, <2>2 DEF none
  <2>4. \A d \in Clients, known \in SUBSET Clients : Reads(d, known, none) = known
    BY <2>3, ReadsNothing
  <2> QED BY <2>4 DEF none
<1>2. \A d \in Clients, known \in SUBSET Clients, a \in ServerLines :
        Reads(d, known, <<a>>) = Tells(d, known, a)
  BY ReadsOne
<1>3. \A d \in Clients, known \in SUBSET Clients, a \in ServerLines, b \in ServerLines :
        Reads(d, known, <<a, b>>) = Tells(d, Tells(d, known, a), b)
  BY ReadsTwo
<1> TAKE d \in Clients, known \in SUBSET Clients, a \in ServerLines, b \in ServerLines
<1>4. Reads(d, known, <<>>) = known
  BY <1>1, Zenon
<1>5. Reads(d, known, <<a>>) = Tells(d, known, a)
  BY <1>2, Zenon
<1>6. Reads(d, known, <<a, b>>) = Tells(d, Tells(d, known, a), b)
  BY <1>3, Zenon
<1> QED BY <1>4, <1>5, <1>6, Zenon

\* Sequences of up to two lines.
LEMMA ShortLines ==
  ASSUME NEW a \in ServerLines, NEW b \in ServerLines
  PROVE  /\ <<>> \in Seq(ServerLines) /\ <<a>> \in Seq(ServerLines)
         /\ <<b>> \in Seq(ServerLines) /\ <<a, b>> \in Seq(ServerLines)
         /\ <<>> \o <<>> = <<>> /\ <<a>> \o <<>> = <<a>> /\ <<>> \o <<b>> = <<b>>
         /\ <<a>> \o <<b>> = <<a, b>>
<1>1. <<>> \in Seq(ServerLines) /\ <<a>> \in Seq(ServerLines) /\ <<b>> \in Seq(ServerLines)
  OBVIOUS
<1>2. <<a, b>> \in Seq(ServerLines)
  OBVIOUS
<1>3. <<>> \o <<>> = <<>>
  OBVIOUS
<1>4. \A l \in Seq(ServerLines) : l \o <<>> = l /\ <<>> \o l = l
  OBVIOUS
<1>5. <<a>> \o <<b>> = <<a, b>>
  <2> DEFINE s == <<a>> \o <<b>>
             t == <<a, b>>
  <2>1. s \in Seq(ServerLines) /\ Len(s) = 2 /\ s[1] = a /\ s[2] = b
    OBVIOUS
  <2>2. t \in Seq(ServerLines) /\ Len(t) = 2 /\ t[1] = a /\ t[2] = b
    OBVIOUS
  <2> HIDE DEF s, t
  <2>3. \A i \in 1 .. 2 : s[i] = t[i]
    BY <2>1, <2>2
  <2>4. s = t
    BY <2>1, <2>2, <2>3
  <2> QED BY <2>4 DEF s, t
<1> QED BY <1>1, <1>2, <1>3, <1>4, <1>5

ReadsBoth(d, known, p, a, q, b) ==
  LET lines == Line(p, a) \o Line(q, b)
      first == IF p THEN Tells(d, known, a) ELSE known
  IN /\ lines \in Seq(ServerLines)
     /\ Reads(d, known, lines) = IF q THEN Tells(d, first, b) ELSE first
     /\ a[1] # "SAID" /\ b[1] # "SAID" => Messages(lines) = 0

\* What two lines tell that are each sent or not.
LEMMA TwoLines ==
  \A a \in ServerLines, b \in ServerLines, d \in Clients, known \in SUBSET Clients :
    \A p \in BOOLEAN, q \in BOOLEAN :
      ReadsBoth(d, known, p, a, q, b)
<1>1. \A lines \in Seq(ServerLines) :
        (\A i \in 1 .. Len(lines) : lines[i][1] # "SAID") => Messages(lines) = 0
  BY MessagesNone
<1>2. ASSUME NEW a \in ServerLines, NEW b \in ServerLines, a[1] # "SAID", b[1] # "SAID"
      PROVE  /\ Messages(<<>>) = 0 /\ Messages(<<a>>) = 0 /\ Messages(<<b>>) = 0
             /\ Messages(<<a, b>>) = 0
  <2>1. /\ \A i \in 1 .. Len(<<>>) : <<>>[i][1] # "SAID"
        /\ \A i \in 1 .. Len(<<a>>) : <<a>>[i][1] # "SAID"
        /\ \A i \in 1 .. Len(<<b>>) : <<b>>[i][1] # "SAID"
    BY <1>2
  <2>2. \A i \in 1 .. Len(<<a, b>>) : <<a, b>>[i][1] # "SAID"
    BY <1>2
  <2> QED BY <1>1, <2>1, <2>2, ShortLines
<1> SUFFICES ASSUME NEW a \in ServerLines, NEW b \in ServerLines, NEW d \in Clients,
                    NEW known \in SUBSET Clients, NEW p \in BOOLEAN, NEW q \in BOOLEAN
             PROVE  ReadsBoth(d, known, p, a, q, b)
  BY Zenon
<1>3. Line(p, a) \o Line(q, b)
        = IF p THEN IF q THEN <<a, b>> ELSE <<a>> ELSE IF q THEN <<b>> ELSE <<>>
  BY ShortLines DEF Line
<1>4. /\ <<>> \in Seq(ServerLines) /\ <<a>> \in Seq(ServerLines)
      /\ <<b>> \in Seq(ServerLines) /\ <<a, b>> \in Seq(ServerLines)
  BY ShortLines
<1>5. /\ Reads(d, known, <<>>) = known
      /\ Reads(d, known, <<a>>) = Tells(d, known, a)
      /\ Reads(d, known, <<b>>) = Tells(d, known, b)
      /\ Reads(d, known, <<a, b>>) = Tells(d, Tells(d, known, a), b)
  BY ZenonT(30), ShortReads
<1>6. CASE p /\ q
  BY <1>2, <1>3, <1>4, <1>5, <1>6, Zenon DEF ReadsBoth
<1>7. CASE p /\ ~q
  BY <1>2, <1>3, <1>4, <1>5, <1>7, Zenon DEF ReadsBoth
<1>8. CASE ~p /\ q
  BY <1>2, <1>3, <1>4, <1>5, <1>8, Zenon DEF ReadsBoth
<1>9. CASE ~p /\ ~q
  BY <1>2, <1>3, <1>4, <1>5, <1>9, Zenon DEF ReadsBoth
<1> QED BY <1>6, <1>7, <1>8, <1>9, Zenon

\* A step that moves c to channel r and tells what Go tells of it.
LEMMA GoStep ==
  ASSUME ServerInv, NEW c \in Clients, NEW r, NEW sends, Delivered(sends),
         \A d \in Clients : room'[d] = IF d = c THEN r ELSE room[d],
         \A d \in Clients :
           /\ Reads(d, view[d], LinesTo(d, sends)) = Rooms!Told(c, r)[d]
           /\ Messages(LinesTo(d, sends)) = 0
  PROVE  Rooms!Go(c, r)
<1>1. room' = [room EXCEPT ![c] = r]
  BY RoomOf
<1>2. view' = Rooms!Told(c, r)
  BY DEF Delivered, Rooms!Told
<1>3. mail' = mail
  <2>1. mail \in [Clients -> Nat]
    BY DEF ServerInv, Types
  <2>2. \A d \in Clients : mail[d] + Messages(LinesTo(d, sends)) = mail[d]
    BY <2>1
  <2>3. mail' = [d \in Clients |-> mail[d]]
    BY <2>2 DEF Delivered
  <2> QED BY <2>1, <2>3
<1> QED BY <1>1, <1>2, <1>3 DEF Rooms!Go

\* AUTH: in.
LEMMA AuthenticateEnters ==
  ASSUME ServerInv, Newcomers, NEW c \in Clients, Authenticate(c), Running'
  PROVE  Rooms!Enter(c)
<1> DEFINE A == Audience(OpenedBy(c), channel, Default)
<1>1. /\ Turn(c) /\ state[c] \in {"Accept", "Auth"} /\ channel[c] = Default
      /\ c \in ToSet(clients)
  BY TurnOfMember DEF Authenticate, Recv, Newcomers
<1>2. Handle(AuthSends(c), OpenedBy(c), channel, clients)
  BY DEF Authenticate, AuthSends, OpenedBy
<1>3. /\ Running /\ Delivered(AuthSends(c)) /\ state' = OpenedBy(c) /\ channel' = channel
  BY <1>1, <1>2, HandleDone
<1>4. /\ \A d \in Clients : OpenedBy(c)[d] = IF d = c THEN "Open" ELSE state[d]
      /\ Default \in Channels /\ Default # Outside
  BY ServerAssumption DEF ServerInv, Types, OpenedBy
<1>5. room[c] = Outside /\ \A d \in Clients : room'[d] = IF d = c THEN Default ELSE room[d]
  BY <1>1, <1>3, <1>4, RoomOf
<1>6. \A d \in Clients : d \in ToSet(A) <=> d = c \/ room[d] = Default
  <2>1. \A d \in Clients :
          d \in ToSet(A) <=> d \in ToSet(clients) /\ OpenedBy(c)[d] = "Open" /\ channel[d] = Default
    BY AudienceSet
  <2>2. \A d \in Clients : state[d] = "Open" => d \in ToSet(clients)
    BY DEF ServerInv, Accounts, Members
  <2> QED BY <1>1, <1>3, <1>4, <2>1, <2>2, RoomOf
<1>7. ASSUME NEW d \in Clients
      PROVE  /\ Reads(d, view[d], LinesTo(d, AuthSends(c))) = Rooms!Told(c, Default)[d]
             /\ Messages(LinesTo(d, AuthSends(c))) = 0
  <2> DEFINE a == <<"REPLY", "OK">>
             b == <<"JOINED", c>>
  <2>1. LinesTo(d, AuthSends(c)) = Line(d = c, a) \o Line(d \in ToSet(A), b)
    BY AuthLines
  <2>2. /\ a \in ServerLines /\ b \in ServerLines /\ a[1] = "REPLY"
        /\ b[1] = "JOINED" /\ b[2] = c /\ view[d] \in SUBSET Clients
    BY ServerLinesTyped DEF ServerInv, Types
  <2>3. /\ Tells(d, view[d], a) = view[d]
        /\ Tells(d, view[d], b) = IF d = c THEN {c} ELSE view[d] \cup {c}
    BY <2>2 DEF Tells
  <2> DEFINE p == d = c
             q == d \in ToSet(A)
  <2> HIDE DEF a, b, A
  <2>4. /\ Reads(d, view[d], Line(p, a) \o Line(q, b))
             = LET first == IF p THEN Tells(d, view[d], a) ELSE view[d]
               IN IF q THEN Tells(d, first, b) ELSE first
        /\ Messages(Line(p, a) \o Line(q, b)) = 0
    <3>1. p \in BOOLEAN /\ q \in BOOLEAN /\ a[1] # "SAID" /\ b[1] # "SAID"
      BY <2>2
    <3> HIDE DEF p, q
    <3>2. ReadsBoth(d, view[d], p, a, q, b)
      BY <2>2, <3>1, TwoLines, Zenon
    <3> QED BY <3>1, <3>2 DEF ReadsBoth
  <2>5. Rooms!Told(c, Default)[d]
          = IF d = c THEN {c} ELSE IF room[d] = Default THEN view[d] \cup {c} ELSE view[d]
    BY <1>4, <1>5 DEF Rooms!Told
  <2> QED BY <1>6, <2>1, <2>3, <2>4, <2>5
<1>8. Rooms!Go(c, Default)
  BY <1>3, <1>5, <1>7, GoStep
<1> QED BY <1>5, <1>8 DEF Rooms!Enter

\* JOIN: from one channel into another.
LEMMA JoinMoves ==
  ASSUME ServerInv, NEW c \in Clients, JoinChannel(c), Running'
  PROVE  \E r \in Channels : Rooms!Move(c, r)
<1> DEFINE r == First(c)[2]
           A == Audience(state, MovedTo(c, r), r)
           O == Others(c)
<1>1. /\ Turn(c) /\ state[c] = "Open" /\ c \in ToSet(clients) /\ Recv(c)
  BY TurnOfMember DEF JoinChannel, Recv
<1>2. Handle(JoinSends(c, r), state, MovedTo(c, r), clients)
  BY DEF JoinChannel, JoinSends, MovedTo
<1>3. r \in Channels /\ r # Outside
  <2>1. First(c) \in ClientLines /\ First(c)[1] = "JOIN"
    BY <1>1, RecvTakes DEF JoinChannel
  <2>2. First(c) \in {"JOIN"} \X Channels
    BY <2>1 DEF ClientLines
  <2> QED BY <2>2, ServerAssumption
<1> HIDE DEF r, A, O
<1>4. ASSUME NEW d
       PROVE  LinesTo(d, JoinSends(c, r))
                = (Line(d = c, <<"REPLY", "OK">>) \o Line(d \in ToSet(O), <<"LEFT", c>>))
                    \o Line(d \in ToSet(A), <<"JOINED", c>>)
  <2>1. JoinTells(c, r, d)
    BY JoinLines
  <2> QED BY <2>1 DEF JoinTells, A, O
<1>5. /\ Running /\ Delivered(JoinSends(c, r)) /\ state' = state /\ channel' = MovedTo(c, r)
  BY <1>1, <1>2, HandleDone
<1>6. /\ \A d \in Clients : MovedTo(c, r)[d] = IF d = c THEN r ELSE channel[d]
      /\ \A d \in Clients : channel[d] # Outside
  BY ServerAssumption DEF ServerInv, Types, MovedTo
<1>7. room[c] # Outside /\ \A d \in Clients : room'[d] = IF d = c THEN r ELSE room[d]
  BY <1>1, <1>5, <1>6, RoomOf
<1>8. \A d \in Clients : state[d] = "Open" => d \in ToSet(clients)
  BY DEF ServerInv, Accounts, Members
<1>9. \A d \in Clients : d \in ToSet(A) <=> d = c \/ room[d] = r
  <2>1. \A d \in Clients :
          d \in ToSet(A) <=> d \in ToSet(clients) /\ state[d] = "Open" /\ MovedTo(c, r)[d] = r
    BY AudienceSet DEF A
  <2> QED BY <1>1, <1>3, <1>5, <1>6, <1>8, <2>1, RoomOf
<1>10. \A d \in Clients : d \in ToSet(O) <=> d # c /\ room[d] = room[c]
  <2>1. \A d \in Clients :
          d \in ToSet(O) <=>
            d \in ToSet(clients) \ {c} /\ state[d] = "Open" /\ channel[d] = channel[c]
    BY OthersSet DEF O
  <2> QED BY <1>1, <1>5, <1>6, <1>8, <2>1, RoomOf
<1>11. ASSUME NEW d \in Clients
       PROVE  /\ Reads(d, view[d], LinesTo(d, JoinSends(c, r))) = Rooms!Told(c, r)[d]
              /\ Messages(LinesTo(d, JoinSends(c, r))) = 0
  <2> DEFINE a == <<"REPLY", "OK">>
             b == <<"JOINED", c>>
             l == <<"LEFT", c>>
             o == d \in ToSet(O)
             q == d \in ToSet(A)
  <2>1. LinesTo(d, JoinSends(c, r)) = (Line(d = c, a) \o Line(o, l)) \o Line(q, b)
    BY <1>4
  <2>2. /\ a \in ServerLines /\ b \in ServerLines /\ l \in ServerLines
        /\ a[1] = "REPLY" /\ b[1] = "JOINED" /\ b[2] = c /\ l[1] = "LEFT" /\ l[2] = c
        /\ view[d] \in SUBSET Clients
    BY ServerLinesTyped DEF ServerInv, Types
  <2>3. /\ Tells(d, view[d], a) = view[d]
        /\ \A known : Tells(d, known, b) = IF d = c THEN {c} ELSE known \cup {c}
        /\ Tells(d, view[d], l) = view[d] \ {c}
    BY <2>2 DEF Tells
  <2>4. Rooms!Told(c, r)[d]
          = IF d = c THEN {c}
            ELSE LET heard == IF room[d] = room[c] THEN view[d] \ {c} ELSE view[d]
                 IN IF room[d] = r THEN heard \cup {c} ELSE heard
    BY <1>3, <1>7 DEF Rooms!Told
  <2>5. o \in BOOLEAN /\ q \in BOOLEAN /\ TRUE \in BOOLEAN
    OBVIOUS
  <2>6. (o <=> d # c /\ room[d] = room[c]) /\ (q <=> d = c \/ room[d] = r)
    BY <1>9, <1>10
  <2> HIDE DEF a, b, l, o, q
  <2>7. CASE d = c
    <3>1. Line(d = c, a) \o Line(o, l) = Line(TRUE, a)
      <4>1. Line(d = c, a) = <<a>> /\ Line(o, l) = <<>> /\ Line(TRUE, a) = <<a>>
        BY <2>6, <2>7 DEF Line
      <4> QED BY <2>2, <4>1, ShortLines
    <3>2. ReadsBoth(d, view[d], TRUE, a, q, b)
      BY <2>2, <2>5, TwoLines, Zenon
    <3> QED BY <2>1, <2>2, <2>3, <2>4, <2>6, <2>7, <3>1, <3>2 DEF ReadsBoth
  <2>8. CASE d # c
    <3>1. Line(d = c, a) \o Line(o, l) = Line(o, l)
      <4>1. Line(d = c, a) = <<>> /\ Line(o, l) \in {<<>>, <<l>>}
        BY <2>8 DEF Line
      <4> QED BY <2>2, <4>1, ShortLines
    <3>2. ReadsBoth(d, view[d], o, l, q, b)
      BY <2>2, <2>5, TwoLines, Zenon
    <3>3. /\ Reads(d, view[d], Line(o, l) \o Line(q, b))
               = LET first == IF o THEN view[d] \ {c} ELSE view[d]
                 IN IF q THEN first \cup {c} ELSE first
          /\ Messages(Line(o, l) \o Line(q, b)) = 0
      BY <2>2, <2>3, <2>8, <3>2 DEF ReadsBoth
    <3> QED BY <2>1, <2>4, <2>6, <2>8, <3>1, <3>3
  <2> QED BY <2>7, <2>8
<1>12. Rooms!Go(c, r)
  BY <1>5, <1>7, <1>11, GoStep
<1> QED BY <1>3, <1>7, <1>12 DEF Rooms!Move

\* What a handler says to the client that it lets go, and to nobody else.
Farewell(c, farewell) ==
  /\ farewell \in Seq(Sends)
  /\ \A d \in Clients \ {c} : LinesTo(d, farewell) = <<>>
  /\ LinesTo(c, farewell) \in {<<>>, <<<<"BYE">>>>, <<<<"ERROR">>, <<"BYE">>>>}

\* What leaveServer() is called with says nothing about anybody.
LEMMA Farewells ==
  ASSUME NEW c \in Clients
  PROVE  /\ Farewell(c, <<>>) /\ Farewell(c, To(c, <<<<"BYE">>>>))
         /\ Farewell(c, To(c, <<<<"ERROR">>>>) \o To(c, <<<<"BYE">>>>))
<1> DEFINE s == To(c, <<<<"ERROR">>>>)
           t == To(c, <<<<"BYE">>>>)
           e == <<"ERROR">>
           b == <<"BYE">>
<1>1. e \in ServerLines /\ b \in ServerLines
  BY ServerLinesTyped
<1>2. /\ s \in Seq(Sends) /\ \A d \in Clients : LinesTo(d, s) = Line(d = c, e)
      /\ t \in Seq(Sends) /\ \A d \in Clients : LinesTo(d, t) = Line(d = c, b)
  <2>1. ASSUME NEW line \in ServerLines, NEW d \in Clients
        PROVE  To(c, <<line>>) \in Seq(Sends) /\ LinesTo(d, To(c, <<line>>)) = Line(d = c, line)
    BY ReplyLines
  <2>2. s = To(c, <<e>>) /\ t = To(c, <<b>>)
    OBVIOUS
  <2> HIDE DEF s, t, e, b
  <2>3. s \in Seq(Sends) /\ t \in Seq(Sends)
    BY <1>1, <2>1, <2>2
  <2> QED BY <1>1, <2>1, <2>2, <2>3
<1>3. <<>> \in Seq(Sends) /\ \A d \in Clients : LinesTo(d, <<>>) = <<>>
  BY LinesEmpty, EmptySet
<1> HIDE DEF s, t, e, b
<1>4. /\ s \o t \in Seq(Sends)
      /\ \A d \in Clients : LinesTo(d, s \o t) = Line(d = c, e) \o Line(d = c, b)
  <2>1. s \o t \in Seq(Sends)
    BY <1>2, SendsConcat
  <2>2. ASSUME NEW d \in Clients
        PROVE  LinesTo(d, s \o t) = Line(d = c, e) \o Line(d = c, b)
    <3>1. LinesTo(d, s \o t) = LinesTo(d, s) \o LinesTo(d, t)
      BY <1>2, LinesConcat
    <3> QED BY <1>2, <3>1
  <2> QED BY <2>1, <2>2
<1>5. /\ <<>> \o <<>> = <<>> /\ <<e>> \o <<b>> = <<e, b>>
  BY <1>1, ShortLines
<1>6. Farewell(c, <<>>)
  BY <1>3 DEF Farewell
<1>7. Farewell(c, t)
  BY <1>2 DEF Farewell, Line, b
<1>8. Farewell(c, s \o t)
  BY <1>4, <1>5 DEF Farewell, Line, e, b
<1> QED BY <1>6, <1>7, <1>8 DEF s, t

\* Lines about nobody.
LEMMA FarewellLines ==
  ASSUME NEW c \in Clients, NEW known \in SUBSET Clients,
         NEW l \in {<<>>, <<<<"BYE">>>>, <<<<"ERROR">>, <<"BYE">>>>}
  PROVE  /\ l \in Seq(ServerLines) /\ l \o <<>> = l
         /\ Reads(c, known, l) = known /\ Messages(l) = 0
<1>1. <<"ERROR">> \in ServerLines /\ <<"BYE">> \in ServerLines
  BY ServerLinesTyped
<1>2. l \in Seq(ServerLines)
  <2> DEFINE e == <<"ERROR">>
             b == <<"BYE">>
  <2>1. e \in ServerLines /\ b \in ServerLines /\ l \in {<<>>, <<b>>, <<e, b>>}
    BY <1>1
  <2> HIDE DEF e, b
  <2> QED BY <2>1, ShortLines
<1>3. \A i \in 1 .. Len(l) : l[i] \in {<<"ERROR">>, <<"BYE">>}
  <2>1. CASE l = <<>>
    BY <2>1
  <2>2. CASE l = <<<<"BYE">>>>
    BY <2>2
  <2>3. CASE l = <<<<"ERROR">>, <<"BYE">>>>
    BY <2>3
  <2> QED BY <2>1, <2>2, <2>3
<1>4. \A i \in 1 .. Len(l) : l[i][1] \notin {"JOINED", "LEFT", "SAID"}
  BY <1>3
<1>5. Reads(c, known, l) = known
  BY <1>2, <1>4, ReadsNothing
<1>6. Messages(l) = 0
  BY <1>2, <1>4, MessagesNone
<1>7. l \o <<>> = l
  BY <1>2
<1> QED BY <1>2, <1>5, <1>6, <1>7

\* leaveServer(): out.
LEMMA LeavingLeaves ==
  ASSUME ServerInv, NEW c \in Clients, Turn(c), state[c] = "Open",
         NEW farewell, Farewell(c, farewell), LeaveServer(c, farewell), Running'
  PROVE  Rooms!Leave(c)
<1> DEFINE O == Others(c)
           sends == LeaveSends(c, farewell)
           l == <<"LEFT", c>>
<1>1. Handle(sends, [state EXCEPT ![c] = "End"], channel, Keep(clients, Clients \ {c}))
  BY DEF LeaveServer, LeaveSends
<1> HIDE DEF sends
<1>2. /\ Running /\ Delivered(sends) /\ state' = [state EXCEPT ![c] = "End"]
      /\ channel' = channel
  BY <1>1, HandleDone
<1>3. \A d \in Clients : channel[d] # Outside
  BY ServerAssumption DEF ServerInv, Types
<1>4. \A d \in Clients : state'[d] = IF d = c THEN "End" ELSE state[d]
  BY <1>2 DEF ServerInv, Types
<1>5. room[c] # Outside /\ \A d \in Clients : room'[d] = IF d = c THEN Outside ELSE room[d]
  BY <1>2, <1>3, <1>4, RoomOf
<1>6. \A d \in Clients : d \in ToSet(O) <=> d # c /\ room[d] = room[c]
  <2>1. \A d \in Clients :
          d \in ToSet(O) <=>
            d \in ToSet(clients) \ {c} /\ state[d] = "Open" /\ channel[d] = channel[c]
    BY OthersSet
  <2>2. \A d \in Clients : state[d] = "Open" => d \in ToSet(clients)
    BY DEF ServerInv, Accounts, Members
  <2> QED BY <1>2, <1>3, <2>1, <2>2, RoomOf
<1>7. \A d \in Clients : LinesTo(d, sends) = LinesTo(d, farewell) \o Line(d \in ToSet(O), l)
  <2>1. farewell \in Seq(Sends)
    BY DEF Farewell
  <2> QED BY <2>1, LeaveLines DEF sends
<1>8. ASSUME NEW d \in Clients
      PROVE  /\ Reads(d, view[d], LinesTo(d, sends)) = Rooms!Told(c, Outside)[d]
             /\ Messages(LinesTo(d, sends)) = 0
  <2>1. view[d] \in SUBSET Clients /\ l \in ServerLines /\ l[1] = "LEFT" /\ l[2] = c
    BY ServerLinesTyped DEF ServerInv, Types
  <2>2. Rooms!Told(c, Outside)[d]
          = IF d # c /\ room[d] = room[c] THEN view[d] \ {c} ELSE view[d]
    BY <1>5 DEF Rooms!Told
  <2>3. Tells(d, view[d], l) = view[d] \ {c}
    BY <2>1 DEF Tells
  <2> HIDE DEF l, O
  <2>4. CASE d = c
    <3>1. Line(d \in ToSet(O), l) = <<>>
      BY <1>6, <2>4 DEF Line
    <3>2. LinesTo(c, farewell) \in {<<>>, <<<<"BYE">>>>, <<<<"ERROR">>, <<"BYE">>>>}
      BY DEF Farewell
    <3>3. PICK f \in {<<>>, <<<<"BYE">>>>, <<<<"ERROR">>, <<"BYE">>>>} : f = LinesTo(c, farewell)
      BY <3>2, Zenon
    <3>4. /\ f \o <<>> = f /\ Reads(d, view[d], f) = view[d] /\ Messages(f) = 0
      BY <2>1, FarewellLines
    <3>5. LinesTo(d, sends) = f
      BY <1>7, <2>4, <3>1, <3>3, <3>4
    <3> QED BY <2>2, <2>4, <3>4, <3>5
  <2>5. CASE d # c
    <3>1. LinesTo(d, farewell) = <<>> /\ Line(FALSE, l) = <<>>
      BY <2>5 DEF Farewell, Line
    <3> DEFINE o == d \in ToSet(O)
    <3>2. LinesTo(d, sends) = Line(FALSE, l) \o Line(o, l)
      BY <1>7, <3>1
    <3>3. (o <=> room[d] = room[c]) /\ o \in BOOLEAN /\ FALSE \in BOOLEAN
      BY <1>6, <2>5
    <3> HIDE DEF o
    <3>4. ReadsBoth(d, view[d], FALSE, l, o, l)
      BY <2>1, <3>3, TwoLines, Zenon
    <3> QED BY <2>1, <2>2, <2>3, <2>5, <3>2, <3>3, <3>4 DEF ReadsBoth
  <2> QED BY <2>4, <2>5
<1>9. Rooms!Go(c, Outside)
  BY <1>2, <1>5, <1>8, GoStep
<1> QED BY <1>5, <1>9 DEF Rooms!Leave

\* MSG: said, and heard once by everybody else in the channel.
LEMMA ForwardingSays ==
  ASSUME ServerInv, NEW c \in Clients, ForwardMessage(c), Running'
  PROVE  Rooms!Say(c)
<1> DEFINE O == Others(c)
           text == TextOf(c)
           sends == SendEach(O, text)
<1>1. Turn(c) /\ state[c] = "Open" /\ Recv(c)
  BY DEF ForwardMessage, Recv
<1>2. Handle(sends, state, channel, clients)
  BY DEF ForwardMessage, SendEach, TextOf, RawLines
<1>3. /\ text \in Seq(ServerLines) /\ text # <<>>
      /\ \A i \in 1 .. Len(text) : text[i][1] \notin {"JOINED", "LEFT"}
      /\ \A i \in 1 .. Len(text) : text[i][1] = "SAID" <=> i = 1
  BY <1>1, TextTyped
<1>4. ASSUME NEW d PROVE LinesTo(d, sends) = IF d \in ToSet(O) THEN text ELSE <<>>
  BY <1>1, MessageLines
<1>5. \A d \in Clients :
        d \in ToSet(O) <=>
          d \in ToSet(clients) \ {c} /\ state[d] = "Open" /\ channel[d] = channel[c]
  BY OthersSet
<1> HIDE DEF sends, text, O
<1>6. /\ Running /\ Running' /\ Delivered(sends) /\ state' = state /\ channel' = channel
  BY <1>1, <1>2, HandleDone
<1>7. \A d \in Clients : channel[d] # Outside
  BY ServerAssumption DEF ServerInv, Types
<1>8. room[c] # Outside /\ room' = room
  BY <1>1, <1>6, <1>7, RoomOf DEF room
<1>9. \A d \in Clients : d \in ToSet(O) <=> d # c /\ room[d] = room[c]
  <2>1. \A d \in Clients : state[d] = "Open" => d \in ToSet(clients)
    BY DEF ServerInv, Accounts, Members
  <2> QED BY <1>1, <1>5, <1>6, <1>7, <2>1, RoomOf
<1>10. ASSUME NEW d \in Clients
       PROVE  /\ Reads(d, view[d], LinesTo(d, sends)) = view[d]
              /\ mail[d] + Messages(LinesTo(d, sends))
                   = IF d # c /\ room[d] = room[c] THEN mail[d] + 1 ELSE mail[d]
  <2>1. view[d] \in SUBSET Clients /\ mail[d] \in Nat
    BY DEF ServerInv, Types
  <2>2. CASE d \in ToSet(O)
    <3>1. LinesTo(d, sends) = text
      BY <1>4, <2>2
    <3>2. Reads(d, view[d], text) = view[d]
      BY <1>3, <2>1, ReadsNothing
    <3>3. Messages(text) = 1
      BY <1>3, MessagesOne
    <3> QED BY <1>9, <2>2, <3>1, <3>2, <3>3
  <2>3. CASE d \notin ToSet(O)
    <3>1. LinesTo(d, sends) = <<>>
      BY <1>4, <2>3
    <3>2. Reads(d, view[d], <<>>) = view[d]
      <4>1. <<"BYE">> \in ServerLines
        BY ServerLinesTyped
      <4> QED BY <2>1, <4>1, ShortReads
    <3>3. Messages(<<>>) = 0
      <4>1. <<>> \in Seq(ServerLines) /\ \A i \in 1 .. Len(<<>>) : <<>>[i][1] # "SAID"
        OBVIOUS
      <4> DEFINE none == <<>>
      <4> HIDE DEF none
      <4>2. none \in Seq(ServerLines) /\ \A i \in 1 .. Len(none) : none[i][1] # "SAID"
        BY <4>1 DEF none
      <4>3. Messages(none) = 0
        BY <4>2, MessagesNone
      <4> QED BY <4>3 DEF none
    <3> QED BY <1>9, <2>1, <2>3, <3>1, <3>2, <3>3
  <2> QED BY <2>2, <2>3
<1>11. view' = view
  <2>1. view' = [d \in Clients |-> view[d]]
    BY <1>6, <1>10 DEF Delivered
  <2> QED BY <2>1 DEF ServerInv, Types
<1>12. mail' = [d \in Clients |->
                  IF d # c /\ room[d] = room[c] THEN mail[d] + 1 ELSE mail[d]]
  BY <1>6, <1>10 DEF Delivered
<1> QED BY <1>8, <1>11, <1>12 DEF Rooms!Say

\* A refusal is between the server and the client.
LEMMA RefusalStutters ==
  ASSUME ServerInv, NEW c \in Clients, RefuseAuth(c) \/ RefuseJoin(c), Running'
  PROVE  UNCHANGED <<room, view, mail>>
<1> DEFINE a == <<"REPLY", "NOK">>
           sends == To(c, <<a>>)
<1>1. /\ Turn(c)
      /\ \/ /\ state[c] \in {"Accept", "Auth"}
            /\ Handle(sends, [state EXCEPT ![c] = "Auth"], channel, clients)
         \/ Handle(sends, state, channel, clients)
  BY DEF RefuseAuth, RefuseJoin, Recv
<1>2. ASSUME NEW d \in Clients PROVE LinesTo(d, sends) = Line(FALSE, a) \o Line(d = c, a)
  <2>1. LinesTo(d, sends) = Line(d = c, a)
    BY ReplyLines, ServerLinesTyped
  <2>2. a \in ServerLines /\ Line(FALSE, a) = <<>> /\ Line(d = c, a) \in {<<>>, <<a>>}
    BY ServerLinesTyped DEF Line
  <2> HIDE DEF a, sends
  <2> QED BY <2>1, <2>2, ShortLines
<1>3. a \in ServerLines /\ a[1] = "REPLY"
  BY ServerLinesTyped
<1> HIDE DEF sends, a
<1>4. /\ Running /\ Running' /\ Delivered(sends) /\ channel' = channel
      /\ \/ state' = state
         \/ state[c] \in {"Accept", "Auth"} /\ state' = [state EXCEPT ![c] = "Auth"]
  BY <1>1, HandleDone
<1>5. \A d \in Clients : state'[d] = "Open" <=> state[d] = "Open"
  BY <1>4 DEF ServerInv, Types
<1>6. \A d \in Clients : room'[d] = room[d]
  BY <1>4, <1>5, RoomOf
<1>7. room' = room
  BY <1>6, RoomOf
<1>8. ASSUME NEW d \in Clients
      PROVE  /\ Reads(d, view[d], LinesTo(d, sends)) = view[d]
             /\ mail[d] + Messages(LinesTo(d, sends)) = mail[d]
  <2> DEFINE q == d = c
  <2>1. view[d] \in SUBSET Clients /\ mail[d] \in Nat /\ q \in BOOLEAN /\ FALSE \in BOOLEAN
    BY DEF ServerInv, Types
  <2>2. Tells(d, view[d], a) = view[d]
    BY <1>3 DEF Tells
  <2>3. LinesTo(d, sends) = Line(FALSE, a) \o Line(q, a)
    BY <1>2
  <2> HIDE DEF q
  <2>4. ReadsBoth(d, view[d], FALSE, a, q, a)
    BY <1>3, <2>1, TwoLines, Zenon
  <2> DEFINE lines == Line(FALSE, a) \o Line(q, a)
  <2>5. Reads(d, view[d], lines) = view[d] /\ Messages(lines) = 0
    BY <1>3, <2>2, <2>4 DEF ReadsBoth
  <2> HIDE DEF lines
  <2>6. LinesTo(d, sends) = lines
    BY <2>3 DEF lines
  <2> QED BY <2>1, <2>5, <2>6
<1>9. view' = [d \in Clients |-> view[d]] /\ mail' = [d \in Clients |-> mail[d]]
  BY <1>4, <1>8 DEF Delivered
<1>10. view' = view /\ mail' = mail
  BY <1>9 DEF ServerInv, Types
<1> QED BY <1>7, <1>10

\* A handler, if the server survives it, is a step of a chat room or none.
LEMMA HandlerIsRoomStep ==
  ASSUME ServerInv, Newcomers, NEW c \in Clients, ServerTurn(c), Running'
  PROVE  Rooms!Next \/ UNCHANGED <<room, view, mail>>
<1>1. CASE Authenticate(c)
  BY <1>1, AuthenticateEnters DEF Rooms!Next
<1>2. CASE RefuseAuth(c) \/ RefuseJoin(c)
  BY <1>2, RefusalStutters
<1>3. CASE ForwardMessage(c)
  BY <1>3, ForwardingSays DEF Rooms!Next
<1>4. CASE JoinChannel(c)
  BY <1>4, JoinMoves DEF Rooms!Next
<1>5. CASE ClientErr(c) \/ ClientBye(c) \/ Unexpected(c)
  <2>1. /\ Turn(c) /\ state[c] = "Open"
        /\ \E farewell : Farewell(c, farewell) /\ LeaveServer(c, farewell)
    BY <1>5, Farewells DEF ClientErr, ClientBye, Unexpected, Recv
  <2>2. Rooms!Leave(c)
    BY <2>1, LeavingLeaves
  <2> QED BY <2>2 DEF Rooms!Next
<1>6. CASE ShortLine(c) \/ Vanished(c)
  BY <1>6 DEF ShortLine, Vanished, Dies, Running
<1> QED BY <1>1, <1>2, <1>3, <1>4, <1>5, <1>6 DEF ServerTurn

\* The steps that are not a handler's do not touch the rooms.
LEMMA OtherStepsStutter ==
  ASSUME ServerInv, Running',
         EpollWait \/ AcceptClient \/ FlagOnly \/ \E c \in Clients : AnyClient(c)
  PROVE  UNCHANGED <<room, view, mail>>
<1>1. CASE EpollWait
  <2>1. Running /\ UNCHANGED <<state, channel, view, mail>>
    BY <1>1 DEF EpollWait, Running, memory, history
  <2> QED BY <2>1 DEF room
<1>2. CASE AcceptClient
  <2> DEFINE c == Head(backlog)
  <2>1. Running /\ UNCHANGED <<channel, view, mail>> /\ state' = [state EXCEPT ![c] = "Accept"]
    BY <1>2 DEF AcceptClient, Turn, Running, history
  <2>2. c \in ToSet(backlog) /\ c \in Clients
    <3>1. backlog \in Seq(Clients) /\ Distinct(backlog) /\ backlog # <<>>
      BY <1>2 DEF AcceptClient, ServerInv, Queues
    <3> QED BY <3>1, TailSet
  <2>3. state[c] = "none"
    BY <2>2 DEF ServerInv, Accounts
  <2> HIDE DEF c
  <2>4. \A d \in Clients : state'[d] = "Open" <=> state[d] = "Open"
    BY <2>1, <2>2, <2>3 DEF ServerInv, Types
  <2>5. \A d \in Clients : room'[d] = room[d]
    BY <2>1, <2>4, RoomOf
  <2>6. room' = room
    BY <2>5, RoomOf
  <2> QED BY <2>1, <2>6
<1>3. CASE FlagOnly
  <2>1. UNCHANGED <<server, state, channel, view, mail>>
    BY <1>3 DEF FlagOnly, memory, history
  <2> QED BY <2>1 DEF room, Running
<1>4. ASSUME NEW c \in Clients, AnyClient(c) PROVE UNCHANGED <<room, view, mail>>
  <2>1. UNCHANGED <<server, state, channel, view, mail>>
    BY <1>4 DEF AnyClient, Connect, ReadLines, CloseSocket, PeerReset, SendLine,
                process, memory, history
  <2> QED BY <2>1 DEF room, Running
<1> QED BY <1>1, <1>2, <1>3, <1>4

\* A client that has not authenticated is in the default channel, whatever happens.
LEMMA NewcomersKept ==
  ASSUME ServerInv, Newcomers, [Next]_serverVars
  PROVE  Newcomers'
<1> DEFINE New == {"none", "Accept", "Auth"}
<1>1. /\ state \in [Clients -> {"none", "Accept", "Auth", "Open", "End"}]
      /\ channel \in [Clients -> Channels]
  BY DEF ServerInv, Types
<1>2. ASSUME channel' = channel,
             \A d \in Clients : state'[d] \in New => state[d] \in New
      PROVE  Newcomers'
  BY <1>2 DEF Newcomers
<1>3. ASSUME NEW c \in Clients, ServerTurn(c) PROVE Newcomers'
  <2>1. CASE ShortLine(c) \/ Vanished(c)
    BY <1>2, <2>1 DEF ShortLine, Vanished, memory
  <2>2. ASSUME NEW sends, NEW newState, NEW newChannel, NEW newClients,
               Handle(sends, newState, newChannel, newClients)
        PROVE  \/ UNCHANGED <<state, channel>>
               \/ state' = newState /\ channel' = newChannel
    BY <2>2, HandleEffect DEF memory
  <2>3. CASE Authenticate(c) \/ RefuseAuth(c) \/ ClientErr(c) \/ ClientBye(c) \/ Unexpected(c)
    <3>1. /\ state[c] \in New \/ state[c] = "Open"
          /\ \E sends, newClients :
               \/ Handle(sends, [state EXCEPT ![c] = "Open"], channel, newClients)
               \/ /\ state[c] \in New
                  /\ Handle(sends, [state EXCEPT ![c] = "Auth"], channel, newClients)
               \/ Handle(sends, [state EXCEPT ![c] = "End"], channel, newClients)
      BY <2>3, Zenon DEF Authenticate, RefuseAuth, ClientErr, ClientBye, Unexpected, LeaveServer
    <3>2. /\ channel' = channel
          /\ \/ state' = state
             \/ state' = [state EXCEPT ![c] = "Open"]
             \/ state[c] \in New /\ state' = [state EXCEPT ![c] = "Auth"]
             \/ state' = [state EXCEPT ![c] = "End"]
      BY <2>2, <3>1
    <3>3. \A d \in Clients : state'[d] \in New => state[d] \in New
      BY <1>1, <3>2
    <3> QED BY <1>2, <3>2, <3>3
  <2>4. CASE ForwardMessage(c) \/ RefuseJoin(c)
    <3>1. \E sends : Handle(sends, state, channel, clients)
      BY <2>4, Zenon DEF ForwardMessage, RefuseJoin
    <3>2. UNCHANGED <<state, channel>>
      BY <2>2, <3>1
    <3> QED BY <1>2, <3>2
  <2>5. CASE JoinChannel(c)
    <3>1. /\ state[c] = "Open"
          /\ \E sends, r : Handle(sends, state, [channel EXCEPT ![c] = r], clients)
      BY <2>5, Zenon DEF JoinChannel
    <3>2. \/ UNCHANGED <<state, channel>>
          \/ state' = state /\ \E r : channel' = [channel EXCEPT ![c] = r]
      BY <2>2, <3>1
    <3>3. \A d \in Clients \ {c} : channel'[d] = channel[d]
      BY <1>1, <3>2
    <3> QED BY <3>1, <3>2, <3>3 DEF Newcomers
  <2> QED BY <1>3, <2>1, <2>3, <2>4, <2>5 DEF ServerTurn
<1>4. CASE AcceptClient
  <2> DEFINE c == Head(backlog)
  <2>1. channel' = channel /\ state' = [state EXCEPT ![c] = "Accept"]
    BY <1>4 DEF AcceptClient
  <2>2. c \in ToSet(backlog)
    <3>1. backlog \in Seq(Clients) /\ Distinct(backlog) /\ backlog # <<>>
      BY <1>4 DEF AcceptClient, ServerInv, Queues
    <3> QED BY <3>1, TailSet
  <2>3. state[c] = "none"
    BY <2>2 DEF ServerInv, Accounts
  <2> HIDE DEF c
  <2>4. \A d \in Clients : state'[d] \in New => state[d] \in New
    BY <1>1, <2>1, <2>3
  <2> QED BY <1>2, <2>1, <2>4
<1>5. CASE Shutdown
  <2>1. /\ channel' = channel
        /\ \/ state' = state
           \/ state' = [c \in Clients |-> IF Contains(clients, c) THEN "End" ELSE state[c]]
    BY <1>5 DEF Shutdown, memory
  <2>2. \A d \in Clients : state'[d] \in New => state[d] \in New
    BY <2>1
  <2> QED BY <1>2, <2>1, <2>2
<1>6. ASSUME EpollWait \/ FlagOnly \/ (\E c \in Clients : AnyClient(c)) \/ UNCHANGED serverVars
      PROVE  Newcomers'
  <2>1. UNCHANGED <<state, channel>>
    BY <1>6 DEF EpollWait, FlagOnly, AnyClient, Connect, ReadLines, CloseSocket, PeerReset,
                SendLine, serverVars, memory
  <2> QED BY <1>2, <2>1
<1> QED BY <1>3, <1>4, <1>5, <1>6 DEF Next, Server

\* Every step of the server is a step of a chat room: in the end everybody is outside.
LEMMA StepIsRoomStep ==
  ASSUME ServerInv, Newcomers, [Next]_serverVars
  PROVE  [Rooms!Next]_(Rooms!roomVars)
<1>1. CASE ~Running'
  <2>1. room' = [c \in Clients |-> Outside]
    BY <1>1 DEF room
  <2>2. view' \in [Clients -> SUBSET Clients] /\ mail' \in [Clients -> Nat]
    BY StepKeeps DEF ServerInv, Types
  <2>3. Rooms!Collapse
    BY <2>1, <2>2 DEF Rooms!Collapse
  <2> QED BY <2>3 DEF Rooms!Next
<1>2. CASE Running'
  <2>1. CASE UNCHANGED serverVars
    <3>1. UNCHANGED <<server, state, channel, view, mail>>
      BY <2>1 DEF serverVars, process, memory, history
    <3> QED BY <3>1 DEF room, Running, Rooms!roomVars
  <2>2. CASE Shutdown
    BY <1>2, <2>2 DEF Shutdown, Running
  <2>3. CASE \E c \in Clients : ServerTurn(c)
    BY <1>2, <2>3, HandlerIsRoomStep DEF Rooms!roomVars
  <2>4. CASE EpollWait \/ AcceptClient \/ FlagOnly \/ \E c \in Clients : AnyClient(c)
    BY <1>2, <2>4, OtherStepsStutter DEF Rooms!roomVars
  <2> QED BY <2>1, <2>2, <2>3, <2>4 DEF Next, Server
<1> QED BY <1>1, <1>2

\* The initial state is one of ChatRoom.
LEMMA RoomsInitial == ServerInit => Newcomers /\ Rooms!Init
BY DEF ServerInit, Newcomers, Rooms!Init, room

\* What the clients of a channel hear of each other and of what is said is what a chat
\* room promises, until the server ends: RoomsKept, for every number of clients and
\* channels and every size of the buffers.
THEOREM ImplementsRooms == Spec => RoomsKept
<1>1. ServerInit => Newcomers /\ Rooms!Init
  BY RoomsInitial
<1>2. ServerInv /\ Newcomers /\ [Next]_serverVars => Newcomers' /\ [Rooms!Next]_(Rooms!roomVars)
  BY NewcomersKept, StepIsRoomStep
<1> QED BY <1>1, <1>2, ServerInvariant, PTL DEF Spec, RoomsKept, Rooms!Spec

\* A room keeps its roster, whatever implements it.
LEMMA RosterStep ==
  ASSUME view \in [Clients -> SUBSET Clients], Rooms!RosterKnown, [Rooms!Next]_(Rooms!roomVars)
  PROVE  Rooms!RosterKnown'
<1>0. Outside \notin Channels /\ Default \in Channels
  BY ServerAssumption
<1>1. ASSUME NEW c \in Clients, NEW r, Rooms!Go(c, r)
      PROVE  Rooms!RosterKnown'
  <2>1. \A d \in Clients : room'[d] = IF d = c THEN r ELSE room[d]
    BY <1>1, RoomOf DEF Rooms!Go
  <2>2. /\ r # Outside => view'[c] = {c}
        /\ \A d \in Clients \ {c} : \A e : e \in view'[d] <=>
             \/ e \in view[d] /\ ~(e = c /\ room[c] # Outside /\ room[d] = room[c])
             \/ e = c /\ r # Outside /\ room[d] = r
    <3>1. view' = Rooms!Told(c, r)
      BY <1>1 DEF Rooms!Go
    <3>2. ASSUME NEW d \in Clients \ {c}
          PROVE  \A e : e \in Rooms!Told(c, r)[d] <=>
                   \/ e \in view[d] /\ ~(e = c /\ room[c] # Outside /\ room[d] = room[c])
                   \/ e = c /\ r # Outside /\ room[d] = r
      BY DEF Rooms!Told
    <3>3. r # Outside => Rooms!Told(c, r)[c] = {c}
      BY DEF Rooms!Told
    <3> QED BY <3>1, <3>2, <3>3
  <2>3. \A x \in Clients : room[x] # Outside =>
          /\ x \in view[x]
          /\ \A e \in view[x] : room[e] = room[x] /\ e \in Clients
          /\ \A e \in Clients \ {x} : room[e] = room[x] => (e \in view[x] <=> x \notin view[e])
    BY DEF Rooms!RosterKnown, Rooms!Inside
  <2>4. ASSUME NEW d \in Clients, room'[d] # Outside
        PROVE  /\ d \in view'[d]
               /\ \A e \in view'[d] : room'[e] = room'[d]
               /\ \A e \in Clients \ {d} :
                    room'[e] = room'[d] => (e \in view'[d] <=> d \notin view'[e])
    <3>1. CASE d = c
      <4>1. r # Outside /\ view'[d] = {c} /\ room'[d] = r
        BY <2>1, <2>2, <2>4, <3>1
      <4>2. ASSUME NEW e \in Clients \ {d}, room'[e] = room'[d]
            PROVE  e \notin view'[d] /\ d \in view'[e]
        <5>1. room[e] = r
          BY <2>1, <3>1, <4>1, <4>2
        <5> QED BY <2>2, <3>1, <4>1, <5>1
      <4> QED BY <3>1, <4>1, <4>2
    <3>2. CASE d # c
      <4>1. room'[d] = room[d] /\ room[d] # Outside
        BY <2>1, <2>4, <3>2
      <4>2. d \in view'[d]
        BY <2>2, <2>3, <3>2, <4>1
      <4>3. ASSUME NEW e \in view'[d] PROVE room'[e] = room'[d]
        <5>1. CASE e = c
          BY <2>1, <2>2, <2>3, <3>2, <4>1, <4>3, <5>1
        <5>2. CASE e # c
          <6>1. e \in view[d]
            BY <2>2, <3>2, <4>3, <5>2
          <6> QED BY <2>1, <2>3, <4>1, <5>2, <6>1
        <5> QED BY <5>1, <5>2
      <4>4. ASSUME NEW e \in Clients \ {d}, room'[e] = room'[d]
            PROVE  e \in view'[d] <=> d \notin view'[e]
        <5>1. CASE e = c
          <6>1. room[d] = r /\ r # Outside
            BY <2>1, <4>1, <4>4, <5>1
          <6> QED BY <2>2, <3>2, <5>1, <6>1
        <5>2. CASE e # c
          <6>1. room[e] = room[d]
            BY <2>1, <4>1, <4>4, <5>2
          <6>2. (e \in view'[d] <=> e \in view[d]) /\ (d \in view'[e] <=> d \in view[e])
            BY <2>2, <3>2, <5>2
          <6> QED BY <2>3, <4>1, <6>1, <6>2
        <5> QED BY <5>1, <5>2
      <4> QED BY <4>2, <4>3, <4>4
    <3> QED BY <3>1, <3>2
  <2> QED BY <2>4 DEF Rooms!RosterKnown, Rooms!Inside
<1>2. ASSUME UNCHANGED <<room, view>> PROVE Rooms!RosterKnown'
  BY <1>2 DEF Rooms!RosterKnown, Rooms!Inside
<1>3. CASE Rooms!Collapse
  <2>1. \A c \in Clients : room'[c] = Outside
    BY <1>3 DEF Rooms!Collapse
  <2> QED BY <2>1 DEF Rooms!RosterKnown, Rooms!Inside
<1> QED BY <1>0, <1>1, <1>2, <1>3
      DEF Rooms!Next, Rooms!Enter, Rooms!Leave, Rooms!Move, Rooms!Say, Rooms!roomVars

\* Whatever order the lines come in, of two clients in a channel exactly one has been
\* told of the other, and nobody is told of a client that is not there: the implementation
\* inherits the roster from the rooms.
THEOREM RosterIsConsistent == Spec => []RosterConsistent
<1>1. ServerInit => RosterConsistent
  BY DEF ServerInit, RosterConsistent, Rooms!RosterKnown, Rooms!Inside, room
<1>2. /\ ServerInit => Newcomers
      /\ ServerInv /\ Newcomers /\ [Next]_serverVars => Newcomers'
  BY RoomsInitial, NewcomersKept
<1>3. ServerInv /\ Newcomers /\ RosterConsistent /\ [Next]_serverVars => RosterConsistent'
  BY StepIsRoomStep, RosterStep DEF RosterConsistent, ServerInv, Types
<1> QED BY <1>1, <1>2, <1>3, ServerInvariant, PTL DEF Spec
=============================================================================
