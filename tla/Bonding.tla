------------------------------- MODULE Bonding -------------------------------
(***************************************************************************)
(* What the molecule program of IOS/secondproject promises, with neither   *)
(* semaphores nor counters: one molecule is formed at a time, by an oxygen *)
(* and two hydrogens, and it is made only when all three have joined it.   *)
(***************************************************************************)
EXTENDS Naturals, FiniteSets

CONSTANTS Hydrogens, Oxygens

VARIABLES
  number,    \* the number of the latest molecule
  members,   \* the atoms of the molecule being formed
  made       \* the molecule each atom has become part of, or 0

bondingVars == <<number, members, made>>

Init ==
  /\ number = 0
  /\ members = {}
  /\ made = [a \in Hydrogens \cup Oxygens |-> 0]

\* A free oxygen starts the next molecule.
Open(o) ==
  /\ members = {} /\ made[o] = 0
  /\ number' = number + 1
  /\ members' = {o}
  /\ UNCHANGED made

Join(h) ==
  /\ members # {} /\ Cardinality(members) < 3
  /\ h \notin members /\ made[h] = 0
  /\ members' = members \cup {h}
  /\ UNCHANGED <<number, made>>

Make(a) ==
  /\ a \in members /\ Cardinality(members) = 3
  /\ made[a] = 0
  /\ made' = [made EXCEPT ![a] = number]
  /\ UNCHANGED <<number, members>>

Close ==
  /\ members # {}
  /\ \A a \in members : made[a] = number
  /\ members' = {}
  /\ UNCHANGED <<number, made>>

Next ==
  \/ \E o \in Oxygens : Open(o)
  \/ \E h \in Hydrogens : Join(h)
  \/ \E a \in Hydrogens \cup Oxygens : Make(a)
  \/ Close

Spec == Init /\ [][Next]_bondingVars
=============================================================================
