----------------------------- MODULE FiniteMap ------------------------------
(* What the tables of IAL/secondproject promise: a finite map from keys to  *)
(* values, and the answer of every call.                                    *)
EXTENDS Naturals, Functions

CONSTANTS Keys, MapValues  \* what may be looked up and stored

VARIABLES
  map,          \* a function on the keys that are present
  call, result  \* the last operation and what it returned

mapVars == <<map, call, result>>

Init == map = [k \in {} |-> 0] /\ call = <<"Init">> /\ result = <<>>

Put(k, v) ==
  /\ call' = <<"insert", k, v>> /\ result' = <<>>
  /\ map' = [x \in DOMAIN map \cup {k} |-> IF x = k THEN v ELSE map[x]]

Get(k) ==
  /\ call' = <<"get", k>>
  /\ result' = IF k \in DOMAIN map THEN <<map[k]>> ELSE <<>>
  /\ UNCHANGED map

Remove(k) ==
  /\ call' = <<"delete", k>> /\ result' = <<>>
  /\ map' = Restrict(map, DOMAIN map \ {k})

Clear ==
  /\ call' = <<"clear">> /\ result' = <<>>
  /\ map' = [k \in {} |-> 0]

Next ==
  \/ \E k \in Keys : Get(k) \/ Remove(k) \/ \E v \in MapValues : Put(k, v)
  \/ Clear

Spec == Init /\ [][Next]_mapVars
=============================================================================
