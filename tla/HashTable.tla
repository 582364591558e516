----------------------------- MODULE HashTable ------------------------------
(***************************************************************************)
(* The hash table of IAL/secondproject: HT_SIZE lists of items, one action *)
(* per function.  A key is a sequence of character codes; malloc() is      *)
(* taken to succeed, as the code does.                                     *)
(***************************************************************************)
EXTENDS Integers, SequencesExt

CONSTANTS HashKeys, HashValues, HT_SIZE

ASSUME SizeAssumption == HT_SIZE \in Nat \ {0}

\* A char is signed: the sum, and with it the index, is negative for text that
\* is not ASCII.
get_hash(key) ==
  LET sum == FoldLeft(LAMBDA total, char : total + char, 1, key)
  IN IF sum >= 0 THEN sum % HT_SIZE ELSE -((-sum) % HT_SIZE)

\* True of ASCII keys.  The code does not check it.
ASSUME HashAssumption == \A k \in HashKeys : get_hash(k) \in 0 .. HT_SIZE - 1

VARIABLES
  table,              \* the list of each index, items [key, value]
  ht_call, ht_result  \* the last function called, and <<value>> or <<>>

tableVars == <<table, ht_call, ht_result>>

ht_init ==
  /\ table = [i \in 0 .. HT_SIZE - 1 |-> <<>>]
  /\ ht_call = <<"Init">> /\ ht_result = <<>>

ht_Returned(op, answer) == ht_call' = op /\ ht_result' = answer

\* The place in its list of the first item with the key, 0 without one.
ht_search(key) ==
  SelectInSeq(table[get_hash(key)], LAMBDA item : item.key = key)

\* Mutant: an item is added although the key is there.
ht_insert_blind(key, value) ==
  /\ table' = [table EXCEPT ![get_hash(key)] = <<[key |-> key, value |-> value]>> \o @]
  /\ ht_Returned(<<"insert", key, value>>, <<>>)

ht_insert(key, value) ==
  /\ table' = [table EXCEPT ![get_hash(key)] =
       IF ht_search(key) = 0 THEN <<[key |-> key, value |-> value]>> \o @
       ELSE [@ EXCEPT ![ht_search(key)].value = value]]
  /\ ht_Returned(<<"insert", key, value>>, <<>>)

ht_get(key) ==
  /\ ht_Returned(<<"get", key>>,
              IF ht_search(key) = 0 THEN <<>>
              ELSE <<table[get_hash(key)][ht_search(key)].value>>)
  /\ UNCHANGED table

\* Mutant: the list loses what follows the item.
ht_delete_rest(key) ==
  /\ table' = [table EXCEPT ![get_hash(key)] =
       IF ht_search(key) = 0 THEN @ ELSE SubSeq(@, 1, ht_search(key) - 1)]
  /\ ht_Returned(<<"delete", key>>, <<>>)

ht_delete(key) ==
  /\ table' = [table EXCEPT ![get_hash(key)] =
       IF ht_search(key) = 0 THEN @ ELSE RemoveAt(@, ht_search(key))]
  /\ ht_Returned(<<"delete", key>>, <<>>)

ht_delete_all ==
  /\ table' = [i \in 0 .. HT_SIZE - 1 |-> <<>>]
  /\ ht_Returned(<<"clear">>, <<>>)

ht_Next ==
  \/ \E key \in HashKeys :
       \/ ht_get(key) \/ ht_delete(key)
       \/ \E value \in HashValues : ht_insert(key, value)
  \/ ht_delete_all

ht_Spec == ht_init /\ [][ht_Next]_tableVars

-----------------------------------------------------------------------------
(* Properties.                                                             *)

\* An item is in the list of its hash, and a key has one item: a second one
\* would come back when the first is deleted.
OneItemPerKey ==
  \A i \in DOMAIN table : \A m, n \in DOMAIN table[i] :
    /\ get_hash(table[i][m].key) = i
    /\ table[i][m].key = table[i][n].key => m = n

\* The table is a map, answers included, whatever keys collide.
Contents ==
  [key \in {k \in HashKeys : ht_search(k) # 0} |->
     table[get_hash(key)][ht_search(key)].value]
HashMap == INSTANCE FiniteMap
  WITH map <- Contents, Keys <- HashKeys, MapValues <- HashValues,
       call <- ht_call, result <- ht_result
TableIsMap == HashMap!Spec
=============================================================================
