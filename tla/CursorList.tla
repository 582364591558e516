----------------------------- MODULE CursorList -----------------------------
(***************************************************************************)
(* What the linked lists of IAL/firstproject promise: a sequence of values *)
(* and a cursor that is at one of them or, when 0, nowhere.  No operation  *)
(* is an error except reading where there is nothing, and running out of   *)
(* memory.                                                                 *)
(***************************************************************************)
EXTENDS Naturals, SequencesExt

CONSTANT Values

VARIABLES
  items,   \* the values, in order
  cursor,  \* the index of the active one, or 0
  call,    \* the last operation called
  result   \* and what it returned

listVars == <<items, cursor, call, result>>

Init == items = <<>> /\ cursor = 0 /\ call = <<"Init">> /\ result = <<>>

Does(op, list, at) ==
  call' = <<op>> /\ result' = <<>> /\ items' = list /\ cursor' = at

Returns(op, answer) ==
  call' = <<op>> /\ result' = answer /\ UNCHANGED <<items, cursor>>

\* The value at a place, an error where there is none.
Reads(op, at) ==
  Returns(op, IF at \in DOMAIN items THEN <<items[at]>> ELSE <<"error">>)

Insert(d) ==
  \/ Does("InsertFirst", <<d>> \o items, IF cursor = 0 THEN 0 ELSE cursor + 1)
  \/ Does("InsertLast", Append(items, d), cursor)
  \/ IF cursor = 0 THEN Returns("InsertAfter", <<>>)
     ELSE Does("InsertAfter", InsertAt(items, cursor + 1, d), cursor)
  \/ IF cursor = 0 THEN Returns("InsertBefore", <<>>)
     ELSE Does("InsertBefore", InsertAt(items, cursor, d), cursor + 1)

\* A list that is not active needs no memory in the last two.
OutOfMemory ==
  \/ \E op \in {"InsertFirst", "InsertLast"} : Returns(op, <<"error">>)
  \/ cursor # 0 /\ \E op \in {"InsertAfter", "InsertBefore"} : Returns(op, <<"error">>)

\* Removes the value at a place, if there is one; the cursor keeps to its value
\* and is nowhere when that is removed.
Removes(op, at) ==
  IF at \in DOMAIN items
    THEN Does(op, RemoveAt(items, at),
              CASE cursor < at -> cursor [] cursor = at -> 0 [] OTHER -> cursor - 1)
    ELSE Returns(op, <<>>)

Delete ==
  \/ Removes("DeleteFirst", 1)
  \/ Removes("DeleteLast", Len(items))
  \/ Removes("DeleteAfter", IF cursor = 0 THEN 0 ELSE cursor + 1)
  \/ Removes("DeleteBefore", IF cursor = 0 THEN 0 ELSE cursor - 1)

Moves(op, at) == Does(op, items, IF at \in DOMAIN items THEN at ELSE 0)

Move ==
  \/ Moves("First", 1)
  \/ Moves("Last", Len(items))
  \/ Moves("Next", IF cursor = 0 THEN 0 ELSE cursor + 1)
  \/ Moves("Previous", IF cursor = 0 THEN 0 ELSE cursor - 1)

Look ==
  \/ Reads("GetFirst", 1)
  \/ Reads("GetLast", Len(items))
  \/ Reads("GetValue", cursor)
  \/ Returns("IsActive", <<cursor # 0>>)

SetValue(d) ==
  Does("SetValue", IF cursor = 0 THEN items ELSE [items EXCEPT ![cursor] = d], cursor)

Dispose == Does("Dispose", <<>>, 0)

Next ==
  \/ Delete \/ Move \/ Look \/ Dispose \/ OutOfMemory
  \/ \E d \in Values : Insert(d) \/ SetValue(d)

Spec == Init /\ [][Next]_listVars
=============================================================================
