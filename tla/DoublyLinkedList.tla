-------------------------- MODULE DoublyLinkedList --------------------------
(* The doubly linked list of IAL/firstproject/c206, one action per          *)
(* function.  An element is what malloc() returned for it.                  *)
EXTENDS LinkedElements

VARIABLES previousElement, lastElement

dllVars == <<elementVars, previousElement, lastElement>>

DLL_Init ==
  /\ ElementsInit
  /\ previousElement = [e \in Elements |-> NULL]
  /\ lastElement = NULL

\* The new element e between two that are neighbours, or at an end (NULL).
Link(e, before, after) ==
  /\ nextElement' = [x \in Elements |->
                       CASE x = e -> after [] x = before -> e [] OTHER -> nextElement[x]]
  /\ previousElement' = [x \in Elements |->
                       CASE x = e -> before [] x = after -> e [] OTHER -> previousElement[x]]
  /\ firstElement' = IF before = NULL THEN e ELSE firstElement
  /\ lastElement' = IF after = NULL THEN e ELSE lastElement

DLL_Insert(op, e, d, before, after) ==
  /\ Allocate(e, d)
  /\ Link(e, before, after)
  /\ Returned(<<op>>, <<>>)
  /\ UNCHANGED activeElement

DLL_InsertFirst(e, d) == DLL_Insert("InsertFirst", e, d, NULL, firstElement)
DLL_InsertLast(e, d) == DLL_Insert("InsertLast", e, d, lastElement, NULL)

DLL_InsertAfter(e, d) ==
  /\ activeElement # NULL
  /\ DLL_Insert("InsertAfter", e, d, activeElement, nextElement[activeElement])

DLL_InsertBefore(e, d) ==
  /\ activeElement # NULL
  /\ DLL_Insert("InsertBefore", e, d, previousElement[activeElement], activeElement)

DLL_Fails ==
  /\ \/ \E op \in {"InsertFirst", "InsertLast"} : MallocFails(op)
     \/ activeElement # NULL /\ \E op \in {"InsertAfter", "InsertBefore"} : MallocFails(op)
  /\ UNCHANGED <<previousElement, lastElement>>

\* Mutant: the removed element was the last and lastElement keeps it.
UnlinkKeepsLast(e, before, after) ==
  /\ nextElement' = [Ended(nextElement, e) EXCEPT ![before] = after]
  /\ previousElement' = [Ended(previousElement, e) EXCEPT ![after] = before]
  /\ firstElement' = IF before = NULL THEN after ELSE firstElement
  /\ UNCHANGED lastElement

\* Closes the gap between two elements, or at an end (NULL).
Unlink(e, before, after) ==
  /\ nextElement' = [Ended(nextElement, e) EXCEPT ![before] = after]
  /\ previousElement' = [Ended(previousElement, e) EXCEPT ![after] = before]
  /\ firstElement' = IF before = NULL THEN after ELSE firstElement
  /\ lastElement' = IF after = NULL THEN before ELSE lastElement

DLL_Delete(op, e, before, after) ==
  /\ Free(e)
  /\ Unlink(e, before, after)
  /\ Returned(<<op>>, <<>>)

\* Mutant: the list is inactive afterwards, whichever element was active.
DLL_DeleteFirstDeactivates ==
  /\ firstElement # NULL
  /\ DLL_Delete("DeleteFirst", firstElement, NULL, nextElement[firstElement])
  /\ activeElement' = NULL

DLL_DeleteFirst ==
  /\ firstElement # NULL
  /\ DLL_Delete("DeleteFirst", firstElement, NULL, nextElement[firstElement])
  /\ activeElement' = IF activeElement = firstElement THEN NULL ELSE activeElement

DLL_DeleteLast ==
  /\ lastElement # NULL
  /\ DLL_Delete("DeleteLast", lastElement, previousElement[lastElement], NULL)
  /\ activeElement' = IF activeElement = lastElement THEN NULL ELSE activeElement

DLL_DeleteAfter ==
  LET e == Follow(nextElement) IN
  /\ e # NULL
  /\ DLL_Delete("DeleteAfter", e, activeElement, nextElement[e])
  /\ UNCHANGED activeElement

DLL_DeleteBefore ==
  LET e == Follow(previousElement) IN
  /\ e # NULL
  /\ DLL_Delete("DeleteBefore", e, previousElement[e], activeElement)
  /\ UNCHANGED activeElement

\* The early returns of an inactive or empty list.
DLL_NothingToDo ==
  /\ \/ activeElement = NULL /\ \E op \in {"InsertAfter", "InsertBefore"} : NothingToDo(op)
     \/ firstElement = NULL /\ NothingToDo("DeleteFirst")
     \/ lastElement = NULL /\ NothingToDo("DeleteLast")
     \/ Follow(nextElement) = NULL /\ NothingToDo("DeleteAfter")
     \/ Follow(previousElement) = NULL /\ NothingToDo("DeleteBefore")
  /\ UNCHANGED <<previousElement, lastElement>>

DLL_Move ==
  \/ Activate("First", firstElement)
  \/ Activate("Last", lastElement)
  \/ Activate("Next", Follow(nextElement))
  \/ Activate("Previous", Follow(previousElement))

DLL_Get ==
  \/ Reading("GetFirst", firstElement)
  \/ Reading("GetLast", lastElement)
  \/ Reading("GetValue", activeElement)
  \/ IsActive

DLL_SetValue(d) == SetValue(d)

DLL_Dispose ==
  /\ DisposeElements
  /\ previousElement' = [e \in Elements |-> NULL]
  /\ lastElement' = NULL

DLL_Next ==
  \/ \E e \in Elements, d \in Values :
       \/ DLL_InsertFirst(e, d) \/ DLL_InsertLast(e, d)
       \/ DLL_InsertAfter(e, d) \/ DLL_InsertBefore(e, d)
  \/ DLL_DeleteFirst \/ DLL_DeleteLast \/ DLL_DeleteAfter \/ DLL_DeleteBefore
  \/ DLL_NothingToDo \/ DLL_Fails \/ DLL_Dispose
  \/ /\ DLL_Move \/ DLL_Get \/ \E d \in Values : DLL_SetValue(d)
     /\ UNCHANGED <<previousElement, lastElement>>

DLL_Spec == DLL_Init /\ [][DLL_Next]_dllVars

-----------------------------------------------------------------------------
(* Properties.                                                             *)

\* Both directions and both ends agree: walking back visits what walking forth
\* does, and only the ends have no neighbour.
LinksAgree ==
  /\ (firstElement = NULL) = (lastElement = NULL)
  /\ \A e \in allocated :
       /\ nextElement[e] \in allocated \cup {NULL}
       /\ previousElement[e] \in allocated \cup {NULL}
       /\ nextElement[e] # NULL => previousElement[nextElement[e]] = e
       /\ previousElement[e] # NULL => nextElement[previousElement[e]] = e
       /\ (previousElement[e] = NULL) = (e = firstElement)
       /\ (nextElement[e] = NULL) = (e = lastElement)
=============================================================================
