-------------------------- MODULE SinglyLinkedList --------------------------
(* The singly linked list of IAL/firstproject/c201, one action per function. *)
EXTENDS LinkedElements

List_Init == ElementsInit

List_Insert(op, e, d, after) ==
  /\ Allocate(e, d)
  /\ Returned(<<op>>, <<>>)
  /\ UNCHANGED activeElement
  /\ nextElement' =
       IF op = "InsertFirst" THEN [nextElement EXCEPT ![e] = after]
       ELSE [nextElement EXCEPT ![e] = after, ![activeElement] = e]

List_InsertFirst(e, d) ==
  List_Insert("InsertFirst", e, d, firstElement) /\ firstElement' = e

List_InsertAfter(e, d) ==
  /\ activeElement # NULL
  /\ List_Insert("InsertAfter", e, d, nextElement[activeElement])
  /\ UNCHANGED firstElement

List_Fails ==
  \/ MallocFails("InsertFirst")
  \/ activeElement # NULL /\ MallocFails("InsertAfter")

\* Mutant: the early return comes first, and the element is freed while active.
List_DeleteFirstKeepsActive ==
  /\ firstElement # NULL
  /\ firstElement' = nextElement[firstElement]
  /\ nextElement' = Ended(nextElement, firstElement)
  /\ Free(firstElement)
  /\ Returned(<<"DeleteFirst">>, <<>>)
  /\ UNCHANGED activeElement

List_DeleteFirst ==
  /\ firstElement # NULL
  /\ activeElement' = IF activeElement = firstElement THEN NULL ELSE activeElement
  /\ firstElement' = nextElement[firstElement]
  /\ nextElement' = Ended(nextElement, firstElement)
  /\ Free(firstElement)
  /\ Returned(<<"DeleteFirst">>, <<>>)

List_DeleteAfter ==
  LET e == Follow(nextElement) IN
  /\ e # NULL
  /\ nextElement' = [Ended(nextElement, e) EXCEPT ![activeElement] = nextElement[e]]
  /\ Free(e)
  /\ Returned(<<"DeleteAfter">>, <<>>)
  /\ UNCHANGED <<firstElement, activeElement>>

\* The early returns of an inactive or empty list.
List_NothingToDo ==
  \/ activeElement = NULL /\ NothingToDo("InsertAfter")
  \/ firstElement = NULL /\ NothingToDo("DeleteFirst")
  \/ Follow(nextElement) = NULL /\ NothingToDo("DeleteAfter")

List_Move ==
  \/ Activate("First", firstElement)
  \/ Activate("Next", Follow(nextElement))

List_Get ==
  \/ Reading("GetFirst", firstElement)
  \/ Reading("GetValue", activeElement)
  \/ IsActive

List_SetValue(d) == SetValue(d)

List_Dispose == DisposeElements

List_Next ==
  \/ \E e \in Elements, d \in Values : List_InsertFirst(e, d) \/ List_InsertAfter(e, d)
  \/ List_DeleteFirst \/ List_DeleteAfter \/ List_NothingToDo \/ List_Fails
  \/ List_Move \/ List_Get \/ List_Dispose
  \/ \E d \in Values : List_SetValue(d)

List_Spec == List_Init /\ [][List_Next]_elementVars
=============================================================================
