------------------------------- MODULE Queue --------------------------------
(* The queue in an array of IAL/firstproject/c203, one action per function. *)
EXTENDS Naturals, Sequences

CONSTANTS
  QUEUE_SIZE, QueueData,
  MaxRemoved  \* bound on the calls that remove a value

ASSUME QueueAssumption == QUEUE_SIZE \in Nat \ {0}

VARIABLES
  array, firstIndex, freeIndex,
  accepted,  \* history: the values stored since Queue_Init
  removed,   \* history: how many calls have removed one, at most MaxRemoved
  dataPtr    \* what the last call gave out, <<value>>, <<>> or <<"error">>

queueVars == <<array, firstIndex, freeIndex, accepted, removed, dataPtr>>

Queue_Init ==
  /\ array = [i \in 0 .. QUEUE_SIZE - 1 |-> "*"]
  /\ firstIndex = 0 /\ freeIndex = 0
  /\ accepted = <<>> /\ removed = 0 /\ dataPtr = <<>>

nextIndex(index) == (index + 1) % QUEUE_SIZE
Queue_IsEmpty == freeIndex = 0
Queue_IsFull == nextIndex(freeIndex) = 0

Gives(answer) == dataPtr' = answer
KeepsQueue == UNCHANGED <<array, firstIndex, freeIndex, accepted, removed>>

Queue_Error ==
  /\ \/ Queue_IsEmpty  \* Front, Remove, Dequeue
     \/ Queue_IsFull   \* Enqueue
  /\ Gives(<<"error">>) /\ KeepsQueue

Queue_Front ==
  /\ ~Queue_IsEmpty
  /\ Gives(<<array[firstIndex]>>) /\ KeepsQueue

\* Queue_Dequeue gives the value out, Queue_Remove does not.
Queue_Remove(answer) ==
  /\ ~Queue_IsEmpty
  /\ Gives(answer)
  /\ firstIndex' = nextIndex(firstIndex)
  /\ removed < MaxRemoved /\ removed' = removed + 1
  /\ UNCHANGED <<array, freeIndex, accepted>>

Queue_Dequeue == Queue_Remove(<<array[firstIndex]>>)

\* Mutant: the free place moves before it is filled.
Queue_EnqueueNext(d) ==
  /\ ~Queue_IsFull
  /\ array' = [array EXCEPT ![nextIndex(freeIndex)] = d]
  /\ freeIndex' = nextIndex(freeIndex)
  /\ accepted' = Append(accepted, d)
  /\ Gives(<<>>)
  /\ UNCHANGED <<firstIndex, removed>>

Queue_Enqueue(d) ==
  /\ ~Queue_IsFull
  /\ array' = [array EXCEPT ![freeIndex] = d]
  /\ freeIndex' = nextIndex(freeIndex)
  /\ accepted' = Append(accepted, d)
  /\ Gives(<<>>)
  /\ UNCHANGED <<firstIndex, removed>>

Queue_Next ==
  \/ Queue_Error \/ Queue_Front \/ Queue_Remove(<<>>) \/ Queue_Dequeue
  \/ \E d \in QueueData : Queue_Enqueue(d)

Queue_Spec == Queue_Init /\ [][Queue_Next]_queueVars

-----------------------------------------------------------------------------
(* Properties.                                                             *)

\* The calls that give a value out go round the array in the order of arrival, and
\* on: the next one gets what was stored at its turn, the '*' of Queue_Init where
\* nothing has been stored yet, and once round the array the first values again.
\* The queue takes QUEUE_SIZE - 1 values in its life, however many have left, and
\* after the first of them it never says that it is empty.
GivesInTurn ==
  LET turn == removed % QUEUE_SIZE
  IN  /\ array[firstIndex] =
           IF turn < Len(accepted) THEN accepted[turn + 1] ELSE "*"
      /\ Queue_IsEmpty <=> accepted = <<>>
      /\ Queue_IsFull <=> Len(accepted) = QUEUE_SIZE - 1

\* No value leaves the queue that was not stored in it: to take one from the queue
\* whose values are all gone is an error (c203.c:181).  The code's Queue_IsEmpty
\* does not look at firstIndex.
RemovesOnlyStored == removed <= Len(accepted)
=============================================================================
