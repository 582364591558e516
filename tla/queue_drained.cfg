\* A queue of three places is emptied, and gives out one value more.
SPECIFICATION Queue_Spec
CONSTANTS
  QUEUE_SIZE = 3
  QueueData = {v1, v2}
  MaxRemoved = 4
INVARIANT RemovesOnlyStored
