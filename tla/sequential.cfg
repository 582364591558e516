\* The sequential programs, each against what it promises.
SPECIFICATION Spec
CONSTANTS
  Elements = {e1, e2, e3}
  NULL = NULL
  Values = {v1, v2}
  HashKeys <- CollidingKeys
  HashValues = {v1, v2}
  HT_SIZE = 3
  Chars = {32, 42, 66, 97}
  MaxLetters = 5
  QUEUE_SIZE = 4
  QueueData = {v1, v2}
  MaxRemoved = 9
  StackSizes = {2, 4, 6}
  IntSize = 2
  MaxTokens = 7
  MaxExpression = 5
  Names = {1, 2, 3, 4, 5}
  NodeData = {v1}
  ScopeSlots = 2
  MaxString = 2
  MaxNumber = 6
  Idents = {x}
  MaxBodies = 2
  MaxParams = 2
  MaxArguments = 3
  Addresses = {a1, a2, a3}
  NullItem = NullItem
  FullTurn = 8
  Angles = {0, 3, 8}
  AngularSpeeds = {0, 2}
VIEW Memory
INVARIANTS
  ChainIsAllocated
  LinksOfDLL
  OneItemPerKey
  TraversalOnCourse
  GivesInTurn
  ConvertsToPostfix
  ParsesExpressions
  ReducesToItsAnchor
  ScopesAsDeclared
  LongestToken
  ReturnsInFunction
  BlockKeepsFunctionsOut
  ArgumentsFit
  VectorsAreScene
  TurnsAsMeant
PROPERTIES
  ActsAsCursorList
  TableIsMap
  IterativeAsRecursive
  TreeIsMap
CHECK_DEADLOCK FALSE
