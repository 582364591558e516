\* A function with a result and no return must be refused: it is not.
SPECIFICATION parserSpec
CONSTANTS
  Idents = {x}
  MaxBodies = 2
INVARIANT MissingReturnRefused
CHECK_DEADLOCK FALSE
