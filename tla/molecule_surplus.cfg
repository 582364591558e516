\* Three hydrogens, one oxygen, and all three hydrogens wait for sem__stop.
SPECIFICATION Spec
CONSTANTS
  Hydrogens = {h1, h2, h3}
  Oxygens = {o1}
  UintSize = 8
  MaxCrashes = 0
  MaxForkFailures = 0
SYMMETRY AtomSymmetry
INVARIANTS
  SurplusOnlyWhenShort
CHECK_DEADLOCK FALSE
