\* A kill and a failed fork: what no interleaving of the updates breaks.
SPECIFICATION Spec
CONSTANTS
  Hydrogens = {h1, h2}
  Oxygens = {o1, o2}
  UintSize = 8
  MaxCrashes = 1
  MaxForkFailures = 1
SYMMETRY AtomSymmetry
INVARIANTS
  TypeOK
  GuardedOutput
  OneMoleculeAtATime
  MoleculeLines
  SurplusLast
  LineNumbers
PROPERTIES
  NumberWhenIdle
CHECK_DEADLOCK FALSE
