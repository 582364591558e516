\* Two molecules, updates interleaved with everything but one another.
SPECIFICATION UndisturbedSpec
CONSTANTS
  Hydrogens = {h1, h2, h3, h4}
  Oxygens = {o1, o2}
  UintSize = 8
  MaxCrashes = 0
  MaxForkFailures = 0
SYMMETRY AtomSymmetry
INVARIANTS
  MoleculeLines
  BarrierHeld
  NoneStuck
PROPERTIES
  BondsComplete
CHECK_DEADLOCK FALSE
