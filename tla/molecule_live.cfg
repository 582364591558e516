\* One molecule, one hydrogen left over, a failed fork: everybody exits.
SPECIFICATION FairSpec
CONSTANTS
  Hydrogens = {h1, h2, h3}
  Oxygens = {o1}
  UintSize = 8
  MaxCrashes = 0
  MaxForkFailures = 1
PROPERTIES
  Termination
CHECK_DEADLOCK FALSE
