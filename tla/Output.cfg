SPECIFICATION Spec
CONSTANTS
  Cores = {c0, c1}
  Prints = 1
  Warnings = 1
INVARIANTS Exclusive SelfDeadlockIsTheRace 
SYMMETRY MCSymmetry
CHECK_DEADLOCK FALSE
